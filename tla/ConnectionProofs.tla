-------------------------- MODULE ConnectionProofs --------------------------
(***************************************************************************)
(* Theorems about Connection, for every threshold, limit and bound and     *)
(* every set of proxied requests.                                          *)
(***************************************************************************)
EXTENDS Connection, FiniteSetTheorems, SequenceTheorems, TLAPS

-----------------------------------------------------------------------------
(* The inductive invariant.                                                *)

\* The sequence numbers in use stay within the bound on events, so that a
\* replay request is one of known numbers.
QueueBounded == \A c \in Cids : Len(queue[c]) <= MaxEvents

\* The manager's count of successes is of exchanges without a failure between.
StreakCounts == conn.state = "degraded" => streak >= conn.successes

\* What was put into a replay request belongs to a connection that is over.
SentIsPast == \A c \in Cids, n \in Seqs : <<c, n>> \in sent => c < cid

\* Disabled heartbeats leave nothing pending, so that nothing waits without a
\* timer when the loop is started while they are disabled.
DisabledIsEmpty == ~enabled => pending = "none"

LinkInv == StreakCounts /\ SentIsPast
ConnectionInv == TypeOK /\ QueueBounded /\ LinkInv /\ DisabledIsEmpty /\ PriorityKept

LinkType ==
    /\ conn \in [state : States, failures : 0..(FailThreshold - 1),
                 successes : 0..(RecoverThreshold - 1)]
    /\ cid \in Cids
    /\ replay \in [Cids -> SUBSET Seqs]
    /\ streak \in 0..RecoverThreshold
    /\ sent \in SUBSET (Cids \X Seqs)

\* What a step may do to the connection and to the events sent.
Earned == conn.state = "degraded" /\ conn'.state = "connected" => streak' >= RecoverThreshold
SentOnce == \A c \in Cids, n \in Seqs : n \in replay'[c] /\ n \notin replay[c] => <<c, n>> \notin sent

-----------------------------------------------------------------------------
(* The wake.                                                               *)

\* Whatever was pending, a request leaves one of the known reasons, and it
\* never replaces a wake of a higher priority.
LEMMA MergedReason ==
    ASSUME NEW old \in Reasons \cup {"none"}, NEW reason \in Reasons
    PROVE  /\ Merged(old, reason) \in Reasons
           /\ old # "none" => Priority(Merged(old, reason)) >= Priority(old)
           /\ Priority(Merged(old, reason)) >= Priority(reason)
  <1>1. Priority(reason) \in 0..3 /\ (old # "none" => Priority(old) \in 0..3)
    BY DEF Priority, Reasons
  <1> QED BY <1>1 DEF Merged

\* A request keeps the wake's type, and an enabled wake has a timer then.
LEMMA RequestWakeType ==
    ASSUME WakeTypeOK, NEW reason \in Reasons, RequestWake(reason)
    PROVE  WakeTypeOK' /\ (enabled => timer' # "none")
  <1>1. Merged(pending, reason) \in Reasons
    BY MergedReason DEF WakeTypeOK
  <1> QED BY <1>1 DEF RequestWake, WakeTypeOK, Scheduled

\* The wake's own steps keep its type.
LEMMA WakeStepType ==
    ASSUME WakeTypeOK,
           \/ WakeDeferred \/ WakeDropped \/ WakeFires \/ WakeDone \/ ClearHandler
           \/ \E on \in BOOLEAN : SetEnabled(on)
    PROVE  WakeTypeOK'
  BY DEF WakeTypeOK, WakeDeferred, WakeDropped, WakeFires, WakeDone, ClearHandler, SetEnabled,
         Scheduled

-----------------------------------------------------------------------------
(* The operators the actions are built from.                               *)

LEMMA FreshType ==
    ASSUME NEW state \in States
    PROVE  /\ Fresh(state) \in [state : States, failures : 0..(FailThreshold - 1),
                                successes : 0..(RecoverThreshold - 1)]
           /\ Fresh(state).successes = 0 /\ Fresh(state).state = state
  <1>1. 0 \in 0..(FailThreshold - 1) /\ 0 \in 0..(RecoverThreshold - 1)
    BY ConnectionAssumption
  <1> QED BY <1>1 DEF Fresh

\* A replay request names events of the queue.
LEMMA OldestType ==
    ASSUME TypeOK, QueueBounded, NEW c \in Cids
    PROVE  Oldest(c) \in SUBSET Seqs
  <1>1. DOMAIN queue[c] = 1..Len(queue[c]) /\ Len(queue[c]) \in Nat /\ Len(queue[c]) <= MaxEvents
    BY DEF TypeOK, QueueBounded
  <1>2. DOMAIN queue[c] \subseteq Seqs
    BY <1>1, ConnectionAssumption DEF Seqs
  <1> QED BY <1>2 DEF Oldest, Pending

\* The streak grows by one until it is long enough.
LEMMA LongerType ==
    ASSUME streak \in 0..RecoverThreshold
    PROVE  /\ Longer \in 0..RecoverThreshold
           /\ \A n \in 0..(RecoverThreshold - 1) : streak >= n => Longer >= n + 1
  BY ConnectionAssumption DEF Longer

\* The recovery of the connection: the events go out under the old id.
LEMMA RecoverStep ==
    ASSUME TypeOK, QueueBounded, LinkInv, conn.state = "degraded",
           conn.successes + 1 >= RecoverThreshold, streak' = Longer, Recover
    PROVE  LinkType' /\ LinkInv' /\ Earned /\ SentOnce
  <1>1. streak' \in 0..RecoverThreshold /\ streak' >= RecoverThreshold
    BY LongerType, ConnectionAssumption DEF TypeOK, LinkInv, StreakCounts
  <1>2. cid \in Cids /\ cid + 1 \in Cids /\ cid' = cid + 1 /\ cid < cid'
    BY ConnectionAssumption DEF Recover, TypeOK, Cids
  <1>3. Oldest(cid) \in SUBSET Seqs
    BY <1>2, OldestType
  <1>4. conn' = Fresh("connected") /\ "connected" \in States
    BY DEF Recover, States
  <1>5. replay' = [replay EXCEPT ![cid] = Oldest(cid)] /\ sent' = sent \cup {<<cid, n>> : n \in Oldest(cid)}
    BY DEF Recover
  <1>6. replay' \in [Cids -> SUBSET Seqs] /\ sent' \in SUBSET (Cids \X Seqs)
    BY <1>2, <1>3, <1>5 DEF TypeOK
  <1>7. LinkType'
    BY <1>1, <1>2, <1>4, <1>6, FreshType DEF LinkType
  <1>8. SentIsPast'
    <2> SUFFICES ASSUME NEW c \in Cids, NEW n \in Seqs, <<c, n>> \in sent' PROVE c < cid'
      BY DEF SentIsPast, Cids, Seqs
    <2>1. <<c, n>> \in sent \/ c = cid
      BY <1>5
    <2> QED BY <1>2, <2>1 DEF LinkInv, SentIsPast, Cids
  <1>9. StreakCounts'
    BY <1>4, FreshType DEF StreakCounts
  <1>10. SentOnce
    <2> SUFFICES ASSUME NEW c \in Cids, NEW n \in Seqs, n \in replay'[c], n \notin replay[c]
                 PROVE  <<c, n>> \notin sent
      BY DEF SentOnce
    <2>1. c = cid
      BY <1>5 DEF TypeOK
    <2> QED BY <2>1, <1>2 DEF LinkInv, SentIsPast, Cids
  <1> QED BY <1>1, <1>7, <1>8, <1>9, <1>10 DEF LinkInv, Earned

\* An exchange without a recovery counts a success or a failure.
LEMMA CountStep ==
    ASSUME TypeOK, LinkInv, UNCHANGED <<cid, replay, sent>>,
           \/ /\ streak' = Longer
              /\ conn.state = "degraded"
              /\ conn.successes + 1 < RecoverThreshold
              /\ conn' = [conn EXCEPT !.failures = 0, !.successes = @ + 1]
           \/ /\ streak' = Longer
              /\ conn.state # "degraded"
              /\ conn' = [conn EXCEPT !.failures = 0]
           \/ RecordFailure
    PROVE  LinkType' /\ LinkInv' /\ Earned /\ SentOnce
  <1> DEFINE Link == [state : States, failures : 0..(FailThreshold - 1),
                      successes : 0..(RecoverThreshold - 1)]
  <1>0. /\ conn \in Link /\ Longer \in 0..RecoverThreshold
        /\ streak >= conn.successes => Longer >= conn.successes + 1
        /\ 0 \in 0..RecoverThreshold /\ 0 \in 0..(RecoverThreshold - 1) /\ 0 \in 0..(FailThreshold - 1)
    BY LongerType, ConnectionAssumption DEF TypeOK
  <1>1. /\ conn' \in Link /\ streak' \in 0..RecoverThreshold
        /\ conn'.state = "degraded" => streak' >= conn'.successes
        /\ conn.state = "degraded" => conn'.state = "degraded"
    <2>1. CASE /\ streak' = Longer
               /\ conn.state = "degraded"
               /\ conn.successes + 1 < RecoverThreshold
               /\ conn' = [conn EXCEPT !.failures = 0, !.successes = @ + 1]
      <3>1. conn.successes + 1 \in 0..(RecoverThreshold - 1)
        BY <1>0, <2>1, ConnectionAssumption
      <3> QED BY <1>0, <2>1, <3>1 DEF LinkInv, StreakCounts
    <2>2. CASE /\ streak' = Longer
               /\ conn.state # "degraded"
               /\ conn' = [conn EXCEPT !.failures = 0]
      BY <1>0, <2>2
    <2>3. CASE RecordFailure
      <3>1. CASE conn.state # "connected"
        BY <1>0, <2>3, <3>1 DEF RecordFailure
      <3>2. CASE conn.state = "connected" /\ conn.failures + 1 >= FailThreshold
        BY <1>0, <2>3, <3>2, FreshType DEF RecordFailure, States
      <3>3. CASE conn.state = "connected" /\ ~(conn.failures + 1 >= FailThreshold)
        <4>1. conn.failures + 1 \in 0..(FailThreshold - 1)
          BY <1>0, <3>3, ConnectionAssumption
        <4>2. conn' = [conn EXCEPT !.failures = @ + 1, !.successes = 0] /\ streak' = 0
          BY <2>3, <3>3 DEF RecordFailure
        <4> QED BY <1>0, <3>3, <4>1, <4>2
      <3> QED BY <3>1, <3>2, <3>3
    <2> QED BY <2>1, <2>2, <2>3
  <1>2. LinkType'
    BY <1>1 DEF LinkType, TypeOK
  <1>3. LinkInv' /\ SentOnce /\ Earned
    BY <1>1 DEF LinkInv, StreakCounts, SentIsPast, SentOnce, Earned
  <1> QED BY <1>2, <1>3

\* recordSuccess and recordFailure.
LEMMA ExchangeStep ==
    ASSUME TypeOK, QueueBounded, LinkInv, RecordSuccess \/ RecordFailure
    PROVE  LinkType' /\ LinkInv' /\ Earned /\ SentOnce
  <1>1. CASE RecordFailure
    BY <1>1, CountStep DEF RecordFailure
  <1>2. CASE RecordSuccess
    BY <1>2, CountStep, RecoverStep DEF RecordSuccess
  <1> QED BY <1>1, <1>2

-----------------------------------------------------------------------------
(* The queue.                                                              *)

Statuses == {"pending", "replayed", "expired"}

\* Changing the statuses of events keeps their number.
LEMMA Restatused ==
    ASSUME NEW old \in Seq(Statuses), NEW new, DOMAIN new = DOMAIN old,
           new = [n \in DOMAIN old |-> new[n]],
           \A n \in DOMAIN old : new[n] \in Statuses
    PROVE  new \in Seq(Statuses) /\ Len(new) = Len(old)
  <1>1. DOMAIN new = 1..Len(old) /\ Len(old) \in Nat
    OBVIOUS
  <1> QED BY <1>1

\* Every event of one connection is one of the events counted.
LEMMA QueueCounted ==
    ASSUME TypeOK, QueueBounded, NEW c \in Cids, Cardinality(Enqueued) < MaxEvents
    PROVE  Len(queue[c]) < MaxEvents
  <1> DEFINE mine == {c} \X (1..Len(queue[c]))
  <1>1. Len(queue[c]) \in Nat /\ Len(queue[c]) <= MaxEvents /\ DOMAIN queue[c] = 1..Len(queue[c])
    BY DEF TypeOK, QueueBounded
  <1>2. mine \in SUBSET Enqueued
    BY <1>1, ConnectionAssumption DEF Enqueued, Seqs
  <1>3. IsFiniteSet(Enqueued) /\ Cardinality(Enqueued) \in Nat
    <2>1. IsFiniteSet(Cids) /\ IsFiniteSet(Seqs)
      BY FS_Interval, ConnectionAssumption DEF Cids, Seqs
    <2>2. IsFiniteSet(Cids \X Seqs)
      BY <2>1, FS_Product
    <2>3. IsFiniteSet(Enqueued)
      BY <2>2, FS_Subset DEF Enqueued
    <2> QED BY <2>3, FS_CardinalityType
  <1>4. IsFiniteSet(mine) /\ Cardinality(mine) = Len(queue[c])
    <2>1. IsFiniteSet({c}) /\ Cardinality({c}) = 1
      BY FS_Singleton
    <2>2. IsFiniteSet(1..Len(queue[c])) /\ Cardinality(1..Len(queue[c])) = Len(queue[c])
      BY <1>1, FS_Interval
    <2>3. IsFiniteSet(mine) /\ Cardinality(mine) = Cardinality({c}) * Cardinality(1..Len(queue[c]))
      BY <2>1, <2>2, FS_Product
    <2>4. Cardinality({c}) * Cardinality(1..Len(queue[c])) = Len(queue[c])
      BY <1>1, <2>1, <2>2
    <2> QED BY <2>3, <2>4
  <1>5. Cardinality(mine) <= Cardinality(Enqueued)
    BY <1>2, <1>3, FS_Subset
  <1> QED BY <1>1, <1>3, <1>4, <1>5, ConnectionAssumption

\* The event queue's own operations and a replay's end.
LEMMA QueueStep ==
    ASSUME TypeOK, QueueBounded,
           \/ Enqueue
           \/ \E c \in Cids : ReplayAnswered(c) \/ ReplayFails(c) \/ \E n \in Seqs : ExpireOldEvents(c, n)
    PROVE  /\ queue' \in [Cids -> Seq(Statuses)] /\ replay' \in [Cids -> SUBSET Seqs]
           /\ QueueBounded'
           /\ \A c \in Cids : replay'[c] \subseteq replay[c]
           /\ UNCHANGED <<wakeVars, conn, cid, streak, sent, loop, proxy, world, asked>>
  <1> USE DEF link
  <1>0. queue \in [Cids -> Seq(Statuses)] /\ cid \in Cids
    BY DEF TypeOK, Statuses
  <1>1. CASE Enqueue
    <2>1. Append(queue[cid], "pending") \in Seq(Statuses)
          /\ Len(Append(queue[cid], "pending")) = Len(queue[cid]) + 1
      BY <1>0 DEF Statuses
    <2>2. Len(queue[cid]) < MaxEvents /\ Len(queue[cid]) \in Nat
      BY <1>0, <1>1, QueueCounted DEF Enqueue
    <2>3. queue' = [queue EXCEPT ![cid] = Append(queue[cid], "pending")] /\ replay' = replay
      BY <1>1 DEF Enqueue
    <2>4. queue' \in [Cids -> Seq(Statuses)]
      BY <1>0, <2>1, <2>3
    <2>5. QueueBounded'
      BY <1>0, <2>1, <2>2, <2>3, ConnectionAssumption DEF QueueBounded
    <2> QED BY <1>1, <2>3, <2>4, <2>5 DEF Enqueue, TypeOK
  <1>2. ASSUME NEW c \in Cids, ReplayAnswered(c) PROVE
               /\ queue' \in [Cids -> Seq(Statuses)] /\ replay' \in [Cids -> SUBSET Seqs]
               /\ QueueBounded'
               /\ \A k \in Cids : replay'[k] \subseteq replay[k]
    <2> DEFINE new == [n \in DOMAIN queue[c] |-> IF n \in replay[c] THEN "replayed" ELSE queue[c][n]]
    <2>1. queue' = [queue EXCEPT ![c] = new] /\ replay' = [replay EXCEPT ![c] = {}]
      BY <1>2 DEF ReplayAnswered
    <2>2. \A n \in DOMAIN queue[c] : new[n] \in Statuses
      BY <1>0 DEF Statuses
    <2>3. DOMAIN new = DOMAIN queue[c] /\ new = [n \in DOMAIN queue[c] |-> new[n]]
      OBVIOUS
    <2> HIDE DEF new
    <2>4. new \in Seq(Statuses) /\ Len(new) = Len(queue[c])
      BY <1>0, <2>2, <2>3, Restatused
    <2> QED BY <1>0, <2>1, <2>4 DEF QueueBounded, TypeOK
  <1>3. ASSUME NEW c \in Cids, ReplayFails(c) PROVE
               /\ queue' \in [Cids -> Seq(Statuses)] /\ replay' \in [Cids -> SUBSET Seqs]
               /\ QueueBounded'
               /\ \A k \in Cids : replay'[k] \subseteq replay[k]
    BY <1>0, <1>3 DEF ReplayFails, TypeOK, QueueBounded
  <1>4. ASSUME NEW c \in Cids, NEW n \in Seqs, ExpireOldEvents(c, n) PROVE
               /\ queue' \in [Cids -> Seq(Statuses)] /\ replay' \in [Cids -> SUBSET Seqs]
               /\ QueueBounded'
               /\ \A k \in Cids : replay'[k] \subseteq replay[k]
    <2>1. ASSUME NEW k \in Cids
          PROVE  queue'[k] \in Seq(Statuses) /\ Len(queue'[k]) = Len(queue[k])
      <3> DEFINE new == [i \in DOMAIN queue[k] |->
                   IF i \in Pending(k) /\ (k < c \/ (k = c /\ i <= n)) THEN "expired" ELSE queue[k][i]]
      <3>1. queue'[k] = new
        BY <1>4 DEF ExpireOldEvents
      <3>2. \A i \in DOMAIN queue[k] : new[i] \in Statuses
        BY <1>0 DEF Statuses
      <3>3. DOMAIN new = DOMAIN queue[k] /\ new = [i \in DOMAIN queue[k] |-> new[i]]
        OBVIOUS
      <3> HIDE DEF new
      <3> QED BY <1>0, <3>1, <3>2, <3>3, Restatused
    <2>2. queue' = [k \in Cids |-> queue'[k]] /\ replay' = replay
      BY <1>4 DEF ExpireOldEvents
    <2>3. queue' \in [Cids -> Seq(Statuses)]
      BY <2>1, <2>2
    <2> QED BY <2>1, <2>2, <2>3 DEF QueueBounded, TypeOK
  <1>5. UNCHANGED <<wakeVars, conn, cid, streak, sent, loop, proxy, world, asked>>
    BY DEF Enqueue, ReplayAnswered, ReplayFails, ExpireOldEvents
  <1> QED BY <1>1, <1>2, <1>3, <1>4, <1>5

-----------------------------------------------------------------------------
(* The wake of the health check.                                           *)

LEMMA PriorityNat == \A reason \in Reasons : Priority(reason) \in Nat
  BY DEF Priority, Reasons

\* The wake that is kept of the pending one and a new one is the highest of
\* all that were asked for.
LEMMA MergeKeepsPriority ==
    ASSUME TypeOK, PriorityKept, NEW reason \in Reasons,
           pending' = Merged(pending, reason), asked' = asked \cup {reason}, timer' # "none"
    PROVE  PriorityKept' /\ pending' \in Reasons /\ asked' \in SUBSET Reasons
  <1>1. /\ pending \in Reasons \cup {"none"} /\ asked \in SUBSET Reasons /\ "none" \notin Reasons
        /\ \A r \in Reasons : Priority(r) \in Nat
    BY PriorityNat DEF TypeOK, WakeTypeOK, Reasons
  <1>2. CASE pending = "none"
    <2>1. asked = {} /\ pending' = reason
      BY <1>2 DEF PriorityKept, Merged
    <2> QED BY <1>1, <2>1 DEF PriorityKept
  <1>3. CASE pending # "none" /\ Priority(reason) >= Priority(pending)
    <2>1. pending' = reason
      BY <1>3 DEF Merged
    <2>2. \A r \in asked : Priority(r) <= Priority(reason)
      BY <1>1, <1>3 DEF PriorityKept
    <2> QED BY <1>1, <2>1, <2>2 DEF PriorityKept
  <1>4. CASE pending # "none" /\ ~(Priority(reason) >= Priority(pending))
    <2>1. pending' = pending
      BY <1>4 DEF Merged
    <2>2. Priority(reason) <= Priority(pending)
      BY <1>1, <1>4
    <2> QED BY <1>1, <1>4, <2>1, <2>2 DEF PriorityKept
  <1> QED BY <1>2, <1>3, <1>4

\* A step that leaves the wake nothing to wait for.
LEMMA NothingPending ==
    ASSUME pending' = "none", asked' = {}
    PROVE  PriorityKept' /\ DisabledIsEmpty' /\ asked' \in SUBSET Reasons
  BY DEF PriorityKept, DisabledIsEmpty

\* A step that keeps what is pending keeps its timer too.
LEMMA PendingKept ==
    ASSUME TypeOK, PriorityKept, DisabledIsEmpty, UNCHANGED <<pending, asked>>,
           pending # "none" => timer' # "none", enabled => enabled'
    PROVE  PriorityKept' /\ DisabledIsEmpty' /\ asked' \in SUBSET Reasons
  BY DEF PriorityKept, DisabledIsEmpty, TypeOK, WakeTypeOK

\* Every step keeps the wake's type and its priority.
LEMMA PriorityStep ==
    TypeOK /\ PriorityKept /\ DisabledIsEmpty /\ [Next]_vars
        => WakeTypeOK' /\ PriorityKept' /\ DisabledIsEmpty' /\ asked' \in SUBSET Reasons
  <1> DEFINE Kept == WakeTypeOK' /\ PriorityKept' /\ DisabledIsEmpty' /\ asked' \in SUBSET Reasons
  <1> SUFFICES ASSUME TypeOK, PriorityKept, DisabledIsEmpty, [Next]_vars PROVE Kept
    OBVIOUS
  <1>0. WakeTypeOK
    BY DEF TypeOK
  <1>1. CASE StartLoop
    <2>1. CASE enabled
      <3>1. /\ pending' = Merged(pending, "interval") /\ asked' = asked \cup {"interval"}
            /\ timer' = "normal" /\ "interval" \in Reasons
        BY <1>1, <2>1 DEF StartLoop, Reasons
      <3>2. PriorityKept' /\ pending' \in Reasons /\ asked' \in SUBSET Reasons
        BY <3>1, MergeKeepsPriority
      <3> QED BY <1>0, <1>1, <2>1, <3>1, <3>2 DEF StartLoop, WakeTypeOK, DisabledIsEmpty
    <2>2. CASE ~enabled
      <3>1. pending = "none" /\ pending' = "none" /\ asked' = asked /\ timer' = "none"
        BY <1>1, <2>2 DEF StartLoop, DisabledIsEmpty
      <3>2. asked = {}
        BY <3>1 DEF PriorityKept
      <3> QED BY <1>0, <1>1, <3>1, <3>2, NothingPending DEF StartLoop, WakeTypeOK
    <2> QED BY <2>1, <2>2
  <1>2. CASE StopLoop
    <2>1. UNCHANGED <<pending, asked, timer, enabled>>
      BY <1>2 DEF StopLoop, ClearHandler
    <2> QED BY <1>0, <1>2, <2>1, PendingKept, WakeStepType DEF StopLoop, PriorityKept
  <1>3. ASSUME NEW reason \in Requested, RequestHeartbeat(reason) PROVE Kept
    <2>0. reason \in Reasons /\ RequestWake(reason)
      BY <1>3, ConnectionAssumption DEF RequestHeartbeat
    <2>1. WakeTypeOK' /\ (enabled => timer' # "none")
      BY <1>0, <2>0, RequestWakeType
    <2>2. CASE enabled
      <3>1. pending' = Merged(pending, reason) /\ asked' = asked \cup {reason} /\ enabled' = enabled
        BY <1>3, <2>0, <2>2 DEF RequestHeartbeat, RequestWake
      <3>2. PriorityKept' /\ asked' \in SUBSET Reasons
        BY <2>0, <2>1, <2>2, <3>1, MergeKeepsPriority
      <3> QED BY <2>1, <2>2, <3>1, <3>2 DEF DisabledIsEmpty
    <2>3. CASE ~enabled
      <3>1. UNCHANGED <<pending, asked, timer, enabled>>
        BY <1>3, <2>0, <2>3 DEF RequestHeartbeat, RequestWake
      <3> QED BY <2>1, <3>1, PendingKept DEF PriorityKept
    <2> QED BY <2>2, <2>3
  <1>4. ASSUME NEW on \in BOOLEAN, SetHeartbeatsEnabled(on) PROVE Kept
    <2>1. WakeTypeOK'
      BY <1>0, <1>4, WakeStepType DEF SetHeartbeatsEnabled
    <2>2. CASE on
      <3>1. UNCHANGED <<pending, asked, timer>> /\ enabled'
        BY <1>4, <2>2 DEF SetHeartbeatsEnabled, SetEnabled
      <3> QED BY <2>1, <3>1, PendingKept DEF PriorityKept
    <2>3. CASE ~on
      BY <1>4, <2>1, <2>3, NothingPending DEF SetHeartbeatsEnabled, SetEnabled
    <2> QED BY <2>2, <2>3
  <1>5. CASE WakeIdles
    <2>1. WakeTypeOK'
      BY <1>0, <1>5, WakeStepType DEF WakeIdles
    <2>2. CASE WakeDeferred /\ UNCHANGED asked
      <3>1. UNCHANGED <<pending, asked, enabled>> /\ (pending # "none" => timer' # "none")
        BY <2>2 DEF WakeDeferred
      <3> QED BY <2>1, <3>1, PendingKept
    <2>3. CASE WakeDropped /\ asked' = {}
      BY <2>1, <2>3, NothingPending DEF WakeDropped
    <2> QED BY <1>5, <2>2, <2>3 DEF WakeIdles
  <1>6. CASE CheckBegins
    BY <1>0, <1>6, WakeStepType, NothingPending DEF CheckBegins, WakeFires
  <1>7. CASE CheckEnds
    <2>1. WakeTypeOK' /\ UNCHANGED <<pending, asked, enabled>>
      BY <1>0, <1>7, WakeStepType DEF CheckEnds, WakeDone
    <2>2. pending # "none" => timer' # "none"
      BY <1>7 DEF CheckEnds, WakeDone, Scheduled
    <2> QED BY <2>1, <2>2, PendingKept
  <1>8. CASE Restart
    BY <1>8, NothingPending DEF Restart, WakeTypeOK
  <1>9. CASE UNCHANGED <<wakeVars, asked>>
    <2>1. WakeTypeOK' /\ UNCHANGED <<pending, asked, timer, enabled>>
      BY <1>0, <1>9 DEF wakeVars, WakeTypeOK
    <2> QED BY <2>1, PendingKept DEF PriorityKept
  <1>10. CASE \/ \E p \in Proxies : ProxyRequest(p) \/ ProxyStep(p)
              \/ Enqueue
              \/ \E c \in Cids : ReplayAnswered(c) \/ ReplayFails(c) \/ \E n \in Seqs : ExpireOldEvents(c, n)
              \/ TrimcChanges \/ UNCHANGED vars
    <2>1. UNCHANGED <<wakeVars, asked>>
      BY <1>10 DEF ProxyRequest, ProxyStep, ProxyResponds, ProxyFinishes, ProxyFails, Enqueue,
                   ReplayAnswered, ReplayFails, ExpireOldEvents, TrimcChanges, vars
    <2> QED BY <1>9, <2>1
  <1> QED BY <1>1, <1>2, <1>3, <1>4, <1>5, <1>6, <1>7, <1>8, <1>10 DEF Next

-----------------------------------------------------------------------------
(* The connection.                                                         *)

\* A step that leaves the connection alone, replies to replays apart.
LEMMA LinkUntouched ==
    ASSUME TypeOK, LinkInv, UNCHANGED <<conn, cid, streak, sent>>,
           replay' \in [Cids -> SUBSET Seqs], \A c \in Cids : replay'[c] \subseteq replay[c]
    PROVE  LinkType' /\ LinkInv' /\ Earned /\ SentOnce
  <1>1. LinkType' /\ SentOnce /\ Earned
    BY DEF TypeOK, LinkType, SentOnce, Earned
  <1>2. LinkInv'
    BY DEF LinkInv, StreakCounts, SentIsPast
  <1> QED BY <1>1, <1>2

LEMMA LinkStep ==
    TypeOK /\ QueueBounded /\ LinkInv /\ [Next]_vars
        => LinkType' /\ LinkInv' /\ Earned /\ SentOnce
  <1> SUFFICES ASSUME TypeOK, QueueBounded, LinkInv, [Next]_vars
               PROVE  LinkType' /\ LinkInv' /\ Earned /\ SentOnce
    OBVIOUS
  <1>1. CASE CheckEnds \/ \E p \in Proxies : ProxyResponds(p) \/ ProxyFails(p)
    BY <1>1, ExchangeStep DEF CheckEnds, ProxyResponds, ProxyFails
  <1>2. CASE \/ Enqueue
             \/ \E c \in Cids : ReplayAnswered(c) \/ ReplayFails(c) \/ \E n \in Seqs : ExpireOldEvents(c, n)
    <2>1. /\ replay' \in [Cids -> SUBSET Seqs] /\ \A c \in Cids : replay'[c] \subseteq replay[c]
          /\ UNCHANGED <<conn, cid, streak, sent>>
      BY <1>2, QueueStep
    <2> QED BY <2>1, LinkUntouched
  <1>3. CASE Restart
    <2>1. PICK state \in {"degraded", "local"} : conn' = Fresh(state)
      BY <1>3 DEF Restart
    <2>2. /\ streak' = 0 /\ cid' = cid + 1 /\ sent' = sent /\ cid \in Cids
          /\ replay' = [c \in Cids |-> {}] /\ cid' \in Cids
      BY <1>3, ConnectionAssumption DEF Restart, TypeOK, Cids
    <2>3. LinkType'
      BY <2>1, <2>2, FreshType, ConnectionAssumption DEF LinkType, TypeOK, States
    <2>4. StreakCounts' /\ Earned
      BY <2>1, <2>2, FreshType DEF StreakCounts, States, Earned
    <2>5. SentIsPast' /\ SentOnce
      BY <2>2 DEF LinkInv, SentIsPast, SentOnce, Cids
    <2> QED BY <2>3, <2>4, <2>5 DEF LinkInv
  <1>4. CASE \/ StartLoop \/ StopLoop \/ WakeIdles \/ CheckBegins \/ TrimcChanges \/ UNCHANGED vars
             \/ \E reason \in Requested : RequestHeartbeat(reason)
             \/ \E on \in BOOLEAN : SetHeartbeatsEnabled(on)
             \/ \E p \in Proxies : ProxyRequest(p) \/ ProxyFinishes(p)
    <2>1. UNCHANGED link
      BY <1>4 DEF StartLoop, StopLoop, WakeIdles, CheckBegins, TrimcChanges, RequestHeartbeat,
                  SetHeartbeatsEnabled, ProxyRequest, ProxyFinishes, vars
    <2> QED BY <2>1, LinkUntouched DEF link, TypeOK
  <1> QED BY <1>1, <1>2, <1>3, <1>4 DEF Next, ProxyStep

-----------------------------------------------------------------------------
(* Types.                                                                  *)

\* The rest of the state.
LEMMA OtherTypes ==
    TypeOK /\ QueueBounded /\ [Next]_vars
        => /\ loop' \in {"new", "on", "stopped"}
           /\ queue' \in [Cids -> Seq({"pending", "replayed", "expired"})] /\ QueueBounded'
           /\ proxy' \in [Proxies -> {"idle", "waiting", "streaming", "destroyed"}]
           /\ up' \in BOOLEAN /\ restarts' \in 0..MaxRestarts
  <1> SUFFICES ASSUME TypeOK, QueueBounded, [Next]_vars
               PROVE  /\ loop' \in {"new", "on", "stopped"}
                      /\ queue' \in [Cids -> Seq({"pending", "replayed", "expired"})] /\ QueueBounded'
                      /\ proxy' \in [Proxies -> {"idle", "waiting", "streaming", "destroyed"}]
                      /\ up' \in BOOLEAN /\ restarts' \in 0..MaxRestarts
    OBVIOUS
  <1> USE DEF world
  <1>1. CASE \/ Enqueue
             \/ \E c \in Cids : ReplayAnswered(c) \/ ReplayFails(c) \/ \E n \in Seqs : ExpireOldEvents(c, n)
    BY <1>1, QueueStep DEF TypeOK, Statuses
  <1>2. ASSUME NEW p \in Proxies, ProxyRequest(p) \/ ProxyStep(p)
        PROVE  /\ proxy' \in [Proxies -> {"idle", "waiting", "streaming", "destroyed"}]
               /\ UNCHANGED <<loop, queue, up, restarts>>
    BY <1>2 DEF ProxyRequest, ProxyStep, ProxyResponds, ProxyFinishes, ProxyFails, TypeOK
  <1>3. CASE \E p \in Proxies : ProxyRequest(p) \/ ProxyStep(p)
    BY <1>2, <1>3 DEF TypeOK, QueueBounded
  <1>4. CASE Restart
    <2>1. restarts' \in 0..MaxRestarts /\ proxy' = [p \in Proxies |-> "idle"]
      BY <1>4, ConnectionAssumption DEF Restart, TypeOK
    <2> QED BY <1>4, <2>1 DEF Restart, TypeOK, QueueBounded
  <1>5. CASE TrimcChanges
    BY <1>5 DEF TrimcChanges, TypeOK, QueueBounded
  <1>6. CASE StartLoop \/ StopLoop
    BY <1>6 DEF StartLoop, StopLoop, TypeOK, QueueBounded
  <1>7. CASE \/ WakeIdles \/ CheckBegins \/ CheckEnds \/ UNCHANGED vars
             \/ \E reason \in Requested : RequestHeartbeat(reason)
             \/ \E on \in BOOLEAN : SetHeartbeatsEnabled(on)
    <2>1. UNCHANGED <<loop, queue, proxy, up, restarts>>
      BY <1>7 DEF WakeIdles, CheckBegins, CheckEnds, RequestHeartbeat, SetHeartbeatsEnabled, vars
    <2> QED BY <2>1 DEF TypeOK, QueueBounded
  <1> QED BY <1>1, <1>3, <1>4, <1>5, <1>6, <1>7 DEF Next

-----------------------------------------------------------------------------
(* The theorems.                                                           *)

LEMMA ConnectionInit == Init => ConnectionInv
  <1> SUFFICES ASSUME Init PROVE ConnectionInv
    OBVIOUS
  <1> USE ConnectionAssumption
  <1>1. WakeTypeOK /\ DisabledIsEmpty /\ PriorityKept
    BY DEF Init, WakeInit, WakeTypeOK, DisabledIsEmpty, PriorityKept
  <1>2. conn \in [state : States, failures : 0..(FailThreshold - 1),
                  successes : 0..(RecoverThreshold - 1)]
        /\ conn.successes = 0
    BY FreshType DEF Init, States
  <1>3. cid \in Cids /\ restarts \in 0..MaxRestarts /\ streak \in 0..RecoverThreshold
    BY DEF Init, Cids
  <1>4. queue \in [Cids -> Seq({"pending", "replayed", "expired"})] /\ QueueBounded
    BY DEF Init, QueueBounded
  <1>5. TypeOK
    BY <1>1, <1>2, <1>3, <1>4 DEF Init, TypeOK
  <1>6. LinkInv
    BY <1>2 DEF Init, LinkInv, StreakCounts, SentIsPast
  <1> QED BY <1>1, <1>4, <1>5, <1>6 DEF ConnectionInv

LEMMA ConnectionAlways == Spec => []ConnectionInv
  <1>1. ConnectionInv /\ [Next]_vars => ConnectionInv'
    BY PriorityStep, LinkStep, OtherTypes DEF ConnectionInv, TypeOK, LinkType
  <1> QED BY <1>1, ConnectionInit, PTL DEF Spec

\* The manager's counters stay below their thresholds, connection ids grow
\* and replay requests name events that exist.
THEOREM ConnectionTypeCorrect == Spec => []TypeOK
  <1>1. ConnectionInv => TypeOK
    BY DEF ConnectionInv
  <1> QED BY <1>1, ConnectionAlways, PTL

\* The heartbeat that waits is the most urgent of those asked for and has a
\* timer, over deferrals, retries, disabled heartbeats and restarts.
THEOREM HeartbeatPriorityKept == Spec => []PriorityKept
  <1>1. ConnectionInv => PriorityKept
    BY DEF ConnectionInv
  <1> QED BY <1>1, ConnectionAlways, PTL

\* A degraded manager becomes connected only after RecoverThreshold successful
\* exchanges in a row, for every interleaving of heartbeats and proxied
\* requests.
THEOREM RecoveriesEarned == Spec => RecoveryEarned
  <1>1. ConnectionInv /\ [Next]_vars
           => [conn.state = "degraded" /\ conn'.state = "connected"
                  => streak' >= RecoverThreshold]_vars
    BY LinkStep DEF ConnectionInv, Earned
  <1> QED BY <1>1, ConnectionAlways, PTL DEF Spec, RecoveryEarned

\* No event is in two replay requests, whatever replays fail in between.
THEOREM EventsSentOnce == Spec => SentAtMostOnce
  <1>1. ConnectionInv /\ [Next]_vars
           => [\A c \in Cids, n \in Seqs :
                  n \in replay'[c] /\ n \notin replay[c] => <<c, n>> \notin sent]_vars
    BY LinkStep DEF ConnectionInv, SentOnce
  <1> QED BY <1>1, ConnectionAlways, PTL DEF Spec, SentAtMostOnce

=============================================================================
