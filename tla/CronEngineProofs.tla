-------------------------- MODULE CronEngineProofs --------------------------
(***************************************************************************)
(* Theorems about CronEngine, for every set of jobs and requests and every *)
(* value of the bounds.                                                    *)
(***************************************************************************)
EXTENDS CronEngine, SequenceTheorems, TLAPS

-----------------------------------------------------------------------------
(* The operators the actions are built from.                               *)

\* The end of an execution leaves a well-formed row that is not running and
\* does not change whether the job exists.
LEMMA RecordedRow ==
    ASSUME NEW row \in JobRow, NEW outcome \in Outcomes,
           NEW onError \in {"idle", "failed"}
    PROVE  /\ Recorded(row, outcome, onError) \in JobRow
           /\ Recorded(row, outcome, onError).state # "running"
           /\ Recorded(row, outcome, onError).life = row.life
  BY DEF Recorded, Rescheduled, ParseThrows, JobRow, ScheduleKinds

\* The single-column updates of the store.
LEMMA RowUpdates ==
    ASSUME NEW row \in JobRow
    PROVE  /\ [row EXCEPT !.state = "running"] \in JobRow
           /\ [row EXCEPT !.next = "future"] \in JobRow
           /\ [row EXCEPT !.life = "removed"] \in JobRow
           /\ Overdue(row) \in JobRow
           /\ \A enabled \in BOOLEAN, sched \in ScheduleKinds \cup {"keep"} :
                 Patched(row, enabled, sched) \in JobRow
  <1>1. Overdue(row) \in JobRow
    BY DEF Overdue, JobRow, ScheduleKinds
  <1>2. ASSUME NEW enabled \in BOOLEAN, NEW sched \in ScheduleKinds \cup {"keep"}
        PROVE  Patched(row, enabled, sched) \in JobRow
    <2>1. NextOf(row, sched) \in {"none", "future", "due"}
      BY DEF NextOf, JobRow
    <2> QED BY <2>1 DEF Patched, JobRow
  <1> QED BY <1>1, <1>2 DEF JobRow

\* Updating one row, or none when the job is unknown, keeps the table's type.
LEMMA TableUpdate ==
    ASSUME NEW table \in [Jobs -> JobRow], NEW j, NEW row, j \in Jobs => row \in JobRow
    PROVE  [table EXCEPT ![j] = row] \in [Jobs -> JobRow]
  OBVIOUS

\* Counting a failure keeps the flag equal to the comparison it caches.
LEMMA FailedHealth ==
    ASSUME NEW h \in [failures : 0..FailureCap, degraded : BOOLEAN]
    PROVE  /\ Failed(h) \in [failures : 0..FailureCap, degraded : BOOLEAN]
           /\ (h.degraded <=> h.failures >= Threshold)
                 => (Failed(h).degraded <=> Failed(h).failures >= Threshold)
  <1> DEFINE n == IF h.failures < FailureCap THEN h.failures + 1 ELSE FailureCap
             late == h.degraded \/ n >= Threshold
  <1>1. n \in 0..FailureCap /\ n \in Nat
    BY CronAssumption
  <1>2. late \in BOOLEAN
    OBVIOUS
  <1>3. Failed(h) = [failures |-> n, degraded |-> late]
    BY DEF Failed
  <1>4. h.failures >= Threshold => n >= Threshold
    BY CronAssumption
  <1> HIDE DEF n
  <1>5. (h.degraded <=> h.failures >= Threshold) => (late <=> n >= Threshold)
    BY <1>4
  <1> HIDE DEF late
  <1> QED BY <1>1, <1>2, <1>3, <1>5

LEMMA TalliedHealth ==
    ASSUME NEW row, NEW outcome,
           health \in [failures : 0..FailureCap, degraded : BOOLEAN]
    PROVE  /\ Tallied(row, outcome) \in [failures : 0..FailureCap, degraded : BOOLEAN]
           /\ DegradedIffThreshold
                 => (Tallied(row, outcome).degraded <=> Tallied(row, outcome).failures >= Threshold)
  <1> DEFINE counted == IF outcome = "ok" THEN Healthy ELSE Failed(health)
  <1>1. /\ counted \in [failures : 0..FailureCap, degraded : BOOLEAN]
        /\ DegradedIffThreshold => (counted.degraded <=> counted.failures >= Threshold)
    BY FailedHealth, CronAssumption DEF Healthy, DegradedIffThreshold
  <1>2. /\ Failed(counted) \in [failures : 0..FailureCap, degraded : BOOLEAN]
        /\ DegradedIffThreshold
              => (Failed(counted).degraded <=> Failed(counted).failures >= Threshold)
    <2> HIDE DEF counted
    <2> QED BY <1>1, FailedHealth
  <1> QED BY <1>1, <1>2 DEF Tallied

\* Handing the lock over keeps the types.
LEMMA LeaveType ==
    ASSUME TypeOK, NEW a \in Activities, NEW to \in {"idle", "done"}, Leave(a, to)
    PROVE  /\ pc' \in [Activities -> {"idle", "waiting", "ready", "executing", "done"}]
           /\ locked' \in BOOLEAN
           /\ lockQueue' \in Seq(Runs)
  <1> DEFINE pcs == [pc EXCEPT ![a] = to]
  <1>1. pcs \in [Activities -> {"idle", "waiting", "ready", "executing", "done"}]
    BY DEF TypeOK
  <1>2. CASE a \notin Clients
    BY <1>1, <1>2 DEF Leave, lock, TypeOK
  <1>3. CASE a \in Clients /\ lockQueue = <<>>
    BY <1>1, <1>3 DEF Leave, ReleaseLock, TypeOK
  <1>4. CASE a \in Clients /\ lockQueue # <<>>
    <2>1. Head(lockQueue) \in Runs /\ Tail(lockQueue) \in Seq(Runs)
      BY <1>4, HeadTailProperties DEF TypeOK
    <2> QED BY <1>1, <1>4, <2>1 DEF Leave, ReleaseLock, TypeOK, Activities
  <1> QED BY <1>2, <1>3, <1>4

-----------------------------------------------------------------------------
(* Types.                                                                  *)

\* Every step keeps the row constraints of cron.db and the shape of the
\* engine's volatile state.
LEMMA TypeStep == TypeOK /\ [Next]_vars => TypeOK'
  <1> SUFFICES ASSUME TypeOK, [Next]_vars PROVE TypeOK'
    OBVIOUS
  <1> USE DEF engine, lock, snapshots, history
  <1>1. CASE Start
    <2>1. todo' \in [Passes -> SUBSET Jobs] /\ deferred' \in SUBSET Jobs
      BY <1>1 DEF Start, TypeOK, Due, Passes
    <2>2. pc' \in [Activities -> {"idle", "waiting", "ready", "executing", "done"}]
      BY <1>1 DEF Start, TypeOK
    <2>3. armed' \in BOOLEAN /\ untimed' \in SUBSET Jobs
      BY <1>1 DEF Start, ArmTimer, TypeOK
    <2> QED BY <1>1, <2>1, <2>2, <2>3 DEF Start, TypeOK
  <1>2. CASE TimerFires
    <2>1. todo' \in [Passes -> SUBSET Jobs] /\ locked' \in BOOLEAN
      <3>1. Due \in SUBSET Jobs
        BY DEF Due
      <3> QED BY <1>2, <3>1 DEF TimerFires, TypeOK, Passes
    <2>2. pc' \in [Activities -> {"idle", "waiting", "ready", "executing", "done"}]
      BY <1>2 DEF TimerFires, TypeOK
    <2>3. armed' \in BOOLEAN /\ untimed' \in SUBSET Jobs
      BY <1>2 DEF TimerFires, ArmTimer, TypeOK
    <2> QED BY <1>2, <2>1, <2>2, <2>3 DEF TimerFires, TypeOK
  <1>3. ASSUME NEW a \in Passes, PassStep(a) PROVE TypeOK'
    <2>0. a \in Activities
      BY DEF Activities
    <2>1. CASE BeginScheduled(a)
      <3>1. PICK j \in todo[a] :
               /\ todo' = [todo EXCEPT ![a] = @ \ {j}]
               /\ cur' = [cur EXCEPT ![a] = j]
               /\ jobs' = IF Live(j) THEN [jobs EXCEPT ![j].state = "running"] ELSE jobs
        BY <2>1 DEF BeginScheduled
      <3>2. j \in Jobs /\ jobs[j] \in JobRow
        BY DEF TypeOK
      <3>3. jobs' \in [Jobs -> JobRow]
        BY <3>1, <3>2, RowUpdates DEF TypeOK
      <3>4. cur' \in [Activities -> Jobs \cup {NoJob}] /\ todo' \in [Passes -> SUBSET Jobs]
        BY <3>1, <3>2 DEF TypeOK
      <3> QED BY <2>0, <2>1, <3>3, <3>4 DEF BeginScheduled, TypeOK
    <2>2. ASSUME NEW outcome \in Outcomes, FinishScheduled(a, outcome) PROVE TypeOK'
      <3>1. jobs' \in [Jobs -> JobRow]
        BY <2>2, RecordedRow, TableUpdate DEF FinishScheduled, TypeOK
      <3>2. health' \in [failures : 0..FailureCap, degraded : BOOLEAN]
        BY <2>2, TalliedHealth DEF FinishScheduled, TypeOK
      <3> QED BY <2>0, <2>2, <3>1, <3>2 DEF FinishScheduled, TypeOK
    <2>3. CASE PassAborts(a)
      BY <2>0, <2>3, LeaveType DEF PassAborts, TypeOK
    <2>4. CASE PassEnds(a)
      <3>1. jobs' \in [Jobs -> JobRow] /\ deferred' \in SUBSET Jobs
        <4>1. CASE a = "tick"
          BY <2>4, <4>1 DEF PassEnds, TypeOK
        <4>2. CASE a = "catchup"
          <5>1. \A j \in Jobs : [jobs[j] EXCEPT !.next = "future"] \in JobRow
            BY RowUpdates DEF TypeOK
          <5> QED BY <2>4, <4>2, <5>1 DEF PassEnds, TypeOK
        <4> QED BY <4>1, <4>2 DEF Passes
      <3>2. armed' \in BOOLEAN /\ untimed' \in SUBSET Jobs
        BY <2>4 DEF PassEnds, ArmTimer
      <3> QED BY <2>0, <2>4, <3>1, <3>2, LeaveType DEF PassEnds, TypeOK
    <2> QED BY <1>3, <2>1, <2>2, <2>3, <2>4 DEF PassStep
  <1>4. ASSUME NEW r \in Runs, RunStep(r) PROVE TypeOK'
    <2>0. r \in Activities
      BY DEF Activities
    <2>1. CASE RunRefused(r)
      BY <2>0, <2>1, LeaveType DEF RunRefused, Forget, TypeOK
    <2>2. CASE RunBegins(r)
      <3>1. cur[r] \in Jobs => [jobs[cur[r]] EXCEPT !.state = "running"] \in JobRow
        BY RowUpdates DEF TypeOK
      <3>2. jobs' \in [Jobs -> JobRow]
        BY <2>2, <3>1, TableUpdate DEF RunBegins, TypeOK
      <3> QED BY <2>0, <2>2, <3>2 DEF RunBegins, TypeOK
    <2>3. ASSUME NEW outcome \in Outcomes, RunEnds(r, outcome) PROVE TypeOK'
      <3>1. jobs' \in [Jobs -> JobRow]
        BY <2>3, RecordedRow, TableUpdate DEF RunEnds, TypeOK
      <3>2. untimed' \in SUBSET Jobs
        BY <2>3 DEF RunEnds, TypeOK
      <3>3. cur' \in [Activities -> Jobs \cup {NoJob}] /\ forced' \in [Runs -> BOOLEAN]
        BY <2>0, <2>3 DEF RunEnds, Forget, TypeOK
      <3> QED BY <2>0, <2>3, <3>1, <3>2, <3>3, LeaveType DEF RunEnds, Forget, TypeOK
    <2> QED BY <1>4, <2>1, <2>2, <2>3 DEF RunStep
  <1>5. ASSUME NEW r \in Runs, NEW j \in Jobs, NEW force \in BOOLEAN, EnqueueRun(r, j, force)
        PROVE  TypeOK'
    <2>1. locked' \in BOOLEAN /\ lockQueue' \in Seq(Runs)
      <3>1. Append(lockQueue, r) \in Seq(Runs)
        BY AppendProperties DEF TypeOK
      <3> QED BY <1>5, <3>1 DEF EnqueueRun, TypeOK
    <2>2. pc' \in [Activities -> {"idle", "waiting", "ready", "executing", "done"}]
      BY <1>5 DEF EnqueueRun, TypeOK
    <2>3. cur' \in [Activities -> Jobs \cup {NoJob}] /\ forced' \in [Runs -> BOOLEAN]
      BY <1>5 DEF EnqueueRun, TypeOK
    <2> QED BY <1>5, <2>1, <2>2, <2>3 DEF EnqueueRun, TypeOK
  <1>6. ASSUME NEW j \in Jobs, RemoveJob(j) PROVE TypeOK'
    <2>1. jobs' \in [Jobs -> JobRow]
      BY <1>6, RowUpdates, TableUpdate DEF RemoveJob, TypeOK
    <2> QED BY <1>6, <2>1 DEF RemoveJob, ArmTimer, TypeOK
  <1>7. ASSUME NEW j \in Jobs, NEW enabled \in BOOLEAN, NEW sched \in Schedules,
               AddJob(j, enabled, sched)
        PROVE  TypeOK'
    <2>1. sched \in ScheduleKinds
      BY CronAssumption
    <2>2. jobs' \in [Jobs -> JobRow]
      BY <1>7, <2>1 DEF AddJob, TypeOK, JobRow
    <2> QED BY <1>7, <2>2 DEF AddJob, ArmTimer, TypeOK
  <1>8. ASSUME NEW j \in Jobs, NEW enabled \in BOOLEAN, NEW sched \in Schedules \cup {"keep"},
               UpdateJob(j, enabled, sched)
        PROVE  TypeOK'
    <2>1. sched \in ScheduleKinds \cup {"keep"}
      BY CronAssumption
    <2>2. jobs[j] \in JobRow
      BY DEF TypeOK
    <2>3. Patched(jobs[j], enabled, sched) \in JobRow
      BY <2>1, <2>2, RowUpdates
    <2>4. jobs' \in [Jobs -> JobRow]
      BY <1>8, <2>3, TableUpdate DEF UpdateJob, TypeOK
    <2> QED BY <1>8, <2>4 DEF UpdateJob, ArmTimer, TypeOK
  <1>9. CASE Stop
    BY <1>9 DEF Stop, TypeOK
  <1>10. ASSUME NEW j \in Jobs, TimePasses(j) PROVE TypeOK'
    <2>1. jobs' \in [Jobs -> JobRow]
      BY <1>10, RowUpdates, TableUpdate DEF TimePasses, TypeOK
    <2> QED BY <1>10, <2>1 DEF TimePasses, TypeOK
  <1>11. CASE Restart
    <2>1. health' \in [failures : 0..FailureCap, degraded : BOOLEAN]
      BY <1>11, CronAssumption DEF Restart, Healthy
    <2>2. restarts' \in 0..MaxRestarts
      BY <1>11, CronAssumption DEF Restart, TypeOK
    <2>3. /\ lockQueue' \in Seq(Runs)
          /\ pc' \in [Activities -> {"idle", "waiting", "ready", "executing", "done"}]
          /\ cur' \in [Activities -> Jobs \cup {NoJob}]
          /\ todo' \in [Passes -> SUBSET Jobs]
          /\ deferred' \in SUBSET Jobs
          /\ forced' \in [Runs -> BOOLEAN]
          /\ orphans' \in SUBSET Jobs
          /\ untimed' \in SUBSET Jobs
      BY <1>11 DEF Restart
    <2> QED BY <1>11, <2>1, <2>2, <2>3 DEF Restart, TypeOK
  <1>12. CASE UNCHANGED vars
    BY <1>12 DEF vars, TypeOK
  <1> QED BY <1>1, <1>2, <1>3, <1>4, <1>5, <1>6, <1>7, <1>8, <1>9, <1>10, <1>11, <1>12
          DEF Next, ApiCall

LEMMA TypeInit == Init => TypeOK
  <1> SUFFICES ASSUME Init PROVE TypeOK
    OBVIOUS
  <1>1. jobs \in [Jobs -> JobRow]
    BY CronAssumption DEF Init
  <1>2. health \in [failures : 0..FailureCap, degraded : BOOLEAN] /\ restarts \in 0..MaxRestarts
    BY CronAssumption DEF Init, Healthy
  <1>3. lockQueue \in Seq(Runs)
    BY DEF Init
  <1> QED BY <1>1, <1>2, <1>3 DEF Init, TypeOK

\* The rows of cron.db satisfy the CHECK constraints of its schema and the
\* engine's volatile state keeps its shape, whatever interleaving of passes,
\* manual runs, API calls and restarts.
THEOREM TypeCorrect == Spec => []TypeOK
  <1> QED BY TypeInit, TypeStep, PTL DEF Spec

-----------------------------------------------------------------------------
(* The lock.                                                               *)

\* The catch-up pass is no client of the lock.
LEMMA CatchupOutside == "catchup" \notin Clients /\ Clients \subseteq Activities
  BY CronAssumption DEF Clients, Activities, Passes

\* releaseLock gives the lock to the head of the queue or frees it.
LEMMA HandOver ==
    ASSUME TypeOK, MutualExclusion, NEW a \in LockHolders,
           NEW to \in {"idle", "done"}, Leave(a, to)
    PROVE  MutualExclusion' /\ Lock!Release(a)
  <1> DEFINE pcs == [pc EXCEPT ![a] = to]
  <1>0. a \in Clients /\ a \in Activities /\ LockHolders = {a} /\ locked
    BY CatchupOutside DEF LockHolders, MutualExclusion
  <1>1. CASE lockQueue = <<>>
    <2>1. locked' = FALSE /\ pc' = pcs /\ lockQueue' = <<>>
      BY <1>0, <1>1 DEF Leave, ReleaseLock
    <2>2. LockHolders' = {}
      BY <1>0, <2>1, CatchupOutside DEF LockHolders, TypeOK
    <2>3. \A r \in Runs : pc'[r] # "waiting"
      BY <1>1, <2>1 DEF MutualExclusion, TypeOK, Activities
    <2>4. MutualExclusion'
      BY <2>1, <2>2, <2>3 DEF MutualExclusion
    <2> QED BY <1>0, <1>1, <2>1, <2>2, <2>4 DEF Lock!Release
  <1>2. CASE lockQueue # <<>>
    <2> DEFINE h == Head(lockQueue)
    <2>1. /\ h \in Runs /\ h = lockQueue[1] /\ 1 \in DOMAIN lockQueue
          /\ Tail(lockQueue) \in Seq(Runs)
          /\ DOMAIN lockQueue = 1..Len(lockQueue) /\ Len(lockQueue) \in Nat
          /\ DOMAIN Tail(lockQueue) = 1..(Len(lockQueue) - 1)
          /\ \A i \in 1..(Len(lockQueue) - 1) : Tail(lockQueue)[i] = lockQueue[i + 1]
      BY <1>2 DEF TypeOK
    <2>2. pc[h] = "waiting" /\ h # a
      BY <1>0, <2>1 DEF MutualExclusion, LockHolders
    <2>3. pc' = [pcs EXCEPT ![h] = "ready"] /\ lockQueue' = Tail(lockQueue) /\ locked'
      BY <1>0, <1>2 DEF Leave, ReleaseLock
    <2>4. h \in Clients /\ h \in Activities
      BY <2>1 DEF Clients, Activities
    <2>5. LockHolders' = {h}
      BY <1>0, <2>2, <2>3, <2>4, CatchupOutside DEF LockHolders, TypeOK
    <2>6. ASSUME NEW r \in Runs
          PROVE  pc'[r] = "waiting" <=> \E i \in DOMAIN lockQueue' : lockQueue'[i] = r
      <3>1. pc'[r] = "waiting" <=> pc[r] = "waiting" /\ r # h
        BY <1>0, <2>2, <2>3, <2>4 DEF TypeOK, LockHolders, Activities
      <3>2. (\E i \in DOMAIN lockQueue' : lockQueue'[i] = r)
               <=> \E k \in DOMAIN lockQueue : lockQueue[k] = r /\ k # 1
        <4>1. ASSUME NEW i \in DOMAIN lockQueue', lockQueue'[i] = r
              PROVE  \E k \in DOMAIN lockQueue : lockQueue[k] = r /\ k # 1
          <5>1. i + 1 \in DOMAIN lockQueue /\ lockQueue[i + 1] = r /\ i + 1 # 1
            BY <2>1, <2>3, <4>1
          <5> QED BY <5>1
        <4>2. ASSUME NEW k \in DOMAIN lockQueue, lockQueue[k] = r, k # 1
              PROVE  \E i \in DOMAIN lockQueue' : lockQueue'[i] = r
          <5>1. k - 1 \in DOMAIN lockQueue' /\ lockQueue'[k - 1] = lockQueue[(k - 1) + 1]
            BY <2>1, <2>3, <4>2
          <5>2. (k - 1) + 1 = k
            BY <2>1, <4>2
          <5> QED BY <4>2, <5>1, <5>2
        <4> QED BY <4>1, <4>2
      <3>3. \A k \in DOMAIN lockQueue : lockQueue[k] = h => k = 1
        BY <2>1 DEF MutualExclusion
      <3> QED BY <2>1, <3>1, <3>2, <3>3 DEF MutualExclusion
    <2>7. ASSUME NEW i \in DOMAIN lockQueue', NEW k \in DOMAIN lockQueue', lockQueue'[i] = lockQueue'[k]
          PROVE  i = k
      <3>1. i + 1 \in DOMAIN lockQueue /\ k + 1 \in DOMAIN lockQueue
            /\ lockQueue[i + 1] = lockQueue[k + 1]
        BY <2>1, <2>3, <2>7
      <3>2. i + 1 = k + 1
        BY <3>1 DEF MutualExclusion
      <3> QED BY <2>1, <2>3, <3>2
    <2>8. MutualExclusion'
      BY <2>3, <2>5, <2>6, <2>7 DEF MutualExclusion
    <2> QED BY <1>0, <1>2, <2>3, <2>5, <2>8 DEF Lock!Release
  <1> QED BY <1>1, <1>2

\* Whatever leaves the holders, the waiters and the lock's own state alone.
LEMMA LockUntouched ==
    ASSUME MutualExclusion, UNCHANGED <<lock, LockHolders>>,
           \A r \in Runs : pc'[r] = "waiting" <=> pc[r] = "waiting"
    PROVE  MutualExclusion' /\ UNCHANGED Lock!lockVars
  BY DEF MutualExclusion, lock, Lock!lockVars

\* Every step is a step of the first-come first-served lock.
LEMMA LockStep ==
    TypeOK /\ MutualExclusion /\ [Next]_vars
        => MutualExclusion' /\ [Lock!Next]_(Lock!lockVars)
  <1> SUFFICES ASSUME TypeOK, MutualExclusion, [Next]_vars
               PROVE  MutualExclusion' /\ [Lock!Next]_(Lock!lockVars)
    OBVIOUS
  <1> USE CatchupOutside DEF engine, snapshots, history
  <1>0. Clients \subseteq Activities /\ Passes \subseteq Activities /\ "tick" \in Clients
        /\ "tick" \notin Runs /\ "catchup" \notin Runs /\ Runs \subseteq Clients
    BY CronAssumption DEF Activities, Clients, Passes
  <1>1. CASE Start
    <2>1. UNCHANGED <<lock, LockHolders>> /\ \A r \in Runs : pc'[r] = "waiting" <=> pc[r] = "waiting"
      BY <1>0, <1>1 DEF Start, LockHolders, TypeOK
    <2> QED BY <2>1, LockUntouched
  <1>2. CASE TimerFires
    <2>1. CASE locked \/ Due = {}
      <3>1. UNCHANGED <<lock, LockHolders>> /\ \A r \in Runs : pc'[r] = "waiting" <=> pc[r] = "waiting"
        BY <1>2, <2>1 DEF TimerFires, LockHolders, lock
      <3> QED BY <3>1, LockUntouched
    <2>2. CASE ~(locked \/ Due = {})
      <3>1. /\ ~locked /\ locked' /\ lockQueue = <<>> /\ lockQueue' = <<>>
            /\ pc' = [pc EXCEPT !["tick"] = "ready"] /\ LockHolders = {}
        BY <1>2, <2>2 DEF TimerFires, MutualExclusion
      <3>2. LockHolders' = {"tick"}
        BY <1>0, <3>1 DEF LockHolders, TypeOK
      <3>3. \A r \in Runs : pc'[r] = "waiting" <=> pc[r] = "waiting"
        BY <1>0, <3>1 DEF TypeOK
      <3>4. MutualExclusion'
        BY <3>1, <3>2, <3>3 DEF MutualExclusion
      <3>5. Lock!Acquire("tick")
        BY <3>1, <3>2 DEF Lock!Acquire, Lock!Waiting
      <3> QED BY <1>0, <3>4, <3>5 DEF Lock!Next
    <2> QED BY <2>1, <2>2
  <1>3. ASSUME NEW a \in Passes, PassStep(a)
        PROVE  MutualExclusion' /\ [Lock!Next]_(Lock!lockVars)
    <2>0. a \in Activities /\ a \notin Runs /\ (a = "catchup" \/ a \in Clients)
      BY <1>0 DEF Passes
    <2>1. CASE BeginScheduled(a) \/ \E outcome \in Outcomes : FinishScheduled(a, outcome)
      <3>1. UNCHANGED <<lock, LockHolders>> /\ \A r \in Runs : pc'[r] = "waiting" <=> pc[r] = "waiting"
        <4>1. UNCHANGED lock
          BY <2>1 DEF BeginScheduled, FinishScheduled
        <4>2. PICK to \in {"ready", "executing"} :
                 pc[a] \in {"ready", "executing"} /\ pc' = [pc EXCEPT ![a] = to]
          BY <2>1 DEF BeginScheduled, FinishScheduled, Executing
        <4> QED BY <1>0, <2>0, <4>1, <4>2 DEF LockHolders, TypeOK
      <3> QED BY <3>1, LockUntouched
    <2>2. CASE PassAborts(a) \/ PassEnds(a)
      <3>1. Leave(a, "idle") /\ pc[a] \in {"ready", "executing"}
        BY <2>2 DEF PassAborts, PassEnds, Executing
      <3>2. CASE a = "catchup"
        <4>1. pc' = [pc EXCEPT !["catchup"] = "idle"] /\ UNCHANGED lock
          BY <3>1, <3>2 DEF Leave
        <4>2. UNCHANGED LockHolders /\ \A r \in Runs : pc'[r] = "waiting" <=> pc[r] = "waiting"
          BY <1>0, <4>1 DEF LockHolders, TypeOK
        <4> QED BY <4>1, <4>2, LockUntouched
      <3>3. CASE a \in Clients
        <4>1. a \in LockHolders
          BY <3>1, <3>3 DEF LockHolders
        <4>2. MutualExclusion' /\ Lock!Release(a)
          BY <3>1, <4>1, HandOver
        <4> QED BY <3>3, <4>2 DEF Lock!Next
      <3> QED BY <2>0, <3>2, <3>3
    <2> QED BY <1>3, <2>1, <2>2 DEF PassStep
  <1>4. ASSUME NEW r \in Runs, RunStep(r)
        PROVE  MutualExclusion' /\ [Lock!Next]_(Lock!lockVars)
    <2>1. CASE RunBegins(r)
      <3>1. UNCHANGED <<lock, LockHolders>> /\ \A q \in Runs : pc'[q] = "waiting" <=> pc[q] = "waiting"
        BY <1>0, <2>1 DEF RunBegins, LockHolders, TypeOK
      <3> QED BY <3>1, LockUntouched
    <2>2. CASE RunRefused(r) \/ \E outcome \in Outcomes : RunEnds(r, outcome)
      <3>1. Leave(r, "done") /\ r \in LockHolders
        BY <1>0, <2>2 DEF RunRefused, RunEnds, Executing, LockHolders
      <3>2. MutualExclusion' /\ Lock!Release(r)
        BY <3>1, HandOver
      <3> QED BY <1>0, <3>2 DEF Lock!Next
    <2> QED BY <1>4, <2>1, <2>2 DEF RunStep
  <1>5. ASSUME NEW r \in Runs, NEW j \in Jobs, NEW force \in BOOLEAN, EnqueueRun(r, j, force)
        PROVE  MutualExclusion' /\ [Lock!Next]_(Lock!lockVars)
    <2>0. pc[r] = "idle" /\ r \in Activities /\ r \in Clients /\ r \notin LockHolders
          /\ \A i \in DOMAIN lockQueue : lockQueue[i] # r
      BY <1>0, <1>5 DEF EnqueueRun, MutualExclusion, LockHolders
    <2>1. CASE ~locked
      <3>1. /\ locked' /\ lockQueue = <<>> /\ lockQueue' = <<>>
            /\ pc' = [pc EXCEPT ![r] = "ready"] /\ LockHolders = {}
        BY <1>5, <2>1 DEF EnqueueRun, MutualExclusion
      <3>2. LockHolders' = {r}
        BY <2>0, <3>1 DEF LockHolders, TypeOK
      <3>3. \A q \in Runs : pc'[q] = "waiting" <=> pc[q] = "waiting"
        BY <1>0, <2>0, <3>1 DEF TypeOK
      <3>4. MutualExclusion'
        BY <3>1, <3>2, <3>3 DEF MutualExclusion
      <3>5. Lock!Acquire(r)
        BY <3>1, <3>2 DEF Lock!Acquire, Lock!Waiting
      <3> QED BY <2>0, <3>4, <3>5 DEF Lock!Next
    <2>2. CASE locked
      <3>1. /\ locked' /\ lockQueue' = Append(lockQueue, r)
            /\ pc' = [pc EXCEPT ![r] = "waiting"] /\ LockHolders # {}
        BY <1>5, <2>2 DEF EnqueueRun, MutualExclusion
      <3>2. /\ lockQueue' \in Seq(Runs) /\ Len(lockQueue) \in Nat
            /\ DOMAIN lockQueue = 1..Len(lockQueue)
            /\ DOMAIN lockQueue' = 1..(Len(lockQueue) + 1)
            /\ lockQueue'[Len(lockQueue) + 1] = r
            /\ \A i \in 1..Len(lockQueue) : lockQueue'[i] = lockQueue[i]
        BY <3>1 DEF TypeOK
      <3>3. UNCHANGED LockHolders
        BY <2>0, <3>1, <1>0 DEF LockHolders, TypeOK
      <3>4. ASSUME NEW q \in Runs
            PROVE  pc'[q] = "waiting" <=> \E i \in DOMAIN lockQueue' : lockQueue'[i] = q
        <4>1. pc'[q] = "waiting" <=> q = r \/ pc[q] = "waiting"
          BY <2>0, <3>1, <1>0 DEF TypeOK
        <4>2. (\E i \in DOMAIN lockQueue' : lockQueue'[i] = q)
                 <=> q = r \/ \E i \in DOMAIN lockQueue : lockQueue[i] = q
          BY <3>2
        <4> QED BY <4>1, <4>2 DEF MutualExclusion
      <3>5. \A i, k \in DOMAIN lockQueue' : lockQueue'[i] = lockQueue'[k] => i = k
        BY <2>0, <3>2 DEF MutualExclusion
      <3>6. MutualExclusion'
        BY <3>1, <3>3, <3>4, <3>5 DEF MutualExclusion
      <3>7. Lock!Acquire(r)
        BY <2>0, <3>1, <3>3 DEF Lock!Acquire, Lock!Waiting
      <3> QED BY <2>0, <3>6, <3>7 DEF Lock!Next
    <2> QED BY <2>1, <2>2 DEF TypeOK
  <1>6. CASE \/ \E j \in Jobs : RemoveJob(j) \/ TimePasses(j)
             \/ \E j \in Jobs, enabled \in BOOLEAN :
                   \/ \E sched \in Schedules : AddJob(j, enabled, sched)
                   \/ \E sched \in Schedules \cup {"keep"} : UpdateJob(j, enabled, sched)
             \/ Stop
             \/ UNCHANGED vars
    <2>1. UNCHANGED <<lock, pc>>
      BY <1>6 DEF RemoveJob, TimePasses, AddJob, UpdateJob, Stop, vars
    <2> QED BY <2>1, LockUntouched DEF LockHolders
  <1>7. CASE Restart
    <2>1. locked' = FALSE /\ lockQueue' = <<>> /\ pc' = [a \in Activities |-> "idle"]
      BY <1>7 DEF Restart
    <2>2. LockHolders' = {} /\ \A r \in Runs : pc'[r] # "waiting"
      BY <1>0, <2>1 DEF LockHolders
    <2>3. MutualExclusion'
      BY <2>1, <2>2 DEF MutualExclusion
    <2> QED BY <2>1, <2>2, <2>3 DEF Lock!Next, Lock!Reset
  <1> QED BY <1>1, <1>2, <1>3, <1>4, <1>5, <1>6, <1>7 DEF Next, ApiCall

LEMMA LockInit == Init => MutualExclusion /\ Lock!Init
  <1> SUFFICES ASSUME Init PROVE MutualExclusion /\ Lock!Init
    OBVIOUS
  <1>1. locked = FALSE /\ lockQueue = <<>> /\ \A a \in Activities : pc[a] = "idle"
    BY DEF Init
  <1>2. LockHolders = {} /\ \A r \in Runs : pc[r] # "waiting"
    BY <1>1, CatchupOutside DEF LockHolders, Activities
  <1> QED BY <1>1, <1>2 DEF MutualExclusion, Lock!Init

\* The promise chain of timer.ts is a mutex, for any number of requests.
THEOREM LockIsExclusive == Spec => []MutualExclusion
  <1> QED BY TypeInit, TypeStep, LockInit, LockStep, PTL DEF Spec

\* The engine implements the first-come first-served lock: requests enter in
\* the order in which they called enqueueRun, and nobody enters twice.
THEOREM EngineRefinesLock == Spec => ImplementsFifoLock
  <1>1. Init => Lock!Init
    BY LockInit
  <1>2. TypeOK /\ MutualExclusion /\ [Next]_vars => [Lock!Next]_(Lock!lockVars)
    BY LockStep
  <1> QED BY <1>1, <1>2, TypeCorrect, LockIsExclusive, PTL DEF Spec, Lock!Spec, ImplementsFifoLock

-----------------------------------------------------------------------------
(* The degraded flag.                                                      *)

\* Every step keeps the flag equal to the comparison: only a finished
\* scheduled execution and the death of the process touch the counter.
LEMMA DegradedStep ==
    TypeOK /\ DegradedIffThreshold /\ [Next]_vars => DegradedIffThreshold'
  <1> SUFFICES ASSUME TypeOK, DegradedIffThreshold, [Next]_vars
               PROVE  DegradedIffThreshold'
    OBVIOUS
  <1> USE DEF engine
  <1>1. ASSUME NEW a \in Passes, NEW outcome \in Outcomes, FinishScheduled(a, outcome)
        PROVE  DegradedIffThreshold'
    <2>1. health' = Tallied(jobs[cur[a]], outcome)
      BY <1>1 DEF FinishScheduled
    <2>2. Tallied(jobs[cur[a]], outcome).degraded
             <=> Tallied(jobs[cur[a]], outcome).failures >= Threshold
      BY TalliedHealth DEF TypeOK
    <2> QED BY <2>1, <2>2 DEF DegradedIffThreshold
  <1>2. CASE Restart
    <2>1. health' = Healthy
      BY <1>2 DEF Restart
    <2> QED BY <2>1, CronAssumption DEF Healthy, DegradedIffThreshold
  <1>3. CASE UNCHANGED health
    BY <1>3 DEF DegradedIffThreshold
  <1>4. UNCHANGED health \/ Restart
        \/ \E a \in Passes, outcome \in Outcomes : FinishScheduled(a, outcome)
    <2>1. ASSUME NEW a \in Passes, PassStep(a)
          PROVE  UNCHANGED health \/ \E outcome \in Outcomes : FinishScheduled(a, outcome)
      BY <2>1 DEF PassStep, BeginScheduled, PassAborts, PassEnds
    <2>2. ASSUME NEW r \in Runs, RunStep(r) PROVE UNCHANGED health
      BY <2>2 DEF RunStep, RunRefused, RunBegins, RunEnds
    <2>3. ASSUME ApiCall PROVE UNCHANGED health
      BY <2>3 DEF ApiCall, EnqueueRun, RemoveJob, AddJob, UpdateJob, Stop
    <2> QED BY <2>1, <2>2, <2>3 DEF Next, Start, TimerFires, TimePasses, vars
  <1> QED BY <1>1, <1>2, <1>3, <1>4

\* The engine is reported degraded exactly from the Threshold-th execution in
\* a row that was not ok, for every threshold and every mix of results.
THEOREM DegradedIsThreshold == Spec => []DegradedIffThreshold
  <1>1. Init => DegradedIffThreshold
    BY CronAssumption DEF Init, Healthy, DegradedIffThreshold
  <1> QED BY <1>1, DegradedStep, TypeCorrect, PTL DEF Spec

-----------------------------------------------------------------------------
(* Rows in state running.                                                  *)

\* An activity that leaves stops executing; no other activity does.
LEMMA LeaveExecuting ==
    ASSUME TypeOK, MutualExclusion, NEW a \in Activities, NEW to \in {"idle", "done"},
           Leave(a, to), NEW b \in Activities, b # a, Executing(b)
    PROVE  Executing(b)'
  <1> DEFINE pcs == [pc EXCEPT ![a] = to]
  <1>1. CASE pc' = pcs
    BY <1>1 DEF Executing, TypeOK
  <1>2. CASE lockQueue # <<>> /\ pc' = [pcs EXCEPT ![Head(lockQueue)] = "ready"]
    <2>1. Head(lockQueue) = lockQueue[1] /\ 1 \in DOMAIN lockQueue /\ lockQueue[1] \in Runs
      BY <1>2 DEF TypeOK
    <2>2. pc[Head(lockQueue)] = "waiting"
      BY <2>1 DEF MutualExclusion
    <2>3. b # Head(lockQueue)
      BY <2>2 DEF Executing
    <2> QED BY <1>2, <2>3 DEF Executing, TypeOK
  <1> QED BY <1>1, <1>2 DEF Leave, ReleaseLock

\* An execution ends: the row it claimed is released or gone.
LEMMA EndReleasesRow ==
    ASSUME TypeOK, RunningIsOwned, NEW a \in Activities,
           \A b \in Activities \ {a} : Executing(b) => Executing(b)' /\ cur'[b] = cur[b],
           orphans' = orphans,
           \A j \in Jobs : Live(j)' /\ jobs'[j].state = "running" =>
               j # cur[a] /\ Live(j) /\ jobs[j].state = "running"
    PROVE  RunningIsOwned'
  BY DEF RunningIsOwned, Executing, Live

\* A step that claims no row, touches no execution and revives no job.
LEMMA RowsUntouched ==
    ASSUME RunningIsOwned, orphans' = orphans,
           \A b \in Activities : Executing(b) => Executing(b)' /\ cur'[b] = cur[b],
           \A j \in Jobs : Live(j)' /\ jobs'[j].state = "running" =>
               Live(j) /\ jobs[j].state = "running"
    PROVE  RunningIsOwned'
  BY DEF RunningIsOwned

\* Catch-up belongs to start(): a process that has not started has none.
NoEarlyCatchup == phase = "loaded" => pc["catchup"] = "idle"

LEMMA EarlyStep == TypeOK /\ MutualExclusion /\ NoEarlyCatchup /\ [Next]_vars => NoEarlyCatchup'
  <1> SUFFICES ASSUME TypeOK, MutualExclusion, NoEarlyCatchup, [Next]_vars
               PROVE  NoEarlyCatchup'
    OBVIOUS
  <1> USE DEF NoEarlyCatchup, engine
  <1>0. /\ "catchup" \in Activities /\ "catchup" \in Passes /\ "catchup" \notin Clients
        /\ "catchup" \notin Runs
    BY CatchupOutside DEF Activities, Passes, Clients
  <1>1. CASE Start \/ Restart
    BY <1>0, <1>1 DEF Start, Restart
  <1>2. ASSUME NEW a \in Activities, NEW to \in {"idle", "done"}, Leave(a, to), phase' = phase,
               pc[a] # "idle"
        PROVE  NoEarlyCatchup'
    <2>1. lockQueue # <<>> => Head(lockQueue) \in Runs
      BY HeadTailProperties DEF TypeOK
    <2> QED BY <1>0, <1>2, <2>1 DEF Leave, ReleaseLock, TypeOK
  <1>3. ASSUME NEW a \in Activities, NEW to \in {"waiting", "ready", "executing"},
               pc' = [pc EXCEPT ![a] = to], phase' = phase,
               a = "catchup" => pc[a] # "idle"
        PROVE  NoEarlyCatchup'
    BY <1>0, <1>3 DEF TypeOK
  <1>4. ASSUME NEW a \in Passes, PassStep(a) PROVE NoEarlyCatchup'
    <2>1. a \in Activities
      BY DEF Activities
    <2>2. CASE BeginScheduled(a)
      BY <1>3, <2>1, <2>2 DEF BeginScheduled
    <2>3. ASSUME NEW outcome \in Outcomes, FinishScheduled(a, outcome) PROVE NoEarlyCatchup'
      BY <1>3, <2>1, <2>3 DEF FinishScheduled, Executing
    <2>4. CASE PassAborts(a) \/ PassEnds(a)
      BY <1>2, <2>1, <2>4 DEF PassAborts, PassEnds, Executing
    <2> QED BY <1>4, <2>2, <2>3, <2>4 DEF PassStep
  <1>5. ASSUME NEW r \in Runs, RunStep(r) PROVE NoEarlyCatchup'
    <2>1. r \in Activities /\ r # "catchup"
      BY <1>0 DEF Activities
    <2>2. CASE RunBegins(r)
      BY <1>3, <2>1, <2>2 DEF RunBegins
    <2>3. CASE RunRefused(r) \/ \E outcome \in Outcomes : RunEnds(r, outcome)
      BY <1>2, <2>1, <2>3 DEF RunRefused, RunEnds, Executing
    <2> QED BY <1>5, <2>2, <2>3 DEF RunStep
  <1>6. CASE TimerFires
    BY <1>0, <1>6 DEF TimerFires, TypeOK
  <1>7. ASSUME ApiCall PROVE NoEarlyCatchup'
    <2>1. ASSUME NEW r \in Runs, NEW j \in Jobs, NEW force \in BOOLEAN, EnqueueRun(r, j, force)
          PROVE  NoEarlyCatchup'
      BY <1>0, <2>1 DEF EnqueueRun, TypeOK
    <2> QED BY <1>7, <2>1 DEF ApiCall, RemoveJob, AddJob, UpdateJob, Stop
  <1>8. CASE (\E j \in Jobs : TimePasses(j)) \/ UNCHANGED vars
    BY <1>8 DEF TimePasses, vars
  <1> QED BY <1>1, <1>4, <1>5, <1>6, <1>7, <1>8 DEF Next

\* Every step keeps a running row owned.
LEMMA RunningStep ==
    TypeOK /\ MutualExclusion /\ NoEarlyCatchup /\ RunningIsOwned /\ [Next]_vars
        => RunningIsOwned'
  <1> SUFFICES ASSUME TypeOK, MutualExclusion, NoEarlyCatchup, RunningIsOwned, [Next]_vars
               PROVE  RunningIsOwned'
    OBVIOUS
  <1> USE DEF history, snapshots
  <1>0. Passes \subseteq Activities /\ Runs \subseteq Activities
    BY DEF Activities
  <1>1. ASSUME NEW a \in Passes, PassStep(a) PROVE RunningIsOwned'
    <2>0. a \in Activities
      BY <1>0
    <2>1. CASE BeginScheduled(a)
      <3>1. PICK j \in todo[a] :
               /\ cur' = [cur EXCEPT ![a] = j]
               /\ jobs' = IF Live(j) THEN [jobs EXCEPT ![j].state = "running"] ELSE jobs
        BY <2>1 DEF BeginScheduled
      <3>2. pc[a] = "ready" /\ pc' = [pc EXCEPT ![a] = "executing"] /\ orphans' = orphans
        BY <2>1 DEF BeginScheduled
      <3>3. Executing(a)' /\ cur'[a] = j
        BY <2>0, <3>1, <3>2 DEF Executing, TypeOK
      <3>4. \A b \in Activities : Executing(b) => Executing(b)' /\ cur'[b] = cur[b]
        BY <2>0, <3>1, <3>2 DEF Executing, TypeOK
      <3>5. \A k \in Jobs : k # j => jobs'[k] = jobs[k]
        BY <3>1 DEF TypeOK
      <3> QED BY <2>0, <3>2, <3>3, <3>4, <3>5 DEF RunningIsOwned, Live
    <2>2. ASSUME NEW outcome \in Outcomes, FinishScheduled(a, outcome) PROVE RunningIsOwned'
      <3>1. /\ jobs' = [jobs EXCEPT ![cur[a]] = Recorded(@, outcome, "failed")]
            /\ orphans' = orphans /\ Live(cur[a])
            /\ pc' = [pc EXCEPT ![a] = "ready"] /\ cur' = [cur EXCEPT ![a] = NoJob]
        BY <2>2 DEF FinishScheduled
      <3>2. \A b \in Activities \ {a} : Executing(b) => Executing(b)' /\ cur'[b] = cur[b]
        BY <3>1 DEF Executing, TypeOK
      <3>3. \A j \in Jobs : j # cur[a] => jobs'[j] = jobs[j]
        BY <3>1 DEF TypeOK
      <3>4. cur[a] \in Jobs => jobs'[cur[a]].state # "running"
        BY <3>1, RecordedRow DEF TypeOK
      <3> QED BY <2>0, <3>1, <3>2, <3>3, <3>4, EndReleasesRow DEF Live
    <2>3. CASE PassAborts(a)
      <3>1. /\ ~Live(cur[a]) /\ Leave(a, "idle") /\ cur' = [cur EXCEPT ![a] = NoJob]
            /\ jobs' = jobs /\ orphans' = orphans
        BY <2>3 DEF PassAborts
      <3>2. \A b \in Activities \ {a} : Executing(b) => Executing(b)' /\ cur'[b] = cur[b]
        BY <2>0, <3>1, LeaveExecuting DEF TypeOK
      <3> QED BY <2>0, <3>1, <3>2, EndReleasesRow DEF Live
    <2>4. CASE PassEnds(a)
      <3>1. /\ pc[a] = "ready" /\ Leave(a, "idle") /\ cur' = cur /\ orphans' = orphans
        BY <2>4 DEF PassEnds
      <3>2. \A b \in Activities : Executing(b) => Executing(b)' /\ cur'[b] = cur[b]
        BY <2>0, <3>1, LeaveExecuting DEF Executing
      <3>3. \A j \in Jobs : jobs'[j] = jobs[j] \/ jobs'[j] = [jobs[j] EXCEPT !.next = "future"]
        <4>1. CASE jobs' = jobs
          BY <4>1
        <4>2. CASE jobs' = [j \in Jobs |-> IF j \in deferred /\ Live(j)
                                         THEN [jobs[j] EXCEPT !.next = "future"]
                                         ELSE jobs[j]]
          BY <4>2
        <4> QED BY <2>4, <4>1, <4>2 DEF PassEnds
      <3>4. \A j \in Jobs : jobs'[j].state = jobs[j].state /\ jobs'[j].life = jobs[j].life
        <4>1. \A j \in Jobs : /\ [jobs[j] EXCEPT !.next = "future"].state = jobs[j].state
                            /\ [jobs[j] EXCEPT !.next = "future"].life = jobs[j].life
          <5>1. \A row \in JobRow : /\ [row EXCEPT !.next = "future"].state = row.state
                                   /\ [row EXCEPT !.next = "future"].life = row.life
            BY DEF JobRow
          <5> QED BY <5>1 DEF TypeOK
        <4> QED BY <3>3, <4>1
      <3> QED BY <3>1, <3>2, <3>4, RowsUntouched DEF Live
    <2> QED BY <1>1, <2>1, <2>2, <2>3, <2>4 DEF PassStep
  <1>2. ASSUME NEW r \in Runs, RunStep(r) PROVE RunningIsOwned'
    <2>0. r \in Activities
      BY <1>0
    <2>1. CASE RunRefused(r)
      <3>1. /\ pc[r] = "ready" /\ Leave(r, "done") /\ cur' = [cur EXCEPT ![r] = NoJob]
            /\ jobs' = jobs /\ orphans' = orphans
        BY <2>1 DEF RunRefused, Forget
      <3>2. \A b \in Activities : Executing(b) => Executing(b)' /\ cur'[b] = cur[b]
        BY <2>0, <3>1, LeaveExecuting DEF Executing, TypeOK
      <3> QED BY <3>1, <3>2, RowsUntouched DEF Live
    <2>2. CASE RunBegins(r)
      <3>1. /\ pc[r] = "ready" /\ ~Refused(r) /\ cur' = cur /\ orphans' = orphans
            /\ pc' = [pc EXCEPT ![r] = "executing"]
            /\ jobs' = [jobs EXCEPT ![cur[r]].state = "running"]
        BY <2>2 DEF RunBegins
      <3>2. Executing(r)' /\ \A b \in Activities : Executing(b) => Executing(b)'
        BY <2>0, <3>1 DEF Executing, TypeOK
      <3>3. \A j \in Jobs : j # cur[r] => jobs'[j] = jobs[j]
        BY <3>1 DEF TypeOK
      <3> QED BY <2>0, <3>1, <3>2, <3>3 DEF RunningIsOwned, Live
    <2>3. ASSUME NEW outcome \in Outcomes, RunEnds(r, outcome) PROVE RunningIsOwned'
      <3>1. /\ jobs' = IF Live(cur[r])
                       THEN [jobs EXCEPT ![cur[r]] = Recorded(@, outcome, "idle")] ELSE jobs
            /\ Leave(r, "done") /\ cur' = [cur EXCEPT ![r] = NoJob] /\ orphans' = orphans
        BY <2>3 DEF RunEnds, Forget
      <3>2. \A b \in Activities \ {r} : Executing(b) => Executing(b)' /\ cur'[b] = cur[b]
        BY <2>0, <3>1, LeaveExecuting DEF TypeOK
      <3>3. \A j \in Jobs : j # cur[r] => jobs'[j] = jobs[j]
        BY <3>1 DEF TypeOK
      <3>4. cur[r] \in Jobs /\ Live(cur[r]) => jobs'[cur[r]].state # "running"
        BY <3>1, RecordedRow DEF TypeOK
      <3>5. ~Live(cur[r]) => jobs' = jobs
        BY <3>1
      <3> QED BY <2>0, <3>1, <3>2, <3>3, <3>4, <3>5, EndReleasesRow DEF Live
    <2> QED BY <1>2, <2>1, <2>2, <2>3 DEF RunStep
  <1>3. CASE Restart
    BY <1>3 DEF Restart, RunningIsOwned, Live
  <1>4. CASE ApiCall \/ Start \/ TimerFires \/ (\E j \in Jobs : TimePasses(j)) \/ UNCHANGED vars
    <2>1. orphans' = orphans
      BY <1>4 DEF ApiCall, EnqueueRun, RemoveJob, AddJob, UpdateJob, Stop, Start, TimerFires, TimePasses, vars
    <2>2. \A b \in Activities : Executing(b) => Executing(b)' /\ cur'[b] = cur[b]
      <3>1. CASE UNCHANGED <<pc, cur>>
        BY <3>1 DEF Executing
      <3>2. ASSUME NEW r \in Runs, NEW j \in Jobs, NEW force \in BOOLEAN, EnqueueRun(r, j, force)
            PROVE  \A b \in Activities : Executing(b) => Executing(b)' /\ cur'[b] = cur[b]
        BY <3>2 DEF EnqueueRun, Executing, TypeOK
      <3>3. CASE Start
        BY <3>3 DEF Start, Executing, TypeOK, NoEarlyCatchup
      <3>4. CASE TimerFires
        <4>1. ~locked => "tick" \in Clients /\ LockHolders = {}
          BY DEF MutualExclusion, Clients
        <4>2. ~locked => pc["tick"] # "executing"
          BY <4>1 DEF LockHolders
        <4> QED BY <3>4, <4>2 DEF TimerFires, Executing, TypeOK
      <3> QED BY <1>4, <3>1, <3>2, <3>3, <3>4
               DEF ApiCall, RemoveJob, AddJob, UpdateJob, Stop, TimePasses, vars
    <2>3. \A j \in Jobs : Live(j)' /\ jobs'[j].state = "running" =>
               Live(j) /\ jobs[j].state = "running"
      <3>1. CASE jobs' = jobs
        BY <3>1 DEF Live
      <3>2. ASSUME NEW j \in Jobs, NEW row \in JobRow, jobs' = [jobs EXCEPT ![j] = row],
                   row.life = "live" /\ row.state = "running"
                      => jobs[j].life = "live" /\ jobs[j].state = "running"
            PROVE  \A k \in Jobs : Live(k)' /\ jobs'[k].state = "running" =>
                      Live(k) /\ jobs[k].state = "running"
        BY <3>2 DEF Live, TypeOK
      <3>3. ASSUME NEW j \in Jobs, RemoveJob(j) PROVE \A k \in Jobs :
               Live(k)' /\ jobs'[k].state = "running" => Live(k) /\ jobs[k].state = "running"
        <4>1. [jobs[j] EXCEPT !.life = "removed"].life # "live"
          BY DEF TypeOK, JobRow
        <4> QED BY <3>2, <3>3, <4>1, RowUpdates DEF RemoveJob, TypeOK
      <3>4. ASSUME NEW j \in Jobs, TimePasses(j) PROVE \A k \in Jobs :
               Live(k)' /\ jobs'[k].state = "running" => Live(k) /\ jobs[k].state = "running"
        <4>1. Overdue(jobs[j]).life = jobs[j].life /\ Overdue(jobs[j]).state = jobs[j].state
          BY DEF Overdue, TypeOK, JobRow
        <4> QED BY <3>2, <3>4, <4>1, RowUpdates DEF TimePasses, TypeOK
      <3>5. ASSUME NEW j \in Jobs, NEW enabled \in BOOLEAN, NEW sched \in Schedules,
                   AddJob(j, enabled, sched)
            PROVE  \A k \in Jobs :
               Live(k)' /\ jobs'[k].state = "running" => Live(k) /\ jobs[k].state = "running"
        BY <3>5 DEF AddJob, Live, TypeOK
      <3>6. ASSUME NEW j \in Jobs, NEW enabled \in BOOLEAN,
                   NEW sched \in Schedules \cup {"keep"}, UpdateJob(j, enabled, sched)
            PROVE  \A k \in Jobs :
               Live(k)' /\ jobs'[k].state = "running" => Live(k) /\ jobs[k].state = "running"
        <4>1. Patched(jobs[j], enabled, sched).life = jobs[j].life
              /\ Patched(jobs[j], enabled, sched).state = jobs[j].state
          BY DEF Patched, TypeOK, JobRow
        <4>2. Patched(jobs[j], enabled, sched) \in JobRow
          BY RowUpdates, CronAssumption DEF TypeOK
        <4> QED BY <3>2, <3>6, <4>1, <4>2 DEF UpdateJob
      <3> QED BY <1>4, <3>1, <3>3, <3>4, <3>5, <3>6
               DEF ApiCall, EnqueueRun, Stop, Start, TimerFires, vars
    <2> QED BY <2>1, <2>2, <2>3, RowsUntouched
  <1> QED BY <1>1, <1>2, <1>3, <1>4 DEF Next

\* A row says running only while somebody executes the job, or because a
\* death of the process cut its execution short.
THEOREM RunningRowsAreOwned == Spec => []RunningIsOwned
  <1>1. Init => RunningIsOwned
    <2>1. Init => jobs \in [Jobs -> {row \in JobRow : row.state # "running"}]
      BY CronAssumption DEF Init
    <2> QED BY <2>1 DEF RunningIsOwned
  <1>2. Init => NoEarlyCatchup
    BY DEF Init, NoEarlyCatchup, Activities, Passes
  <1> QED BY <1>1, <1>2, EarlyStep, RunningStep, TypeCorrect, LockIsExclusive, PTL DEF Spec

-----------------------------------------------------------------------------
(* The timer and the schedule.                                             *)

\* What a pass has still to execute, and the job it executes now.
Remaining(a) == {j \in Jobs : j \in todo[a] \/ (Executing(a) /\ cur[a] = j)}

\* A pass that comes to its end, where it arms the timer: no job of its
\* snapshot has been removed, which would abort it.
GoesThrough(a) == pc[a] # "idle" /\ \A j \in Remaining(a) : Live(j)

NeedsTimer(j) == Live(j) /\ jobs[j].enabled /\ jobs[j].next # "none"

\* An unarmed timer misses nothing, or a pass that goes through will arm it. A
\* pass that will abort is no such pass: removing the job has armed the timer,
\* and while the pass holds the lock a timer that fires is armed again.
CoverInv ==
    /\ armed => phase = "started"
    /\ phase = "started" /\ ~armed =>
          \/ \A j \in Jobs : NeedsTimer(j) => j \in untimed
          \/ \E a \in Passes : GoesThrough(a)

\* A job of a snapshot had a next run. It loses it only to a schedule without
\* one, so that the end of its execution gives it none either.
WasDue(row) ==
    row.life # "unborn" /\ (row.next = "none" => row.sched \in {"ended", "invalid"})

SnapshotInv ==
    \A a \in Passes :
        /\ Executing(a) => cur[a] \in Jobs
        /\ \A j \in Remaining(a) : WasDue(jobs[j])

\* No update of a row takes that away.
LEMMA WasDueRows ==
    ASSUME NEW row \in JobRow, WasDue(row)
    PROVE  /\ WasDue([row EXCEPT !.state = "running"])
           /\ WasDue([row EXCEPT !.next = "future"])
           /\ WasDue([row EXCEPT !.life = "removed"])
           /\ WasDue(Overdue(row))
           /\ \A outcome \in Outcomes, onError \in {"idle", "failed"} :
                 WasDue(Recorded(row, outcome, onError))
           /\ \A enabled \in BOOLEAN, sched \in ScheduleKinds \cup {"keep"} :
                 WasDue(Patched(row, enabled, sched))
  <1>1. ASSUME NEW outcome \in Outcomes, NEW onError \in {"idle", "failed"}
        PROVE  WasDue(Recorded(row, outcome, onError))
    BY DEF Recorded, Rescheduled, ParseThrows, JobRow, ScheduleKinds, WasDue
  <1>2. ASSUME NEW enabled \in BOOLEAN, NEW sched \in ScheduleKinds \cup {"keep"}
        PROVE  WasDue(Patched(row, enabled, sched))
    <2>1. sched = "invalid" => NextOf(row, sched) = row.next
      BY DEF NextOf
    <2>2. sched \in {"recurring", "once"} => NextOf(row, sched) = "future"
      BY DEF NextOf
    <2> QED BY <2>1, <2>2 DEF Patched, JobRow, WasDue, ScheduleKinds
  <1> QED BY <1>1, <1>2 DEF Overdue, JobRow, WasDue

\* The end of an execution of such a job schedules nothing new.
LEMMA RecordedNext ==
    ASSUME NEW row \in JobRow, NEW outcome \in Outcomes, NEW onError \in {"idle", "failed"}
    PROVE  LET done == Recorded(row, outcome, onError)
           IN  /\ done.enabled = row.enabled /\ done.life = row.life
               /\ WasDue(row) /\ done.next # "none" => row.next # "none"
  BY DEF Recorded, Rescheduled, ParseThrows, JobRow, ScheduleKinds, WasDue

\* An activity that leaves does not move a pass, but itself.
LEMMA LeavePasses ==
    ASSUME TypeOK, NEW a \in Activities, NEW to \in {"idle", "done"}, Leave(a, to),
           NEW p \in Passes
    PROVE  pc'[p] = IF p = a THEN to ELSE pc[p]
  <1>1. p \in Activities /\ p \notin Runs
    BY CronAssumption DEF Activities, Passes
  <1>2. lockQueue # <<>> => Head(lockQueue) \in Runs
    BY HeadTailProperties DEF TypeOK
  <1> QED BY <1>1, <1>2 DEF Leave, ReleaseLock, TypeOK

LEMMA SnapshotKept ==
    ASSUME SnapshotInv,
           \A a \in Passes : Remaining(a)' \subseteq Remaining(a) /\ (Executing(a)' => cur'[a] \in Jobs),
           \A j \in Jobs : WasDue(jobs[j]) => WasDue(jobs'[j])
    PROVE  SnapshotInv'
  BY DEF SnapshotInv, Remaining

\* A pass whose activity and snapshot are left alone.
LEMMA PassUntouched ==
    ASSUME SnapshotInv, NEW a \in Passes, pc'[a] = pc[a], cur'[a] = cur[a], todo'[a] = todo[a]
    PROVE  Remaining(a)' = Remaining(a) /\ (Executing(a)' => cur'[a] \in Jobs)
  BY DEF SnapshotInv, Remaining, Executing

LEMMA CoverKept ==
    ASSUME CoverInv, phase' = phase, armed' = armed, untimed \subseteq untimed',
           \A j \in Jobs : NeedsTimer(j)' => NeedsTimer(j) \/ j \in untimed',
           \A a \in Passes : GoesThrough(a) => GoesThrough(a)'
    PROVE  CoverInv'
  BY DEF CoverInv

LEMMA ArmCovers == ASSUME ArmTimer PROVE CoverInv'
  BY DEF ArmTimer, CoverInv, NeedsTimer, Live

\* What the steps of the passes do to the passes and to the schedule.
LEMMA PassKeepsCover ==
    ASSUME TypeOK, SnapshotInv, CoverInv, NEW a \in Passes, PassStep(a)
    PROVE  SnapshotInv' /\ CoverInv'
  <1>0. a \in Activities
    BY DEF Activities
  <1> USE DEF engine, lock, history
  <1>1. CASE BeginScheduled(a)
    <2>1. PICK j \in todo[a] :
             /\ todo' = [todo EXCEPT ![a] = @ \ {j}]
             /\ cur' = [cur EXCEPT ![a] = j]
             /\ jobs' = IF Live(j) THEN [jobs EXCEPT ![j].state = "running"] ELSE jobs
      BY <1>1 DEF BeginScheduled
    <2>2. /\ pc[a] = "ready" /\ pc' = [pc EXCEPT ![a] = "executing"]
          /\ phase' = phase /\ armed' = armed /\ untimed' = untimed
      BY <1>1 DEF BeginScheduled
    <2>3. j \in Jobs /\ jobs[j] \in JobRow /\ j \in Remaining(a) /\ cur'[a] = j
      BY <1>0, <2>1 DEF TypeOK, Remaining
    <2>4. \A p \in Passes : Remaining(p)' \subseteq Remaining(p) /\ (Executing(p)' => cur'[p] \in Jobs)
      <3>1. \A k \in Remaining(a)' : k \in Remaining(a)
        BY <1>0, <2>1, <2>2, <2>3 DEF Remaining, Executing, TypeOK
      <3>2. ASSUME NEW p \in Passes, p # a
            PROVE  Remaining(p)' \subseteq Remaining(p) /\ (Executing(p)' => cur'[p] \in Jobs)
        <4>1. pc'[p] = pc[p] /\ cur'[p] = cur[p] /\ todo'[p] = todo[p]
          BY <2>1, <2>2, <3>2 DEF TypeOK, Activities
        <4> QED BY <4>1, PassUntouched
      <3> QED BY <2>3, <3>1, <3>2
    <2>5. \A k \in Jobs : /\ jobs'[k].life = jobs[k].life /\ jobs'[k].next = jobs[k].next
                          /\ jobs'[k].enabled = jobs[k].enabled /\ jobs'[k].sched = jobs[k].sched
      <3>1. ASSUME NEW k \in Jobs
            PROVE jobs'[k] = jobs[k] \/ jobs'[k] = [jobs[k] EXCEPT !.state = "running"]
        BY <2>1, <2>3 DEF TypeOK
      <3>2. ASSUME NEW row \in JobRow
            PROVE  LET r == [row EXCEPT !.state = "running"]
                   IN  r.life = row.life /\ r.next = row.next /\ r.enabled = row.enabled /\ r.sched = row.sched
        BY DEF JobRow
      <3> QED BY <3>1, <3>2 DEF TypeOK
    <2>6. SnapshotInv'
      BY <2>4, <2>5, SnapshotKept DEF WasDue
    <2>7. \A p \in Passes : GoesThrough(p) => GoesThrough(p)'
      <3>1. \A p \in Passes : pc[p] # "idle" => pc'[p] # "idle"
        BY <1>0, <2>2 DEF TypeOK, Activities
      <3>2. \A k \in Jobs : Live(k) => Live(k)'
        BY <2>5 DEF Live
      <3> QED BY <2>4, <3>1, <3>2 DEF GoesThrough, Remaining
    <2> QED BY <2>2, <2>5, <2>6, <2>7, CoverKept DEF NeedsTimer, Live
  <1>2. ASSUME NEW outcome \in Outcomes, FinishScheduled(a, outcome)
        PROVE  SnapshotInv' /\ CoverInv'
    <2>1. /\ Executing(a) /\ todo' = todo
          /\ jobs' = [jobs EXCEPT ![cur[a]] = Recorded(@, outcome, "failed")]
          /\ pc' = [pc EXCEPT ![a] = "ready"] /\ cur' = [cur EXCEPT ![a] = NoJob]
          /\ phase' = phase /\ armed' = armed /\ untimed' = untimed
      BY <1>2 DEF FinishScheduled
    <2> DEFINE j == cur[a]
    <2>2. j \in Jobs /\ jobs[j] \in JobRow /\ j \in Remaining(a) /\ WasDue(jobs[j])
      BY <2>1 DEF SnapshotInv, Remaining, TypeOK
    <2>3. jobs'[j] = Recorded(jobs[j], outcome, "failed") /\ \A k \in Jobs : k # j => jobs'[k] = jobs[k]
      BY <2>1, <2>2 DEF TypeOK
    <2>4. \A p \in Passes : Remaining(p)' \subseteq Remaining(p) /\ (Executing(p)' => cur'[p] \in Jobs)
      <3>1. Remaining(a)' \subseteq Remaining(a) /\ ~Executing(a)'
        BY <1>0, <2>1 DEF Remaining, Executing, TypeOK
      <3>2. ASSUME NEW p \in Passes, p # a
            PROVE  Remaining(p)' \subseteq Remaining(p) /\ (Executing(p)' => cur'[p] \in Jobs)
        <4>1. pc'[p] = pc[p] /\ cur'[p] = cur[p] /\ todo'[p] = todo[p]
          BY <2>1, <3>2 DEF TypeOK, Activities
        <4> QED BY <4>1, PassUntouched
      <3> QED BY <3>1, <3>2
    <2>5. SnapshotInv'
      <3>1. WasDue(jobs'[j])
        BY <2>2, <2>3, WasDueRows
      <3> QED BY <2>3, <2>4, <3>1, SnapshotKept
    <2>6. /\ jobs'[j].life = jobs[j].life /\ jobs'[j].enabled = jobs[j].enabled
          /\ jobs'[j].next # "none" => jobs[j].next # "none"
      BY <2>2, <2>3, RecordedNext
    <2>7. \A p \in Passes : GoesThrough(p) => GoesThrough(p)'
      <3>1. \A p \in Passes : pc[p] # "idle" => pc'[p] # "idle"
        BY <1>0, <2>1 DEF TypeOK, Activities
      <3>2. \A k \in Jobs : Live(k) => Live(k)'
        BY <2>3, <2>6 DEF Live
      <3> QED BY <2>4, <3>1, <3>2 DEF GoesThrough, Remaining
    <2>8. \A k \in Jobs : NeedsTimer(k)' => NeedsTimer(k)
      BY <2>3, <2>6 DEF NeedsTimer, Live
    <2> QED BY <2>1, <2>5, <2>7, <2>8, CoverKept
  <1>3. CASE PassAborts(a)
    <2>1. /\ Executing(a) /\ ~Live(cur[a]) /\ Leave(a, "idle")
          /\ cur' = [cur EXCEPT ![a] = NoJob] /\ todo' = [todo EXCEPT ![a] = {}]
          /\ jobs' = jobs /\ phase' = phase /\ armed' = armed /\ untimed' = untimed
      BY <1>3 DEF PassAborts
    <2>2. \A p \in Passes : pc'[p] = IF p = a THEN "idle" ELSE pc[p]
      BY <1>0, <2>1, LeavePasses
    <2>3. ~GoesThrough(a)
      <3>1. cur[a] \in Remaining(a)
        BY <2>1 DEF SnapshotInv, Remaining
      <3> QED BY <2>1, <3>1 DEF GoesThrough
    <2>4. \A p \in Passes : Remaining(p)' \subseteq Remaining(p) /\ (Executing(p)' => cur'[p] \in Jobs)
      <3>1. Remaining(a)' = {} /\ ~Executing(a)'
        BY <2>1, <2>2 DEF Remaining, Executing, TypeOK
      <3>2. ASSUME NEW p \in Passes, p # a
            PROVE  Remaining(p)' \subseteq Remaining(p) /\ (Executing(p)' => cur'[p] \in Jobs)
        <4>1. pc'[p] = pc[p] /\ cur'[p] = cur[p] /\ todo'[p] = todo[p]
          BY <2>1, <2>2, <3>2 DEF TypeOK, Activities
        <4> QED BY <4>1, PassUntouched
      <3> QED BY <3>1, <3>2
    <2>5. \A p \in Passes : GoesThrough(p) => GoesThrough(p)'
      BY <2>1, <2>2, <2>3, <2>4 DEF GoesThrough, Live, Remaining
    <2>6. SnapshotInv'
      BY <2>1, <2>4, SnapshotKept
    <2> QED BY <2>1, <2>5, <2>6, CoverKept DEF NeedsTimer, Live
  <1>4. CASE PassEnds(a)
    <2>1. Leave(a, "idle") /\ todo' = todo /\ cur' = cur /\ todo[a] = {} /\ pc[a] = "ready" /\ ArmTimer
      BY <1>4 DEF PassEnds
    <2>2. \A p \in Passes : pc'[p] = IF p = a THEN "idle" ELSE pc[p]
      BY <1>0, <2>1, LeavePasses
    <2>3. \A p \in Passes : Remaining(p)' \subseteq Remaining(p) /\ (Executing(p)' => cur'[p] \in Jobs)
      BY <2>1, <2>2 DEF Remaining, Executing, SnapshotInv
    <2>4. \A j \in Jobs : WasDue(jobs[j]) => WasDue(jobs'[j])
      <3>1. \A j \in Jobs : jobs'[j] = jobs[j] \/ jobs'[j] = [jobs[j] EXCEPT !.next = "future"]
        <4>1. CASE jobs' = jobs
          BY <4>1
        <4>2. CASE jobs' = [j \in Jobs |-> IF j \in deferred /\ Live(j)
                                         THEN [jobs[j] EXCEPT !.next = "future"]
                                         ELSE jobs[j]]
          BY <4>2
        <4> QED BY <1>4, <4>1, <4>2 DEF PassEnds
      <3>2. ASSUME NEW j \in Jobs, WasDue(jobs[j]) PROVE WasDue([jobs[j] EXCEPT !.next = "future"])
        <4>1. jobs[j] \in JobRow
          BY DEF TypeOK
        <4> QED BY <3>2, <4>1, WasDueRows
      <3> QED
        <4> SUFFICES ASSUME NEW j \in Jobs, WasDue(jobs[j]) PROVE WasDue(jobs'[j])
          OBVIOUS
        <4>1. CASE jobs'[j] = jobs[j]
          BY <4>1
        <4>2. CASE jobs'[j] = [jobs[j] EXCEPT !.next = "future"]
          BY <3>2, <4>2
        <4> QED BY <3>1, <4>1, <4>2
    <2> QED BY <2>1, <2>3, <2>4, SnapshotKept, ArmCovers
  <1> QED BY <1>1, <1>2, <1>3, <1>4 DEF PassStep

\* The steps of the manual runs: they execute no snapshot, do not arm the
\* timer, and the jobs they schedule are noted as untimed.
LEMMA RunKeepsCover ==
    ASSUME TypeOK, SnapshotInv, CoverInv, NEW r \in Runs, RunStep(r)
    PROVE  SnapshotInv' /\ CoverInv'
  <1>0. r \in Activities /\ r \notin Passes
    BY CronAssumption DEF Activities, Passes
  <1> USE DEF engine, lock, history, snapshots
  <1>1. \A p \in Passes : pc'[p] = pc[p] /\ cur'[p] = cur[p] /\ todo'[p] = todo[p]
    <2>1. CASE RunRefused(r) \/ \E outcome \in Outcomes : RunEnds(r, outcome)
      <3>1. Leave(r, "done") /\ Forget(r)
        BY <2>1 DEF RunRefused, RunEnds
      <3>2. \A p \in Passes : pc'[p] = pc[p]
        BY <1>0, <3>1, LeavePasses
      <3> QED BY <1>0, <3>1, <3>2 DEF Forget, TypeOK, Activities
    <2>2. CASE RunBegins(r)
      BY <1>0, <2>2 DEF RunBegins, TypeOK, Activities
    <2> QED BY <2>1, <2>2 DEF RunStep
  <1>2. \A p \in Passes : Remaining(p)' \subseteq Remaining(p) /\ (Executing(p)' => cur'[p] \in Jobs)
    BY <1>1, PassUntouched
  <1>3. ASSUME \A j \in Jobs : WasDue(jobs[j]) => WasDue(jobs'[j]),
               \A j \in Jobs : Live(j) => Live(j)',
               \A j \in Jobs : NeedsTimer(j)' => NeedsTimer(j) \/ j \in untimed',
               phase' = phase, armed' = armed, untimed \subseteq untimed'
        PROVE  SnapshotInv' /\ CoverInv'
    <2>1. \A p \in Passes : GoesThrough(p) => GoesThrough(p)'
      BY <1>1, <1>2, <1>3 DEF GoesThrough, Remaining
    <2> QED BY <1>2, <1>3, <2>1, SnapshotKept, CoverKept
  <1>4. CASE RunRefused(r)
    <2>1. jobs' = jobs /\ phase' = phase /\ armed' = armed /\ untimed' = untimed
      BY <1>4 DEF RunRefused
    <2> QED BY <1>3, <2>1 DEF NeedsTimer, Live
  <1>5. CASE RunBegins(r)
    <2>1. /\ phase' = phase /\ armed' = armed /\ untimed' = untimed
          /\ jobs' = [jobs EXCEPT ![cur[r]].state = "running"]
      BY <1>5 DEF RunBegins
    <2>2. \A j \in Jobs : /\ jobs'[j].life = jobs[j].life /\ jobs'[j].next = jobs[j].next
                          /\ jobs'[j].enabled = jobs[j].enabled /\ jobs'[j].sched = jobs[j].sched
      <3>1. ASSUME NEW j \in Jobs
            PROVE jobs'[j] = jobs[j] \/ jobs'[j] = [jobs[j] EXCEPT !.state = "running"]
        BY <2>1 DEF TypeOK
      <3>2. ASSUME NEW row \in JobRow
            PROVE  LET q == [row EXCEPT !.state = "running"]
                   IN  q.life = row.life /\ q.next = row.next /\ q.enabled = row.enabled /\ q.sched = row.sched
        BY DEF JobRow
      <3> QED BY <3>1, <3>2 DEF TypeOK
    <2> QED BY <1>3, <2>1, <2>2 DEF NeedsTimer, Live, WasDue
  <1>6. ASSUME NEW outcome \in Outcomes, RunEnds(r, outcome)
        PROVE  SnapshotInv' /\ CoverInv'
    <2>1. /\ phase' = phase /\ armed' = armed
          /\ untimed' = untimed \cup {j \in Jobs : jobs[j].next = "none" /\ jobs'[j].next # "none"}
          /\ jobs' = IF Live(cur[r])
                     THEN [jobs EXCEPT ![cur[r]] = Recorded(@, outcome, "idle")]
                     ELSE jobs
      BY <1>6 DEF RunEnds
    <2>2. \A j \in Jobs : jobs'[j] = jobs[j] \/ jobs'[j] = Recorded(jobs[j], outcome, "idle")
      BY <2>1 DEF TypeOK
    <2>3. ASSUME NEW j \in Jobs
          PROVE  /\ jobs'[j].life = jobs[j].life /\ jobs'[j].enabled = jobs[j].enabled
                 /\ WasDue(jobs[j]) => WasDue(jobs'[j])
      <3>1. jobs[j] \in JobRow
        BY DEF TypeOK
      <3>2. CASE jobs'[j] = jobs[j]
        BY <3>2
      <3>3. CASE jobs'[j] = Recorded(jobs[j], outcome, "idle")
        BY <3>1, <3>3, RecordedNext, WasDueRows
      <3> QED BY <2>2, <3>2, <3>3
    <2> QED BY <1>3, <2>1, <2>3 DEF NeedsTimer, Live
  <1> QED BY <1>4, <1>5, <1>6 DEF RunStep

\* The other steps: starts, timers, calls of the API, time and restarts.
LEMMA RestKeepsCover ==
    ASSUME TypeOK, SnapshotInv, CoverInv,
           \/ Start \/ TimerFires \/ ApiCall \/ (\E j \in Jobs : TimePasses(j)) \/ Restart
           \/ UNCHANGED vars
    PROVE  SnapshotInv' /\ CoverInv'
  <1> USE DEF engine, lock, history, snapshots
  <1>0. "tick" \in Passes /\ "catchup" \in Passes /\ Passes \subseteq Activities
    BY DEF Passes, Activities
  <1>1. \A j \in Due : Live(j) /\ WasDue(jobs[j])
    BY DEF Due, WasDue, Live
  \* A pass that takes due jobs for its snapshot.
  <1>2. ASSUME NEW a \in Passes, NEW now \in SUBSET Due,
               pc' = [pc EXCEPT ![a] = "ready"], todo' = [todo EXCEPT ![a] = now],
               cur' = cur, jobs' = jobs
        PROVE  SnapshotInv' /\ GoesThrough(a)'
    <2>1. Remaining(a)' = now /\ ~Executing(a)' /\ pc'[a] = "ready"
      BY <1>0, <1>2 DEF Remaining, Executing, TypeOK, Due
    <2>2. ASSUME NEW p \in Passes, p # a
          PROVE  Remaining(p)' = Remaining(p) /\ (Executing(p)' => cur'[p] \in Jobs)
      <3>1. pc'[p] = pc[p] /\ cur'[p] = cur[p] /\ todo'[p] = todo[p]
        BY <1>0, <1>2, <2>2 DEF TypeOK
      <3> QED BY <3>1, PassUntouched
    <2>3. SnapshotInv'
      BY <1>1, <1>2, <2>1, <2>2 DEF SnapshotInv
    <2> QED BY <1>1, <1>2, <2>1, <2>3 DEF GoesThrough, Live
  \* A step of the service that arms the timer anew.
  <1>3. ASSUME UNCHANGED <<pc, cur, todo>>, ArmTimer,
               \A j \in Jobs : WasDue(jobs[j]) => WasDue(jobs'[j])
        PROVE  SnapshotInv' /\ CoverInv'
    <2>1. \A p \in Passes : Remaining(p)' \subseteq Remaining(p) /\ (Executing(p)' => cur'[p] \in Jobs)
      BY <1>3, PassUntouched
    <2> QED BY <1>3, <2>1, SnapshotKept, ArmCovers
  <1>4. CASE Start
    <2>1. CASE Due = {} /\ ArmTimer /\ UNCHANGED <<pc, todo, deferred>>
      BY <1>3, <1>4, <2>1 DEF Start
    <2>2. ASSUME NEW now \in SUBSET Due,
                 /\ todo' = [todo EXCEPT !["catchup"] = now]
                 /\ pc' = [pc EXCEPT !["catchup"] = "ready"]
          PROVE  SnapshotInv' /\ CoverInv'
      BY <1>0, <1>2, <1>4, <2>2 DEF Start, CoverInv
    <2> QED BY <1>4, <2>1, <2>2 DEF Start
  <1>5. CASE TimerFires
    <2>1. CASE locked \/ Due = {}
      BY <1>3, <1>5, <2>1 DEF TimerFires
    <2>2. CASE ~(locked \/ Due = {})
      <3>1. /\ pc' = [pc EXCEPT !["tick"] = "ready"] /\ todo' = [todo EXCEPT !["tick"] = Due]
            /\ cur' = cur /\ jobs' = jobs /\ armed' = FALSE
        BY <1>5, <2>2 DEF TimerFires
      <3>2. SnapshotInv' /\ GoesThrough("tick")'
        BY <1>0, <1>2, <3>1
      <3> QED BY <1>0, <3>1, <3>2 DEF CoverInv
    <2> QED BY <2>1, <2>2
  <1>6. ASSUME NEW r \in Runs, NEW j \in Jobs, NEW force \in BOOLEAN, EnqueueRun(r, j, force)
        PROVE  SnapshotInv' /\ CoverInv'
    <2>1. \A p \in Passes : p # r
      BY CronAssumption DEF Passes
    <2>2. \A p \in Passes : pc'[p] = pc[p] /\ cur'[p] = cur[p] /\ todo'[p] = todo[p]
      BY <1>0, <1>6, <2>1 DEF EnqueueRun, TypeOK
    <2>3. jobs' = jobs /\ phase' = phase /\ armed' = armed /\ untimed' = untimed
      BY <1>6 DEF EnqueueRun
    <2>4. \A p \in Passes : Remaining(p)' = Remaining(p) /\ (Executing(p)' => cur'[p] \in Jobs)
      BY <2>2, PassUntouched
    <2>5. \A p \in Passes : GoesThrough(p) => GoesThrough(p)'
      BY <2>2, <2>3, <2>4 DEF GoesThrough, Live
    <2> QED BY <2>3, <2>4, <2>5, SnapshotKept, CoverKept DEF NeedsTimer, Live
  <1>7. ASSUME NEW j \in Jobs, RemoveJob(j) PROVE SnapshotInv' /\ CoverInv'
    <2>1. jobs[j] \in JobRow /\ jobs' = [jobs EXCEPT ![j] = [@ EXCEPT !.life = "removed"]]
      BY <1>7 DEF RemoveJob, TypeOK
    <2>2. WasDue(jobs[j]) => WasDue([jobs[j] EXCEPT !.life = "removed"])
      BY <2>1, WasDueRows
    <2>3. \A k \in Jobs : WasDue(jobs[k]) => WasDue(jobs'[k])
      BY <2>1, <2>2 DEF TypeOK
    <2> QED BY <1>3, <1>7, <2>3 DEF RemoveJob
  <1>8. ASSUME NEW j \in Jobs, NEW enabled \in BOOLEAN, NEW sched \in Schedules,
               AddJob(j, enabled, sched)
        PROVE  SnapshotInv' /\ CoverInv'
    <2>1. \A k \in Jobs : WasDue(jobs[k]) => WasDue(jobs'[k])
      BY <1>8 DEF AddJob, WasDue, TypeOK
    <2> QED BY <1>3, <1>8, <2>1 DEF AddJob
  <1>9. ASSUME NEW j \in Jobs, NEW enabled \in BOOLEAN, NEW sched \in Schedules \cup {"keep"},
               UpdateJob(j, enabled, sched)
        PROVE  SnapshotInv' /\ CoverInv'
    <2>1. /\ jobs[j] \in JobRow /\ sched \in ScheduleKinds \cup {"keep"}
          /\ jobs' = [jobs EXCEPT ![j] = Patched(jobs[j], enabled, sched)]
      BY <1>9, CronAssumption DEF UpdateJob, TypeOK
    <2>2. WasDue(jobs[j]) => WasDue(Patched(jobs[j], enabled, sched))
      BY <2>1, WasDueRows
    <2>3. \A k \in Jobs : WasDue(jobs[k]) => WasDue(jobs'[k])
      BY <2>1, <2>2 DEF TypeOK
    <2> QED BY <1>3, <1>9, <2>3 DEF UpdateJob
  <1>10. ASSUME NEW j \in Jobs, TimePasses(j) PROVE SnapshotInv' /\ CoverInv'
    <2>1. /\ jobs[j] \in JobRow /\ jobs[j].next = "future" /\ UNCHANGED <<pc, cur, todo>>
          /\ jobs' = [jobs EXCEPT ![j] = Overdue(jobs[j])]
          /\ phase' = phase /\ armed' = armed /\ untimed' = untimed
      BY <1>10 DEF TimePasses, TypeOK
    <2>2. /\ WasDue(jobs[j]) => WasDue(Overdue(jobs[j]))
          /\ Overdue(jobs[j]).life = jobs[j].life /\ Overdue(jobs[j]).enabled = jobs[j].enabled
      BY <2>1, WasDueRows DEF Overdue, JobRow
    <2>3. \A k \in Jobs : /\ WasDue(jobs[k]) => WasDue(jobs'[k])
                          /\ Live(k) <=> Live(k)'
                          /\ NeedsTimer(k)' => NeedsTimer(k)
      BY <2>1, <2>2 DEF TypeOK, Live, NeedsTimer
    <2>4. \A p \in Passes : Remaining(p)' = Remaining(p) /\ (Executing(p)' => cur'[p] \in Jobs)
      BY <2>1, PassUntouched
    <2>5. \A p \in Passes : GoesThrough(p) => GoesThrough(p)'
      BY <2>1, <2>3, <2>4 DEF GoesThrough, Remaining
    <2> QED BY <2>1, <2>3, <2>4, <2>5, SnapshotKept, CoverKept
  <1>11. CASE Stop \/ UNCHANGED vars
    BY <1>11 DEF Stop, vars, SnapshotInv, CoverInv, Remaining, Executing, GoesThrough,
                 NeedsTimer, Live
  <1>12. CASE Restart
    BY <1>0, <1>12 DEF Restart, SnapshotInv, CoverInv, Remaining, Executing
  <1> QED BY <1>4, <1>5, <1>6, <1>7, <1>8, <1>9, <1>10, <1>11, <1>12 DEF ApiCall

\* The timer is armed whenever an enabled job waits for it and no pass is under
\* way that will arm it, for any number of jobs, removals, aborted passes and
\* manual runs: the engine never goes to sleep over a schedule.
THEOREM TimerNeverSleepsOver == Spec => []TimerCoversSchedule
  <1>1. Init => SnapshotInv /\ CoverInv
    BY DEF Init, SnapshotInv, CoverInv, Remaining, Executing, Activities, Passes
  <1>2. TypeOK /\ SnapshotInv /\ CoverInv /\ [Next]_vars
            => SnapshotInv' /\ CoverInv'
    BY PassKeepsCover, RunKeepsCover, RestKeepsCover DEF Next
  <1>3. SnapshotInv /\ CoverInv => TimerCoversSchedule
    BY DEF CoverInv, GoesThrough, NeedsTimer, TimerCoversSchedule, Passes
  <1> QED BY <1>1, <1>2, <1>3, TypeCorrect, PTL DEF Spec

=============================================================================
