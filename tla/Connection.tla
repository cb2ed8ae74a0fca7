----------------------------- MODULE Connection -----------------------------
(***************************************************************************)
(* The daemon's connection to TriMC: ConnectionManager, the heartbeats it  *)
(* sends through a wake, the agent requests proxied while connected, and   *)
(* the replay of the offline event queue at recovery (src/src/server/      *)
(* app.ts and src/src/event-queue/).                                       *)
(*                                                                         *)
(* TriMC is the environment: "up" while it answers. A connectionId is a    *)
(* number, one more at each reset; an event is a pair of its connection    *)
(* and its sequence number. The state file is not modelled: persistState   *)
(* and restoreState call require(), which an ES module does not have, and  *)
(* swallow the ReferenceError. Nor is the slower interval of a long        *)
(* degradation: the running setInterval keeps the one it was created with. *)
(***************************************************************************)
EXTENDS HeartbeatWake, Sequences, FiniteSets

CONSTANTS
    Proxies,             \* slots for proxied agent requests in flight
    Requested,           \* the reasons requestHeartbeatNow is called with
    FailThreshold,       \* failThreshold
    RecoverThreshold,    \* recoverThreshold
    ReplayLimit,         \* limit of getPendingForReplay
    MaxQueueSize,        \* maxQueueSize
    MaxConnections,      \* bound: connection ids
    MaxEvents,           \* bound: events enqueued
    MaxRestarts          \* bound: process restarts

ASSUME ConnectionAssumption ==
    /\ Requested \subseteq Reasons
    /\ FailThreshold \in Nat \ {0} /\ RecoverThreshold \in Nat \ {0}
    /\ ReplayLimit \in Nat \ {0} /\ MaxQueueSize \in Nat
    /\ MaxConnections \in Nat \ {0} /\ MaxEvents \in Nat /\ MaxRestarts \in Nat

VARIABLES
    conn,          \* state, consecutiveFailures, consecutiveSuccesses
    loop,          \* the health check loop: "new", "on" (healthCheckTimer) or "stopped"
    cid,           \* connectionId
    queue,         \* event_queue: per connection, the statuses by seq_no
    replay,        \* per connection, the seq_nos of its replay in flight
    proxy,         \* where each proxied request stands
    up,            \* TriMC answers
    restarts,      \* process restarts so far
    asked,         \* history: reasons requested since the handler last started
    streak,        \* history: successful exchanges since the last failure
    sent           \* history: events put into a replay request

link == <<conn, cid, replay, streak, sent>>
world == <<up, restarts>>
vars == <<wakeVars, link, loop, queue, proxy, world, asked>>

Cids == 1..MaxConnections
Seqs == 1..MaxEvents
States == {"connected", "degraded", "local"}

TypeOK ==
    /\ WakeTypeOK
    /\ conn \in [state : States, failures : 0..(FailThreshold - 1),
                 successes : 0..(RecoverThreshold - 1)]
    /\ loop \in {"new", "on", "stopped"}
    /\ cid \in Cids
    /\ queue \in [Cids -> Seq({"pending", "replayed", "expired"})]
    /\ replay \in [Cids -> SUBSET Seqs]
    /\ proxy \in [Proxies -> {"idle", "waiting", "streaming", "destroyed"}]
    /\ up \in BOOLEAN
    /\ restarts \in 0..MaxRestarts
    /\ asked \in SUBSET Reasons
    /\ streak \in 0..RecoverThreshold
    /\ sent \in SUBSET (Cids \X Seqs)

Fresh(state) == [state |-> state, failures |-> 0, successes |-> 0]

Init ==
    /\ WakeInit
    /\ \E state \in {"degraded", "local"} : conn = Fresh(state)
    /\ loop = "new"
    /\ cid = 1
    /\ queue = [c \in Cids |-> <<>>]
    /\ replay = [c \in Cids |-> {}]
    /\ proxy = [p \in Proxies |-> "idle"]
    /\ up \in BOOLEAN
    /\ restarts = 0
    /\ asked = {}
    /\ streak = 0
    /\ sent = {}

Pending(c) == {n \in DOMAIN queue[c] : queue[c][n] = "pending"}

\* getPending: the first ReplayLimit pending events in sequence order.
Oldest(c) == {n \in Pending(c) : Cardinality({k \in Pending(c) : k <= n}) <= ReplayLimit}

-----------------------------------------------------------------------------
(* recordSuccess and recordFailure.                                        *)

Longer == IF streak < RecoverThreshold THEN streak + 1 ELSE streak

\* A variant whose recovery keeps the connectionId.
RecoverSameId ==
    /\ conn' = Fresh("connected")
    /\ replay' = [replay EXCEPT ![cid] = Oldest(cid)]
    /\ sent' = sent \cup {<<cid, n>> : n \in Oldest(cid)}
    /\ UNCHANGED cid

\* The replay request is built before the callback resets connectionId.
Recover ==
    /\ cid < MaxConnections
    /\ conn' = Fresh("connected")
    /\ replay' = [replay EXCEPT ![cid] = Oldest(cid)]
    /\ sent' = sent \cup {<<cid, n>> : n \in Oldest(cid)}
    /\ cid' = cid + 1

\* A variant that starts the count of successes anew at each of them.
RecordSuccessForgetful ==
    /\ streak' = Longer
    /\ \/ /\ conn.state = "degraded"
          /\ RecoverThreshold = 1
          /\ Recover
       \/ /\ conn.state = "degraded"
          /\ RecoverThreshold > 1
          /\ conn' = [conn EXCEPT !.failures = 0, !.successes = 1]
          /\ UNCHANGED <<cid, replay, sent>>
       \/ /\ conn.state # "degraded"
          /\ conn' = [conn EXCEPT !.failures = 0]
          /\ UNCHANGED <<cid, replay, sent>>

RecordSuccess ==
    /\ streak' = Longer
    /\ \/ /\ conn.state = "degraded"
          /\ conn.successes + 1 >= RecoverThreshold
          /\ Recover
       \/ /\ conn.state = "degraded"
          /\ conn.successes + 1 < RecoverThreshold
          /\ conn' = [conn EXCEPT !.failures = 0, !.successes = @ + 1]
          /\ UNCHANGED <<cid, replay, sent>>
       \/ /\ conn.state # "degraded"
          /\ conn' = [conn EXCEPT !.failures = 0]
          /\ UNCHANGED <<cid, replay, sent>>

\* A variant that does not interrupt a recovery under way.
RecordFailureLenient ==
    /\ streak' = 0
    /\ UNCHANGED <<cid, replay, sent>>
    /\ conn' = IF conn.state # "connected" THEN conn
               ELSE IF conn.failures + 1 >= FailThreshold THEN Fresh("degraded")
               ELSE [conn EXCEPT !.failures = @ + 1, !.successes = 0]

\* A variant with > for >=.
RecordFailureLate ==
    /\ streak' = 0
    /\ UNCHANGED <<cid, replay, sent>>
    /\ conn' = IF conn.state # "connected" THEN [conn EXCEPT !.successes = 0]
               ELSE IF conn.failures + 1 > FailThreshold THEN Fresh("degraded")
               ELSE [conn EXCEPT !.failures = @ + 1, !.successes = 0]

RecordFailure ==
    /\ streak' = 0
    /\ UNCHANGED <<cid, replay, sent>>
    /\ conn' = IF conn.state # "connected" THEN [conn EXCEPT !.successes = 0]
               ELSE IF conn.failures + 1 >= FailThreshold THEN Fresh("degraded")
               ELSE [conn EXCEPT !.failures = @ + 1, !.successes = 0]

-----------------------------------------------------------------------------
(* Heartbeats.                                                             *)

\* startHealthCheckLoop, called once, by the daemon's start(): setWakeHandler
\* clears the timer and schedules what is pending, then a first check is
\* asked for.
StartLoop ==
    /\ loop = "new"
    /\ loop' = "on"
    /\ handler' = TRUE /\ running' = FALSE /\ again' = FALSE
    /\ UNCHANGED enabled
    /\ IF enabled
       THEN /\ pending' = Merged(pending, "interval")
            /\ timer' = "normal"
            /\ asked' = asked \cup {"interval"}
       ELSE UNCHANGED <<pending, asked>> /\ timer' = "none"
    /\ UNCHANGED <<link, queue, proxy, world>>

\* stopHealthCheckLoop.
StopLoop ==
    /\ loop = "on"
    /\ loop' = "stopped"
    /\ ClearHandler
    /\ UNCHANGED <<link, queue, proxy, world, asked>>

\* The interval, or any caller of requestHeartbeatNow.
RequestHeartbeat(reason) ==
    /\ reason = "interval" => loop = "on"
    /\ RequestWake(reason)
    /\ asked' = IF enabled THEN asked \cup {reason} ELSE asked
    /\ UNCHANGED <<link, loop, queue, proxy, world>>

SetHeartbeatsEnabled(on) ==
    /\ SetEnabled(on)
    /\ asked' = IF on THEN asked ELSE {}
    /\ UNCHANGED <<link, loop, queue, proxy, world>>

\* The wake timer fires during a check, or after stopHealthCheckLoop.
WakeIdles ==
    /\ \/ WakeDeferred /\ UNCHANGED asked
       \/ WakeDropped /\ asked' = {}
    /\ UNCHANGED <<link, loop, queue, proxy, world>>

\* checkHealth: POST /internal/v1/heartbeat ...
CheckBegins ==
    /\ WakeFires
    /\ asked' = {}
    /\ UNCHANGED <<link, loop, queue, proxy, world>>

\* ... and its answer, or the error or timeout that stands for it.
CheckEnds ==
    /\ running
    /\ IF up THEN RecordSuccess ELSE RecordFailure
    /\ WakeDone
    /\ UNCHANGED <<loop, queue, proxy, world, asked>>

-----------------------------------------------------------------------------
(* Agent requests proxied to TriMC.                                        *)

ProxyRequest(p) ==
    /\ proxy[p] = "idle"
    /\ conn.state = "connected"
    /\ proxy' = [proxy EXCEPT ![p] = "waiting"]
    /\ UNCHANGED <<wakeVars, link, loop, queue, world, asked>>

ProxyResponds(p) ==
    /\ proxy[p] = "waiting" /\ up
    /\ proxy' = [proxy EXCEPT ![p] = "streaming"]
    /\ RecordSuccess
    /\ UNCHANGED <<wakeVars, loop, queue, world, asked>>

ProxyFinishes(p) ==
    /\ proxy[p] = "streaming"
    /\ proxy' = [proxy EXCEPT ![p] = "idle"]
    /\ UNCHANGED <<wakeVars, link, loop, queue, world, asked>>

\* The request fails; or its socket is silent for 30 s. destroy() before a
\* response emits 'error' as well: such a timeout is recorded twice.
ProxyFails(p) ==
    /\ \/ proxy[p] = "waiting" /\ \E then \in {"idle", "destroyed"} : proxy' = [proxy EXCEPT ![p] = then]
       \/ proxy[p] \in {"streaming", "destroyed"} /\ proxy' = [proxy EXCEPT ![p] = "idle"]
    /\ RecordFailure
    /\ UNCHANGED <<wakeVars, loop, queue, world, asked>>

-----------------------------------------------------------------------------
(* The event queue.                                                        *)

Enqueued == {e \in Cids \X Seqs : e[2] \in DOMAIN queue[e[1]]}

\* enqueue, under the connectionId of the moment. The queue offers it and
\* expireOldEvents; the daemon itself calls neither yet.
Enqueue ==
    /\ Cardinality(Enqueued) < MaxEvents
    /\ Cardinality(Pending(cid)) < MaxQueueSize
    /\ queue' = [queue EXCEPT ![cid] = Append(@, "pending")]
    /\ UNCHANGED <<wakeVars, link, loop, proxy, world, asked>>

\* The reply to a replay request: every event of the request, in conflict or
\* not, becomes "replayed". Without a reply they stay pending.
ReplayAnswered(c) ==
    /\ replay[c] # {}
    /\ queue' = [queue EXCEPT ![c] = [n \in DOMAIN @ |-> IF n \in replay[c] THEN "replayed" ELSE @[n]]]
    /\ replay' = [replay EXCEPT ![c] = {}]
    /\ UNCHANGED <<wakeVars, conn, cid, streak, sent, loop, proxy, world, asked>>

ReplayFails(c) ==
    /\ replay[c] # {}
    /\ replay' = [replay EXCEPT ![c] = {}]
    /\ UNCHANGED <<wakeVars, conn, cid, streak, sent, loop, queue, proxy, world, asked>>

\* expireOldEvents, with a cutoff just after event n of connection c.
ExpireOldEvents(c, n) ==
    /\ n \in Pending(c)
    /\ queue' = [k \in Cids |-> [i \in DOMAIN queue[k] |->
                   IF i \in Pending(k) /\ (k < c \/ (k = c /\ i <= n)) THEN "expired" ELSE queue[k][i]]]
    /\ UNCHANGED <<wakeVars, link, loop, proxy, world, asked>>

-----------------------------------------------------------------------------

TrimcChanges ==
    /\ up' = ~up
    /\ UNCHANGED <<wakeVars, link, loop, queue, proxy, restarts, asked>>

\* The daemon is restarted, with or without TriMC configured: only the event
\* queue survives.
Restart ==
    /\ restarts < MaxRestarts
    /\ cid < MaxConnections
    /\ restarts' = restarts + 1
    /\ \E state \in {"degraded", "local"} : conn' = Fresh(state)
    /\ cid' = cid + 1
    /\ replay' = [c \in Cids |-> {}]
    /\ proxy' = [p \in Proxies |-> "idle"]
    /\ loop' = "new"
    /\ streak' = 0
    /\ asked' = {}
    /\ enabled' = TRUE /\ handler' = FALSE /\ pending' = "none"
    /\ timer' = "none" /\ running' = FALSE /\ again' = FALSE
    /\ UNCHANGED <<queue, sent, up>>

ProxyStep(p) == ProxyResponds(p) \/ ProxyFinishes(p) \/ ProxyFails(p)

Next ==
    \/ StartLoop \/ StopLoop
    \/ \E reason \in Requested : RequestHeartbeat(reason)
    \/ \E on \in BOOLEAN : SetHeartbeatsEnabled(on)
    \/ WakeIdles
    \/ CheckBegins
    \/ CheckEnds
    \/ \E p \in Proxies : ProxyRequest(p) \/ ProxyStep(p)
    \/ Enqueue
    \/ \E c \in Cids : ReplayAnswered(c) \/ ReplayFails(c) \/ \E n \in Seqs : ExpireOldEvents(c, n)
    \/ TrimcChanges
    \/ Restart

\* Timers fire, a heartbeat ends within its timeout of 5 s and a silent
\* proxied request within 30 s.
Fairness ==
    /\ WF_vars(RequestHeartbeat("interval"))
    /\ WF_vars(WakeIdles \/ CheckBegins)
    /\ WF_vars(CheckEnds)
    /\ \A p \in Proxies : WF_vars(ProxyStep(p))

Spec == Init /\ [][Next]_vars
FairSpec == Spec /\ Fairness

-----------------------------------------------------------------------------
(* Properties.                                                             *)

\* heartbeat-wake.ts 34, "Higher-priority reasons preempt lower-priority
\* pending wakes", over deferrals and retries: the wake that waits is one of
\* those asked for, of the highest priority, and it never waits without a
\* timer.
PriorityKept ==
    /\ pending = "none" <=> asked = {}
    /\ pending # "none" =>
          /\ pending \in asked
          /\ \A reason \in asked : Priority(reason) <= Priority(pending)
          /\ timer # "none"

\* app.ts 844: the manager recovers only on RecoverThreshold successful
\* exchanges with no failed one in between, heartbeats and late answers of
\* proxied requests counted together.
RecoveryEarned ==
    [][conn.state = "degraded" /\ conn'.state = "connected" => streak' >= RecoverThreshold]_vars

\* An event is put into at most one replay request: a recovery that follows a
\* failed or half-answered replay does not send its events again.
SentAtMostOnce ==
    [][\A c \in Cids, n \in Seqs :
          n \in replay'[c] /\ n \notin replay[c] => <<c, n>> \notin sent]_vars

\* While TriMC stays reachable a degraded manager recovers, and while it stays
\* unreachable a connected one degrades, whatever wakes are deferred, merged
\* or retried and however proxied requests end.
Checking == loop = "on" /\ enabled
TracksReachability ==
    /\ Checking /\ up /\ conn.state = "degraded" /\ cid < MaxConnections
          ~> ~Checking \/ ~up \/ conn.state # "degraded" \/ cid = MaxConnections
    /\ Checking /\ ~up /\ conn.state = "connected"
          ~> ~Checking \/ up \/ conn.state # "connected"

\* app.ts 1068, "Enable state persistence": a restarted daemon whose
\* configuration did not change is in the connection state it was in.
StateSurvivesRestart ==
    [][restarts' # restarts /\ conn.state # "local" /\ conn'.state # "local"
          => conn'.state = conn.state]_vars
=============================================================================
