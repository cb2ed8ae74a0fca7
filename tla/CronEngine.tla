----------------------------- MODULE CronEngine -----------------------------
(***************************************************************************)
(* The cron engine of the daemon: jobs persisted in cron.db, one global    *)
(* timer, the promise mutex that serialises timer passes and manual runs,  *)
(* the catch-up pass of start(), and the failure counter behind the        *)
(* "degraded" flag.                                                        *)
(*                                                                         *)
(* src/src/cron/timer.ts, service.ts, store.ts and scheduler.ts.           *)
(*                                                                         *)
(* Activities are the async functions that can be suspended at an await:   *)
(* "tick" (onTimerTick), "catchup" (runMissedJobs) and one per manual run  *)
(* request (enqueueRun). Code between two awaits is one step. Instants are *)
(* abstracted to the only comparison the code makes, nextRunAt <= now. The *)
(* daemon calls start() once, when it starts (app.ts), so that a start()   *)
(* after stop() is left out.                                               *)
(***************************************************************************)
EXTENDS Naturals, Sequences, FiniteSets

CONSTANTS
    Jobs,             \* job ids; an id is used once (store.ts addJob)
    Runs,             \* manual run requests of one process lifetime
    Threshold,        \* CONSECUTIVE_FAILURE_DEGRADED_THRESHOLD
    MaxCatchup,       \* DEFAULT_MAX_MISSED_JOBS_PER_RESTART
    Schedules,        \* the kinds of schedule a caller writes
    InitialJobs,      \* the contents cron.db may have at the first start
    FailureCap,       \* bound: the failure counter saturates here
    MaxRestarts,      \* bound: process deaths
    NoJob

ScheduleKinds == {"recurring", "once", "ended", "invalid"}

\* A row of cron_jobs. "ended" is a one-off schedule whose date has passed:
\* croner returns null. "invalid" is one parseCronSchedule throws on.
JobRow == [life : {"unborn", "live", "removed"},
           enabled : BOOLEAN,
           state : {"idle", "running", "failed"},
           next : {"none", "future", "due"},
           sched : ScheduleKinds]

ASSUME CronAssumption ==
    /\ Runs \cap {"tick", "catchup"} = {}
    /\ NoJob \notin Jobs
    /\ Threshold \in Nat \ {0}
    /\ FailureCap \in Nat /\ FailureCap >= Threshold
    /\ MaxCatchup \in Nat \ {0}
    /\ MaxRestarts \in Nat
    /\ Schedules \subseteq ScheduleKinds
    /\ InitialJobs \subseteq [Jobs -> {row \in JobRow : row.state # "running"}]

VARIABLES
    jobs,             \* cron.db and the cache that mirrors it
    phase,            \* "loaded" | "started" | "stopped"
    armed,            \* armTimerId # null
    locked,           \* state.locked
    lockQueue,        \* state.lockQueue, as the waiting activities
    health,           \* state.consecutiveFailures and state.degraded
    pc,               \* where each activity is suspended
    cur,              \* the job each activity executes
    todo,             \* what is left of a pass's snapshot of due jobs
    deferred,         \* catch-up's jobs beyond MaxCatchup
    forced,           \* opts.force of each manual run
    restarts,         \* process deaths so far
    orphans,          \* history: jobs whose execution a death cut short
    untimed           \* history: jobs a manual run rescheduled since armTimer ran

engine == <<phase, armed, health, untimed>>
lock == <<locked, lockQueue>>
snapshots == <<cur, todo, deferred, forced>>
history == <<restarts, orphans>>
vars == <<jobs, engine, lock, pc, snapshots, history>>

Passes == {"tick", "catchup"}
Activities == Passes \cup Runs
Clients == {"tick"} \cup Runs        \* the activities that take the lock

TypeOK ==
    /\ jobs \in [Jobs -> JobRow]
    /\ phase \in {"loaded", "started", "stopped"}
    /\ armed \in BOOLEAN
    /\ locked \in BOOLEAN
    /\ lockQueue \in Seq(Runs)
    /\ health \in [failures : 0..FailureCap, degraded : BOOLEAN]
    /\ pc \in [Activities -> {"idle", "waiting", "ready", "executing", "done"}]
    /\ cur \in [Activities -> Jobs \cup {NoJob}]
    /\ todo \in [Passes -> SUBSET Jobs]
    /\ deferred \in SUBSET Jobs
    /\ forced \in [Runs -> BOOLEAN]
    /\ restarts \in 0..MaxRestarts
    /\ orphans \in SUBSET Jobs
    /\ untimed \in SUBSET Jobs

Live(j) == jobs[j].life = "live"
Executing(a) == pc[a] = "executing"
Due == {j \in Jobs : /\ Live(j) /\ jobs[j].enabled
                     /\ jobs[j].state # "running"
                     /\ jobs[j].next = "due"}

-----------------------------------------------------------------------------
(* Rows: what the end of an execution writes.                              *)

\* parseCronSchedule(refreshed.schedule) throws.
ParseThrows(row) == row.enabled /\ row.sched = "invalid"

\* The next run is at least MIN_REFIRE_GAP_MS away; null leaves the old one.
Rescheduled(row) ==
    IF row.enabled /\ row.sched \in {"recurring", "once"}
    THEN [row EXCEPT !.next = "future"]
    ELSE row

\* A variant that stores the result's status as the job's state.
RecordedStatus(row, outcome, onError) ==
    [row EXCEPT !.state = IF outcome \in {"ok", "skipped"} THEN "idle" ELSE "error"]

\* The row after an execution: onError is the state a failed result leaves.
Recorded(row, outcome, onError) ==
    LET written == [row EXCEPT !.state = IF outcome \in {"ok", "skipped"}
                                         THEN "idle" ELSE onError]
    IN IF outcome = "throw" \/ ParseThrows(row)
       THEN [row EXCEPT !.state = "failed"]
       ELSE Rescheduled(written)

(* The failure counter.                                                    *)

Healthy == [failures |-> 0, degraded |-> FALSE]

\* A variant that compares with > instead of >=.
FailedLate(h) ==
    LET n == IF h.failures < FailureCap THEN h.failures + 1 ELSE FailureCap
    IN [failures |-> n, degraded |-> h.degraded \/ n > Threshold]

Failed(h) ==
    LET n == IF h.failures < FailureCap THEN h.failures + 1 ELSE FailureCap
    IN [failures |-> n, degraded |-> h.degraded \/ n >= Threshold]

\* Only a real ok recovers; a skipped run counts as a failure. A schedule
\* that no longer parses throws after the result was counted: counted again.
Tallied(row, outcome) ==
    LET counted == IF outcome = "ok" THEN Healthy ELSE Failed(health)
    IN IF outcome # "throw" /\ ParseThrows(row) THEN Failed(counted) ELSE counted

Outcomes == {"ok", "error", "timeout", "skipped", "throw"}

-----------------------------------------------------------------------------
(* The timer and the lock.                                                 *)

\* armTimer: reads the jobs as this step leaves them.
ArmTimer ==
    /\ armed' = (/\ phase' = "started"
                 /\ \E j \in Jobs : /\ jobs'[j].life = "live"
                                    /\ jobs'[j].enabled
                                    /\ jobs'[j].next # "none")
    /\ untimed' = {}

\* A variant that wakes the next waiter and also marks the lock free.
ReleaseLockAndFree(pcs) ==
    /\ locked' = FALSE
    /\ \/ /\ lockQueue = <<>>
          /\ pc' = pcs
          /\ UNCHANGED lockQueue
       \/ /\ lockQueue # <<>>
          /\ pc' = [pcs EXCEPT ![Head(lockQueue)] = "ready"]
          /\ lockQueue' = Tail(lockQueue)

\* A variant that hands over to the last waiter.
ReleaseLockToLast(pcs) ==
    \/ /\ lockQueue = <<>>
       /\ locked' = FALSE
       /\ pc' = pcs
       /\ UNCHANGED lockQueue
    \/ /\ lockQueue # <<>>
       /\ pc' = [pcs EXCEPT ![lockQueue[Len(lockQueue)]] = "ready"]
       /\ lockQueue' = SubSeq(lockQueue, 1, Len(lockQueue) - 1)
       /\ UNCHANGED locked

\* A variant that frees the lock without waking whoever waits for it.
ReleaseLockWithoutWake(pcs) ==
    /\ locked' = FALSE
    /\ pc' = pcs
    /\ UNCHANGED lockQueue

\* releaseLock, by an activity whose new program counter is in pcs.
ReleaseLock(pcs) ==
    \/ /\ lockQueue = <<>>
       /\ locked' = FALSE
       /\ pc' = pcs
       /\ UNCHANGED lockQueue
    \/ /\ lockQueue # <<>>
       /\ pc' = [pcs EXCEPT ![Head(lockQueue)] = "ready"]
       /\ lockQueue' = Tail(lockQueue)
       /\ UNCHANGED locked

\* The end of activity a: only the catch-up pass runs without the lock.
Leave(a, to) ==
    LET pcs == [pc EXCEPT ![a] = to]
    IN IF a \in Clients THEN ReleaseLock(pcs)
       ELSE pc' = pcs /\ UNCHANGED lock

-----------------------------------------------------------------------------
(* Timer passes and catch-up.                                              *)

\* start(): snapshot of the missed jobs, at most MaxCatchup of them run now.
Start ==
    /\ phase = "loaded"
    /\ phase' = "started"
    /\ UNCHANGED <<jobs, lock, health, cur, forced, history>>
    /\ \/ /\ Due = {}
          /\ ArmTimer
          /\ UNCHANGED <<pc, todo, deferred>>
       \/ \E now \in SUBSET Due :
             /\ now # {}
             /\ Cardinality(now) <= MaxCatchup
             /\ now = Due \/ Cardinality(now) = MaxCatchup
             /\ todo' = [todo EXCEPT !["catchup"] = now]
             /\ deferred' = Due \ now
             /\ pc' = [pc EXCEPT !["catchup"] = "ready"]
             /\ UNCHANGED <<armed, untimed>>

\* A variant that gives the pass up for good while the lock is taken.
TimerFiresOnce ==
    /\ armed
    /\ armed' = FALSE
    /\ \/ /\ locked \/ Due = {}
          /\ UNCHANGED <<locked, pc, todo>>
       \/ /\ ~locked /\ Due # {}
          /\ locked' = TRUE
          /\ pc' = [pc EXCEPT !["tick"] = "ready"]
          /\ todo' = [todo EXCEPT !["tick"] = Due]
    /\ UNCHANGED <<jobs, phase, health, untimed, lockQueue, cur, deferred, forced, history>>

\* The timer fires. While the lock is taken the pass is given up and the
\* timer armed again; so it is when nothing is due.
TimerFires ==
    /\ armed
    /\ UNCHANGED <<jobs, phase, health, lockQueue, cur, deferred, forced, history>>
    /\ \/ /\ locked \/ Due = {}
          /\ ArmTimer
          /\ UNCHANGED <<locked, pc, todo>>
       \/ /\ ~locked /\ Due # {}
          /\ locked' = TRUE
          /\ armed' = FALSE
          /\ pc' = [pc EXCEPT !["tick"] = "ready"]
          /\ todo' = [todo EXCEPT !["tick"] = Due]
          /\ UNCHANGED untimed

\* executeJobScheduled up to its await. Only the snapshot's enabled flag is
\* looked at: a job disabled, running or removed since is executed anyway.
BeginScheduled(a) ==
    /\ pc[a] = "ready"
    /\ \E j \in todo[a] :
          /\ todo' = [todo EXCEPT ![a] = @ \ {j}]
          /\ cur' = [cur EXCEPT ![a] = j]
          /\ jobs' = IF Live(j) THEN [jobs EXCEPT ![j].state = "running"] ELSE jobs
    /\ pc' = [pc EXCEPT ![a] = "executing"]
    /\ UNCHANGED <<engine, lock, deferred, forced, history>>

\* executeJobScheduled from its await to its end.
FinishScheduled(a, outcome) ==
    /\ Executing(a)
    /\ Live(cur[a])
    /\ jobs' = [jobs EXCEPT ![cur[a]] = Recorded(@, outcome, "failed")]
    /\ health' = Tallied(jobs[cur[a]], outcome)
    /\ pc' = [pc EXCEPT ![a] = "ready"]
    /\ cur' = [cur EXCEPT ![a] = NoJob]
    /\ UNCHANGED <<phase, armed, untimed, lock, todo, deferred, forced, history>>

\* The job was removed while it ran: execution_log's foreign key rejects the
\* insert, and again in the catch block. The whole pass ends with that error:
\* no other job of the snapshot runs, nothing is deferred, armTimer is not
\* called. The finally clause releases the lock.
PassAborts(a) ==
    /\ Executing(a)
    /\ ~Live(cur[a])
    /\ Leave(a, "idle")
    /\ cur' = [cur EXCEPT ![a] = NoJob]
    /\ todo' = [todo EXCEPT ![a] = {}]
    /\ deferred' = IF a = "catchup" THEN {} ELSE deferred
    /\ UNCHANGED <<jobs, engine, forced, history>>

\* A variant that does not arm the timer when the pass is over.
PassEndsUnarmed(a) ==
    /\ pc[a] = "ready"
    /\ todo[a] = {}
    /\ Leave(a, "idle")
    /\ UNCHANGED <<jobs, engine, snapshots, history>>

\* The end of a pass. Catch-up pushes the deferred jobs a few seconds ahead.
PassEnds(a) ==
    /\ pc[a] = "ready"
    /\ todo[a] = {}
    /\ Leave(a, "idle")
    /\ \/ /\ a = "catchup"
          /\ jobs' = [j \in Jobs |-> IF j \in deferred /\ Live(j)
                                     THEN [jobs[j] EXCEPT !.next = "future"]
                                     ELSE jobs[j]]
          /\ deferred' = {}
       \/ a = "tick" /\ UNCHANGED <<jobs, deferred>>
    /\ UNCHANGED <<phase, health, cur, todo, forced, history>>
    /\ ArmTimer

-----------------------------------------------------------------------------
(* Manual runs.                                                            *)

\* enqueueRun: acquireLock, at once or in the queue.
EnqueueRun(r, j, force) ==
    /\ pc[r] = "idle"
    /\ cur' = [cur EXCEPT ![r] = j]
    /\ forced' = [forced EXCEPT ![r] = force]
    /\ \/ /\ ~locked
          /\ locked' = TRUE
          /\ pc' = [pc EXCEPT ![r] = "ready"]
          /\ UNCHANGED lockQueue
       \/ /\ locked
          /\ lockQueue' = Append(lockQueue, r)
          /\ pc' = [pc EXCEPT ![r] = "waiting"]
          /\ UNCHANGED locked
    /\ UNCHANGED <<jobs, engine, todo, deferred, history>>

\* runJobNow refuses: not-found, disabled or already-running.
Refused(r) ==
    \/ ~Live(cur[r])
    \/ ~forced[r] /\ ~jobs[cur[r]].enabled
    \/ jobs[cur[r]].state = "running"

\* The request's locals are gone when it returns.
Forget(r) ==
    /\ cur' = [cur EXCEPT ![r] = NoJob]
    /\ forced' = [forced EXCEPT ![r] = FALSE]
    /\ UNCHANGED <<todo, deferred>>

RunRefused(r) ==
    /\ pc[r] = "ready"
    /\ Refused(r)
    /\ Leave(r, "done")
    /\ Forget(r)
    /\ UNCHANGED <<jobs, engine, history>>

RunBegins(r) ==
    /\ pc[r] = "ready"
    /\ ~Refused(r)
    /\ jobs' = [jobs EXCEPT ![cur[r]].state = "running"]
    /\ pc' = [pc EXCEPT ![r] = "executing"]
    /\ UNCHANGED <<engine, lock, snapshots, history>>

\* A variant that returns early, without recording, when the run timed out.
RunEndsUnrecorded(r, outcome) ==
    /\ Executing(r)
    /\ jobs' = IF Live(cur[r]) /\ outcome # "timeout"
               THEN [jobs EXCEPT ![cur[r]] = Recorded(@, outcome, "idle")]
               ELSE jobs
    /\ untimed' = untimed \cup {j \in Jobs : jobs[j].next = "none" /\ jobs'[j].next # "none"}
    /\ Leave(r, "done")
    /\ Forget(r)
    /\ UNCHANGED <<phase, armed, health, history>>

\* runJobNow after its await. The state is idle even after an error, the
\* failure counter is not touched and the timer is not armed. If the job was
\* removed meanwhile the log insert fails and only the lock is released.
RunEnds(r, outcome) ==
    /\ Executing(r)
    /\ jobs' = IF Live(cur[r])
               THEN [jobs EXCEPT ![cur[r]] = Recorded(@, outcome, "idle")]
               ELSE jobs
    /\ untimed' = untimed \cup {j \in Jobs : jobs[j].next = "none" /\ jobs'[j].next # "none"}
    /\ Leave(r, "done")
    /\ Forget(r)
    /\ UNCHANGED <<phase, armed, health, history>>

-----------------------------------------------------------------------------
(* The service's other operations.                                         *)

\* The row is inserted without next_run_at.
AddJob(j, enabled, sched) ==
    /\ jobs[j].life = "unborn"
    /\ jobs' = [jobs EXCEPT ![j] = [life |-> "live", enabled |-> enabled,
                                    state |-> "idle", next |-> "none", sched |-> sched]]
    /\ UNCHANGED <<phase, health, lock, pc, snapshots, history>>
    /\ ArmTimer

RemoveJob(j) ==
    /\ Live(j)
    /\ jobs' = [jobs EXCEPT ![j].life = "removed"]
    /\ UNCHANGED <<phase, health, lock, pc, snapshots, history>>
    /\ ArmTimer

\* The next run updateJob stores for a new schedule: a parse error keeps the
\* old one, a schedule without a next date clears it.
NextOf(row, sched) ==
    CASE sched = "invalid" -> row.next
      [] sched = "ended" -> "none"
      [] OTHER -> "future"

Patched(row, enabled, sched) ==
    IF sched = "keep" THEN [row EXCEPT !.enabled = enabled]
    ELSE [row EXCEPT !.enabled = enabled, !.sched = sched, !.next = NextOf(row, sched)]

\* updateJob with a patch of enabled, of schedule or of both.
UpdateJob(j, enabled, sched) ==
    /\ Live(j)
    /\ jobs' = [jobs EXCEPT ![j] = Patched(jobs[j], enabled, sched)]
    /\ UNCHANGED <<phase, health, lock, pc, snapshots, history>>
    /\ ArmTimer

\* stop(): whatever is executing goes on, and so does its pass.
Stop ==
    /\ phase = "started"
    /\ phase' = "stopped"
    /\ armed' = FALSE
    /\ UNCHANGED <<jobs, health, untimed, lock, pc, snapshots, history>>

\* The date of a one-off schedule has passed with it.
Overdue(row) ==
    [row EXCEPT !.next = "due", !.sched = IF row.sched = "once" THEN "ended" ELSE row.sched]

\* nextRunAt of job j is reached.
TimePasses(j) ==
    /\ Live(j)
    /\ jobs[j].next = "future"
    /\ jobs' = [jobs EXCEPT ![j] = Overdue(jobs[j])]
    /\ UNCHANGED <<engine, lock, pc, snapshots, history>>

\* The process dies and is started again: cron.db survives as it is.
Restart ==
    /\ restarts < MaxRestarts
    /\ restarts' = restarts + 1
    /\ orphans' = {j \in Jobs : Live(j) /\ jobs[j].state = "running"}
    /\ phase' = "loaded"
    /\ armed' = FALSE
    /\ locked' = FALSE
    /\ lockQueue' = <<>>
    /\ health' = Healthy
    /\ pc' = [a \in Activities |-> "idle"]
    /\ cur' = [a \in Activities |-> NoJob]
    /\ todo' = [p \in Passes |-> {}]
    /\ deferred' = {}
    /\ forced' = [r \in Runs |-> FALSE]
    /\ untimed' = {}
    /\ UNCHANGED jobs

-----------------------------------------------------------------------------

Init ==
    /\ jobs \in InitialJobs
    /\ phase = "loaded"
    /\ armed = FALSE
    /\ locked = FALSE
    /\ lockQueue = <<>>
    /\ health = Healthy
    /\ pc = [a \in Activities |-> "idle"]
    /\ cur = [a \in Activities |-> NoJob]
    /\ todo = [p \in Passes |-> {}]
    /\ deferred = {}
    /\ forced = [r \in Runs |-> FALSE]
    /\ restarts = 0
    /\ orphans = {}
    /\ untimed = {}

PassStep(a) ==
    \/ BeginScheduled(a)
    \/ \E outcome \in Outcomes : FinishScheduled(a, outcome)
    \/ PassAborts(a)
    \/ PassEnds(a)

RunStep(r) ==
    \/ RunRefused(r)
    \/ RunBegins(r)
    \/ \E outcome \in Outcomes : RunEnds(r, outcome)

ApiCall ==
    \/ \E r \in Runs, j \in Jobs, force \in BOOLEAN : EnqueueRun(r, j, force)
    \/ \E j \in Jobs : RemoveJob(j)
    \/ \E j \in Jobs, enabled \in BOOLEAN :
          \/ \E sched \in Schedules : AddJob(j, enabled, sched)
          \/ \E sched \in Schedules \cup {"keep"} : UpdateJob(j, enabled, sched)
    \/ Stop

Next ==
    \/ Start
    \/ TimerFires
    \/ \E a \in Passes : PassStep(a)
    \/ \E r \in Runs : RunStep(r)
    \/ ApiCall
    \/ \E j \in Jobs : TimePasses(j)
    \/ Restart

\* A run ends, at the latest by executeJobCoreWithTimeout's race; resumed
\* functions go on; an armed timer fires.
Fairness ==
    /\ \A a \in Passes : WF_vars(PassStep(a))
    /\ \A r \in Runs : WF_vars(RunStep(r))
    /\ WF_vars(TimerFires)

Spec == Init /\ [][Next]_vars
FairSpec == Spec /\ Fairness

-----------------------------------------------------------------------------
(* Properties.                                                             *)

LockHolders == {c \in Clients : pc[c] \in {"ready", "executing"}}

\* timer.ts 71-84: the Boolean and the list of resolvers are a mutex. At most
\* one timer pass or manual run is past acquireLock, the flag is set exactly
\* then, and the list holds exactly the requests that wait, each once.
MutualExclusion ==
    /\ \A a, b \in LockHolders : a = b
    /\ locked <=> LockHolders # {}
    /\ \A r \in Runs : pc[r] = "waiting" <=> \E i \in DOMAIN lockQueue : lockQueue[i] = r
    /\ \A i, k \in DOMAIN lockQueue : lockQueue[i] = lockQueue[k] => i = k
    /\ lockQueue # <<>> => locked

\* The engine reports degraded exactly while Threshold or more executions
\* in a row were not ok, whatever mixes of results, throws and concurrent
\* catch-up executions led there (timer.ts 172-191 and 213-219).
DegradedIffThreshold == health.degraded <=> health.failures >= Threshold

\* A job whose row says running is being executed, or its execution was cut
\* by the death of the process: no path of an execution that ends, by result,
\* error, timeout or throw, leaves the row claimed.
RunningIsOwned ==
    \A j \in Jobs : Live(j) /\ jobs[j].state = "running" =>
        j \in orphans \/ \E a \in Activities : Executing(a) /\ cur[a] = j

\* The timer is armed only between start() and stop(); then, while neither a
\* pass nor catch-up is under way (each arms it when it ends), an enabled job
\* that has a next run keeps it armed. The exception is a job whose first
\* nextRunAt was written by a manual run: runJobNow does not arm the timer.
TimerCoversSchedule ==
    /\ armed => phase = "started"
    /\ phase = "started" /\ pc["tick"] = "idle" /\ pc["catchup"] = "idle" /\ ~armed =>
          \A j \in Jobs : Live(j) /\ jobs[j].enabled /\ jobs[j].next # "none" =>
             j \in untimed

Lock == INSTANCE FifoLock WITH holders <- LockHolders, queue <- lockQueue

\* Timer passes and manual runs use the engine's mutex as a first-come
\* first-served lock: the engine implements FifoLock.
ImplementsFifoLock == Lock!Spec

\* A manual run that waits for the lock is served in the end (or dies with
\* the process), whatever the executions before it do.
RequestsServed == \A r \in Runs : pc[r] = "waiting" ~> pc[r] \in {"idle", "done"}

\* A due job does not stay unclaimed: skipped passes, passes aborted by a
\* removed job and deferrals only postpone it. Jobs a crash left in state
\* running and jobs only a manual run scheduled are not claimable.
Claimable(j) == phase = "started" /\ j \in Due \ untimed
DueJobsClaimed == \A j \in Jobs : Claimable(j) ~> ~Claimable(j)

\* service.ts 100, "Run missed jobs from before restart": a due enabled job
\* is run after a restart, also one whose execution the death cut short.
MissedJobsRun ==
    \A j \in Jobs :
        phase = "started" /\ Live(j) /\ jobs[j].enabled /\ jobs[j].next = "due"
        ~> \/ \E a \in Activities : Executing(a) /\ cur[a] = j
           \/ phase # "started" \/ ~Live(j) \/ ~jobs[j].enabled \/ jobs[j].next # "due"

=============================================================================
