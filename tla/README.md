# A TLA+ model of TriLC

TriLC is the local controller of the Tri system: a Node.js daemon that runs
agents on a user's machine, keeps their sessions and schedules, talks to a
remote server (TriMC) while it is reachable and works alone while it is not.
This directory models the parts of the daemon whose correctness depends on the
order of events: timers, promises, queues, connections, setup steps, the
daemon's own processes, crashes. TLC checks the models on small instances; TLAPS proves the
safety properties the passing runs check for every instance: all but two of `CompanyInit`, and one of that module
under a hypothesis on its clients (section 4). Paths below are relative to the repository root.

Nothing in the daemon runs in parallel: it is one Node.js process, so that code
between two awaits is atomic, and everything else interleaves. Several processes
appear in `Supervision` only, and they interleave at every file access, probe and signal. Every module
follows this: **one action is the code between two awaits** (or one callback, or
one HTTP handler that does not await), with everything that code writes.

## 1. Inventory

| Component | State | Operations | Talks to | What makes it correct |
|---|---|---|---|---|
| Cron engine (`src/cron`) | job rows in `cron.db` and their cache; `armTimerId`; `locked`, `lockQueue`; `consecutiveFailures`, `degraded` | `start`, `stop`, add/remove/update/run job, timer tick, catch-up | `cron.db`, the local node that runs a job, the roster gate | one pass or manual run at a time, in order; no lost timer; no due job forgotten; rows, counter and executions agree |
| Heartbeat wake (`src/heartbeat/heartbeat-wake.ts`) | pending wake, timer, handler, running flag | request, fire, defer, retry, set handler, enable | its owner's handler | nothing requested is lost or demoted; the handler does not run twice at once |
| Heartbeat runner (`heartbeat-runner.ts`, `agent-runner.ts`) | `agents` Map with `nextRunAt` and `running`, arm timer | `start`, `stop`, `updateAgents`, the wake handler | wake, session store | the chain timer, wake, pass, timer never breaks; reloads keep the schedule |
| Connection (`ConnectionManager` in `src/server/app.ts`) | state, failure and success counters, `connectionId` | heartbeats, proxied agent requests, recovery with replay | TriMC, wake, event queue | degrades and recovers by its thresholds, and only by them |
| Event queue (`src/event-queue`) | events with `seq_no` and status in SQLite | enqueue, pending batch, replay answer, expiry | connection | no event sent twice, limits kept |
| Task streams (`app.ts`, tasks and sessions routes) | `taskStreams` Map; one suspended handler per SSE request | submit, stream, cancel | agent loop, session store, mirror | one outcome per stream; nothing looks busy for ever |
| Mirror (`src/mirror`, `src/localbus`) | a 30 s interval | push of one task or of all | TriMC | the remote picture settles on the local one |
| Interaction bridge (`src/server/interactions.ts`) | `current`, `queue`, always-allowed tools, rule file | ask, poll, answer, time out | agent loops, TUIs | FIFO prompts; no permission without a user's word; nobody waits for ever |
| Session store and reaper (`src/session-store`, `src/cron/session-reaper.ts`) | `sessions`, `session_messages` | create, save, set status, delete by age | tasks, heartbeats, CLI | status tells finished, interrupted and live sessions apart |
| Session sync (`src/sync`) | sync status per session | sync one, sync pending | TriMC | no saved message unsynced for ever (library, no caller in the daemon) |
| Init chain (`src/company/init-chain.ts`, `init-state.ts`) | chain frame with stage, `eventSeq` and snapshots in `init-chain.json`; company state in `state.json`; a cache of each | transition, per-stage updates, reset, load | the steps below, HTTP routes | stages in order, each left with its evidence, whatever is cut short |
| Init steps (`init-selfcheck`, `-assemble`, `-sync`, `-confirm`, `-first-collab`) | running flags; files of the workspace, bundle in the main checkout | selfcheck, assemble, progress, sync, confirm, collaborate | init chain, registry, git, TriMC | no half skeleton; ready only with what TriMC runs |
| Projects (`src/project`) | `project-registry.json` and its cache; git worktrees | link, claim, roll back, clean up | git, init chain | registry, git and chain list the same worktrees |
| Agent loop and formats (`app.ts`, `anthropic-stream.ts`, `openai-stream.ts`) | turn and judge counters, rebuilt history; per-response encoder state | one step per agent event | agent-core, HTTP clients | a well-formed, complete response; nothing shown twice or lost; receipts for every call |
| Daemon processes and pid file (`src/index.ts`, `src/pidfile.ts`, end of `app.ts`) | the port, `daemon.pid` | boot, register, `/shutdown`, SIGTERM, exit | CLI, watchdog | one daemon; a stale file misleads nobody |
| Commands (`src/cli.ts`) | what they remember between awaits | start, stop, restart, run, chat, watchdog | pid file, port, processes | stop stops |
| Watchdog (`src/daemon/watchdog.ts`) | child, restart timer, timestamps in the window, alert file | start, child exit, restart, stop | the daemon process | a daemon or an alert |
| Local runtime, planner, tools, skills, MCP, knowledge injector, configuration, update check, TUI | see `PROJECT.json` | | | mostly I/O and data processing |

The hard behaviours are collected in `PROJECT.json` under `hazards`, each at its
line with the properties that cover it or the reason why none does yet.

## 2. Modules

    FifoLock                 what a promise mutex promises
      ^ implemented by         ^ implemented by
    CronEngine               Interactions
    HeartbeatWake            the wake, extended by its two owners
      ^ HeartbeatRunner        the agents' heartbeat
      ^ Connection             TriMC heartbeats, proxy, replay, event queue
    TaskStream               tasks, streams, session rows, mirror
    InitLadder               what the setup of a company promises
      ^ implemented by CompanyInit
    MessageStream            what a client of /v1/messages may rely on
      ^ implemented by AgentStream
    Supervision              processes, pid file, commands, watchdog
    MC*                      the instances TLC checks
      MCServices               Supervision and AgentStream, which share nothing
    *Proofs                  the theorems about a component, one module each: CronEngine,
                             HeartbeatRunner (HeartbeatProofs), Connection, TaskStream,
                             Interactions, CompanyInit, Supervision, AgentStream

### CronEngine (`src/cron/timer.ts`, `service.ts`, `store.ts`, `scheduler.ts`)

| In the model | In the code |
|---|---|
| `jobs[j]` with `life, enabled, state, next, sched` | the row of `cron_jobs`; `next` is `none`, `future` or `due`, the only comparison the code makes on `next_run_at` |
| `pc["tick"]`, `pc["catchup"]`, `pc[r]` | `onTimerTick`, `runMissedJobs`, one `enqueueRun` call each: waiting for the lock, between two awaits, executing a job |
| `todo`, `cur`, `deferred`, `forced` | their local variables; `todo` is the snapshot of due jobs a pass iterates over |
| `TimerFires`, `BeginScheduled`, `FinishScheduled`, `PassAborts`, `PassEnds` | `onTimerTick` and `executeJobScheduled`, cut at their awaits |
| `EnqueueRun`, `RunRefused`, `RunBegins`, `RunEnds` | `enqueueRun` and `runJobNow` |
| `orphans`, `untimed` | history: rows a crash left in state `running`; jobs whose first date was written by a manual run |

A schedule is `recurring`, `once`, `ended` (no next date) or `invalid`
(`parseCronSchedule` throws): the four ways its users can continue. A job run is
external: it ends `ok`, `error`, `timeout`, `skipped` or with a throw. `PassAborts` is the
consequence of the foreign key of `execution_log`: a job removed while it runs
makes both inserts of its log entry fail, and the error ends the whole pass.

### HeartbeatWake, HeartbeatRunner

The wake module holds the operations of `createHeartbeatWake` without an owner;
an owner extends it, so that both share one state and a step of the handler is
one step of the owner's `Next`. The runner's handler is a loop over the Map of
agents that was current when it started. `updateAgents` replaces the Map;
`detached[l]` says that loop `l` still works on the old one. There is one loop slot
more than can ever be used, so that two passes at once is a state the invariant
`OnePassAtATime` excludes and not one the model cannot express.

### Connection

`conn` is the record of `ConnectionManager`; `RecordSuccess` and `RecordFailure` are
called by heartbeats (`CheckEnds`) and by proxied agent requests
(`ProxyResponds`, `ProxyFails`), whose answers may be late. `Recover` is the transition to
`connected` with what follows in the same turn: the replay request for the
current `connectionId` is built, then the id is replaced. The event queue's only
callers at present are tests; its operations are modelled because the daemon
wires replay to it.

### TaskStream

`entry[t]` is the status in the `taskStreams` Map, `stored[t]` the row in
`sessions.db`, `at[s]` the place where the handler of stream `s` is suspended. Of
the agent loop only its endings matter: with a conclusion, without one, with an
error event, by a throw. `pushes` is a bag: mirror POSTs in any order, lost while
TriMC is down.

### Interactions

Requests are calls of the two functions that ask the user. A TUI polls (`Poll`), shows,
answers (`Respond`) and the answer arrives some time later (`Arrive`); in between
the prompt may time out and the next one come up.

### CompanyInit, InitLadder

| In the model | In the code |
|---|---|
| `cache`, `disk`, `tmp` | `InitChain.cache`, `init-chain.json`, its one tmp file. `seq` is `eventSeq` |
| `WriteTmp`, `RenameTmp`, `Verify` | the awaits of `persist`; a frame is computed from the cache at the first (`Persisting`) and becomes the cache after the last |
| `company`, `companyCache` | `company/state.json` and `CompanyInitState.cache`; the file is written in place, hence `torn`, by a write under way or by one that has failed |
| `files` | the skeleton that `prewriteAll` writes and `rollbackPrewrite` takes back |
| `reg`, `regCache`, `trees` | `project-registry.json`, its cache, what `git worktree list` shows |
| `bundle`, `pushed`, `applied` | `sync-config.json` in the main checkout, at the remotes, at TriMC |
| `line`, `Strays`, `Rejoins` | what layer 2 of the confirmation looks at: whether the bundle's commit, the checkout and the fleet are on one line of commits; work outside the daemon moves them |
| `call[c]` | a request: its operation and the await it is at |

Each request is cut at its awaits: `SelfcheckRun`, `Probed`; `Assemble`,
`Prewrite`, `Save`, `Saved`, `Enter`; `Link`, `AddTree`, `Register`, `Unlink`, `RollBack`; `Sync`, `Collect`, `Push`;
`Confirm`, `Checked`; `Reset`, `Wipe`. What a handler does after the write of a frame, in the same turn, is part of
`Verify` (`GoesOn`). Every write, every git call and the read-back may fail (`Faults`): before anything
is changed, half way (`torn`, a registry renamed or not), or after the file has been replaced. So may what is
done to undo them. `Restart` may come between any two steps. A frame keeps what a handler looks at. A torn chain file
and one that is not there are read alike, as `DefaultFrame`. A write of the tmp file is one step: another writer may find it torn
(`Renamed`), but not write on into a file that has been renamed meanwhile, which comes to the same as a rename whose read-back fails.

`InitLadder` is the promise: seven stages in order, each left with its evidence
(`Needed`). The refinement maps `stage` to the chain's cache and `held` to what the daemon has (`Evidence`): it speaks of what
the daemon goes by, and a restart, which reads the files, must find a place on the ladder too, also where a file is one write
ahead of its cache. What is in the files is the subject of `StagesEarned`, `ReadyIsApplied` and `SkeletonInPlace`.

### AgentStream, MessageStream

One response. Each action is one event of the inner loop with everything done about
it: by `runHarnessAgentLoop` (turns, judge rounds, `messages`, `openCalls`) and by both
encoders, whose records `claude` and `openai` hold what was sent and their flags. `said` is
history: what the model produced. `openCalls` is a set here: the calls of a turn are numbered, and the
list in the code keeps those of one name in the order of their numbers, which is all that a
block looks at. The inner loop is external and is taken as the code
uses it; it may break off after any event. `MessageStream` says what a sequence of
Anthropic events must be at every moment and in the end.

### Supervision

`proc[p]` is a process of the daemon from its fork to its exit; `term[t]` is a
terminal, with the label of the await its command is at and the pid it remembers, which
may be stale by the time it is used. `start` and `stop` have their own paths through the
same labels, `restart` is one after the other, `chat` kills what does not answer and starts.
`served` is history: the daemon that served when a stop began; so is `blind`: its search by port found nobody
although a process listens (`findProcessByPort` answers null when its tools are missing or fail). The watchdog's
`recent` is the number of its timestamps in the window; `watchdog = "lost"` is a watchdog
whose fork failed, whose process has nothing left to wait for. The wait for a process may
give up whenever the process is still there, so that SIGTERM and SIGKILL follow any delay.

### MCServices

`Supervision` and `AgentStream` share no state, and this module extends both (the latter's `AgentInit`, `AgentNext`,
`agentVars`, `AgentTypeOK` have their names for that); a behaviour of this module is one of the one
or one of the other (`part`). The run checks the properties of both in one pass over the
union of their state spaces. There is no product, and no property of one depends on the other.

### FifoLock

The abstract lock. `CronEngine` implements it with `holders` mapped to the activities
past `acquireLock` and `queue` to `lockQueue`; `Interactions` with `holders` mapped to
the prompt on display and `queue` to its list of closures.

## 3. Runs

| Run | Instance | Shows |
|---|---|---|
| `CronPasses` | 2 jobs, catch-up limit 1, no manual run | `TimerCoversSchedule`: the timer is armed whenever something is scheduled; `DueJobsClaimed`: a due job is claimed in the end, over skipped ticks, deferrals, removals and changes |
| `CronLock` | 1 job, 2 manual runs, threshold 2, 1 crash | mutual exclusion and the FIFO refinement, `RequestsServed`, `DegradedIffThreshold`, `RunningIsOwned` |
| `CronMissed` (violation) | 1 job, 1 crash | `service.ts` says missed jobs are run; a job that was executing at the crash never is |
| `Heartbeat` | 2 agents, 3 reloads, 2 loop slots | one pass at a time, the chain, quiet after `stop()`, reloads, every due agent runs |
| `HeartbeatReload` (violation) | 1 agent, 2 reloads | a reload in the middle of a run disables the agent for ever |
| `Connection` | thresholds 3 and 2, 3 connection ids, 2 events, batches of 1, 1 proxied request, 1 restart | priorities kept, recovery earned, events sent at most once, reachability tracked |
| `ConnectionRestart` (violation) | the same without events | the state file that is never written |
| `TaskStream` | 1 task, 2 streams, 2 pushes in flight, 1 restart | outcomes, busy tasks, rows, the mirror |
| `TaskCancel` (violation) | 1 task, 1 stream | cancel does not stop the agent loop |
| `Interactions` | 3 prompts, 1 tool, 1 TUI, 1 restart | FIFO, permissions, everybody is answered |
| `CompanyInit` | 2 requests in flight, 2 worktrees of which the user made one, a user's skeleton file, 2 faults, crashes, resets or repetitions in all | `ImplementsLadder`: stages in order with their evidence, in the daemon and over restarts; `StagesEarned`: the stage on the disk and the one in the daemon bear the marks of those before; `SkeletonInPlace`, `ReadyIsApplied`; `SetupFinishes`: the user who keeps at it gets to the end or to a dead end that is named |
| `Services` | 3 processes, 2 terminals, 2 commands, 1 crash or hang, at most 2 spawns in the window; 3 turns, 1 judge round, no call or two | `StoppedIsGone`, `WatchdogAnswers`; `ImplementsMessageStream`, `ShownIsSaid`, `HistoryPaired` |

Why the bounds are enough. A lock queue of two is the least that tells FIFO from
LIFO; with a holder that takes three clients (`tick` and two manual runs, or three
prompts). Two jobs with a catch-up limit of one give an immediate and a deferred
job, and a pass whose first job is removed while its second is still due. Failure
thresholds of 2 and 3 are crossed by mixtures of results. Two streams on a task are the
overlapping pair; a third adds nothing, since a stream reads nothing of
another. One TUI is enough for the bridge because the daemon does not tell TUIs apart:
a stale answer arises from the timeout alone. Tasks are independent of each
other but for the mirror's full push, which is one payload with one entry per
task, so that one task is enough. Deadlock checking is off in all runs but `CompanyInit`:
bounded restarts, reloads, commands and request slots mean that a model may legitimately
come to rest. A company can always be asked something, and there TLC looks for deadlocks.

Two requests in flight and two extras give a repetition during a request, a crash
during the repair of a fault, and a second fault during the retry of the first. A worktree of the
user's and one the daemon adds are the two ways a link may go, and the
user's skeleton file is the one a rollback must leave. Three processes are the
daemon a stop is about, the one that replaces it and the one that loses the port
against that; two commands are a stop and whatever comes in its way. The initial states of
`Services` include a daemon at work and the pid file of a former boot. Three turns
are the least in which a flag of one turn can spoil the next but one, and a turn
with two calls is the least with a receipt for the wrong one.

Which requests overlap in `CompanyInit` is a parameter (`Overlap`), and the run's value
(`Tame`) lets the wizard's notes run next to everything that does not write the company's
state; so is what may fail (`Faults`), where the run leaves out one value, `reset`. Both restrictions
are there because the code does not keep all of its promises beyond them: `StagesEarned` holds there too, and is proved for
every overlap and every fault, the others do not; section 5 says how.

Histories (`orphans`, `untimed`, `asked`, `streak`, `sent`, `allowed`,
`granted`) are never read by a guard.

### Fairness

* Timers fire: `setTimeout` and `setInterval` of a live process. Used for the cron
  timer, the arm timer, the wake timer, the heartbeat interval, the mirror's
  interval and a prompt's timeout.
* A suspended function goes on: job executions end by `executeJobCoreWithTimeout` (10
  minutes), heartbeats after 5 s, proxied requests after 30 s of silence, mirror POSTs
  after 5 s, agent loops after `maxTurns`, the forced conclusion after 60 s.
* `CompanyInit` (`FairSpec`): an accepted request runs on (its awaits end, git has
  timeouts); TriMC pulls every 15 minutes; and the user goes on asking, again and again, for what
  the stage offers (strong fairness of the requests). The last is an assumption about the user, without which
  no stage would ever be left; it says nothing about the daemon's own steps.
* `AgentStream`: the generator is read to its end, which both handlers do.
* `Supervision`: commands run on (every wait of theirs has a limit), the watchdog's timer fires, a booting process
  gets to listen or dies, open streams end. Crashes, hangs, commands and the window's
  movement are not fair.
* Otherwise nothing is assumed of clients, users, TriMC's reachability, crashes, reloads or the
  passing of dates. Liveness properties name what they need, such as `up` for ever.

## 4. Proofs

The theorems hold for all values of the constants that satisfy the `ASSUME` of the component's module
(bounds are natural numbers, distinct names are distinct), which TLC evaluates in the run of that component. Every
invariant below was checked by TLC before it was proved. One theorem about `CompanyInit`, `SkeletonNeverLost`, has a
hypothesis besides; it is stated in the theorem and discussed below.

Each proof module is laid out the same way: the inductive invariant, lemmas about the operators the
actions are built from, one lemma or step per action, the theorems at the end.

### CronEngineProofs

1. `TypeCorrect`: `Spec => []TypeOK`. One lemma, `TypeStep`, with a step per action. The helper
   lemmas say what a written row (`RecordedRow`), an updated table (`RowUpdates`,
   `TableUpdate`) and a tallied counter (`TalliedHealth`) are.
2. `LockIsExclusive`: `Spec => []MutualExclusion`. The invariant is inductive together with
   `TypeOK`: it says more than one holder at most, namely that the flag is set exactly
   when there is a holder and that the list holds exactly the requests in state
   `waiting`, each once. Without the last part a release could wake a request that
   does not wait. `HandOver` is the lemma on `ReleaseLock`; every action that ends an activity cites it.
3. `EngineRefinesLock`: `Spec => ImplementsFifoLock`. `LockStep` proves the invariant and, in the same
   case split, that each action maps to `Acquire`, `Release`, `Reset` or a stutter.
4. `DegradedIsThreshold`: `Spec => []DegradedIffThreshold`.
5. `RunningRowsAreOwned`: `Spec => []RunningIsOwned`. It needs `TypeOK`, `MutualExclusion` and
   `NoEarlyCatchup` (before `start()` catch-up is idle and has nothing to do), because a row may be owned by
   two activities in principle and the end of one must not release what the other
   claims; `EndReleasesRow` and `RowsUntouched` carry the argument.
6. `TimerNeverSleepsOver`: `Spec => []TimerCoversSchedule`. A pass ends by arming the timer only if
   the table has a next run, so that what the pass still has to write must not create one behind its back:
   `SnapshotInv` says that each job of a snapshot had a next run when it was taken and loses it only to
   a schedule that has none, `CoverInv` extends the property to the passes that are under way.

### InteractionsProofs

`BridgeInv` is inductive: the types, `QueuedOnce` (a request that waits is on display or in one place of the
queue, and nobody queues behind an empty display), `AnswersAreMeant` (an answer on its way was offered for that very request and is on
record as the user's) and `AllowedByUser`. Without `AnswersAreMeant` the last one says nothing about
a POST that arrives after its prompt has timed out and the next one has come up.
`BridgeTypeCorrect`, `ToolsRunByUser` (`AllowedByUser`) and `PromptsRefineLock` (`ImplementsFifoLock`: each
action is `Acquire`, `Release`, `Reset` or a stutter of the lock) follow.

### HeartbeatProofs, ConnectionProofs

Both runner and connection own a wake, whose lemmas (`MergedReason`, `RequestWakeType`, `WakeStepType`) both modules state.
`RunnerInv` is inductive: the types, `OneLoop` (`OnePassAtATime` without cardinalities), `HandlerOnce` (the handler is taken
away for good by `stop()`, and nobody disables the runner's wake) and `ChainUnbroken`. It gives `RunnerTypeCorrect`,
`PassesNeverOverlap`, `ChainNeverBreaks`, and the action properties `StoppedStaysQuiet` (`QuietAfterStop`) and
`ReloadsKeepDueAgents` (`ReloadKeepsDue`).

`ConnectionInv` is inductive: the types, `QueueBounded`, `StreakCounts` (the manager's count of successes is never
ahead of the exchanges without a failure between), `SentIsPast` (what was put into a replay request belongs to
a connection that is over, whose queue gets no event any more), `DisabledIsEmpty` and `PriorityKept`. `DisabledIsEmpty`
is what `PriorityKept` lacks: the loop may be started while heartbeats are disabled, and a wake left
pending then would wait without a timer. It gives `ConnectionTypeCorrect`, `HeartbeatPriorityKept`, and the action properties
`RecoveriesEarned` (`RecoveryEarned`) and `EventsSentOnce` (`SentAtMostOnce`).

### TaskStreamProofs

`StreamInv` is inductive: `ShapeOK`, `OpenHasTask`, `SaidByStage` (what a stream has said, by where its handler
stands), `RunningIsStreamed` and `FinishedTasksAreClosed`. It gives `TaskShapeCorrect`, `StreamsEndOnce` (`OneOutcomePerStream`), `RunningTasksAreStreamed`
and `FinishedRowsAreClosed`. `Bounded` is inductive by itself: the copies of the payloads on their way (`Posts`, a set of
numbered payloads, whose cardinality is the size of the bag) are finitely many and within the bound. `AddedPost` and `RemovedPost` say what one copy
more or less does to that set; `TaskTypeCorrect` (`TypeOK`) follows from both invariants.

### SupervisionProofs

`SupervisionInv` is inductive. `ProcessInv` says that one process at most listens and that whoever has
written the pid file has been through `listen()`; `TermInv` that a command that asks, waits for or signals a process has one;
`WatchdogInv` is the watchdog's types; `ServedInv` that the daemon which served when a stop began never boots again and, while it
serves, the stop has not got to its question yet or has looked for it in vain (`blind`), and that the process a stop has
seen dead (`AfterDeath`) stays so, since its number is not used again. It gives `SupervisionTypeCorrect` and `StopsAreFinal` (`StoppedIsGone`).

### AgentStreamProofs

Two invariants, of the harness and of the encoders, and the types of both components of `MCServices`.

`HistoryInv` is inductive: `HarnessOK`, `Identified` (a call is known by its place in its turn), `Places` (what each place of
the loop says of the budget and the length of the history) and `Rounds`: every turn but the one under way is paired, and in
that one the calls that are left follow those with a receipt and are exactly the open ones (`Underway`). The last part is
what a block needs, which carries no id and is matched by name: `HeadIsNext` shows that it finds its own call. It gives
`HarnessWithinBudget` and `RoundsArePaired` (`HistoryPaired`), of `AgentSpec`. `AgentAssumption` is what the handler makes of
the budgets of the request with `Math.max`, and that a plan is a list.

`EncoderInv` is inductive next to it: `EncodersOK`, `ShownIsSaid`, and

* `Framed`: the events sent so far are those of a message that has not ended. `Blocks` is the part
  about the framing: the blocks below `index` have been started, all of them are stopped but the last one if the encoder says a text block
  is open, and the end has not been sent. Without it nothing says that the next block may open;
* `Requested`: between a request and its assistant message, the flags that keep a text from being sent twice are set exactly
  if its delta came, and no call of the turn has been shown;
* `Announced`: in a round of tools every call that is left has been shown, so that the `tool_call` event, which comes a second
  time, shows nothing.

Each encoder operator has a lemma on what it adds (`Continues`: a longer list that shows these things more). Two of them
are folds over the calls of a turn (`AnnounceCalls`, `AnnounceChunks`), for a turn of any length. The
induction is done without the library's induction theorems: the set of the counter-examples has
a least element, by well-foundedness of `<` on the naturals (`AllNaturals`) and of strict inclusion on the subsets of a finite set
(`SmallestSubset`); from the latter, `FoldExists` says that the `CHOOSE` in the library's fold does have a function to choose. With it
`AnnounceSteps` and `ChunkSteps` turn a fold into a sequence of states, one per call, and `AnnounceCallsIs` and `AnnounceChunksIs` go
along it.

The theorems are `ClientSeesEachOnce` (`ShownIsSaid`), `AgentTypeCorrect` (`AgentTypeOK`), `ResponsesAreWellFormed`, which
is the safety part of `ImplementsMessageStream`: `AgentSpec => Stream!Safe`, every step maps to `Send` or a stutter,
and `ServicesTypeCorrect` (`TypesOK`) of `BothSpec`, from `SupervisionInv`, `HistoryInv` and `EncoderInv` together.

### CompanyInitProofs

The largest one: a request runs through up to ten places, and every lemma comes once per action.

* `RequestInv` is inductive whatever overlaps, fails or crashes. It says of each request where it can be and
  what it may go on to (`Fits`), which requests can be in flight together (`Compatible`), and the types of the data. The lemmas
  `...Step` say in addition what each action does to its request; all later lemmas cite them instead of the actions.
  `CompanyTypeCorrect` follows.
* `EarnedInv` needs no hypothesis either. Every frame on its way to the disk, in a request, in the tmp file or renamed, bears
  the marks of the stages before its own, as the cache does from which it was made, and a request that means to go on
  after the write has put the reason into the frame it writes (`Owed`). So it does not matter which of two writers' frames gets
  there, whether a read-back fails after the rename, or what a restart finds. `StagesAreEarned` (`StagesEarned`) follows.
* `CleanResets`: no request overlaps a reset, and the writes of a reset succeed. Then `FirmInv` is
  inductive: once a company is open, or an assembly is about to write that it is, its skeleton is whole and no assembly can roll back a file of its
  own any more (`SkeletonKept`); the company's file agrees with the cache unless a write has left it torn (`FileFollows`); and a reset has
  removed the company before its skeleton (`ResetWrites`). `SkeletonNeverLost` follows (`SkeletonInPlace`). The hypothesis is about the
  clients: the endpoint of the reset, which exists in debug mode only, has no flag that would keep others out. Other requests may overlap as they
  like.

### Only model-checked

* Liveness under fairness (`RequestsServed`, `DueJobsClaimed`, `DueAgentsRun`, `TracksReachability`,
  `MirrorConverges`, `EveryRequestSettled`, `SetupFinishes`, `WatchdogAnswers`, and the part of
  `ImplementsMessageStream` that a response is completed), which is outside what TLAPS can do.

* `ReadyIsApplied` and `ImplementsLadder` of `CompanyInit`. Both are claimed where two requests that write the chain file are not in
  flight together (`ImplementsLadder` also no note next to an assembly); nothing in the daemon keeps them apart, so that a
  theorem would rest on a hypothesis that is the very question. They are checked for the overlaps of `Tame`, over all faults
  and crashes within the bounds.

Every other invariant and every action property of the passing runs is a theorem. Of the other temporal properties, `ImplementsFifoLock` is
proved as it is stated, `ImplementsMessageStream` in its safety part.

## 5. Where code and documentation disagree

The four violation runs, with the quoted lines under `findings` in `PROJECT.json`.
Met on the way and not the subject of a run: `heartbeat-runner.ts:53` says that new agents
are scheduled immediately, lines 194-195 schedule them after an interval;
`heartbeat-runner.test.ts:121` says that a restart works, but `stop()` drops the
handler for good; `scheduler.ts:29-30` says that steps do not exceed the field's
maximum, lines 31-40 produce `*/60` minutes and hours above 23; `interactions.ts:115` says
that a request falls back after `timeoutMs`, but a queued one starts its
timer when it comes up; `app.ts:952` sets an interval that is
never used by the timer that runs.

Met while modelling the setup and the supervision:

* `init-chain.ts:115` says that every transition but the single step forward is illegal, and the
  header promises an `eventSeq` that grows monotonically. Two operations that write the chain
  file at once break both: each computes its frame from the cache before the other's write, and the last
  rename wins. A health check has no gate on the stage, so that it may run next to anything else, from one terminal or from two
  (`init-cli-flow.ts:146`, `:155` and `:696` expect a second entry at work). With `Overlap` the set of all pairs TLC finds
  `ImplementsLadder` violated: a health check that began in `onboarding` renames its frame after the transition of an assembly, and
  reading back finds its own frame: the chain is at `onboarding` again with the `eventSeq` that `link` had. `ReadyIsApplied` rests on
  the same order (nobody collects another bundle while a confirmation is on its way) and is claimed no further. What holds
  however they overlap is `StagesEarned`. `reset` itself starts again with `eventSeq` 1.
* A note of progress writes the whole state of the company as its cache had it. Next to an assembly it may write "no company" over the one that
  was just opened (`ImplementsLadder` with the pair progress and assemble in `Overlap`); the wizard sends them one after the other.
* `persist` means not to swallow a bad write silently (the comment at `init-chain.ts:252`) and throws if the read-back fails or differs, but the file has been
  replaced by then: the request reports a failure, the file is one write ahead of the cache, the next write takes it back, and a
  restart goes by it. `ImplementsLadder` and `SetupFinishes` hold all the same.
* `reset` drops the chain's cache, deletes `state.json` and only then writes the chain. If that write
  fails, the endpoint does not get to invalidate the company's cache: the daemon goes on with a
  company whose file is gone (instances with the fault `reset`).
* `SetupFinishes` names four dead ends. `init-sync.ts:300` and `:311` advise to go through
  link or claim, but a claim does not record a main checkout, and in the stage `sync` neither is
  accepted any more. A reset cut short by a crash, or a note whose write in place failed before a restart, leaves the stage where it was without the
  company it needs. A registration whose write fails stays in the registry's cache, goes into the bundle, and is
  gone after a restart: the confirmation then compares two lists that never agree. And a checkout that has left the commit of the bundle, or a
  fleet at a commit that is unknown to it or diverged from it, keeps layer 2 of the confirmation red (`init-confirm.ts:152-214`): somebody has to
  pull or merge, which no request does. The first three take a reset in debug mode to get out of.
* `init-state.ts:86` says "atomic write: tmp -> rename"; the target is written in place. The comment in
  `init-chain.ts:248` knows it. A torn file, from a crash or from a write that fails once the file is truncated, reads as no company at the
  next start; until then the daemon goes by its cache.
* `trilc stop` says "no daemon running" (`cli.ts:325`) whenever its search by port finds nobody, and that is also the answer when `lsof` and
  `ss`, or `netstat`, are missing or fail (`pidfile.ts:131`, `:141`, `:146`). Without a pid file the daemon then serves on after a stop
  that reports no error. `StoppedIsGone` excepts this case by name (`blind`).
* `app.ts:636-638` wants a receipt for every call, also for a blocked one, which is matched by its name from the end of the list: of
  two calls of one name, the first of which is blocked, the second gets both receipts and the first none. `HistoryPaired` is about turns
  whose calls have different names.
* `watchdog.ts:267` says "If we are shutting down intentionally, do not restart"; the condition looks at the limit only, so
  that `trilc stop` under a watchdog brings the daemon back. `WatchdogAnswers` holds *because* of it, and
  `StoppedIsGone` is therefore about the process that was stopped and not about the port.
* `watchdog.ts:290` says that `exit` follows `error`; after a failed fork it does not, and the
  watchdog ends without an alert (`lost`). The first spawn counts as a restart.
* A start reports the process it has forked; if that one loses the port a moment later, the terminal has
  named a process that is dead. `isPortInUse` holds the port itself for a moment, so that two starts at
  once may both give up.

## 6. Not modelled

* Real time. Durations appear only as the order of events; hence not the rate at which
  a job with a broken schedule fires again, and not the slow heartbeat interval.
* A job that goes on after its timeout, and the inner agent loop (agent-core, outside the repository).
* Disk failures outside `CompanyInit`. SQLite statements succeed or fail by their constraints.
* Graceful shutdown in the modules other than `Supervision`: `Restart` is a crash there.
* Backoff and the stable uptime of the watchdog, which are delays; reuse of a pid while somebody still
  remembers it; a service manager that restarts the daemon.
* More than one project; what a frame, a bundle or a skeleton file says; the events the chain publishes.
* What the model answers, and text added to its history by plan reminders.
* Deltas of one turn are one delta; a client that goes away in the middle of a response.
* Components with status `not_modelled` in `PROJECT.json`, with the reason there.

## 7. Plan

In this order:

1. `SessionStore`: rows, messages, the compact endpoint, the reaper and crash recovery, replacing the
   rows of `TaskStream`; the TUI's saved conversations, whose ids arrive late (`useChat.ts:249`); then
   `SessionSync` on top of it.
2. `McpClient`: connect, disconnect and refresh of one server by two requests.
3. `CronSchedule`: `parseCronSchedule` as a function, against the interval that was asked for.
4. Proofs: what the wake promises (`PriorityKept`) stated once, for both of its owners; for `CompanyInit`, the weaker ladder that
   survives two writers of the chain, with stages that may go back.
