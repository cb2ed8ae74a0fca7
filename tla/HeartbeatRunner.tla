--------------------------- MODULE HeartbeatRunner ---------------------------
(***************************************************************************)
(* The heartbeat runner: an interval loop over the configured agents,      *)
(* driven by a wake whose handler runs every agent that is due, one after  *)
(* the other (src/src/heartbeat/heartbeat-runner.ts and agent-runner.ts).  *)
(*                                                                         *)
(* nextRunAt is "future" or "due". An invocation of the wake handler is a  *)
(* loop over the Map that was current when it started: updateAgents puts a *)
(* new Map with new objects in its place, and the loop goes on with the    *)
(* old one ("detached"). Loops has a spare slot, so that a second          *)
(* invocation while one is in flight is a state of the model.              *)
(***************************************************************************)
EXTENDS HeartbeatWake, FiniteSets

CONSTANTS
    Agents,           \* agent ids
    Loops,            \* slots for handler invocations in flight
    MaxReloads,       \* bound: calls of updateAgents
    MaxStarts,        \* bound: calls of start()
    NoAgent

ASSUME RunnerAssumption ==
    /\ NoAgent \notin Agents
    /\ IsFiniteSet(Loops)
    /\ MaxReloads \in Nat /\ MaxStarts \in Nat

VARIABLES
    started,          \* started
    armed,            \* armTimer # null
    agents,           \* the agents Map: id -> [next, running]
    busy,             \* the agent each loop awaits, NoAgent: no invocation
    todo,             \* what each loop's snapshot of due agents still holds
    detached,         \* the loop's Map is no longer the current one
    session,          \* status of each agent's last hb_ session
    reloads, starts   \* counted for the bounds

runnerVars == <<started, armed, agents, session, reloads, starts>>
loopVars == <<busy, todo, detached>>
vars == <<wakeVars, runnerVars, loopVars>>

AgentState == [next : {"future", "due"}, running : BOOLEAN]
Configured == DOMAIN agents
InFlight == {l \in Loops : busy[l] # NoAgent}
IsDue(a) == a \in Configured /\ ~agents[a].running /\ agents[a].next = "due"

TypeOK ==
    /\ WakeTypeOK
    /\ started \in BOOLEAN
    /\ armed \in BOOLEAN
    /\ Configured \subseteq Agents
    /\ \A a \in Configured : agents[a] \in AgentState
    /\ busy \in [Loops -> Agents \cup {NoAgent}]
    /\ todo \in [Loops -> SUBSET Agents]
    /\ detached \in [Loops -> BOOLEAN]
    /\ session \in [Agents -> {"none", "active", "completed", "interrupted"}]
    /\ reloads \in 0..MaxReloads
    /\ starts \in 0..MaxStarts

Init ==
    /\ enabled = TRUE /\ handler = TRUE     \* setWakeHandler at creation
    /\ pending = "none" /\ timer = "none"
    /\ running = FALSE /\ again = FALSE
    /\ started = FALSE
    /\ armed = FALSE
    /\ agents = [a \in {} |-> [next |-> "future", running |-> FALSE]]
    /\ busy = [l \in Loops |-> NoAgent]
    /\ todo = [l \in Loops |-> {}]
    /\ detached = [l \in Loops |-> FALSE]
    /\ session = [a \in Agents |-> "none"]
    /\ reloads = 0 /\ starts = 0

\* A variant that only arms an unarmed timer for agents whose time has come.
ArmWhenDue ==
    armed' = (started' /\ \E a \in DOMAIN agents' : ~agents'[a].running /\ agents'[a].next = "due")

\* arm(): for the earliest agent that is not running.
Arm ==
    armed' = IF started' THEN \E a \in DOMAIN agents' : ~agents'[a].running ELSE armed

-----------------------------------------------------------------------------

\* start(): every agent waits its interval.
Start ==
    /\ starts < MaxStarts
    /\ ~started
    /\ started' = TRUE
    /\ starts' = starts + 1
    /\ agents' = [a \in Configured |-> [agents[a] EXCEPT !.next = "future"]]
    /\ Arm
    /\ UNCHANGED <<wakeVars, loopVars, session, reloads>>

\* stop(): a loop in flight goes on to its end.
Stop ==
    /\ started
    /\ started' = FALSE
    /\ armed' = FALSE
    /\ ClearHandler
    /\ UNCHANGED <<agents, session, reloads, starts, loopVars>>

\* A variant that gives a new agent no nextRunAt.
UpdateAgentsUndated(configs) ==
    /\ reloads < MaxReloads
    /\ reloads' = reloads + 1
    /\ agents' = [a \in configs |-> IF a \in Configured THEN agents[a]
                                    ELSE [next |-> "undefined", running |-> FALSE]]
    /\ detached' = [l \in Loops |-> busy[l] # NoAgent]
    /\ UNCHANGED <<wakeVars, started, session, starts, busy, todo>>
    /\ Arm

\* A variant that schedules every agent of the new configuration afresh.
UpdateAgentsAfresh(configs) ==
    /\ reloads < MaxReloads
    /\ reloads' = reloads + 1
    /\ agents' = [a \in configs |-> [next |-> "future", running |-> FALSE]]
    /\ detached' = [l \in Loops |-> busy[l] # NoAgent]
    /\ UNCHANGED <<wakeVars, started, session, starts, busy, todo>>
    /\ Arm

\* updateAgents: nextRunAt and running are copied into new objects.
UpdateAgents(configs) ==
    /\ reloads < MaxReloads
    /\ reloads' = reloads + 1
    /\ agents' = [a \in configs |-> IF a \in Configured THEN agents[a]
                                    ELSE [next |-> "future", running |-> FALSE]]
    /\ detached' = [l \in Loops |-> busy[l] # NoAgent]
    /\ UNCHANGED <<wakeVars, started, session, starts, busy, todo>>
    /\ Arm

\* The interval of agent a is over.
TimePasses(a) ==
    /\ a \in Configured
    /\ agents[a].next = "future"
    /\ agents' = [agents EXCEPT ![a].next = "due"]
    /\ UNCHANGED <<wakeVars, loopVars, started, armed, session, reloads, starts>>

\* The arm timer fires.
ArmTimerFires ==
    /\ armed
    /\ armed' = FALSE
    /\ RequestWake("interval")
    /\ UNCHANGED <<started, agents, session, reloads, starts, loopVars>>

\* The wake timer fires but no handler is started.
WakeIdles ==
    /\ WakeDeferred \/ WakeDropped
    /\ UNCHANGED <<runnerVars, loopVars>>

\* The handler starts and nothing is due: it re-arms and returns.
PassSkips ==
    /\ \A a \in Agents : ~IsDue(a)
    /\ timer # "none" /\ ~running /\ handler
    /\ timer' = "none" /\ pending' = "none" /\ again' = FALSE
    /\ UNCHANGED <<enabled, handler, running, started, agents, session, reloads, starts, loopVars>>
    /\ Arm

\* The handler starts: the agents due now are run one by one, a first.
PassBegins(l, a) ==
    /\ busy[l] = NoAgent
    /\ IsDue(a)
    /\ WakeFires
    /\ agents' = [agents EXCEPT ![a].running = TRUE]
    /\ busy' = [busy EXCEPT ![l] = a]
    /\ todo' = [todo EXCEPT ![l] = {b \in Agents : IsDue(b)} \ {a}]
    /\ detached' = [detached EXCEPT ![l] = FALSE]
    /\ session' = [session EXCEPT ![a] = "active"]
    /\ UNCHANGED <<started, armed, reloads, starts>>

\* The finally block after an agent's run, on the object the loop holds.
Finished(l) ==
    IF detached[l] THEN agents
    ELSE [agents EXCEPT ![busy[l]] = [next |-> "future", running |-> FALSE]]

\* The run of an agent ends and the loop awaits the next one. A start() since
\* the pass began has made the waiting agents of the current Map undue.
RunsNext(l, outcome, a) ==
    /\ l \in InFlight
    /\ a \in todo[l]
    /\ detached[l] \/ IsDue(a)
    /\ agents' = IF detached[l] THEN agents ELSE [Finished(l) EXCEPT ![a].running = TRUE]
    /\ busy' = [busy EXCEPT ![l] = a]
    /\ todo' = [todo EXCEPT ![l] = @ \ {a}]
    /\ session' = [session EXCEPT ![busy[l]] = outcome, ![a] = "active"]
    /\ UNCHANGED <<wakeVars, detached, started, armed, reloads, starts>>

\* A variant that forgets to arm the timer at the end of the pass.
PassEndsUnarmed(l, outcome) ==
    /\ l \in InFlight
    /\ \A a \in todo[l] : ~detached[l] /\ ~IsDue(a)
    /\ agents' = Finished(l)
    /\ busy' = [busy EXCEPT ![l] = NoAgent]
    /\ todo' = [todo EXCEPT ![l] = {}]
    /\ detached' = [detached EXCEPT ![l] = FALSE]
    /\ session' = [session EXCEPT ![busy[l]] = outcome]
    /\ WakeDone
    /\ UNCHANGED <<armed, started, reloads, starts>>

\* The last agent's run ends: the handler arms the timer and returns.
PassEnds(l, outcome) ==
    /\ l \in InFlight
    /\ \A a \in todo[l] : ~detached[l] /\ ~IsDue(a)
    /\ agents' = Finished(l)
    /\ busy' = [busy EXCEPT ![l] = NoAgent]
    /\ todo' = [todo EXCEPT ![l] = {}]
    /\ detached' = [detached EXCEPT ![l] = FALSE]
    /\ session' = [session EXCEPT ![busy[l]] = outcome]
    /\ WakeDone
    /\ UNCHANGED <<started, reloads, starts>>
    /\ Arm

Ends == {"completed", "interrupted"}

LoopStep(l) ==
    \E outcome \in Ends : PassEnds(l, outcome) \/ \E a \in Agents : RunsNext(l, outcome, a)

WakeStep ==
    \/ WakeIdles
    \/ PassSkips
    \/ \E l \in Loops, a \in Agents : PassBegins(l, a)

Next ==
    \/ Start
    \/ Stop
    \/ \E configs \in SUBSET Agents : UpdateAgents(configs)
    \/ \E a \in Agents : TimePasses(a)
    \/ ArmTimerFires
    \/ WakeStep
    \/ \E l \in Loops : LoopStep(l)

\* Timers fire; an agent loop ends, after maxTurns at the latest.
Fairness ==
    /\ WF_vars(ArmTimerFires)
    /\ WF_vars(WakeStep)
    /\ \A l \in Loops : WF_vars(LoopStep(l))

Spec == Init /\ [][Next]_vars
FairSpec == Spec /\ Fairness

-----------------------------------------------------------------------------
(* Properties.                                                             *)

\* heartbeat-wake.ts 123: a wake that comes due during a run is deferred, so
\* at most one pass is in flight, and a pass is in flight exactly while the
\* wake says so. updateAgents relies on it: it copies the objects on which a
\* pass in flight keeps its marks, so nothing else keeps two runs apart.
OnePassAtATime ==
    /\ Cardinality(InFlight) <= 1
    /\ running <=> InFlight # {}

\* The chain arm timer -> wake timer -> pass -> arm never breaks: between
\* start() and stop(), one of the three exists, or nobody is left to wait for.
ChainUnbroken ==
    started /\ handler /\ ~armed /\ timer = "none" /\ InFlight = {} =>
        \A a \in Configured : agents[a].running

\* After stop() the timers that are still pending start no new pass, even
\* though stop() does not cancel the wake's timer.
QuietAfterStop == [][~started /\ starts > 0 => InFlight' \subseteq InFlight]_vars

\* heartbeat-runner.ts 12 and 52: a reload does not postpone an agent. Only
\* the end of its own run or a start() makes a due agent wait again.
ReloadKeepsDue ==
    [][\A a \in Configured \cap DOMAIN agents' :
          agents[a].next = "due" /\ agents'[a].next = "future"
             => starts' # starts \/ \E l \in InFlight : busy[l] = a]_vars

\* A due agent that is not marked running is run in the end, whatever reloads,
\* deferred wakes and other agents' runs come between.
Waiting(a) == started /\ IsDue(a)
DueAgentsRun == \A a \in Agents : Waiting(a) ~> ~Waiting(a)

\* heartbeat-runner.ts 11 and 52, "Hot-reload agent configs": an agent that
\* stays configured keeps running at its interval, also when the reload meets
\* its run in flight.
ReloadedAgentsRun ==
    \A a \in Agents :
        started /\ a \in Configured /\ agents[a].next = "due"
        ~> ~started \/ a \notin Configured \/ agents[a].next = "future"
=============================================================================
