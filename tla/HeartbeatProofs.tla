--------------------------- MODULE HeartbeatProofs ---------------------------
(***************************************************************************)
(* Theorems about HeartbeatRunner and the wake it runs on, for every set   *)
(* of agents, every number of loop slots and every bound.                  *)
(***************************************************************************)
EXTENDS HeartbeatRunner, FiniteSetTheorems, TLAPS

-----------------------------------------------------------------------------
(* The inductive invariant.                                                *)

\* OnePassAtATime without cardinalities.
OneLoop ==
    /\ \A l, m \in InFlight : l = m
    /\ running <=> InFlight # {}

\* The handler is set once, at creation, and stop() takes it away for good;
\* nobody disables the runner's wake.
HandlerOnce ==
    /\ handler => started \/ starts = 0
    /\ enabled

RunnerInv == TypeOK /\ OneLoop /\ HandlerOnce /\ ChainUnbroken

-----------------------------------------------------------------------------
(* The wake.                                                               *)

\* Whatever was pending, a request leaves one of the known reasons, and it
\* never replaces a wake of a higher priority.
LEMMA MergedReason ==
    ASSUME NEW old \in Reasons \cup {"none"}, NEW reason \in Reasons
    PROVE  /\ Merged(old, reason) \in Reasons
           /\ old # "none" => Priority(Merged(old, reason)) >= Priority(old)
           /\ Priority(Merged(old, reason)) >= Priority(reason)
  <1>1. Priority(reason) \in 0..3 /\ (old # "none" => Priority(old) \in 0..3)
    BY DEF Priority, Reasons
  <1> QED BY <1>1 DEF Merged

\* A request keeps the wake's type, and an enabled wake has a timer then.
LEMMA RequestWakeType ==
    ASSUME WakeTypeOK, NEW reason \in Reasons, RequestWake(reason)
    PROVE  WakeTypeOK' /\ (enabled => timer' # "none")
  <1>1. Merged(pending, reason) \in Reasons
    BY MergedReason DEF WakeTypeOK
  <1> QED BY <1>1 DEF RequestWake, WakeTypeOK, Scheduled

\* The wake's own steps keep its type.
LEMMA WakeStepType ==
    ASSUME WakeTypeOK,
           \/ WakeDeferred \/ WakeDropped \/ WakeFires \/ WakeDone \/ ClearHandler
           \/ \E on \in BOOLEAN : SetEnabled(on)
    PROVE  WakeTypeOK'
  BY DEF WakeTypeOK, WakeDeferred, WakeDropped, WakeFires, WakeDone, ClearHandler, SetEnabled,
         Scheduled

-----------------------------------------------------------------------------
(* The operators the actions are built from.                               *)

\* arm() covers every agent that is not running.
LEMMA ArmCovers ==
    ASSUME Arm, started'
    PROVE  armed' \in BOOLEAN /\ (~armed' => \A a \in DOMAIN agents' : agents'[a].running)
  <1>1. armed' = \E a \in DOMAIN agents' : ~agents'[a].running
    BY DEF Arm
  <1> QED BY <1>1

LEMMA ArmType ==
    ASSUME TypeOK, Arm
    PROVE  armed' \in BOOLEAN
  BY DEF Arm, TypeOK

\* The Map keeps its type under an update of one agent's object.
LEMMA AgentUpdate ==
    ASSUME NEW map, \A b \in DOMAIN map : map[b] \in AgentState,
           NEW a, NEW object, a \in DOMAIN map => object \in AgentState
    PROVE  /\ DOMAIN [map EXCEPT ![a] = object] = DOMAIN map
           /\ \A b \in DOMAIN map : [map EXCEPT ![a] = object][b] \in AgentState
  OBVIOUS

\* The end of a run leaves well-formed objects, and changes no agent but the
\* one that has run.
LEMMA FinishedMap ==
    ASSUME TypeOK, NEW l \in Loops
    PROVE  /\ DOMAIN Finished(l) = Configured
           /\ \A b \in Configured : Finished(l)[b] \in AgentState
           /\ \A b \in Configured : b # busy[l] => Finished(l)[b] = agents[b]
  <1> DEFINE idle == [next |-> "future", running |-> FALSE]
  <1>1. idle \in AgentState
    BY DEF AgentState
  <1>2. \/ Finished(l) = agents
        \/ Finished(l) = [agents EXCEPT ![busy[l]] = idle]
    BY DEF Finished
  <1> HIDE DEF idle
  <1> QED BY <1>1, <1>2 DEF TypeOK, Configured

-----------------------------------------------------------------------------
(* Types.                                                                  *)

LEMMA RunnerTypeStep == TypeOK /\ [Next]_vars => TypeOK'
  <1> SUFFICES ASSUME TypeOK, [Next]_vars PROVE TypeOK'
    OBVIOUS
  <1> USE DEF Configured
  <1>1. CASE Start
    <2>1. starts' \in 0..MaxStarts
      BY <1>1, RunnerAssumption DEF Start, TypeOK
    <2>2. /\ DOMAIN agents' = Configured
          /\ \A a \in Configured : agents'[a] \in AgentState
      BY <1>1 DEF Start, TypeOK, AgentState
    <2>3. armed' \in BOOLEAN
      BY <1>1, ArmType DEF Start
    <2>4. WakeTypeOK' /\ UNCHANGED loopVars
      BY <1>1 DEF Start, TypeOK, WakeTypeOK, wakeVars
    <2> QED BY <1>1, <2>1, <2>2, <2>3, <2>4 DEF Start, TypeOK, loopVars
  <1>2. CASE Stop
    BY <1>2, WakeStepType DEF Stop, TypeOK, loopVars
  <1>3. ASSUME NEW configs \in SUBSET Agents, UpdateAgents(configs) PROVE TypeOK'
    <2>1. reloads' \in 0..MaxReloads
      BY <1>3, RunnerAssumption DEF UpdateAgents, TypeOK
    <2>2. /\ DOMAIN agents' = configs
          /\ \A a \in configs : agents'[a] \in AgentState
      BY <1>3 DEF UpdateAgents, TypeOK, AgentState
    <2>3. armed' \in BOOLEAN
      BY <1>3, ArmType DEF UpdateAgents
    <2>4. WakeTypeOK' /\ detached' \in [Loops -> BOOLEAN]
      BY <1>3 DEF UpdateAgents, TypeOK, WakeTypeOK, wakeVars
    <2> QED BY <1>3, <2>1, <2>2, <2>3, <2>4 DEF UpdateAgents, TypeOK
  <1>4. ASSUME NEW a \in Agents, TimePasses(a) PROVE TypeOK'
    <2>1. [agents[a] EXCEPT !.next = "due"] \in AgentState
      BY <1>4 DEF TimePasses, TypeOK, AgentState
    <2>2. agents' = [agents EXCEPT ![a] = [agents[a] EXCEPT !.next = "due"]]
      BY <1>4 DEF TimePasses
    <2>3. DOMAIN agents' = Configured /\ \A b \in Configured : agents'[b] \in AgentState
      BY <2>1, <2>2, AgentUpdate DEF TypeOK
    <2> QED BY <1>4, <2>3 DEF TimePasses, TypeOK, WakeTypeOK, wakeVars, loopVars
  <1>5. CASE ArmTimerFires
    <2>1. WakeTypeOK'
      BY <1>5, RequestWakeType DEF ArmTimerFires, TypeOK, Reasons
    <2> QED BY <1>5, <2>1 DEF ArmTimerFires, TypeOK, loopVars
  <1>6. CASE WakeIdles
    <2>1. WakeTypeOK'
      BY <1>6, WakeStepType DEF WakeIdles, TypeOK
    <2> QED BY <1>6, <2>1 DEF WakeIdles, TypeOK, runnerVars, loopVars
  <1>7. CASE PassSkips
    <2>1. armed' \in BOOLEAN
      BY <1>7, ArmType DEF PassSkips
    <2> QED BY <1>7, <2>1 DEF PassSkips, TypeOK, WakeTypeOK, loopVars
  <1>8. ASSUME NEW l \in Loops, NEW a \in Agents, PassBegins(l, a) PROVE TypeOK'
    <2>1. WakeTypeOK'
      BY <1>8, WakeStepType DEF PassBegins, TypeOK
    <2>2. [agents[a] EXCEPT !.running = TRUE] \in AgentState
      BY <1>8 DEF PassBegins, IsDue, TypeOK, AgentState
    <2>3. agents' = [agents EXCEPT ![a] = [agents[a] EXCEPT !.running = TRUE]]
      BY <1>8 DEF PassBegins
    <2>4. DOMAIN agents' = Configured /\ \A b \in Configured : agents'[b] \in AgentState
      BY <2>2, <2>3, AgentUpdate DEF TypeOK
    <2>5. /\ busy' \in [Loops -> Agents \cup {NoAgent}]
          /\ todo' \in [Loops -> SUBSET Agents]
          /\ detached' \in [Loops -> BOOLEAN]
      BY <1>8 DEF PassBegins, TypeOK
    <2>6. session' \in [Agents -> {"none", "active", "completed", "interrupted"}]
      BY <1>8 DEF PassBegins, TypeOK
    <2> QED BY <1>8, <2>1, <2>4, <2>5, <2>6 DEF PassBegins, TypeOK
  <1>9. ASSUME NEW l \in Loops, NEW outcome \in Ends, NEW a \in Agents, RunsNext(l, outcome, a)
        PROVE  TypeOK'
    <2>1. DOMAIN agents' = Configured /\ \A b \in Configured : agents'[b] \in AgentState
      <3>1. CASE detached[l]
        BY <1>9, <3>1 DEF RunsNext, TypeOK
      <3>2. CASE ~detached[l]
        <4>1. agents' = [Finished(l) EXCEPT ![a] = [Finished(l)[a] EXCEPT !.running = TRUE]]
          BY <1>9, <3>2 DEF RunsNext
        <4>2. a \in Configured => [Finished(l)[a] EXCEPT !.running = TRUE] \in AgentState
          BY FinishedMap DEF AgentState
        <4> HIDE DEF Finished
        <4> QED BY <4>1, <4>2, FinishedMap, AgentUpdate
      <3> QED BY <3>1, <3>2
    <2>2. busy' \in [Loops -> Agents \cup {NoAgent}] /\ todo' \in [Loops -> SUBSET Agents]
      BY <1>9 DEF RunsNext, TypeOK
    <2>3. session' \in [Agents -> {"none", "active", "completed", "interrupted"}]
      BY <1>9 DEF RunsNext, TypeOK, Ends
    <2> QED BY <1>9, <2>1, <2>2, <2>3 DEF RunsNext, TypeOK, WakeTypeOK, wakeVars
  <1>10. ASSUME NEW l \in Loops, NEW outcome \in Ends, PassEnds(l, outcome) PROVE TypeOK'
    <2>1. DOMAIN agents' = Configured /\ \A b \in Configured : agents'[b] \in AgentState
      BY <1>10, FinishedMap DEF PassEnds
    <2>2. armed' \in BOOLEAN
      BY <1>10, ArmType DEF PassEnds
    <2>3. WakeTypeOK'
      BY <1>10, WakeStepType DEF PassEnds, TypeOK
    <2>4. session' \in [Agents -> {"none", "active", "completed", "interrupted"}]
      BY <1>10 DEF PassEnds, TypeOK, Ends
    <2>5. /\ busy' \in [Loops -> Agents \cup {NoAgent}]
          /\ todo' \in [Loops -> SUBSET Agents]
          /\ detached' \in [Loops -> BOOLEAN]
      BY <1>10 DEF PassEnds, TypeOK
    <2> QED BY <1>10, <2>1, <2>2, <2>3, <2>4, <2>5 DEF PassEnds, TypeOK
  <1>11. CASE UNCHANGED vars
    BY <1>11 DEF vars, wakeVars, runnerVars, loopVars, TypeOK, WakeTypeOK
  <1> QED BY <1>1, <1>2, <1>3, <1>4, <1>5, <1>6, <1>7, <1>8, <1>9, <1>10, <1>11
          DEF Next, WakeStep, LoopStep

LEMMA RunnerInit == Init => RunnerInv
  <1> SUFFICES ASSUME Init PROVE RunnerInv
    OBVIOUS
  <1>1. TypeOK
    <2>1. WakeTypeOK
      BY DEF Init, WakeTypeOK
    <2>2. reloads \in 0..MaxReloads /\ starts \in 0..MaxStarts
      BY RunnerAssumption DEF Init
    <2>3. Configured = {}
      BY DEF Init, Configured
    <2> QED BY <2>1, <2>2, <2>3 DEF Init, TypeOK
  <1>2. OneLoop /\ HandlerOnce /\ ChainUnbroken
    BY DEF Init, OneLoop, HandlerOnce, ChainUnbroken, InFlight
  <1> QED BY <1>1, <1>2 DEF RunnerInv

-----------------------------------------------------------------------------
(* One pass at a time.                                                     *)

\* Only the start and the end of a pass change the set of passes in flight:
\* the first under ~running, the second with the pass that is there.
LEMMA OneLoopStep == TypeOK /\ OneLoop /\ [Next]_vars => OneLoop'
  <1> SUFFICES ASSUME TypeOK, OneLoop, [Next]_vars PROVE OneLoop'
    OBVIOUS
  <1>1. CASE UNCHANGED <<InFlight, running>>
    BY <1>1 DEF OneLoop
  <1>2. ASSUME NEW l \in Loops, NEW a \in Agents, PassBegins(l, a) PROVE OneLoop'
    <2>1. InFlight = {} /\ running' = TRUE
      BY <1>2 DEF PassBegins, WakeFires, OneLoop
    <2>2. InFlight' = {l}
      BY <1>2, <2>1, RunnerAssumption DEF PassBegins, InFlight, TypeOK
    <2> QED BY <2>1, <2>2 DEF OneLoop
  <1>3. ASSUME NEW l \in Loops, NEW outcome \in Ends, PassEnds(l, outcome) PROVE OneLoop'
    <2>1. InFlight = {l} /\ running' = FALSE
      BY <1>3 DEF PassEnds, WakeDone, OneLoop, InFlight
    <2>2. InFlight' = {}
      BY <1>3, <2>1 DEF PassEnds, InFlight, TypeOK
    <2> QED BY <2>1, <2>2 DEF OneLoop
  <1>4. ASSUME NEW l \in Loops, NEW outcome \in Ends, NEW a \in Agents, RunsNext(l, outcome, a)
        PROVE  UNCHANGED <<InFlight, running>>
    BY <1>4, RunnerAssumption DEF RunsNext, InFlight, TypeOK, wakeVars
  <1>5. CASE \/ Start \/ Stop \/ ArmTimerFires \/ WakeIdles \/ PassSkips \/ UNCHANGED vars
             \/ \E configs \in SUBSET Agents : UpdateAgents(configs)
             \/ \E a \in Agents : TimePasses(a)
    <2>1. UNCHANGED <<busy, running>>
      BY <1>5 DEF Start, Stop, UpdateAgents, TimePasses, ArmTimerFires, WakeIdles, PassSkips,
                  ClearHandler, RequestWake, WakeDeferred, WakeDropped, vars, wakeVars, loopVars
    <2> QED BY <1>1, <2>1 DEF InFlight
  <1> QED BY <1>1, <1>2, <1>3, <1>4, <1>5 DEF Next, WakeStep, LoopStep

\* Nothing sets the handler again.
LEMMA HandlerStep == TypeOK /\ HandlerOnce /\ [Next]_vars => HandlerOnce'
  <1> SUFFICES ASSUME TypeOK, HandlerOnce, [Next]_vars PROVE HandlerOnce'
    OBVIOUS
  <1>1. CASE Start
    BY <1>1 DEF Start, HandlerOnce, wakeVars
  <1>2. CASE Stop
    BY <1>2 DEF Stop, ClearHandler, HandlerOnce
  <1>3. CASE \/ \E configs \in SUBSET Agents : UpdateAgents(configs)
             \/ \E a \in Agents : TimePasses(a)
             \/ ArmTimerFires \/ WakeIdles \/ PassSkips \/ UNCHANGED vars
    <2>1. UNCHANGED <<started, starts, enabled, handler>>
      BY <1>3 DEF UpdateAgents, TimePasses, ArmTimerFires, WakeIdles, PassSkips, RequestWake,
                  WakeDeferred, WakeDropped, vars, wakeVars, runnerVars
    <2> QED BY <2>1 DEF HandlerOnce
  <1>4. ASSUME NEW l \in Loops, (\E a \in Agents : PassBegins(l, a)) \/ LoopStep(l)
        PROVE  HandlerOnce'
    <2>1. UNCHANGED <<started, starts, enabled, handler>>
      BY <1>4 DEF LoopStep, PassBegins, PassEnds, RunsNext, WakeFires, WakeDone, wakeVars
    <2> QED BY <2>1 DEF HandlerOnce
  <1> QED BY <1>1, <1>2, <1>3, <1>4 DEF Next, WakeStep

-----------------------------------------------------------------------------
(* The chain of timers.                                                    *)

\* The step keeps the agents in their places and marks none as waiting.
LEMMA SameMarks ==
    ASSUME ChainUnbroken,
           started' /\ handler' => started /\ handler,
           ~armed' /\ timer' = "none" /\ InFlight' = {}
              => ~armed /\ timer = "none" /\ InFlight = {},
           DOMAIN agents' = DOMAIN agents,
           \A a \in Configured : agents[a].running => agents'[a].running
    PROVE  ChainUnbroken'
  BY DEF ChainUnbroken, Configured

\* arm() re-establishes the chain by itself.
LEMMA ArmedChain ==
    ASSUME started' => Arm
    PROVE  ChainUnbroken'
  BY ArmCovers DEF ChainUnbroken, Configured

LEMMA ChainStep == RunnerInv /\ [Next]_vars => ChainUnbroken'
  <1> SUFFICES ASSUME RunnerInv, [Next]_vars PROVE ChainUnbroken'
    OBVIOUS
  <1> USE DEF RunnerInv
  <1>1. CASE \/ Start \/ PassSkips
             \/ \E configs \in SUBSET Agents : UpdateAgents(configs)
             \/ \E l \in Loops, outcome \in Ends : PassEnds(l, outcome)
    BY <1>1, ArmedChain DEF Start, PassSkips, UpdateAgents, PassEnds
  <1>2. CASE Stop
    BY <1>2 DEF Stop, ChainUnbroken
  <1>3. ASSUME NEW a \in Agents, TimePasses(a) PROVE ChainUnbroken'
    <2>1. \A b \in Configured : agents[b].running => agents'[b].running
      BY <1>3 DEF TimePasses, TypeOK, AgentState
    <2> QED BY <1>3, <2>1, SameMarks DEF TimePasses, wakeVars, loopVars, InFlight
  <1>4. CASE ArmTimerFires
    <2>1. timer' # "none"
      BY <1>4, RequestWakeType DEF ArmTimerFires, TypeOK, Reasons, HandlerOnce
    <2> QED BY <2>1 DEF ChainUnbroken
  <1>5. CASE WakeIdles
    <2>1. CASE WakeDeferred
      <3>1. InFlight' # {}
        BY <1>5, <2>1 DEF WakeIdles, WakeDeferred, OneLoop, InFlight, loopVars
      <3> QED BY <3>1 DEF ChainUnbroken
    <2>2. CASE WakeDropped
      BY <2>2 DEF WakeDropped, ChainUnbroken
    <2> QED BY <1>5, <2>1, <2>2 DEF WakeIdles
  <1>6. ASSUME NEW l \in Loops, NEW a \in Agents,
               PassBegins(l, a) \/ \E outcome \in Ends : RunsNext(l, outcome, a)
        PROVE  ChainUnbroken'
    <2>1. l \in InFlight'
      BY <1>6, RunnerAssumption DEF PassBegins, RunsNext, InFlight, TypeOK
    <2> QED BY <2>1 DEF ChainUnbroken
  <1>7. CASE UNCHANGED vars
    BY <1>7 DEF vars, wakeVars, runnerVars, loopVars, InFlight, Configured, ChainUnbroken
  <1> QED BY <1>1, <1>2, <1>3, <1>4, <1>5, <1>6, <1>7 DEF Next, WakeStep, LoopStep

-----------------------------------------------------------------------------
(* The theorems.                                                           *)

LEMMA RunnerAlways == Spec => []RunnerInv
  <1>1. RunnerInv /\ [Next]_vars => RunnerInv'
    BY RunnerTypeStep, OneLoopStep, HandlerStep, ChainStep DEF RunnerInv
  <1> QED BY <1>1, RunnerInit, PTL DEF Spec

\* The wake, the Map of agents and the loops over it keep their shapes.
THEOREM RunnerTypeCorrect == Spec => []TypeOK
  <1>1. RunnerInv => TypeOK
    BY DEF RunnerInv
  <1> QED BY <1>1, RunnerAlways, PTL

\* At most one invocation of the handler is in flight, for any number of
\* reloads, restarts of the runner and wakes that come due during a run.
THEOREM PassesNeverOverlap == Spec => []OnePassAtATime
  <1>1. RunnerInv => OnePassAtATime
    <2> SUFFICES ASSUME OneLoop PROVE OnePassAtATime
      BY DEF RunnerInv
    <2>1. InFlight = {} \/ \E l \in Loops : InFlight = {l}
      BY DEF OneLoop, InFlight
    <2>2. Cardinality(InFlight) \in {0, 1}
      BY <2>1, FS_EmptySet, FS_Singleton
    <2> QED BY <2>2 DEF OneLoop, OnePassAtATime
  <1> QED BY <1>1, RunnerAlways, PTL

\* Between start() and stop() there is always a timer, a wake or a pass that
\* will look at the agents again.
THEOREM ChainNeverBreaks == Spec => []ChainUnbroken
  <1>1. RunnerInv => ChainUnbroken
    BY DEF RunnerInv
  <1> QED BY <1>1, RunnerAlways, PTL

\* After stop() no pass begins any more, whatever timers are left.
THEOREM StoppedStaysQuiet == Spec => QuietAfterStop
  <1>1. RunnerInv /\ [Next]_vars
           => [~started /\ starts > 0 => InFlight' \subseteq InFlight]_vars
    <2> SUFFICES ASSUME RunnerInv, Next, ~started, starts > 0
                 PROVE  InFlight' \subseteq InFlight
      OBVIOUS
    <2>1. ~handler
      BY DEF RunnerInv, HandlerOnce, TypeOK
    <2>2. \/ UNCHANGED busy
          \/ \E l \in InFlight : \E b \in Agents \cup {NoAgent} : busy' = [busy EXCEPT ![l] = b]
      BY <2>1 DEF Next, Start, Stop, UpdateAgents, TimePasses, ArmTimerFires, WakeStep, WakeIdles,
                  PassSkips, PassBegins, WakeFires, LoopStep, PassEnds, RunsNext, loopVars
    <2> QED BY <2>2 DEF RunnerInv, TypeOK, InFlight
  <1> QED BY <1>1, RunnerAlways, PTL DEF Spec, QuietAfterStop

\* No reload of the configuration postpones an agent that is due: only the
\* end of its own run or a start() makes it wait its interval again.
THEOREM ReloadsKeepDueAgents == Spec => ReloadKeepsDue
  <1> DEFINE Kept == \A a \in Configured \cap DOMAIN agents' :
                        agents[a].next = "due" /\ agents'[a].next = "future"
                           => starts' # starts \/ \E l \in InFlight : busy[l] = a
  <1>1. RunnerInv /\ [Next]_vars => [Kept]_vars
    <2> SUFFICES ASSUME RunnerInv, Next PROVE Kept
      OBVIOUS
    <2>0. TypeOK
      BY DEF RunnerInv
    <2>1. CASE Start
      BY <2>0, <2>1 DEF Start, TypeOK
    <2>2. ASSUME NEW configs \in SUBSET Agents, UpdateAgents(configs) PROVE Kept
      BY <2>2 DEF UpdateAgents
    <2>3. ASSUME NEW a \in Agents, TimePasses(a) PROVE Kept
      BY <2>0, <2>3 DEF TimePasses, TypeOK, AgentState
    <2>4. ASSUME NEW l \in Loops, NEW a \in Agents, PassBegins(l, a) PROVE Kept
      BY <2>0, <2>4 DEF PassBegins, TypeOK, AgentState
    <2>5. ASSUME NEW l \in Loops, NEW outcome \in Ends, NEW a \in Agents, RunsNext(l, outcome, a)
          PROVE  Kept
      <3>1. \A b \in Configured : b # busy[l] => Finished(l)[b] = agents[b]
        BY <2>0, FinishedMap
      <3>2. DOMAIN Finished(l) = Configured /\ \A b \in Configured : Finished(l)[b] \in AgentState
        BY <2>0, FinishedMap
      <3>3. agents' = agents \/ agents' = [Finished(l) EXCEPT ![a].running = TRUE]
        BY <2>5 DEF RunsNext
      <3>4. \A b \in Configured : b # busy[l] => agents'[b].next = agents[b].next
        <4> HIDE DEF Finished
        <4> QED BY <3>1, <3>2, <3>3 DEF AgentState
      <3> QED BY <2>5, <3>4 DEF RunsNext
    <2>6. ASSUME NEW l \in Loops, NEW outcome \in Ends, PassEnds(l, outcome) PROVE Kept
      <3>1. \A b \in Configured : b # busy[l] => agents'[b] = agents[b]
        BY <2>0, <2>6, FinishedMap DEF PassEnds
      <3> QED BY <2>6, <3>1 DEF PassEnds
    <2>7. CASE Stop \/ ArmTimerFires \/ WakeIdles \/ PassSkips
      BY <2>7 DEF Stop, ArmTimerFires, WakeIdles, PassSkips, runnerVars
    <2> QED BY <2>1, <2>2, <2>3, <2>4, <2>5, <2>6, <2>7 DEF Next, WakeStep, LoopStep
  <1> QED BY <1>1, RunnerAlways, PTL DEF Spec, ReloadKeepsDue

=============================================================================
