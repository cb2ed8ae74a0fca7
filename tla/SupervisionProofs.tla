------------------------- MODULE SupervisionProofs -------------------------
(***************************************************************************)
(* Theorems about Supervision, for every number of processes, terminals,   *)
(* commands, crashes and hangs.                                            *)
(***************************************************************************)
EXTENDS Supervision, FiniteSetTheorems, TLAPS

-----------------------------------------------------------------------------
(* Types.                                                                  *)

States == {"dead", "booting", "serving", "hung", "closing", "exiting"}
Journeys == [at : Labels, pid : Processes \cup {None}, named : BOOLEAN,
             then : {"end", "start", "run"}, served : Processes \cup {None}, blind : BOOLEAN]

\* The processes: one of them at most has the port, and whoever has written
\* the pid file has been through listen().
ProcessInv ==
    /\ proc \in [Processes -> States]
    /\ \A p, q \in Listening : p = q
    /\ registered \in SUBSET Processes
    /\ \A p \in registered : proc[p] \in {"serving", "hung", "closing", "exiting"}
    /\ pidFile \in Processes \cup {None}

\* A command that is about to ask, wait for or signal a process has one.
TargetLabels == {"health", "ask", "asked", "signal", "signalled"}
TermInv ==
    /\ term \in [Terminals -> Journeys]
    /\ \A t \in Terminals : term[t].at \in TargetLabels => term[t].pid # None

WatchdogInv ==
    /\ watchdog \in {"off", "on", "over", "lost"}
    /\ child \in Processes \cup {None} /\ restart \in BOOLEAN
    /\ restart => child = None /\ watchdog = "on"
    /\ recent \in 0..MaxSpawns /\ alert \in BOOLEAN /\ (watchdog = "over" => alert)
    /\ commands \in 0..MaxCommands /\ faults \in 0..MaxFaults

\* Where a stop may still find the daemon it found first.
BeforeAsk == {"stop", "look", "stale", "owner", "health", "ask"}

\* Where the process a stop knows of, if any, has been seen dead.
AfterDeath == {"stale", "owner", "wipe", "stopped"}

\* That daemon cannot come back: its number is not used again, so that once it
\* no longer serves it never does. Until then the stop has not asked yet, or has
\* looked for it in vain. The number of a process seen dead is not used either.
ServedInv ==
    \A t \in Terminals :
        /\ term[t].served # None =>
               /\ proc[term[t].served] # "booting"
               /\ proc[term[t].served] = "serving" => term[t].at \in BeforeAsk \/ term[t].blind
        /\ term[t].at \in AfterDeath => term[t].pid = None \/ proc[term[t].pid] = "dead"

SupervisionInv == ProcessInv /\ TermInv /\ WatchdogInv /\ ServedInv

LEMMA InvTypes == SupervisionInv => TypeOK
  <1> SUFFICES ASSUME SupervisionInv PROVE TypeOK
    OBVIOUS
  <1>1. Cardinality(Listening) <= 1
    <2>1. CASE Listening = {}
      BY <2>1, FS_EmptySet
    <2>2. CASE Listening # {}
      <3>1. PICK p \in Listening : Listening = {p}
        BY <2>2 DEF SupervisionInv, ProcessInv
      <3> QED BY <3>1, FS_Singleton
    <2> QED BY <2>1, <2>2
  <1> QED BY <1>1 DEF SupervisionInv, ProcessInv, TermInv, WatchdogInv, TypeOK, States, Journeys

-----------------------------------------------------------------------------
(* What the steps are made of.                                             *)

\* A process that moves on without getting the port.
LEMMA ProcMoves ==
    ASSUME ProcessInv, NEW p \in Processes, NEW s \in States,
           proc' = [proc EXCEPT ![p] = s],
           s \in {"serving", "hung", "exiting"} => p \in Listening,
           registered' \subseteq registered \cup {p},
           p \in registered' => s \in {"serving", "hung", "closing", "exiting"},
           pidFile' \in Processes \cup {None}
    PROVE  ProcessInv'
  <1>1. proc' \in [Processes -> States]
    BY DEF ProcessInv
  <1>2. Listening' \subseteq Listening
    BY DEF ProcessInv, Listening
  <1>3. registered' \in SUBSET Processes
    BY DEF ProcessInv
  <1>4. ASSUME NEW q \in registered'
        PROVE  proc'[q] \in {"serving", "hung", "closing", "exiting"}
    <2>1. CASE q = p
      BY <1>4, <2>1 DEF ProcessInv
    <2>2. CASE q # p
      BY <1>3, <1>4, <2>2 DEF ProcessInv
    <2> QED BY <2>1, <2>2
  <1> QED BY <1>1, <1>2, <1>3, <1>4 DEF ProcessInv

\* The daemon of a stop is out of reach of whoever forks.
LEMMA FreshIsNobodys ==
    ASSUME NEW p \in Fresh
    PROVE  /\ p \in Processes /\ proc[p] = "dead"
           /\ \A t \in Terminals : term[t].served # p /\ term[t].pid # p
  BY DEF Fresh, Remembered

\* No daemon that a stop deals with begins to boot or to serve, and no process
\* it knows to be dead comes back.
NoRise ==
    \A t \in Terminals :
        /\ term[t].served # None =>
               LET p == term[t].served
               IN  /\ proc'[p] = "booting" => proc[p] = "booting"
                   /\ proc'[p] = "serving" => proc[p] = "serving"
        /\ term[t].pid # None /\ proc[term[t].pid] = "dead" => proc'[term[t].pid] = "dead"

\* No process, or one that is dead after the step.
Down(p) == p = None \/ proc'[p] = "dead"

\* The commands rest.
LEMMA ServedStays ==
    ASSUME TermInv, ServedInv, term' = term, NoRise
    PROVE  TermInv' /\ ServedInv'
  BY DEF TermInv, ServedInv, NoRise

\* One command moves on.
LEMMA TermMoves ==
    ASSUME TermInv, ServedInv, NEW t \in Terminals, NEW j \in Journeys,
           term' = [term EXCEPT ![t] = j], NoRise,
           j.at \in TargetLabels => j.pid # None,
           j.served # None =>
               /\ proc'[j.served] # "booting"
               /\ proc'[j.served] = "serving" => j.at \in BeforeAsk \/ j.blind,
           j.at \in AfterDeath => Down(j.pid)
    PROVE  TermInv' /\ ServedInv'
  <1>1. TermInv'
    BY DEF TermInv
  <1>2. \A u \in Terminals : term'[u] = IF u = t THEN j ELSE term[u]
    BY DEF TermInv
  <1>3. ASSUME NEW u \in Terminals, term'[u].served # None
        PROVE  /\ proc'[term'[u].served] # "booting"
               /\ proc'[term'[u].served] = "serving" =>
                      term'[u].at \in BeforeAsk \/ term'[u].blind
    <2>1. CASE u = t
      BY <1>2, <1>3, <2>1
    <2>2. CASE u # t
      BY <1>2, <1>3, <2>2 DEF NoRise, ServedInv
    <2> QED BY <2>1, <2>2
  <1>4. ASSUME NEW u \in Terminals, term'[u].at \in AfterDeath
        PROVE  term'[u].pid = None \/ proc'[term'[u].pid] = "dead"
    <2>1. CASE u = t
      BY <1>2, <1>4, <2>1 DEF Down
    <2>2. CASE u # t
      BY <1>2, <1>4, <2>2 DEF NoRise, ServedInv
    <2> QED BY <2>1, <2>2
  <1> QED BY <1>1, <1>3, <1>4 DEF ServedInv

\* Such a step of a command that only goes to another place.
LEMMA TermGoes ==
    ASSUME TermInv, ServedInv, NEW t \in Terminals, NEW at \in Labels,
           Goes(t, at), NoRise,
           at \in TargetLabels => term[t].pid # None,
           term[t].served # None =>
               (proc'[term[t].served] = "serving" => at \in BeforeAsk \/ term[t].blind),
           at \in AfterDeath => Down(term[t].pid)
    PROVE  TermInv' /\ ServedInv'
  <1> DEFINE j == [term[t] EXCEPT !.at = at]
  <1>1. term[t] \in Journeys
    BY DEF TermInv
  <1>2. /\ j \in Journeys /\ j.at = at /\ j.pid = term[t].pid /\ j.served = term[t].served
        /\ j.blind = term[t].blind
    BY <1>1 DEF Journeys
  <1>3. term' = [term EXCEPT ![t] = j]
    BY DEF Goes
  <1> HIDE DEF j
  <1>4. j.served # None => proc'[j.served] # "booting"
    BY <1>2 DEF ServedInv, NoRise
  <1> QED BY <1>2, <1>3, <1>4, TermMoves

\* A command that ends is forgotten with what it knew.
LEMMA TermEnds ==
    ASSUME TermInv, ServedInv, NEW t \in Terminals, term' = [term EXCEPT ![t] = Idle], NoRise
    PROVE  TermInv' /\ ServedInv'
  <1>1. Idle \in Journeys /\ Idle.at = "idle" /\ Idle.served = None
    BY DEF Idle, Journeys, Labels
  <1> QED BY <1>1, TermMoves DEF TargetLabels, AfterDeath

LEMMA ProcessesRest ==
    ASSUME ProcessInv, UNCHANGED <<proc, registered>>, pidFile' \in {pidFile, None}
    PROVE  ProcessInv' /\ NoRise
  BY DEF ProcessInv, Listening, NoRise

\* A daemon is forked: what boots is nobody's.
LEMMA Forked ==
    ASSUME SupervisionInv, NEW p \in Fresh, proc' = [proc EXCEPT ![p] = "booting"],
           UNCHANGED <<registered, pidFile>>
    PROVE  ProcessInv' /\ NoRise
  <1>1. /\ p \in Processes /\ proc[p] = "dead"
        /\ \A t \in Terminals : term[t].served # p /\ term[t].pid # p
    BY FreshIsNobodys
  <1>2. p \notin registered
    BY <1>1 DEF SupervisionInv, ProcessInv
  <1>3. ProcessInv'
    BY <1>1, <1>2, ProcMoves DEF SupervisionInv, ProcessInv, States
  <1>4. \A q \in Processes : q # p => proc'[q] = proc[q]
    BY DEF SupervisionInv, ProcessInv
  <1>5. \A t \in Terminals : /\ term[t].served # None => term[t].served \in Processes
                             /\ term[t].pid # None => term[t].pid \in Processes
    BY DEF SupervisionInv, TermInv, Journeys
  <1> QED BY <1>1, <1>3, <1>4, <1>5 DEF NoRise

\* A process that goes down, or from serving to something less.
LEMMA GoesDown ==
    ASSUME SupervisionInv, NEW p \in Processes, NEW s \in States \ {"booting", "serving"},
           proc' = [proc EXCEPT ![p] = s],
           s \in {"hung", "exiting"} => p \in Listening,
           proc[p] = "dead" => s = "dead",
           registered' \subseteq registered,
           s = "dead" => p \notin registered',
           pidFile' \in Processes \cup {None}
    PROVE  ProcessInv' /\ NoRise
  <1>1. ProcessInv'
    <2>1. p \in registered' => s # "dead"
      OBVIOUS
    <2> QED BY <2>1, ProcMoves DEF SupervisionInv, States
  <1>2. \A q \in Processes : /\ proc'[q] = "booting" => proc[q] = "booting"
                             /\ proc'[q] = "serving" => proc[q] = "serving"
                             /\ proc[q] = "dead" => proc'[q] = "dead"
    BY DEF SupervisionInv, ProcessInv
  <1>3. \A t \in Terminals : /\ term[t].served # None => term[t].served \in Processes
                             /\ term[t].pid # None => term[t].pid \in Processes
    BY DEF SupervisionInv, TermInv, Journeys
  <1> QED BY <1>1, <1>2, <1>3 DEF NoRise

\* SIGTERM and SIGKILL.
LEMMA SignalSent ==
    ASSUME SupervisionInv, NEW p \in Processes, pidFile' = pidFile,
           Terminated(p) \/ Killed(p) \/ UNCHANGED <<proc, registered>>
    PROVE  ProcessInv' /\ NoRise
  <1>1. ProcessInv /\ pidFile' \in Processes \cup {None}
    BY DEF SupervisionInv, ProcessInv
  <1>2. CASE UNCHANGED <<proc, registered>>
    BY <1>1, <1>2, ProcessesRest
  <1>3. CASE Killed(p)
    BY <1>1, <1>3, GoesDown DEF Killed, States
  <1>4. CASE Terminated(p) /\ proc[p] = "serving"
    BY <1>1, <1>4, GoesDown DEF Terminated, States
  <1> QED BY <1>2, <1>3, <1>4 DEF Terminated

-----------------------------------------------------------------------------
(* The steps.                                                              *)

\* Commands whose step touches no process.
LEMMA QuietStep ==
    ASSUME SupervisionInv, NEW t \in Terminals,
           \/ ReadPid(t) \/ Identify(t) \/ ProbePort(t) \/ ReleasePort(t) \/ RemovePidFile(t)
           \/ Look(t) \/ FindOwner(t) \/ CheckHealth(t) \/ Asked(t) \/ Clear(t)
    PROVE  SupervisionInv'
  <1> USE DEF daemons, supervisor, bounds
  <1>1. UNCHANGED <<proc, registered, supervisor, bounds>> /\ pidFile' \in {pidFile, None}
    BY DEF ReadPid, Identify, ProbePort, ReleasePort, RemovePidFile, Look, FindOwner,
           CheckHealth, Asked, Clear
  <1>2. ProcessInv' /\ WatchdogInv' /\ NoRise
    BY <1>1, ProcessesRest DEF SupervisionInv, WatchdogInv
  <1>3. /\ ProcessInv /\ TermInv /\ ServedInv /\ term[t] \in Journeys
        /\ term[t].served # None => term[t].served \in Processes /\ proc[term[t].served] # "booting"
        /\ pidFile \in Processes \cup {None}
    BY DEF SupervisionInv, ProcessInv, TermInv, ServedInv, Journeys
  \* Where the daemon of this stop serves, somebody does.
  <1>4. term[t].served # None /\ proc[term[t].served] = "serving" =>
            Serving # {} /\ Listening # {} /\ (term[t].at \in BeforeAsk \/ term[t].blind)
    BY <1>3 DEF Serving, Listening, ServedInv
  <1>5. /\ proc' = proc
        /\ ~Alive(term[t].pid) => Down(term[t].pid)
        /\ term[t].at \in AfterDeath => Down(term[t].pid)
    BY <1>1, <1>3 DEF Alive, Down, ServedInv
  <1>6. SUFFICES TermInv' /\ ServedInv'
    BY <1>2 DEF SupervisionInv
  <1>7. CASE ReadPid(t)
    <2> DEFINE j == [term[t] EXCEPT !.at = Found(term[t].at), !.pid = pidFile]
    <2>1. term' = [term EXCEPT ![t] = j] /\ term[t].at \in {"start", "stop", "chat"}
      BY <1>7 DEF ReadPid, GoesWith
    <2>2. /\ Found(term[t].at) \in {"identify", "look", "clear"}
          /\ Found(term[t].at) # "look" => term[t].at # "stop"
      BY <2>1 DEF Found
    <2>3. /\ j \in Journeys /\ j.at = Found(term[t].at) /\ j.served = term[t].served
          /\ j.blind = term[t].blind
      BY <1>3, <2>2 DEF Journeys, Labels, StopLabels
    <2> HIDE DEF j
    <2> QED BY <1>2, <1>3, <1>4, <1>5, <2>1, <2>2, <2>3, TermMoves DEF TargetLabels, BeforeAsk, AfterDeath
  <1>8. CASE Identify(t) \/ ProbePort(t)
    <2>1. term[t].at \in {"identify", "port"}
      BY <1>8 DEF Identify, ProbePort, At
    <2>2. CASE term' = [term EXCEPT ![t] = Idle]
      BY <1>2, <1>3, <2>2, TermEnds
    <2>3. ASSUME NEW at \in {"port", "probing"}, Goes(t, at) PROVE TermInv' /\ ServedInv'
      BY <1>2, <1>3, <1>4, <1>5, <2>1, <2>3, TermGoes
         DEF TargetLabels, BeforeAsk, AfterDeath, Labels
    <2> QED BY <1>8, <2>2, <2>3 DEF Identify, ProbePort
  <1>9. CASE ReleasePort(t)
    <2>1. PICK at \in {"spawn", "clean"} : Goes(t, at)
      BY <1>9 DEF ReleasePort
    <2>2. term[t].at = "probing"
      BY <1>9 DEF ReleasePort, At
    <2> QED BY <1>2, <1>3, <1>4, <1>5, <2>1, <2>2, TermGoes
        DEF TargetLabels, BeforeAsk, AfterDeath, Labels
  <1>10. CASE RemovePidFile(t)
    <2>1. term[t].at \in {"clean", "stale", "wipe"} /\ Goes(t, AfterRemoval(t))
      BY <1>10 DEF RemovePidFile
    <2>2. /\ AfterRemoval(t) \in {"spawn", "owner", "start", "stopped"}
          /\ term[t].at = "stale" => AfterRemoval(t) = "owner"
          /\ AfterRemoval(t) \in AfterDeath => term[t].at \in AfterDeath
      BY <2>1 DEF AfterRemoval, At, AfterDeath
    <2> DEFINE at == AfterRemoval(t)
    <2> HIDE DEF at
    <2>3. at \in Labels /\ at \notin TargetLabels
      BY <2>2 DEF at, Labels, StopLabels, TargetLabels
    <2> QED BY <1>2, <1>3, <1>4, <1>5, <2>1, <2>2, <2>3, TermGoes DEF at, BeforeAsk
  <1>11. CASE Look(t)
    <2>1. CASE Alive(term[t].pid)
      <3> DEFINE j == [term[t] EXCEPT !.at = "ask", !.named = TRUE]
      <3>1. term' = [term EXCEPT ![t] = j]
        BY <1>11, <2>1 DEF Look
      <3>2. /\ j \in Journeys /\ j.at = "ask" /\ j.pid = term[t].pid
            /\ j.served = term[t].served /\ j.blind = term[t].blind
        BY <1>3 DEF Journeys, Labels, StopLabels
      <3> HIDE DEF j
      <3> QED BY <1>2, <1>3, <1>5, <2>1, <3>1, <3>2, TermMoves
          DEF Alive, BeforeAsk, AfterDeath
    <2>2. ASSUME NEW at \in {"owner", "stale"}, Goes(t, at), ~Alive(term[t].pid)
          PROVE  TermInv' /\ ServedInv'
      BY <1>2, <1>3, <1>5, <2>2, TermGoes DEF TargetLabels, BeforeAsk, Labels, StopLabels
    <2> QED BY <1>11, <2>1, <2>2 DEF Look
  <1>12. Gone(t) \in {"wipe", "start", "stopped"}
    BY DEF Gone
  <1>13. ASSUME Goes(t, Gone(t)), Down(term[t].pid),
                term[t].served # None => proc[term[t].served] # "serving" \/ term[t].blind
         PROVE  TermInv' /\ ServedInv'
    <2> DEFINE at == Gone(t)
    <2>1. at \in Labels /\ at \notin TargetLabels
      BY <1>12 DEF Labels, StopLabels, TargetLabels
    <2> HIDE DEF at
    <2> QED BY <1>2, <1>3, <1>5, <1>13, <2>1, TermGoes DEF at
  <1>14. CASE FindOwner(t)
    <2>0. Down(term[t].pid)
      BY <1>5, <1>14 DEF FindOwner, At, AfterDeath
    <2>1. CASE Listening = {} /\ Goes(t, Gone(t))
      BY <1>4, <1>13, <2>0, <2>1
    <2>2. ASSUME NEW p \in Listening, GoesWith(t, "health", p) PROVE TermInv' /\ ServedInv'
      <3> DEFINE j == [term[t] EXCEPT !.at = "health", !.pid = p]
      <3>0. p \in Processes
        BY DEF Listening
      <3>1. term' = [term EXCEPT ![t] = j]
        BY <2>2 DEF GoesWith
      <3>2. /\ j \in Journeys /\ j.at = "health" /\ j.pid = p /\ j.served = term[t].served
            /\ j.blind = term[t].blind
        BY <1>3, <3>0 DEF Journeys, Labels, StopLabels
      <3>3. j.pid # None
        BY <3>0, <3>2, SupervisionAssumption
      <3> HIDE DEF j
      <3> QED BY <1>2, <1>3, <1>5, <3>1, <3>2, <3>3, TermMoves DEF BeforeAsk, AfterDeath
    <2>3. CASE term' = [term EXCEPT ![t].at = Gone(t), ![t].blind = TRUE]
      <3> DEFINE at == Gone(t)
                 j == [term[t] EXCEPT !.at = at, !.blind = TRUE]
      <3>1. at \in Labels /\ at \notin TargetLabels
        BY <1>12 DEF Labels, StopLabels, TargetLabels
      <3>2. term' = [term EXCEPT ![t] = j]
        BY <2>3
      <3> HIDE DEF at
      <3>3. /\ j \in Journeys /\ j.at = at /\ j.pid = term[t].pid
            /\ j.served = term[t].served /\ j.blind = TRUE
        BY <1>3, <3>1 DEF Journeys
      <3> HIDE DEF j
      <3> QED BY <1>2, <1>3, <1>5, <2>0, <3>1, <3>2, <3>3, TermMoves
    <2> QED BY <1>14, <2>1, <2>2, <2>3 DEF FindOwner
  <1>15. CASE CheckHealth(t)
    <2>1. CASE Serving = {}
      <3> DEFINE at == Gone(t)
                 j == [term[t] EXCEPT !.at = at, !.pid = None]
      <3>1. at \in Labels /\ at \notin TargetLabels
        BY <1>12 DEF Labels, StopLabels, TargetLabels
      <3>2. term' = [term EXCEPT ![t] = j]
        BY <1>15, <2>1 DEF CheckHealth, GoesWith
      <3> HIDE DEF at
      <3>3. /\ j \in Journeys /\ j.at = at /\ j.pid = None
            /\ j.served = term[t].served /\ j.blind = term[t].blind
        BY <1>3, <3>1 DEF Journeys
      <3>4. Down(j.pid)
        BY <3>3 DEF Down
      <3> HIDE DEF j
      <3> QED BY <1>2, <1>3, <1>4, <1>5, <2>1, <3>1, <3>2, <3>3, <3>4, TermMoves
    <2>2. CASE Serving # {}
      <3>1. Goes(t, "ask") /\ term[t].at = "health"
        BY <1>15, <2>2 DEF CheckHealth, At
      <3>2. term[t].pid # None
        BY <1>3, <3>1 DEF TermInv, TargetLabels
      <3> QED BY <1>2, <1>3, <3>1, <3>2, TermGoes
          DEF BeforeAsk, AfterDeath, Labels, StopLabels
    <2> QED BY <2>1, <2>2
  <1>16. CASE Asked(t)
    <2>1. term[t].at = "asked"
      BY <1>16 DEF Asked, At
    <2>2. term[t].served # None => proc[term[t].served] # "serving" \/ term[t].blind
      BY <1>4, <2>1 DEF BeforeAsk
    <2>3. CASE Alive(term[t].pid)
      <3>1. Goes(t, "signal") /\ term[t].pid # None
        BY <1>16, <2>3 DEF Asked, Alive
      <3> QED BY <1>2, <1>3, <1>5, <2>2, <3>1, TermGoes DEF AfterDeath, Labels, StopLabels
    <2> QED BY <1>5, <1>13, <1>16, <2>2, <2>3 DEF Asked
  <1>17. CASE Clear(t)
    <2> DEFINE to == IF Alive(term[t].pid) THEN "signal" ELSE "start"
               j == [term[t] EXCEPT !.at = to, !.named = TRUE]
    <2>1. term' = [term EXCEPT ![t] = j] /\ term[t].at = "clear"
      BY <1>17 DEF Clear, At
    <2>2. /\ j \in Journeys /\ j.at = to /\ j.pid = term[t].pid /\ j.served = term[t].served
          /\ j.blind = term[t].blind
      BY <1>3 DEF Journeys, Labels, StopLabels
    <2>3. (to \in TargetLabels => term[t].pid # None) /\ to \notin AfterDeath
      BY DEF TargetLabels, AfterDeath, Alive
    <2>4. term[t].served # None => proc[term[t].served] # "serving" \/ term[t].blind
      BY <1>4, <2>1 DEF BeforeAsk
    <2> HIDE DEF j, to
    <2> QED BY <1>2, <1>3, <1>5, <2>1, <2>2, <2>3, <2>4, TermMoves
  <1> QED BY <1>7, <1>8, <1>9, <1>10, <1>11, <1>14, <1>15, <1>16, <1>17

\* Commands: a new one, a spawn, the shutdown request and the signals.
LEMMA CommandStep ==
    ASSUME SupervisionInv, NEW t \in Terminals,
           \/ \E cmd \in Commands : Command(t, cmd)
           \/ Spawn(t) \/ AskShutdown(t) \/ Signal(t) \/ Signalled(t)
    PROVE  SupervisionInv'
  <1> USE DEF daemons, supervisor, bounds
  <1>1. /\ ProcessInv /\ TermInv /\ ServedInv /\ term[t] \in Journeys
        /\ proc \in [Processes -> States]
        /\ \A u \in Terminals : /\ term[u].served # None => term[u].served \in Processes
                                /\ term[u].pid # None => term[u].pid \in Processes
    BY DEF SupervisionInv, ProcessInv, TermInv, Journeys
  <1>2. ASSUME NEW cmd \in Commands, Command(t, cmd) PROVE SupervisionInv'
    <2>1. PICK p \in Serving \cup {None} :
             /\ p = None <=> ~Stops(cmd) \/ Serving = {}
             /\ term' = [term EXCEPT ![t] =
                   [at |-> Opening(cmd), pid |-> None, named |-> FALSE, served |-> p, blind |-> FALSE,
                    then |-> CASE cmd = "stop" -> "end" [] cmd = "run" -> "run" [] OTHER -> "start"]]
      BY <1>2 DEF Command
    <2>2. /\ UNCHANGED <<daemons, supervisor, faults>> /\ commands' = commands + 1
          /\ commands < MaxCommands
      BY <1>2 DEF Command
    <2>3. ProcessInv' /\ NoRise
      BY <1>1, <2>2, ProcessesRest
    <2>4. WatchdogInv'
      BY <2>2, SupervisionAssumption DEF SupervisionInv, WatchdogInv
    <2> DEFINE then == CASE cmd = "stop" -> "end" [] cmd = "run" -> "run" [] OTHER -> "start"
               j == [at |-> Opening(cmd), pid |-> None, named |-> FALSE, served |-> p,
                     blind |-> FALSE, then |-> then]
    <2>5. Opening(cmd) \in {"stop", "chat", "start", "port"}
      BY DEF Opening, Commands
    <2>6. Stops(cmd) => Opening(cmd) = "stop"
      BY DEF Opening, Stops
    <2>7. then \in {"end", "start", "run"}
      OBVIOUS
    <2>8. p \in Processes \cup {None} /\ (p # None => proc'[p] = "serving" /\ Stops(cmd))
      BY <2>1, <2>2, SupervisionAssumption DEF Serving
    <2> HIDE DEF then
    <2>9. /\ j \in Journeys /\ j.at = Opening(cmd) /\ j.served = p
      BY <2>5, <2>7, <2>8 DEF Journeys, Labels, StopLabels
    <2>10. term' = [term EXCEPT ![t] = j]
      BY <2>1 DEF then
    <2> HIDE DEF j
    <2>11. TermInv' /\ ServedInv'
      BY <1>1, <2>3, <2>5, <2>6, <2>8, <2>9, <2>10, TermMoves
         DEF TargetLabels, BeforeAsk, AfterDeath
    <2> QED BY <2>3, <2>4, <2>11 DEF SupervisionInv
  <1>3. ASSUME UNCHANGED <<supervisor, bounds>> PROVE WatchdogInv'
    BY <1>3 DEF SupervisionInv, WatchdogInv
  <1>4. CASE Spawn(t)
    <2>1. /\ term' = [term EXCEPT ![t] = Idle] /\ UNCHANGED <<registered, pidFile, supervisor, bounds>>
          /\ (\E p \in Fresh : proc' = [proc EXCEPT ![p] = "booting"]) \/ proc' = proc
      BY <1>4 DEF Spawn
    <2>2. ProcessInv' /\ NoRise
      BY <1>1, <2>1, Forked, ProcessesRest
    <2> QED BY <1>1, <1>3, <2>1, <2>2, TermEnds DEF SupervisionInv
  <1>5. CASE AskShutdown(t)
    <2>1. /\ term[t].at = "ask" /\ UNCHANGED <<registered, pidFile, supervisor, bounds>>
          /\ term[t].pid # None
      BY <1>1, <1>5 DEF AskShutdown, At, TermInv, TargetLabels
    <2>2. CASE Serving = {}
      <3>1. Goes(t, "signal") /\ proc' = proc
        BY <1>5, <2>2 DEF AskShutdown
      <3>2. ProcessInv' /\ NoRise
        BY <1>1, <2>1, <3>1, ProcessesRest
      <3>3. term[t].served # None => proc'[term[t].served] # "serving"
        BY <1>1, <2>2, <3>1 DEF Serving
      <3> QED BY <1>1, <1>3, <2>1, <3>1, <3>2, <3>3, TermGoes
          DEF AfterDeath, Labels, StopLabels, SupervisionInv
    <2>3. CASE Serving # {}
      <3>1. /\ Goes(t, "asked")
            /\ proc' = [p \in Processes |-> IF p \in Serving THEN "exiting" ELSE proc[p]]
        BY <1>5, <2>3 DEF AskShutdown
      <3>2. \A p \in Processes : /\ proc'[p] # "serving"
                                 /\ proc'[p] = "booting" => proc[p] = "booting"
                                 /\ proc[p] = "dead" => proc'[p] = "dead"
        BY <3>1 DEF Serving
      <3>3. NoRise
        BY <1>1, <3>2 DEF NoRise
      <3>4. ProcessInv'
        <4>1. proc' \in [Processes -> States]
          BY <1>1, <3>1 DEF States
        <4>2. Listening' \subseteq Listening
          BY <3>1 DEF Listening, Serving
        <4>3. \A p \in registered : proc'[p] \in {"serving", "hung", "closing", "exiting"}
          BY <3>1 DEF SupervisionInv, ProcessInv
        <4> QED BY <2>1, <4>1, <4>2, <4>3 DEF SupervisionInv, ProcessInv
      <3>5. term[t].served # None => proc'[term[t].served] # "serving"
        BY <1>1, <3>2
      <3> QED BY <1>1, <1>3, <2>1, <3>1, <3>3, <3>4, <3>5, TermGoes
              DEF AfterDeath, Labels, StopLabels, SupervisionInv
    <2> QED BY <2>2, <2>3
  <1>6. ASSUME NEW at \in Labels, Goes(t, at), NoRise, ProcessInv',
               UNCHANGED <<supervisor, bounds>>,
               term[t].at \in {"signal", "signalled"},
               at \in {"signalled", "wipe", "start", "stopped"},
               at = "signalled" \/ Down(term[t].pid)
        PROVE  SupervisionInv'
    <2>1. term[t].pid # None
      BY <1>1, <1>6 DEF TermInv, TargetLabels
    <2>2. term[t].served # None => proc'[term[t].served] # "serving" \/ term[t].blind
      BY <1>1, <1>6 DEF ServedInv, BeforeAsk, NoRise
    <2>3. at \in AfterDeath => Down(term[t].pid)
      BY <1>6 DEF AfterDeath
    <2> QED BY <2>3, <1>1, <1>3, <1>6, <2>1, <2>2, TermGoes DEF SupervisionInv
  <1>7. term[t].at \in {"signal", "signalled"} => term[t].pid \in Processes
    BY <1>1 DEF TermInv, TargetLabels, Journeys
  <1>8. CASE Signal(t)
    <2>1. /\ term[t].at = "signal" /\ Terminated(term[t].pid) /\ Goes(t, "signalled")
          /\ UNCHANGED <<pidFile, supervisor, bounds>>
      BY <1>8 DEF Signal, At
    <2>2. ProcessInv' /\ NoRise
      BY <1>7, <2>1, SignalSent
    <2> QED BY <1>6, <2>1, <2>2 DEF Labels, StopLabels
  <1>9. CASE Signalled(t)
    <2>1. /\ term[t].at = "signalled" /\ Goes(t, Gone(t))
          /\ Killed(term[t].pid) \/ UNCHANGED <<proc, registered>>
          /\ UNCHANGED <<pidFile, supervisor, bounds>>
      BY <1>9 DEF Signalled, At
    <2>2. ProcessInv' /\ NoRise
      BY <1>7, <2>1, SignalSent
    <2>3. Gone(t) \in {"wipe", "start", "stopped"} /\ Gone(t) \in Labels
      BY DEF Gone, Labels, StopLabels
    <2>4. Down(term[t].pid)
      <3>1. CASE Alive(term[t].pid)
        BY <1>1, <1>7, <1>9, <3>1 DEF Signalled, Killed, Down, At
      <3>2. CASE ~Alive(term[t].pid)
        BY <1>9, <3>2 DEF Signalled, Alive, Down
      <3> QED BY <3>1, <3>2
    <2> QED BY <1>6, <2>1, <2>2, <2>3, <2>4
  <1> QED BY <1>2, <1>4, <1>5, <1>8, <1>9

\* The processes themselves.
LEMMA ProcessStepInv ==
    ASSUME SupervisionInv, NEW p \in Processes, ProcessStep(p) \/ Crash(p) \/ Hang(p)
    PROVE  SupervisionInv'
  <1> USE DEF supervisor, bounds
  <1>1. ProcessInv /\ TermInv /\ ServedInv /\ proc \in [Processes -> States] /\ term' = term
    BY DEF SupervisionInv, ProcessInv, ProcessStep, Boot, Register, Exit, Crash, Hang
  <1>2. WatchdogInv'
    BY SupervisionAssumption
       DEF SupervisionInv, WatchdogInv, ProcessStep, Boot, Register, Exit, Crash, Hang
  <1>3. SUFFICES ProcessInv' /\ NoRise
    BY <1>1, <1>2, ServedStays DEF SupervisionInv
  <1>4. CASE Boot(p)
    <2>1. /\ proc[p] = "booting" /\ UNCHANGED <<registered, pidFile>> /\ p \notin registered
          /\ proc' = [proc EXCEPT ![p] = IF PortInUse THEN "dead" ELSE "serving"]
      BY <1>1, <1>4 DEF Boot, ProcessInv
    <2>2. NoRise
      BY <1>1, <2>1 DEF NoRise, ServedInv, TermInv, Journeys
    <2>3. proc' \in [Processes -> States]
      BY <1>1, <2>1 DEF States
    <2>4. \A q, r \in Listening' : q = r
      <3>1. CASE PortInUse
        BY <1>1, <2>1, <3>1 DEF Listening, ProcessInv
      <3>2. CASE ~PortInUse
        BY <1>1, <2>1, <3>2 DEF Listening, PortInUse
      <3> QED BY <3>1, <3>2
    <2> QED BY <1>1, <2>1, <2>2, <2>3, <2>4 DEF ProcessInv
  <1>5. CASE Register(p)
    BY <1>1, <1>5 DEF Register, ProcessInv, Listening, NoRise
  <1>6. CASE Exit(p)
    <2>1. pidFile' \in Processes \cup {None}
      BY <1>1, <1>6 DEF Exit, ProcessInv
    <2> QED BY <1>6, <2>1, GoesDown DEF Exit, States
  <1>7. CASE Crash(p)
    <2>1. pidFile' \in Processes \cup {None}
      BY <1>1, <1>7 DEF Crash, ProcessInv
    <2> QED BY <1>7, <2>1, GoesDown DEF Crash, Killed, States
  <1>8. CASE Hang(p)
    <2>1. pidFile' \in Processes \cup {None} /\ p \in Listening
      BY <1>1, <1>8 DEF Hang, ProcessInv, Listening
    <2> QED BY <1>8, <2>1, GoesDown DEF Hang, States
  <1> QED BY <1>4, <1>5, <1>6, <1>7, <1>8 DEF ProcessStep

\* The watchdog.
LEMMA WatchdogStepInv ==
    ASSUME SupervisionInv, WatchdogStep \/ WatchdogStarts \/ WatchdogStops \/ WindowMoves
    PROVE  SupervisionInv'
  <1> USE SupervisionAssumption DEF daemons, supervisor, bounds
  <1>1. ProcessInv /\ TermInv /\ ServedInv /\ WatchdogInv /\ pidFile' = pidFile /\ term' = term
    BY DEF SupervisionInv, WatchdogStep, ChildExits, RestartFires, WatchdogStarts, WatchdogStops,
           WindowMoves
  <1>2. /\ recent \in Nat /\ commands \in Nat
        /\ WatchdogStep => UNCHANGED <<commands, faults>>
    BY <1>1 DEF WatchdogInv, WatchdogStep, ChildExits, RestartFires
  <1>3. ASSUME NEW p \in Fresh PROVE p \in Processes
    BY <1>3 DEF Fresh
  <1>4. CASE ChildExits
    <2>1. ProcessInv' /\ NoRise
      BY <1>1, <1>4, ProcessesRest DEF ChildExits
    <2>2. WatchdogInv'
      BY <1>1, <1>4 DEF ChildExits, WatchdogInv
    <2> QED BY <1>1, <2>1, <2>2, ServedStays DEF SupervisionInv
  <1>5. CASE RestartFires
    <2>1. ProcessInv' /\ NoRise
      BY <1>1, <1>5, Forked, ProcessesRest DEF RestartFires, Fork
    <2>2. WatchdogInv'
      <3>1. recent' \in 0..MaxSpawns
        BY <1>1, <1>2, <1>5 DEF RestartFires, Fork, WatchdogInv
      <3>2. child' \in Processes \cup {None} /\ alert' \in BOOLEAN
        BY <1>1, <1>3, <1>5 DEF RestartFires, Fork, WatchdogInv
      <3>3. watchdog' \in {"on", "over", "lost"} /\ (watchdog' = "over" => alert') /\ restart' = FALSE
        BY <1>5 DEF RestartFires, Fork
      <3> QED BY <1>1, <1>5, <3>1, <3>2, <3>3 DEF RestartFires, WatchdogInv
    <2> QED BY <1>1, <2>1, <2>2, ServedStays DEF SupervisionInv
  <1>6. CASE WatchdogStarts
    <2>1. ProcessInv' /\ NoRise
      BY <1>1, <1>6, Forked, ProcessesRest DEF WatchdogStarts
    <2>2. WatchdogInv'
      <3>1. recent' \in 0..MaxSpawns /\ commands' \in 0..MaxCommands
        BY <1>1, <1>2, <1>6 DEF WatchdogStarts, WatchdogInv
      <3>2. child' \in Processes \cup {None} /\ restart' = FALSE
        BY <1>1, <1>3, <1>6 DEF WatchdogStarts, WatchdogInv
      <3>3. watchdog' \in {"on", "lost"} /\ alert' = FALSE /\ faults' = faults
        BY <1>6 DEF WatchdogStarts
      <3> QED BY <1>1, <3>1, <3>2, <3>3 DEF WatchdogInv
    <2> QED BY <1>1, <2>1, <2>2, ServedStays DEF SupervisionInv
  <1>7. CASE WatchdogStops
    <2>1. ProcessInv' /\ NoRise
      <3>1. CASE Alive(child)
        <4>1. child \in Processes
          BY <1>1, <3>1 DEF Alive, WatchdogInv
        <4> QED BY <1>1, <1>7, <3>1, <4>1, SignalSent DEF WatchdogStops
      <3>2. CASE ~Alive(child)
        BY <1>1, <1>7, <3>2, ProcessesRest DEF WatchdogStops
      <3> QED BY <3>1, <3>2
    <2>2. WatchdogInv'
      <3>1. commands' \in 0..MaxCommands
        BY <1>1, <1>2, <1>7 DEF WatchdogStops, WatchdogInv
      <3> QED BY <1>1, <1>7, <3>1 DEF WatchdogStops, WatchdogInv
    <2> QED BY <1>1, <2>1, <2>2, ServedStays DEF SupervisionInv
  <1>8. CASE WindowMoves
    <2>1. ProcessInv' /\ NoRise
      BY <1>1, <1>8, ProcessesRest DEF WindowMoves
    <2>2. WatchdogInv'
      <3>1. recent' \in 0..MaxSpawns
        BY <1>1, <1>2, <1>8 DEF WindowMoves, WatchdogInv
      <3> QED BY <1>1, <1>8, <3>1 DEF WindowMoves, WatchdogInv
    <2> QED BY <1>1, <2>1, <2>2, ServedStays DEF SupervisionInv
  <1> QED BY <1>4, <1>5, <1>6, <1>7, <1>8 DEF WatchdogStep

LEMMA SupervisionInit == Init => SupervisionInv
  <1> SUFFICES ASSUME Init PROVE SupervisionInv
    OBVIOUS
  <1>1. (CHOOSE p \in Processes : TRUE) \in Processes
    BY SupervisionAssumption
  <1>2. /\ pidFile \in Processes \cup {None} /\ registered \subseteq Processes
        /\ registered \subseteq {pidFile}
        /\ proc = [p \in Processes |-> IF p \in registered THEN "serving" ELSE "dead"]
    BY <1>1 DEF Init
  <1>3. ProcessInv
    BY <1>2 DEF ProcessInv, Listening, States
  <1>4. Idle \in Journeys /\ Idle.at = "idle" /\ Idle.served = None
    BY DEF Idle, Journeys, Labels
  <1>5. TermInv /\ ServedInv
    BY <1>4 DEF Init, TermInv, ServedInv, TargetLabels, AfterDeath
  <1>6. WatchdogInv
    <2>1. /\ watchdog = "off" /\ child = None /\ restart = FALSE /\ recent = 0 /\ alert = FALSE
          /\ commands = 0 /\ faults = 0
      BY DEF Init
    <2>2. 0 \in 0..MaxSpawns /\ 0 \in 0..MaxCommands /\ 0 \in 0..MaxFaults
      BY SupervisionAssumption
    <2> QED BY <2>1, <2>2 DEF WatchdogInv
  <1> QED BY <1>3, <1>5, <1>6 DEF SupervisionInv

LEMMA SupervisionStep == SupervisionInv /\ [Next]_vars => SupervisionInv'
  <1> SUFFICES ASSUME SupervisionInv, [Next]_vars PROVE SupervisionInv'
    OBVIOUS
  <1>1. CASE UNCHANGED vars
    BY <1>1 DEF vars, daemons, supervisor, bounds, SupervisionInv, ProcessInv, TermInv,
                WatchdogInv, ServedInv, Listening
  <1>2. ASSUME NEW t \in Terminals, TerminalStep(t) PROVE SupervisionInv'
    BY <1>2, QuietStep, CommandStep DEF TerminalStep
  <1> QED BY <1>1, <1>2, CommandStep, ProcessStepInv, WatchdogStepInv DEF Next

\* One daemon at most has the port, the pid file is written by daemons only,
\* and an exhausted watchdog has left its alert, for any number of terminals
\* and processes.
THEOREM SupervisionTypeCorrect == Spec => []TypeOK
  <1> QED BY SupervisionInit, SupervisionStep, InvTypes, PTL DEF Spec

\* A stop or a restart that is through has got rid of the daemon that served
\* when it began, with any pid file, or none, and while other terminals and the
\* watchdog start and stop daemons as they like, unless its own search by port
\* failed; and the process it has dealt with is dead, were it hung or closing.
THEOREM StopsAreFinal == Spec => []StoppedIsGone
  <1>1. SupervisionInv => StoppedIsGone
    BY DEF SupervisionInv, ServedInv, StoppedIsGone, BeforeAsk, StopLabels, AfterDeath, Alive
  <1> QED BY <1>1, SupervisionInit, SupervisionStep, PTL DEF Spec

=============================================================================
