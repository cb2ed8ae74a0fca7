---------------------------- MODULE Supervision ----------------------------
(***************************************************************************)
(* Who starts, stops and restarts the daemon: the processes themselves     *)
(* (src/src/index.ts, the end of src/src/server/app.ts), their pid file    *)
(* (src/src/pidfile.ts), the commands start, stop, restart, run and chat   *)
(* of any number of terminals (src/src/cli.ts) and the watchdog            *)
(* (src/src/daemon/watchdog.ts).                                           *)
(*                                                                         *)
(* A step is one await of the code: terminals, daemons and the watchdog    *)
(* interleave at every file access, probe and signal. Delays are not       *)
(* modelled: a poll may give up whenever what it waits for is not there.   *)
(* The number of a dead process is used again once nobody remembers it.    *)
(***************************************************************************)
EXTENDS Naturals, FiniteSets

CONSTANTS
    Processes,     \* process ids
    Terminals,     \* terminals with a trilc command
    MaxSpawns,     \* MAX_RESTARTS_PER_WINDOW
    MaxCommands,   \* bound on the commands given
    MaxFaults,     \* bound on crashes and hangs
    None           \* no process

ASSUME SupervisionAssumption ==
    /\ Processes # {} /\ None \notin Processes
    /\ MaxSpawns \in Nat \ {0}
    /\ MaxCommands \in Nat /\ MaxFaults \in Nat

VARIABLES
    proc,          \* proc[p]: "dead", "booting", "serving", "hung", "closing" or "exiting"
    registered,    \* the processes that are through with registerPid
    pidFile,       \* the process in the pid file, or None
    term,          \* term[t]: where its command is and what that remembers
    watchdog,      \* "off", "on", "over" (with an alert) or "lost"
    child,         \* the watchdog's child
    restart,       \* its restart timer is set
    recent,        \* number of its spawns in the window
    alert,         \* watchdog-alert.json exists
    commands, faults

supervisor == <<watchdog, child, restart, recent, alert>>
daemons == <<proc, registered, pidFile>>
bounds == <<commands, faults>>
vars == <<daemons, term, supervisor, bounds>>

\* The process a command deals with, whether the pid file named it, what comes
\* after a stop, and (history) the daemon that served when the stop began and
\* whether the search by port has failed.
Idle == [at |-> "idle", pid |-> None, named |-> FALSE, then |-> "end", served |-> None,
         blind |-> FALSE]

\* After a boot of the machine, which may find the file of a former one, or
\* with a daemon at work.
Init ==
    /\ pidFile \in {None, CHOOSE p \in Processes : TRUE}
    /\ registered \in {{}, {pidFile} \ {None}}
    /\ proc = [p \in Processes |-> IF p \in registered THEN "serving" ELSE "dead"]
    /\ term = [t \in Terminals |-> Idle]
    /\ watchdog = "off" /\ child = None /\ restart = FALSE /\ recent = 0 /\ alert = FALSE
    /\ commands = 0 /\ faults = 0

-----------------------------------------------------------------------------
(* Processes.                                                              *)

Alive(p) == p # None /\ proc[p] # "dead"
Listening == {p \in Processes : proc[p] \in {"serving", "hung", "exiting"}}
Serving == {p \in Processes : proc[p] = "serving"}

\* isPortInUse holds the port itself for a moment.
Probing == \E t \in Terminals : term[t].at = "probing"
PortInUse == Listening # {} \/ Probing

Remembered == {pidFile, child} \cup UNION {{term[t].pid, term[t].served} : t \in Terminals}
Fresh == {p \in Processes : proc[p] = "dead"} \ Remembered

\* main() up to listen(): who finds the port taken dies.
Boot(p) ==
    /\ proc[p] = "booting"
    /\ proc' = [proc EXCEPT ![p] = IF PortInUse THEN "dead" ELSE "serving"]
    /\ UNCHANGED <<registered, pidFile, term, supervisor, bounds>>

\* registerPid, whose failure is a warning.
Register(p) ==
    /\ proc[p] \in {"serving", "closing"} /\ p \notin registered
    /\ registered' = registered \cup {p}
    /\ pidFile' \in {p, pidFile}
    /\ UNCHANGED <<proc, term, supervisor, bounds>>

\* process.exit(0) after /shutdown, or after SIGTERM once the last stream has
\* ended; the exit handler removes the pid file if it names this process.
Exit(p) ==
    /\ proc[p] \in {"closing", "exiting"}
    /\ proc' = [proc EXCEPT ![p] = "dead"]
    /\ registered' = registered \ {p}
    /\ pidFile' = IF pidFile = p THEN None ELSE pidFile
    /\ UNCHANGED <<term, supervisor, bounds>>

Killed(p) ==
    /\ proc' = [proc EXCEPT ![p] = "dead"]
    /\ registered' = registered \ {p}

\* SIGTERM: a daemon that serves closes its server and waits for its streams,
\* one that boots has no handler yet, one that hangs never gets to it.
Terminated(p) ==
    CASE proc[p] = "serving" -> /\ proc' = [proc EXCEPT ![p] = "closing"]
                                /\ UNCHANGED registered
      [] proc[p] = "booting" -> Killed(p)
      [] OTHER -> UNCHANGED <<proc, registered>>

\* Killed from outside, or by an exception, which runs the exit handler.
Crash(p) ==
    /\ proc[p] # "dead" /\ faults < MaxFaults
    /\ faults' = faults + 1
    /\ Killed(p)
    /\ \/ UNCHANGED pidFile
       \/ pidFile = p /\ pidFile' = None
    /\ UNCHANGED <<term, supervisor, commands>>

Hang(p) ==
    /\ proc[p] = "serving" /\ faults < MaxFaults
    /\ faults' = faults + 1
    /\ proc' = [proc EXCEPT ![p] = "hung"]
    /\ UNCHANGED <<registered, pidFile, term, supervisor, commands>>

-----------------------------------------------------------------------------
(* Commands.                                                               *)

At(t, at) == term[t].at = at
Goes(t, at) == term' = [term EXCEPT ![t].at = at]
GoesWith(t, at, p) == term' = [term EXCEPT ![t].at = at, ![t].pid = p]

\* chat probes healthz first, and kills before it starts if there is no answer.
Opening(cmd) ==
    CASE cmd \in {"stop", "restart"} -> "stop"
      [] cmd = "chat" -> IF Serving = {} THEN "chat" ELSE "start"
      [] cmd = "run" -> "port"
      [] OTHER -> "start"

Stops(cmd) == cmd \in {"stop", "restart"}

Command(t, cmd) ==
    /\ term[t].at \in {"idle", "stopped"} /\ commands < MaxCommands
    /\ commands' = commands + 1
    /\ \E p \in Serving \cup {None} :
          /\ p = None <=> ~Stops(cmd) \/ Serving = {}
          /\ term' = [term EXCEPT ![t] =
                 [at |-> Opening(cmd), pid |-> None, named |-> FALSE, served |-> p, blind |-> FALSE,
                  then |-> CASE cmd = "stop" -> "end" [] cmd = "run" -> "run" [] OTHER -> "start"]]
    /\ UNCHANGED <<daemons, supervisor, faults>>

\* readPid.
Found(at) ==
    CASE at = "start" -> "identify" [] at = "stop" -> "look" [] at = "chat" -> "clear"

ReadPid(t) ==
    /\ term[t].at \in {"start", "stop", "chat"}
    /\ GoesWith(t, Found(term[t].at), pidFile)
    /\ UNCHANGED <<daemons, supervisor, bounds>>

\* isPidTrilc: the process lives and somebody answers on the port.
Identify(t) ==
    /\ At(t, "identify")
    /\ IF Alive(term[t].pid) /\ Serving # {}
       THEN term' = [term EXCEPT ![t] = Idle]
       ELSE Goes(t, "port")
    /\ UNCHANGED <<daemons, supervisor, bounds>>

\* isPortInUse: whoever holds the port, well or not, ends the command.
ProbePort(t) ==
    /\ At(t, "port")
    /\ IF PortInUse THEN term' = [term EXCEPT ![t] = Idle] ELSE Goes(t, "probing")
    /\ UNCHANGED <<daemons, supervisor, bounds>>

ReleasePort(t) ==
    /\ At(t, "probing")
    /\ Goes(t, IF term[t].then = "run" THEN "spawn" ELSE "clean")
    /\ UNCHANGED <<daemons, supervisor, bounds>>

\* removePidFile, before a spawn and within a stop.
AfterRemoval(t) ==
    CASE At(t, "clean") -> "spawn"
      [] At(t, "stale") -> "owner"
      [] At(t, "wipe") -> IF term[t].then = "start" THEN "start" ELSE "stopped"

RemovePidFile(t) ==
    /\ term[t].at \in {"clean", "stale", "wipe"}
    /\ pidFile' = None
    /\ Goes(t, AfterRemoval(t))
    /\ UNCHANGED <<proc, registered, supervisor, bounds>>

\* The daemon is detached. cmdStart goes on polling the pid file and healthz,
\* only to say what it sees; run becomes the daemon.
Spawn(t) ==
    /\ At(t, "spawn")
    /\ term' = [term EXCEPT ![t] = Idle]
    /\ \/ \E p \in Fresh : proc' = [proc EXCEPT ![p] = "booting"]
       \/ UNCHANGED proc
    /\ UNCHANGED <<registered, pidFile, supervisor, bounds>>

\* Mutant: a stale pid file is all that a stop clears up.
LookNoFurther(t) ==
    /\ At(t, "look")
    /\ IF Alive(term[t].pid)
       THEN term' = [term EXCEPT ![t].at = "ask", ![t].named = TRUE]
       ELSE Goes(t, IF term[t].pid = None THEN "owner" ELSE "wipe")
    /\ UNCHANGED <<daemons, supervisor, bounds>>

\* cmdStop: the process of the pid file (case A), or whoever has the port (B).
Look(t) ==
    /\ At(t, "look")
    /\ IF Alive(term[t].pid)
       THEN term' = [term EXCEPT ![t].at = "ask", ![t].named = TRUE]
       ELSE Goes(t, IF term[t].pid = None THEN "owner" ELSE "stale")
    /\ UNCHANGED <<daemons, supervisor, bounds>>

Gone(t) ==
    IF term[t].named THEN "wipe" ELSE IF term[t].then = "start" THEN "start" ELSE "stopped"

\* findProcessByPort, which also finds nobody when lsof and ss are missing or
\* fail: the command then says that no daemon is running.
FindOwner(t) ==
    /\ At(t, "owner")
    /\ \/ Listening = {} /\ Goes(t, Gone(t))
       \/ \E p \in Listening : GoesWith(t, "health", p)
       \/ Listening # {} /\ term' = [term EXCEPT ![t].at = Gone(t), ![t].blind = TRUE]
    /\ UNCHANGED <<daemons, supervisor, bounds>>

\* Who does not answer is left alone.
CheckHealth(t) ==
    /\ At(t, "health")
    /\ IF Serving # {} THEN Goes(t, "ask") ELSE GoesWith(t, Gone(t), None)
    /\ UNCHANGED <<daemons, supervisor, bounds>>

\* gracefulShutdown: whoever serves takes the POST and exits at once.
AskShutdown(t) ==
    /\ At(t, "ask")
    /\ IF Serving = {} THEN Goes(t, "signal") /\ UNCHANGED proc
       ELSE /\ Goes(t, "asked")
            /\ proc' = [p \in Processes |-> IF p \in Serving THEN "exiting" ELSE proc[p]]
    /\ UNCHANGED <<registered, pidFile, supervisor, bounds>>

\* waitProcessExit, which gives up on a process that lives on.
Asked(t) ==
    /\ At(t, "asked")
    /\ Goes(t, IF Alive(term[t].pid) THEN "signal" ELSE Gone(t))
    /\ UNCHANGED <<daemons, supervisor, bounds>>

Signal(t) ==
    /\ At(t, "signal")
    /\ Terminated(term[t].pid)
    /\ Goes(t, "signalled")
    /\ UNCHANGED <<pidFile, supervisor, bounds>>

\* Still there after the wait: SIGKILL.
Signalled(t) ==
    /\ At(t, "signalled")
    /\ IF Alive(term[t].pid) THEN Killed(term[t].pid) ELSE UNCHANGED <<proc, registered>>
    /\ Goes(t, Gone(t))
    /\ UNCHANGED <<pidFile, supervisor, bounds>>

\* cmdChat without an answer from the port: the process of the pid file is in the way.
Clear(t) ==
    /\ At(t, "clear")
    /\ term' = [term EXCEPT ![t].at = IF Alive(term[t].pid) THEN "signal" ELSE "start",
                            ![t].named = TRUE]
    /\ UNCHANGED <<daemons, supervisor, bounds>>

-----------------------------------------------------------------------------
(* The watchdog.                                                           *)

\* spawn(): the window's budget, the fork, or a fork that fails and leaves
\* nothing that would keep the watchdog's process alive.
Fork ==
    \/ /\ recent >= MaxSpawns
       /\ alert' = TRUE /\ watchdog' = "over"
       /\ UNCHANGED <<proc, child, recent>>
    \/ /\ recent < MaxSpawns
       /\ recent' = recent + 1
       /\ \/ \E p \in Fresh : /\ proc' = [proc EXCEPT ![p] = "booting"]
                              /\ child' = p /\ watchdog' = "on"
          \/ watchdog' = "lost" /\ UNCHANGED <<proc, child>>
       /\ UNCHANGED alert

\* trilc watchdog: an alert of a former run is removed.
WatchdogStarts ==
    /\ watchdog \in {"off", "over", "lost"} /\ commands < MaxCommands
    /\ commands' = commands + 1
    /\ \/ \E p \in Fresh : proc' = [proc EXCEPT ![p] = "booting"] /\ child' = p /\ watchdog' = "on"
       \/ watchdog' = "lost" /\ UNCHANGED <<proc, child>>
    /\ recent' = 1 /\ alert' = FALSE
    /\ UNCHANGED <<registered, pidFile, term, restart, faults>>

\* Mutant: a child that is gone while another daemon has the port is not replaced.
ChildExitsOut ==
    /\ watchdog = "on" /\ child # None /\ ~Alive(child)
    /\ child' = None /\ restart' = (Listening = {})
    /\ UNCHANGED <<daemons, term, watchdog, recent, alert, bounds>>

\* The exit handler, whatever the exit code.
ChildExits ==
    /\ watchdog = "on" /\ child # None /\ ~Alive(child)
    /\ child' = None /\ restart' = TRUE
    /\ UNCHANGED <<daemons, term, watchdog, recent, alert, bounds>>

RestartFires ==
    /\ watchdog = "on" /\ restart
    /\ restart' = FALSE
    /\ Fork
    /\ UNCHANGED <<registered, pidFile, term, bounds>>

\* The oldest timestamp leaves the window.
WindowMoves ==
    /\ watchdog = "on" /\ recent > 0
    /\ recent' = recent - 1
    /\ UNCHANGED <<daemons, term, watchdog, child, restart, alert, bounds>>

\* SIGTERM to the watchdog: stop() passes it on, and the process exits.
WatchdogStops ==
    /\ watchdog = "on" /\ commands < MaxCommands
    /\ commands' = commands + 1
    /\ watchdog' = "off" /\ child' = None /\ restart' = FALSE
    /\ IF Alive(child) THEN Terminated(child) ELSE UNCHANGED <<proc, registered>>
    /\ UNCHANGED <<pidFile, term, recent, alert, faults>>

-----------------------------------------------------------------------------

Commands == {"start", "stop", "restart", "run", "chat"}

TerminalStep(t) ==
    \/ ReadPid(t) \/ Identify(t) \/ ProbePort(t) \/ ReleasePort(t) \/ RemovePidFile(t) \/ Spawn(t)
    \/ Look(t) \/ FindOwner(t) \/ CheckHealth(t) \/ AskShutdown(t) \/ Asked(t)
    \/ Signal(t) \/ Signalled(t) \/ Clear(t)

ProcessStep(p) == Boot(p) \/ Register(p) \/ Exit(p)

WatchdogStep == ChildExits \/ RestartFires

Next ==
    \/ \E t \in Terminals, cmd \in Commands : Command(t, cmd)
    \/ \E t \in Terminals : TerminalStep(t)
    \/ \E p \in Processes : ProcessStep(p) \/ Crash(p) \/ Hang(p)
    \/ WatchdogStep \/ WatchdogStarts \/ WatchdogStops \/ WindowMoves

\* Commands run on, timers fire, daemons boot and streams end.
Fairness ==
    /\ \A t \in Terminals : WF_vars(TerminalStep(t))
    /\ \A p \in Processes : WF_vars(ProcessStep(p))
    /\ WF_vars(WatchdogStep)

Spec == Init /\ [][Next]_vars
FairSpec == Spec /\ Fairness

-----------------------------------------------------------------------------
(* Properties.                                                             *)

StopLabels == {"stop", "look", "stale", "owner", "health", "ask", "asked", "signal", "signalled", "wipe"}
Labels == StopLabels \cup {"idle", "start", "identify", "port", "probing", "clean", "spawn",
                           "stopped", "chat", "clear"}

TypeOK ==
    /\ proc \in [Processes -> {"dead", "booting", "serving", "hung", "closing", "exiting"}]
    /\ Cardinality(Listening) <= 1
    /\ \A p \in registered : proc[p] \in {"serving", "hung", "closing", "exiting"}
    /\ pidFile \in Processes \cup {None}
    /\ term \in [Terminals -> [at : Labels, pid : Processes \cup {None}, named : BOOLEAN,
                               then : {"end", "start", "run"}, served : Processes \cup {None},
                               blind : BOOLEAN]]
    /\ watchdog \in {"off", "on", "over", "lost"}
    /\ child \in Processes \cup {None} /\ (restart => child = None /\ watchdog = "on")
    /\ recent \in 0..MaxSpawns /\ alert \in BOOLEAN /\ (watchdog = "over" => alert)
    /\ commands \in 0..MaxCommands /\ faults \in 0..MaxFaults

\* cmdStop: the daemon that served when a stop began does not serve when the
\* stop is through, whatever the pid file said, whoever else starts, stops and
\* restarts daemons meanwhile, unless neither the pid file nor the search by port
\* led to it; and the process a stop has dealt with is dead, also if it hung
\* or was waiting in server.close() for its streams.
StoppedIsGone ==
    \A t \in Terminals :
        /\ term[t].served # None /\ term[t].at \notin StopLabels /\ ~term[t].blind
               => proc[term[t].served] # "serving"
        /\ term[t].at = "stopped" => ~Alive(term[t].pid)

\* watchdog.ts: when no daemon is left, the watchdog brings one up again, or it
\* has left an alert or been stopped; or a fork has failed, which it does not
\* survive.
WatchdogAnswers ==
    (watchdog = "on" /\ \A p \in Processes : ~Alive(p))
        ~> (Serving # {} \/ alert \/ watchdog \in {"off", "lost"})
=============================================================================
