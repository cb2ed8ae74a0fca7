---------------------------- MODULE MCServices ----------------------------
(***************************************************************************)
(* Two components that share no state, checked in one run: the processes   *)
(* with their supervision, and the agent loop with its encoders. A         *)
(* behaviour is one of the one or one of the other (part).                 *)
(***************************************************************************)
EXTENDS Supervision, AgentStream

VARIABLE part

SomePlans == {<<>>, <<"read", "write">>}

allVars == <<part, vars, agentVars>>

BothInit ==
    /\ part \in {"supervision", "agent"}
    /\ Init /\ AgentInit
    /\ part = "agent" => pidFile = None
    /\ part = "supervision" => ~judging

AgentIdle == part = "supervision" /\ UNCHANGED <<part, agentVars>>
Supervised == Next /\ AgentIdle
Looping == part = "agent" /\ AgentNext /\ UNCHANGED <<part, vars>>

\* The fairness of Supervision and of AgentStream.
BothSpec ==
    /\ BothInit /\ [][Supervised \/ Looping]_allVars
    /\ \A t \in Terminals : WF_allVars(TerminalStep(t) /\ AgentIdle)
    /\ \A p \in Processes : WF_allVars(ProcessStep(p) /\ AgentIdle)
    /\ WF_allVars(WatchdogStep /\ AgentIdle)
    /\ WF_allVars(Looping)

\* The types of both components.
TypesOK == TypeOK /\ AgentTypeOK

\* anthropic-stream.ts: whatever the loop does and wherever it breaks off, the
\* client gets a well-formed message, and in the end a complete one.
ImplementsMessageStream ==
    Stream!Safe /\ <>(part = "agent" => Stream!Complete(claude.out))
=============================================================================
