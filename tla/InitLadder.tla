----------------------------- MODULE InitLadder -----------------------------
(***************************************************************************)
(* What the initialisation of a company promises, whatever crashes: seven  *)
(* stages in a fixed order, and a stage is left only with the evidence it  *)
(* has to produce (src/src/company/init-chain.ts, the table TRANSITIONS,   *)
(* and the gates of the handlers). CompanyInit implements it.              *)
(***************************************************************************)
VARIABLES
    stage,            \* where the chain stands
    held              \* the evidence there is

ladderVars == <<stage, held>>

Succ == [uninitialized |-> "selfcheck", selfcheck |-> "onboarding",
         onboarding |-> "link", link |-> "sync", sync |-> "confirm", confirm |-> "ready"]

\* What a stage has to show before it is left.
Needed(s) == CASE s = "selfcheck"  -> {"healthy"}
               [] s = "onboarding" -> {"company"}
               [] s = "link"       -> {"linked"}
               [] s = "sync"       -> {"pushed"}
               [] s = "confirm"    -> {"confirmed"}
               [] OTHER            -> {}

Init == stage = "uninitialized" /\ held = {}

\* With any step the company's state may turn out to be lost: a restart reads
\* the files, one of which may be torn and another ahead of the daemon.
Holds(evidence) == held' \in {evidence, evidence \ {"company"}}

Advance ==
    /\ stage # "ready"
    /\ Needed(stage) \subseteq held
    /\ stage' = Succ[stage]
    /\ Holds(held)

\* A health check may be run at any stage.
Gain ==
    /\ Holds(held \cup Needed(stage)) \/ Holds(held \cup {"healthy"})
    /\ UNCHANGED stage

\* A check fails, a push is repeated and fails, or the company is lost.
Lose ==
    /\ \E e \in {"healthy", "pushed", "company"} : Holds(held \ {e})
    /\ UNCHANGED stage

Reset ==
    /\ stage' = "selfcheck"
    /\ held' = {}

Next == Advance \/ Gain \/ Lose \/ Reset

Spec == Init /\ [][Next]_ladderVars
=============================================================================
