---------------------------- MODULE Interactions ----------------------------
(***************************************************************************)
(* The bridge between tools that run in the daemon and the user in front   *)
(* of a TUI: one prompt is on display, the others queue, the TUI polls for *)
(* it and posts the answer with the prompt's id (src/src/server/           *)
(* interactions.ts, with its callers askPermissionViaTui in app.ts and     *)
(* tools/ask-user-question-tool.ts, and tui/hooks/                         *)
(* usePendingInteraction.ts).                                              *)
(*                                                                         *)
(* A request is a call of one of the two callers; its slot is used once in *)
(* a process. The TUI's display and its answer on the way are part of the  *)
(* state, so that a prompt may be gone when its answer arrives. Ids are    *)
(* never reused: a request stands for its id. Rules a user denies or edits *)
(* by hand in the rule file are left out.                                  *)
(***************************************************************************)
EXTENDS Naturals, Sequences

CONSTANTS
    Requests,         \* calls of the callers in one process
    Tools,            \* the tools that need permission
    Question,         \* what ask_user_question asks for
    Clients,          \* TUIs
    MaxRestarts,      \* bound: process restarts
    NoRequest, NoTool

ASSUME InteractionAssumption ==
    /\ NoRequest \notin Requests
    /\ Question \notin Tools /\ NoTool \notin Tools \cup {Question}
    /\ MaxRestarts \in Nat

VARIABLES
    asks,             \* what each request asks for
    verdict,          \* what its caller makes of it
    current,          \* current
    queue,            \* queue
    chat,             \* each client's interactive request: "idle", "open", or "left" behind
    shown,            \* the prompt each client displays
    posted,           \* its answer on the way
    memory,           \* alwaysAllowedTools
    disk,             \* the allow rules in the rule file
    saving,           \* rules persistAllowRule is about to write
    loaded,           \* initPermissionStore's import is done
    restarts,
    allowed,          \* history: the requests a user answered "allow" in this process
    granted           \* history: the tools a user marked "always"

prompts == <<asks, verdict, current, queue>>
tui == <<chat, shown, posted, allowed, granted>>
rules == <<memory, disk, saving, loaded>>
vars == <<prompts, tui, rules, restarts>>

Responses == {"allow", "deny", "always", "answers", "cancelled"}
Offered(what) == IF what = Question THEN {"answers", "cancelled"} ELSE {"allow", "deny", "always"}
NoAnswer == <<NoRequest, "cancelled">>
WaitingFor == {r \in Requests : verdict[r] = "waiting"}

TypeOK ==
    /\ asks \in [Requests -> Tools \cup {Question, NoTool}]
    /\ verdict \in [Requests -> {"none", "waiting", "allow", "deny", "answers", "default"}]
    /\ current \in Requests \cup {NoRequest}
    /\ queue \in Seq(Requests)
    /\ chat \in [Clients -> {"idle", "open", "left"}]
    /\ shown \in [Clients -> Requests \cup {NoRequest}]
    /\ posted \in [Clients -> (Requests \cup {NoRequest}) \X Responses]
    /\ memory \in SUBSET Tools /\ disk \in SUBSET Tools /\ saving \in SUBSET Tools
    /\ loaded \in BOOLEAN
    /\ restarts \in 0..MaxRestarts
    /\ allowed \in SUBSET Requests
    /\ granted \in SUBSET Tools

Init ==
    /\ asks = [r \in Requests |-> NoTool]
    /\ verdict = [r \in Requests |-> "none"]
    /\ current = NoRequest
    /\ queue = <<>>
    /\ chat = [c \in Clients |-> "idle"]
    /\ shown = [c \in Clients |-> NoRequest]
    /\ posted = [c \in Clients |-> NoAnswer]
    /\ memory = {} /\ disk = {} /\ saving = {}
    /\ loaded = FALSE
    /\ restarts = 0
    /\ allowed = {}
    /\ granted = {}

-----------------------------------------------------------------------------
(* Requests.                                                               *)

\* requestInteraction: on display at once or behind the others.
Ask(r, what) ==
    /\ verdict[r] = "none"
    /\ asks' = [asks EXCEPT ![r] = what]
    /\ verdict' = [verdict EXCEPT ![r] = "waiting"]
    /\ \/ /\ current = NoRequest
          /\ current' = r
          /\ UNCHANGED queue
       \/ /\ current # NoRequest
          /\ queue' = Append(queue, r)
          /\ UNCHANGED current

\* A caller that needs no prompt.
Settle(r, what, how) ==
    /\ verdict[r] = "none"
    /\ asks' = [asks EXCEPT ![r] = what]
    /\ verdict' = [verdict EXCEPT ![r] = how]
    /\ UNCHANGED <<current, queue>>

\* askPermissionViaTui, from the agent loop of an interactive request, which
\* may have outlived its connection.
AskPermission(r, tool) ==
    /\ \E c \in Clients : chat[c] # "idle"
    /\ IF tool \in memory THEN Settle(r, tool, "allow") ELSE Ask(r, tool)
    /\ UNCHANGED <<tui, rules, restarts>>

\* ask_user_question, from any agent loop.
AskQuestion(r) ==
    /\ IF \E c \in Clients : chat[c] = "open" THEN Ask(r, Question)
       ELSE Settle(r, Question, "default")
    /\ UNCHANGED <<tui, rules, restarts>>

\* A variant that leaves the queue alone.
NextPromptNever == current' = NoRequest /\ UNCHANGED queue

\* A variant that shows the latest request first.
NextPromptLatest ==
    \/ queue = <<>> /\ current' = NoRequest /\ UNCHANGED queue
    \/ /\ queue # <<>>
       /\ current' = queue[Len(queue)]
       /\ queue' = SubSeq(queue, 1, Len(queue) - 1)

\* drainQueue.
NextPrompt ==
    \/ queue = <<>> /\ current' = NoRequest /\ UNCHANGED queue
    \/ queue # <<>> /\ current' = Head(queue) /\ queue' = Tail(queue)

\* A variant that hands the response on as it is.
OutcomeAsIs(response) == response

\* What the caller makes of a response.
Outcome(response) ==
    CASE response \in {"allow", "always"} -> "allow"
      [] response = "cancelled" -> "default"
      [] OTHER -> response

\* A variant that fails open.
TimesOutOpen ==
    /\ current # NoRequest
    /\ verdict' = [verdict EXCEPT ![current] =
                     IF asks[current] = Question THEN "default" ELSE "allow"]
    /\ NextPrompt
    /\ UNCHANGED <<asks, tui, rules, restarts>>

\* The timer of the prompt on display; the others have none yet.
TimesOut ==
    /\ current # NoRequest
    /\ verdict' = [verdict EXCEPT ![current] =
                     IF asks[current] = Question THEN "default" ELSE "deny"]
    /\ NextPrompt
    /\ UNCHANGED <<asks, tui, rules, restarts>>

\* A variant that takes an answer for whatever prompt is on display.
AnswerAny(id, response) ==
    /\ current # NoRequest
    /\ verdict' = [verdict EXCEPT ![current] = Outcome(response)]
    /\ NextPrompt
    /\ IF response = "always"
       THEN memory' = memory \cup {asks[current]} /\ saving' = saving \cup {asks[current]}
       ELSE UNCHANGED <<memory, saving>>

\* answerInteraction; "always" is remembered before anything else can run.
Answer(id, response) ==
    /\ current = id
    /\ verdict' = [verdict EXCEPT ![id] = Outcome(response)]
    /\ NextPrompt
    /\ IF response = "always"
       THEN memory' = memory \cup {asks[id]} /\ saving' = saving \cup {asks[id]}
       ELSE UNCHANGED <<memory, saving>>

-----------------------------------------------------------------------------
(* Clients.                                                                *)

\* POST /v1/messages with interactive: true.
Chat(c) ==
    /\ chat[c] = "idle"
    /\ chat' = [chat EXCEPT ![c] = "open"]
    /\ UNCHANGED <<prompts, shown, posted, allowed, granted, rules, restarts>>

\* The connection closes: the prompt disappears, the agent loop may go on.
Leave(c, to) ==
    /\ chat[c] = "open"
    /\ to = "idle" => WaitingFor = {}
    /\ chat' = [chat EXCEPT ![c] = to]
    /\ shown' = [shown EXCEPT ![c] = NoRequest]
    /\ UNCHANGED <<prompts, posted, allowed, granted, rules, restarts>>

\* The loop of a request that lost its connection ends.
LoopEnds(c) ==
    /\ chat[c] = "left"
    /\ WaitingFor = {}
    /\ chat' = [chat EXCEPT ![c] = "idle"]
    /\ UNCHANGED <<prompts, shown, posted, allowed, granted, rules, restarts>>

\* The TUI polls while its request is open.
Poll(c) ==
    /\ chat[c] = "open"
    /\ shown' = [shown EXCEPT ![c] = current]
    /\ UNCHANGED <<prompts, chat, posted, allowed, granted, rules, restarts>>

\* The user answers the prompt on the screen.
Respond(c, response) ==
    /\ shown[c] # NoRequest
    /\ posted[c] = NoAnswer
    /\ response \in Offered(asks[shown[c]])
    /\ posted' = [posted EXCEPT ![c] = <<shown[c], response>>]
    /\ allowed' = IF response = "allow" THEN allowed \cup {shown[c]} ELSE allowed
    /\ granted' = IF response = "always" THEN granted \cup {asks[shown[c]]} ELSE granted
    /\ UNCHANGED <<prompts, chat, shown, rules, restarts>>

\* POST interactions/answer: 200, or 409 for a prompt that is gone.
Arrive(c) ==
    /\ posted[c] # NoAnswer
    /\ posted' = [posted EXCEPT ![c] = NoAnswer]
    /\ shown' = [shown EXCEPT ![c] = NoRequest]
    /\ \/ Answer(posted[c][1], posted[c][2])
       \/ current # posted[c][1] /\ UNCHANGED <<verdict, current, queue, memory, saving>>
    /\ UNCHANGED <<asks, chat, allowed, granted, disk, loaded, restarts>>

-----------------------------------------------------------------------------
(* Rules and restarts.                                                     *)

LoadRules ==
    /\ ~loaded
    /\ loaded' = TRUE
    /\ memory' = memory \cup disk
    /\ UNCHANGED <<prompts, tui, disk, saving, restarts>>

PersistRule(tool) ==
    /\ tool \in saving
    /\ saving' = saving \ {tool}
    /\ disk' = disk \cup {tool}
    /\ UNCHANGED <<prompts, tui, memory, loaded, restarts>>

\* The process dies: the requests and the answers on the way go with it.
Restart ==
    /\ restarts < MaxRestarts
    /\ restarts' = restarts + 1
    /\ asks' = [r \in Requests |-> NoTool]
    /\ verdict' = [r \in Requests |-> "none"]
    /\ current' = NoRequest
    /\ queue' = <<>>
    /\ chat' = [c \in Clients |-> "idle"]
    /\ shown' = [c \in Clients |-> NoRequest]
    /\ posted' = [c \in Clients |-> NoAnswer]
    /\ memory' = {} /\ saving' = {} /\ loaded' = FALSE
    /\ allowed' = {}
    /\ UNCHANGED <<disk, granted>>

Next ==
    \/ \E r \in Requests : AskQuestion(r) \/ \E tool \in Tools : AskPermission(r, tool)
    \/ TimesOut
    \/ \E c \in Clients :
          \/ Chat(c) \/ LoopEnds(c) \/ Poll(c) \/ Arrive(c)
          \/ \E to \in {"idle", "left"} : Leave(c, to)
          \/ \E response \in Responses : Respond(c, response)
    \/ LoadRules
    \/ \E tool \in Tools : PersistRule(tool)
    \/ Restart

\* The timer of the prompt on display fires unless it is answered before.
Spec == Init /\ [][Next]_vars
FairSpec == Spec /\ WF_vars(TimesOut)

-----------------------------------------------------------------------------
(* Properties.                                                             *)

\* app.ts 832, "2min timeout ... fail closed (deny)", and interactions.ts 173: an
\* answer that comes late never decides another prompt.
\* A tool runs only if a user allowed this very call or marked the tool
\* "always", and only such marks are remembered.
AllowedByUser ==
    /\ memory \cup disk \cup saving \subseteq granted
    /\ \A r \in Requests : verdict[r] = "allow" =>
          asks[r] \in granted \/ r \in allowed

Lock == INSTANCE FifoLock WITH
    Clients <- Requests, holders <- {current} \ {NoRequest}, queue <- queue

\* interactions.ts 13, "a simple FIFO queue is enough": one prompt at a time,
\* in the order of the requests, over timeouts, answers and stale answers.
ImplementsFifoLock == Lock!Spec

\* Nobody who asks is left waiting: the prompts in front are answered or time
\* out one after the other, even when every TUI is gone.
EveryRequestSettled == \A r \in Requests : verdict[r] = "waiting" ~> verdict[r] # "waiting"
=============================================================================
