---------------------------- MODULE AgentStream ----------------------------
(***************************************************************************)
(* One request to POST /v1/messages or POST /chat/completions: the agent   *)
(* loop under the daemon's harness (runHarnessAgentLoop in                 *)
(* src/src/server/app.ts) and the two encoders that turn its events into   *)
(* what a client receives (anthropic-stream.ts, openai-stream.ts).         *)
(*                                                                         *)
(* The inner loop belongs to agent-core and is modelled from how the code  *)
(* uses it: request_start, text deltas, the assistant message with its     *)
(* tool calls, per call a tool_call and its result or a block, loop_end;   *)
(* an error, an exception or an abort may come at any point. A step is one *)
(* of these events, with all that the harness and both encoders do about   *)
(* it. The deltas of a turn are one; a text is named by its turn. A plain  *)
(* request without harness fields behaves as one that is not judging.      *)
(***************************************************************************)
EXTENDS Naturals, Sequences, FiniteSets, SequencesExt

CONSTANTS
    MaxTurns,         \* options.maxTurns
    MaxJudgeRounds,   \* continue_max_rounds
    Plans             \* the sequences of tool names the model may call in a turn

\* The budgets the handler computes with Math.max; a plan is a list of names.
ASSUME AgentAssumption ==
    /\ MaxTurns \in Nat \ {0} /\ MaxJudgeRounds \in Nat
    /\ \A names \in Plans : Len(names) \in Nat /\ DOMAIN names = 1..Len(names)

VARIABLES
    loop,             \* "boundary", "request", "call", "result" or "ended"
    judging,          \* continue_on_incomplete
    turn,             \* globalTurn
    judged,           \* judgeRoundsUsed
    calls,            \* the calls of this turn that are still to be carried out
    openCalls,        \* those the harness knows no receipt of; its list has them by id
    messages,         \* the history it rebuilds: the calls of each turn and their receipts
    said,             \* history: the texts and calls of the model
    claude,           \* the encoder of anthropic-stream.ts
    openai            \* the encoder of openai-stream.ts

history == <<openCalls, messages>>
control == <<loop, judging, turn, judged, calls>>
agentVars == <<control, history, said, claude, openai>>

Call(id, name) == [id |-> id, name |-> name]
Text(t) == [turn |-> t]

AgentInit ==
    /\ loop = "boundary" /\ judging \in BOOLEAN
    /\ turn = 0 /\ judged = 0
    /\ calls = <<>> /\ openCalls = {} /\ messages = <<>> /\ said = <<>>
    /\ claude = [out |-> <<>>, text |-> FALSE, index |-> 0, delta |-> FALSE, seen |-> {}]
    /\ openai = [out |-> <<>>, role |-> FALSE, delta |-> FALSE, seen |-> {}]

-----------------------------------------------------------------------------
(* anthropic-stream.ts.                                                    *)

Nothing == [id |-> 0, name |-> "none"]
Event(type, index, data) == [type |-> type, index |-> index, data |-> data]
Emit(s, type, index, data) == [s EXCEPT !.out = Append(@, Event(type, index, data))]

EnsureStarted(s) == IF s.out = <<>> THEN Emit(s, "message_start", 0, Nothing) ELSE s

StartBlock(s) == [Emit(s, "content_block_start", s.index, Nothing) EXCEPT !.index = @ + 1]
Fill(s, data) == Emit(s, "content_block_delta", s.index - 1, data)
StopBlock(s) == Emit(s, "content_block_stop", s.index - 1, Nothing)

StartTextBlock(s) == IF s.text THEN s ELSE [StartBlock(s) EXCEPT !.text = TRUE]
CloseTextBlock(s) == IF s.text THEN [StopBlock(s) EXCEPT !.text = FALSE] ELSE s

\* A tool_use block and a tool_result block come and go in one piece.
WholeBlock(s, data) == StopBlock(Fill(StartBlock(CloseTextBlock(s)), data))

ToolUse(s, c) ==
    IF c.id \in s.seen THEN s ELSE [WholeBlock(s, c) EXCEPT !.seen = @ \cup {c.id}]

\* Mutant: an open text block is not closed.
FinishStreamOpen(s) ==
    Emit(Emit(s, "message_delta", 0, Nothing), "message_stop", 0, Nothing)

FinishStream(s) ==
    Emit(Emit(CloseTextBlock(s), "message_delta", 0, Nothing), "message_stop", 0, Nothing)

\* The handler's guard adds a message_stop when nothing meaningful was sent.
GuardStream(s) ==
    IF \E i \in DOMAIN s.out : s.out[i].type \in {"content_block_start", "message_delta"}
    THEN s ELSE Emit(s, "message_stop", 0, Nothing)

ErrorStream(s) == FinishStream(Emit(EnsureStarted(s), "error", 0, Nothing))

-----------------------------------------------------------------------------
(* openai-stream.ts.                                                       *)

Chunk(o, type, data) == [o EXCEPT !.out = Append(@, [type |-> type, data |-> data])]

Role(o) == IF o.role THEN o ELSE [Chunk(o, "role", Nothing) EXCEPT !.role = TRUE]

ToolCallChunk(o, c) ==
    IF c.id \in o.seen THEN o ELSE [Chunk(o, "tool_calls", c) EXCEPT !.seen = @ \cup {c.id}]

FinishChunks(o) == Chunk(Chunk(o, "finish", Nothing), "done", Nothing)

ErrorChunks(o) == FinishChunks(Chunk(o, "note", Nothing))

-----------------------------------------------------------------------------
(* The events of a turn.                                                   *)

\* Mutant: the flag of a former turn stays.
RequestStartsOn ==
    /\ loop = "boundary"
    /\ loop' = "request"
    /\ turn' = turn + 1
    /\ claude' = [claude EXCEPT !.seen = {}]
    /\ openai' = [openai EXCEPT !.seen = {}]
    /\ UNCHANGED <<judging, judged, calls, history, said>>

\* request_start.
RequestStarts ==
    /\ loop = "boundary"
    /\ loop' = "request"
    /\ turn' = turn + 1
    /\ claude' = [claude EXCEPT !.delta = FALSE, !.seen = {}]
    /\ openai' = [openai EXCEPT !.delta = FALSE, !.seen = {}]
    /\ UNCHANGED <<judging, judged, calls, history, said>>

\* The text of this turn is out.
TextOut == Text(turn) \in ToSet(said)

\* content_delta.
ContentDelta ==
    /\ loop = "request" /\ ~TextOut
    /\ said' = Append(said, Text(turn))
    /\ claude' = [Fill(StartTextBlock(EnsureStarted(claude)), Text(turn)) EXCEPT !.delta = TRUE]
    /\ openai' = [Chunk(Role(openai), "content", Text(turn)) EXCEPT !.delta = TRUE]
    /\ UNCHANGED <<control, history>>

\* The calls of a turn, numbered; and both encoders, call by call.
Numbered(names) == [i \in DOMAIN names |-> Call(i, names[i])]
AnnounceCalls(s, asked) == FoldLeft(ToolUse, s, asked)
AnnounceChunks(o, asked) == FoldLeft(ToolCallChunk, o, asked)

\* assistant_message: the aggregate of what was streamed, or the only copy of
\* it; the encoders send what the deltas have not.
AssistantMessage(names, text) ==
    /\ loop = "request"
    /\ TextOut => text
    /\ LET asked == Numbered(names)
           spoken == IF text /\ ~claude.delta
                     THEN CloseTextBlock(Fill(StartTextBlock(EnsureStarted(claude)), Text(turn)))
                     ELSE EnsureStarted(claude)
           written == IF text /\ ~openai.delta
                      THEN Chunk(Chunk(openai, "role", Nothing), "content", Text(turn))
                      ELSE openai
       IN  /\ calls' = asked
           /\ openCalls' = ToSet(asked)
           /\ messages' = Append(messages, [calls |-> asked, receipts |-> <<>>])
           /\ said' = (IF text /\ ~TextOut THEN Append(said, Text(turn)) ELSE said) \o asked
           /\ claude' = AnnounceCalls(spoken, asked)
           /\ openai' = AnnounceChunks([written EXCEPT !.role = TRUE], asked)
    /\ loop' = "call"
    /\ UNCHANGED <<judging, turn, judged>>

\* tool_call: the encoders have seen it in the assistant message. The harness
\* has too, but for a call that a block of another one of its name took away.
ToolCall ==
    /\ loop = "call" /\ calls # <<>>
    /\ loop' = "result"
    /\ openCalls' = openCalls \cup {Head(calls)}
    /\ claude' = ToolUse(claude, Head(calls))
    /\ openai' = ToolCallChunk(openai, Head(calls))
    /\ UNCHANGED <<judging, turn, judged, calls, messages, said>>

Receipt(id) == [messages EXCEPT ![Len(messages)].receipts = Append(@, id)]

\* tool_result.
ToolResult ==
    /\ loop = "result"
    /\ loop' = "call" /\ calls' = Tail(calls)
    /\ messages' = Receipt(Head(calls).id)
    /\ openCalls' = {c \in openCalls : c.id # Head(calls).id}
    /\ claude' = WholeBlock(claude, Nothing)
    /\ UNCHANGED <<judging, turn, judged, said, openai>>

\* Mutant: a blocked call leaves no receipt.
ToolBlockedMute ==
    /\ loop = "result"
    /\ loop' = "call" /\ calls' = Tail(calls)
    /\ claude' = WholeBlock(claude, Nothing)
    /\ openai' = Chunk(openai, "note", Nothing)
    /\ UNCHANGED <<judging, turn, judged, history, said>>

\* tool_blocked carries no id: the harness takes the last open call of that name.
ToolBlocked ==
    /\ loop = "result"
    /\ loop' = "call" /\ calls' = Tail(calls)
    /\ LET named == {c \in openCalls : c.name = Head(calls).name}
       IN  IF named = {} THEN UNCHANGED history
           ELSE \E c \in named :
                   /\ \A d \in named : d.id <= c.id
                   /\ messages' = Receipt(c.id)
                   /\ openCalls' = openCalls \ {c}
    /\ claude' = WholeBlock(claude, Nothing)
    /\ openai' = Chunk(openai, "note", Nothing)
    /\ UNCHANGED <<judging, turn, judged, said>>

-----------------------------------------------------------------------------
(* The boundary between two turns, and the end.                            *)

Ends(s, o) ==
    /\ loop' = "ended" /\ calls' = <<>>
    /\ claude' = s /\ openai' = o
    /\ UNCHANGED <<judging, turn, judged, history, said>>

\* The one loop_end that the harness lets through.
LoopEnd == Ends(GuardStream(FinishStream(EnsureStarted(claude))), FinishChunks(openai))

ToolRound == messages[Len(messages)].calls # <<>>

\* Mutant: the budget of turns is not looked at.
GoesOnUncapped == ToolRound \/ (judging /\ judged < MaxJudgeRounds)

\* A round of tools goes on within the budget of turns, an answer only if the
\* request is judging and has rounds left.
GoesOn ==
    /\ turn < MaxTurns
    /\ ToolRound \/ (judging /\ judged < MaxJudgeRounds)

\* The model may have answered DONE.
Done == judging /\ ~ToolRound /\ TextOut

TurnIsOver ==
    /\ loop = "call" /\ calls = <<>>
    /\ \/ /\ GoesOn
          /\ loop' = "boundary"
          /\ judged' = IF ToolRound THEN judged ELSE judged + 1
          /\ UNCHANGED <<judging, turn, calls, history, said, claude, openai>>
       \/ /\ ~GoesOn \/ Done
          /\ LoopEnd

\* The inner loop is aborted or gives up without an error event.
LoopAborts == loop \in {"request", "call", "result"} /\ LoopEnd

\* The error event ends both streams.
LoopErrs ==
    /\ loop \in {"request", "call", "result"}
    /\ Ends(GuardStream(ErrorStream(claude)), ErrorChunks(openai))

\* An exception reaches the encoders' catch blocks.
LoopThrows ==
    /\ loop # "ended"
    /\ Ends(GuardStream(ErrorStream(claude)),
            ErrorChunks(IF openai.out = <<>> THEN Chunk(openai, "role", Nothing) ELSE openai))

AgentNext ==
    \/ RequestStarts
    \/ ContentDelta
    \/ \E names \in Plans, text \in BOOLEAN : AssistantMessage(names, text)
    \/ ToolCall \/ ToolResult \/ ToolBlocked
    \/ TurnIsOver \/ LoopAborts \/ LoopErrs \/ LoopThrows

AgentSpec == AgentInit /\ [][AgentNext]_agentVars

\* The generator is read to its end.
FairAgentSpec == AgentSpec /\ WF_agentVars(AgentNext)

-----------------------------------------------------------------------------
(* Properties.                                                             *)

Calls == UNION {ToSet(Numbered(names)) : names \in Plans}
Messages == [calls : Seq(Calls), receipts : Seq({c.id : c \in Calls})]

HarnessOK ==
    /\ loop \in {"boundary", "request", "call", "result", "ended"}
    /\ judging \in BOOLEAN
    /\ turn \in 0..MaxTurns /\ judged \in 0..MaxJudgeRounds
    /\ calls \in Seq(Calls) /\ openCalls \in SUBSET Calls
    /\ messages \in Seq(Messages)
    /\ turn \in {Len(messages), Len(messages) + 1}

\* What the encoders send, and what they remember of it.
Data == Calls \cup {Text(t) : t \in 1..MaxTurns} \cup {Nothing}
Events == [type : {"message_start", "content_block_start", "content_block_delta",
                   "content_block_stop", "error", "message_delta", "message_stop"},
           index : Nat, data : Data]
Chunks == [type : {"role", "content", "tool_calls", "note", "finish", "done"}, data : Data]
Ids == {c.id : c \in Calls}
Claude == [out : Seq(Events), text : BOOLEAN, index : Nat, delta : BOOLEAN, seen : SUBSET Ids]
OpenAI == [out : Seq(Chunks), role : BOOLEAN, delta : BOOLEAN, seen : SUBSET Ids]
EncodersOK == claude \in Claude /\ openai \in OpenAI
AgentTypeOK == HarnessOK /\ EncodersOK

\* What anthropic-stream.ts promises of the message a client gets.
Stream == INSTANCE MessageStream WITH out <- claude.out

\* The events of a response that show something show what was said, in order.
Filled(out) == {i \in DOMAIN out : out[i].data # Nothing}
Place(out, i) == Cardinality({j \in Filled(out) : j <= i})
Shows(out, what) ==
    /\ Cardinality(Filled(out)) = Len(what)
    /\ \A i \in Filled(out) : out[i].data = what[Place(out, i)]

\* stream-dedup.test.ts, over several turns: in both formats the client sees each
\* text and each call of the model once and in order, streamed or not, also
\* when a later turn uses the same ids and when the loop breaks off.
ShownIsSaid == Shows(claude.out, said) /\ Shows(openai.out, said)

\* app.ts 640, "otherwise the next request violates the provider's protocol":
\* every request after a round of tools has one receipt per call, in a history
\* the harness rebuilds from events; two calls of one name are told apart only
\* when both or neither are blocked.
HistoryPaired ==
    \A i \in DOMAIN messages :
        LET asked == messages[i].calls
        IN  /\ i < Len(messages) \/ loop = "boundary"
            /\ \A j, k \in DOMAIN asked : asked[j].name = asked[k].name => j = k
            => /\ Len(messages[i].receipts) = Len(asked)
               /\ ToSet(messages[i].receipts) = {c.id : c \in ToSet(asked)}
=============================================================================
