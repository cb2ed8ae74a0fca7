------------------------- MODULE AgentStreamProofs -------------------------
(***************************************************************************)
(* Theorems about the agent loop in AgentStream, for every budget of turns *)
(* and rounds and every set of plans: the history that the harness         *)
(* rebuilds, and what the two encoders send; and about the two components  *)
(* of MCServices together.                                                 *)
(***************************************************************************)
EXTENDS MCServices, SupervisionProofs, SequenceTheorems, TLAPS

-----------------------------------------------------------------------------
(* The history: its inductive invariant.                                                *)

Distinct(asked) == \A j, k \in DOMAIN asked : asked[j].name = asked[k].name => j = k

\* A call is known by its place in its turn.
Identified == \A m \in DOMAIN messages : \A j \in DOMAIN messages[m].calls : messages[m].calls[j].id = j

\* The receipts so far are those of the first calls, in their order.
InOrder(receipts) == \A j \in DOMAIN receipts : receipts[j] = j

Paired(m) == Distinct(m.calls) => Len(m.receipts) = Len(m.calls) /\ InOrder(m.receipts)

\* In the middle of a round the calls that are left follow those with a
\* receipt, and they are the open ones: a block finds its own by the name.
Underway(m) ==
    Distinct(m.calls) =>
        /\ Len(m.receipts) + Len(calls) = Len(m.calls)
        /\ InOrder(m.receipts)
        /\ \A j \in DOMAIN calls : calls[j] = m.calls[Len(m.receipts) + j]
        /\ openCalls = {calls[j] : j \in DOMAIN calls}

InRound == loop \in {"call", "result"}

\* What the places of the loop say of the budget and of the history.
Places ==
    /\ loop = "boundary" => turn = Len(messages) /\ turn < MaxTurns
    /\ loop = "request" => turn = Len(messages) + 1
    /\ InRound => turn = Len(messages) /\ turn > 0
    /\ loop = "result" => calls # <<>>

Rounds ==
    /\ \A m \in DOMAIN messages :
          m < Len(messages) \/ loop \in {"boundary", "request"} => Paired(messages[m])
    /\ InRound => Underway(messages[Len(messages)])

HistoryInv == HarnessOK /\ Identified /\ Places /\ Rounds

-----------------------------------------------------------------------------
(* The operators the actions are built from.                               *)

LEMMA AskedIs ==
    ASSUME NEW names \in Plans
    PROVE  /\ Numbered(names) \in Seq(Calls)
           /\ \A j \in DOMAIN Numbered(names) : Numbered(names)[j].id = j
           /\ ToSet(Numbered(names)) = {Numbered(names)[j] : j \in DOMAIN Numbered(names)}
           /\ ToSet(Numbered(names)) \in SUBSET Calls
  <1>1. DOMAIN Numbered(names) = 1..Len(names) /\ Len(names) \in Nat
    BY AgentAssumption DEF Numbered
  <1>2. ToSet(Numbered(names)) = {Numbered(names)[j] : j \in DOMAIN Numbered(names)}
    BY DEF ToSet
  <1>3. ToSet(Numbered(names)) \in SUBSET Calls
    BY DEF Calls
  <1>4. Numbered(names) \in [1..Len(names) -> Calls]
    BY <1>1, <1>2, <1>3 DEF Numbered
  <1>5. \A j \in DOMAIN Numbered(names) : Numbered(names)[j].id = j
    BY DEF Numbered, Call
  <1> QED BY <1>1, <1>2, <1>3, <1>4, <1>5

\* A receipt goes to the last message, and the others stay.
Receipted(m, id) == [m EXCEPT !.receipts = Append(@, id)]

LEMMA ReceiptIs ==
    ASSUME HarnessOK, messages # <<>>, NEW c \in Calls,
           NEW new, new = Receipt(c.id)
    PROVE  /\ new \in Seq(Messages) /\ Len(new) = Len(messages)
           /\ \A m \in DOMAIN messages : m < Len(messages) => new[m] = messages[m]
           /\ new[Len(messages)].calls = messages[Len(messages)].calls
           /\ new[Len(messages)].receipts = Append(messages[Len(messages)].receipts, c.id)
  <1>1. PICK n \in Nat : n = Len(messages)
    BY DEF HarnessOK
  <1>2. n \in 1..Len(messages) /\ DOMAIN messages = 1..n
    BY <1>1 DEF HarnessOK
  <1>3. PICK old \in Messages : old = messages[n]
    BY <1>2 DEF HarnessOK
  <1>4. PICK rs : rs = Append(old.receipts, c.id)
    OBVIOUS
  <1>5. rs \in Seq({d.id : d \in Calls})
    BY <1>4, AppendProperties DEF Messages
  <1>6. PICK m : m = Receipted(old, c.id)
    OBVIOUS
  <1>7. m \in Messages /\ m.calls = old.calls /\ m.receipts = rs
    BY <1>4, <1>5, <1>6 DEF Messages, Receipted
  <1>8. new = [messages EXCEPT ![n] = m]
    BY <1>1, <1>3, <1>6 DEF Receipt, Receipted
  <1>9. messages \in Seq(Messages)
    BY DEF HarnessOK
  <1>10. new \in Seq(Messages) /\ Len(new) = Len(messages)
    BY <1>2, <1>7, <1>8, <1>9, ExceptSeq
  <1>11. \A k \in 1..Len(messages) : new[k] = IF k = n THEN m ELSE messages[k]
    BY <1>2, <1>7, <1>8, <1>9, ExceptSeq
  <1> QED BY <1>1, <1>2, <1>3, <1>4, <1>7, <1>10, <1>11

-----------------------------------------------------------------------------
(* What the steps preserve.                                                *)

\* A step that leaves the history and the round alone.
LEMMA HistorySame ==
    ASSUME HistoryInv, UNCHANGED <<control, history>>
    PROVE  HistoryInv'
  BY DEF HistoryInv, HarnessOK, Identified, Places, Rounds, Underway, InRound, control, history

\* The response ends: what is left of the round is dropped.
LEMMA EndsKeeps ==
    ASSUME HistoryInv, loop # "ended", loop' = "ended", calls' = <<>>,
           UNCHANGED <<judging, turn, judged, history>>
    PROVE  HistoryInv'
  <1>1. messages' = messages /\ openCalls' = openCalls /\ calls' \in Seq(Calls)
    BY DEF history
  <1>2. HarnessOK'
    BY <1>1 DEF HistoryInv, HarnessOK
  <1>3. Identified' /\ Places'
    BY <1>1 DEF HistoryInv, Identified, Places, InRound
  <1>4. Rounds'
    BY <1>1 DEF HistoryInv, Rounds, InRound
  <1> QED BY <1>2, <1>3, <1>4 DEF HistoryInv

\* The last message of a round, and what is known of it.
LEMMA LastMessage ==
    ASSUME HistoryInv, InRound
    PROVE  /\ messages # <<>> /\ Len(messages) \in DOMAIN messages
           /\ messages[Len(messages)] \in Messages
           /\ Underway(messages[Len(messages)])
           /\ \A j \in DOMAIN messages[Len(messages)].calls : messages[Len(messages)].calls[j].id = j
  <1>1. messages \in Seq(Messages) /\ Len(messages) > 0
    BY DEF HistoryInv, HarnessOK, Places
  <1>2. messages # <<>> /\ Len(messages) \in DOMAIN messages /\ messages[Len(messages)] \in Messages
    BY <1>1
  <1> QED BY <1>2 DEF HistoryInv, Identified, Rounds

\* In a round of distinct names the call at the head is the one whose turn it
\* is, it is open, and no other open call has its id or its name.
LEMMA HeadIsNext ==
    ASSUME HistoryInv, InRound, calls # <<>>,
           NEW m, m = messages[Len(messages)], Distinct(m.calls)
    PROVE  /\ Head(calls) \in openCalls
           /\ Head(calls).id = Len(m.receipts) + 1
           /\ {c \in openCalls : c.name = Head(calls).name} = {Head(calls)}
           /\ openCalls \ {Head(calls)} = {Tail(calls)[j] : j \in DOMAIN Tail(calls)}
           /\ {c \in openCalls : c.id # Head(calls).id} = {Tail(calls)[j] : j \in DOMAIN Tail(calls)}
  <1>1. /\ m \in Messages /\ Underway(m) /\ \A j \in DOMAIN m.calls : m.calls[j].id = j
    BY LastMessage
  <1>2. /\ Len(m.receipts) + Len(calls) = Len(m.calls)
        /\ \A j \in DOMAIN calls : calls[j] = m.calls[Len(m.receipts) + j]
        /\ openCalls = {calls[j] : j \in DOMAIN calls}
    BY <1>1 DEF Underway
  <1>3. /\ Len(m.receipts) \in Nat /\ DOMAIN m.calls = 1..Len(m.calls) /\ Len(m.calls) \in Nat
        /\ DOMAIN calls = 1..Len(calls) /\ Len(calls) \in Nat /\ Len(calls) > 0
    BY <1>1 DEF Messages, HistoryInv, HarnessOK
  <1>4. \A j \in 1..Len(calls) : Len(m.receipts) + j \in DOMAIN m.calls
    BY <1>2, <1>3
  <1>5. \A j \in 1..Len(calls) : calls[j].id = Len(m.receipts) + j
    BY <1>1, <1>2, <1>3, <1>4
  <1>6. \A j, k \in 1..Len(calls) : calls[j].name = calls[k].name => j = k
    <2> SUFFICES ASSUME NEW j \in 1..Len(calls), NEW k \in 1..Len(calls), calls[j].name = calls[k].name
                 PROVE  j = k
      OBVIOUS
    <2>1. m.calls[Len(m.receipts) + j].name = m.calls[Len(m.receipts) + k].name
      BY <1>2, <1>3
    <2>2. Len(m.receipts) + j = Len(m.receipts) + k
      BY <1>4, <2>1 DEF Distinct
    <2> QED BY <1>3, <2>2
  <1>7. Head(calls) = calls[1]
    BY <1>3 DEF HistoryInv, HarnessOK
  <1>8. DOMAIN Tail(calls) = 1..(Len(calls) - 1) /\ \A j \in 1..(Len(calls) - 1) : Tail(calls)[j] = calls[j + 1]
    BY <1>3, HeadTailProperties DEF HistoryInv, HarnessOK
  <1>9. {Tail(calls)[j] : j \in DOMAIN Tail(calls)} = {calls[j] : j \in 2..Len(calls)}
    <2>1. \A j \in 1..(Len(calls) - 1) : j + 1 \in 2..Len(calls)
      BY <1>3
    <2>2. \A j \in 2..Len(calls) : j - 1 \in 1..(Len(calls) - 1) /\ Tail(calls)[j - 1] = calls[j]
      BY <1>3, <1>8
    <2>3. {Tail(calls)[j] : j \in 1..(Len(calls) - 1)} \subseteq {calls[j] : j \in 2..Len(calls)}
      BY <1>8, <2>1
    <2>4. {calls[j] : j \in 2..Len(calls)} \subseteq {Tail(calls)[j] : j \in 1..(Len(calls) - 1)}
      BY <2>2
    <2> QED BY <1>8, <2>3, <2>4
  <1>10. \A j \in 1..Len(calls) : j = 1 \/ j \in 2..Len(calls)
    BY <1>3
  <1>11. \A j \in 2..Len(calls) : j \in 1..Len(calls) /\ calls[j].id # calls[1].id /\ calls[j].name # calls[1].name
    BY <1>3, <1>5, <1>6
  <1>12. 1 \in 1..Len(calls)
    BY <1>3
  <1>13. openCalls \ {calls[1]} = {calls[j] : j \in 2..Len(calls)}
    BY <1>2, <1>3, <1>10, <1>11, <1>12
  <1>14. {c \in openCalls : c.id # calls[1].id} = {calls[j] : j \in 2..Len(calls)}
    BY SMTT(30), <1>2, <1>3, <1>10, <1>11, <1>12
  <1>15. {c \in openCalls : c.name = calls[1].name} = {calls[1]}
    BY <1>2, <1>3, <1>10, <1>11, <1>12
  <1>16. calls[1] \in openCalls /\ calls[1].id = Len(m.receipts) + 1
    BY <1>2, <1>3, <1>5, <1>12
  <1> QED BY <1>7, <1>9, <1>13, <1>14, <1>15, <1>16

\* A receipt is written, and in a round of distinct names it is the right one.
LEMMA RoundGoesOn ==
    ASSUME HistoryInv, loop = "result", loop' = "call", calls' = Tail(calls),
           UNCHANGED <<judging, turn, judged>>, openCalls' \in SUBSET Calls,
           NEW c \in Calls, messages' = Receipt(c.id),
           Distinct(messages[Len(messages)].calls) =>
               c = Head(calls) /\ openCalls' = {Tail(calls)[j] : j \in DOMAIN Tail(calls)}
    PROVE  HistoryInv'
  <1>1. InRound /\ InRound' /\ calls # <<>>
    BY DEF InRound, HistoryInv, Places
  <1>2. PICK n \in Nat : n = Len(messages)
    BY DEF HistoryInv, HarnessOK
  <1>3. PICK m \in Messages : m = messages[n]
    BY <1>1, <1>2, LastMessage
  <1>4. PICK k \in Messages : k = messages'[n]
    <2>1. messages' \in Seq(Messages) /\ Len(messages') = Len(messages) /\ messages # <<>>
      BY <1>1, ReceiptIs, LastMessage DEF HistoryInv
    <2>2. n \in 1..Len(messages')
      BY <1>2, <2>1 DEF HistoryInv, HarnessOK
    <2> QED BY <2>1, <2>2
  <1>5. /\ messages' \in Seq(Messages) /\ Len(messages') = n
        /\ DOMAIN messages' = DOMAIN messages
        /\ \A i \in DOMAIN messages : i < n => messages'[i] = messages[i]
        /\ k.calls = m.calls /\ k.receipts = Append(m.receipts, c.id)
    BY <1>1, <1>2, <1>3, <1>4, ReceiptIs, LastMessage DEF HistoryInv, HarnessOK
  <1>6. calls' \in Seq(Calls) /\ Len(calls') = Len(calls) - 1
        /\ \A j \in 1..Len(calls') : calls'[j] = calls[j + 1]
    BY <1>1, HeadTailProperties DEF HistoryInv, HarnessOK
  <1>7. HarnessOK'
    BY <1>2, <1>5, <1>6 DEF HistoryInv, HarnessOK
  <1>8. DOMAIN messages = 1..n
    BY <1>2 DEF HistoryInv, HarnessOK
  <1>9. Identified'
    <2>1. \A i \in DOMAIN messages' : messages'[i].calls = messages[i].calls
      BY <1>3, <1>4, <1>5, <1>8
    <2> QED BY <1>5, <2>1 DEF HistoryInv, Identified
  <1>10. Places'
    BY <1>1, <1>2, <1>5 DEF HistoryInv, Places, InRound
  <1>11. ASSUME Distinct(m.calls)
         PROVE  /\ Len(k.receipts) + Len(calls') = Len(m.calls)
                /\ InOrder(k.receipts)
                /\ \A j \in DOMAIN calls' : calls'[j] = m.calls[Len(k.receipts) + j]
                /\ openCalls' = {calls'[j] : j \in DOMAIN calls'}
    <2>1. /\ Len(m.receipts) + Len(calls) = Len(m.calls)
          /\ InOrder(m.receipts)
          /\ \A j \in DOMAIN calls : calls[j] = m.calls[Len(m.receipts) + j]
      BY <1>1, <1>2, <1>3, <1>11, LastMessage DEF Underway
    <2>2. c.id = Len(m.receipts) + 1
      BY <1>1, <1>2, <1>3, <1>11, HeadIsNext
    <2>3. m.receipts \in Seq({d.id : d \in Calls}) /\ c.id \in {d.id : d \in Calls}
      BY DEF Messages
    <2>4. /\ Len(k.receipts) = Len(m.receipts) + 1 /\ k.receipts \in Seq({d.id : d \in Calls})
          /\ \A j \in 1..Len(m.receipts) : k.receipts[j] = m.receipts[j]
          /\ k.receipts[Len(m.receipts) + 1] = c.id
      BY <1>5, <2>3, AppendProperties
    <2>5. DOMAIN k.receipts = 1..Len(k.receipts) /\ DOMAIN m.receipts = 1..Len(m.receipts)
          /\ Len(m.receipts) \in Nat /\ Len(calls) \in Nat /\ DOMAIN calls = 1..Len(calls)
          /\ DOMAIN calls' = 1..Len(calls')
      BY <1>6, <2>3, <2>4 DEF HistoryInv, HarnessOK
    <2>9. /\ Len(k.receipts) + Len(calls') = Len(m.calls)
          /\ \A j \in 1..Len(calls') : Len(m.receipts) + (j + 1) = Len(k.receipts) + j
      <3>1. PICK a \in Nat : a = Len(m.receipts)
        BY <2>5
      <3>2. PICK b \in Nat : b = Len(calls)
        BY <2>5
      <3>3. PICK x : x = Len(k.receipts)
        OBVIOUS
      <3>4. PICK y : y = Len(calls')
        OBVIOUS
      <3>5. x = a + 1 /\ y = b - 1 /\ a + b = Len(m.calls)
        BY <1>6, <2>1, <2>4, <3>1, <3>2, <3>3, <3>4
      <3>6. x + y = a + b /\ \A j \in 1..y : a + (j + 1) = x + j
        BY <3>5
      <3> QED BY <3>1, <3>3, <3>4, <3>5, <3>6
    <2>6. InOrder(k.receipts)
      <3>1. \A j \in 1..Len(k.receipts) : j \in 1..Len(m.receipts) \/ j = Len(m.receipts) + 1
        BY <2>4, <2>5
      <3> QED BY <2>1, <2>2, <2>4, <2>5, <3>1 DEF InOrder
    <2>7. \A j \in DOMAIN calls' : calls'[j] = m.calls[Len(k.receipts) + j]
      <3> SUFFICES ASSUME NEW j \in 1..Len(calls') PROVE calls'[j] = m.calls[Len(k.receipts) + j]
        BY <2>5
      <3>1. j + 1 \in DOMAIN calls /\ calls'[j] = calls[j + 1]
        BY <1>6, <2>5
      <3>2. calls[j + 1] = m.calls[Len(m.receipts) + (j + 1)]
        BY <2>1, <3>1
      <3>3. Len(m.receipts) + (j + 1) = Len(k.receipts) + j
        BY <2>9
      <3> QED BY <3>1, <3>2, <3>3
    <2>8. openCalls' = {calls'[j] : j \in DOMAIN calls'}
      BY <1>2, <1>3, <1>11
    <2> QED BY <2>6, <2>7, <2>8, <2>9
  <1>12. Underway(k)'
    BY <1>5, <1>11 DEF Underway
  <1>13. Rounds'
    BY <1>1, <1>4, <1>5, <1>8, <1>12 DEF HistoryInv, Rounds, InRound
  <1> QED BY <1>7, <1>9, <1>10, <1>13 DEF HistoryInv

\* A new turn: everything before it is paired, and nothing of it has a receipt.
LEMMA MessageKeeps ==
    ASSUME HistoryInv, NEW names \in Plans, NEW text \in BOOLEAN, AssistantMessage(names, text)
    PROVE  HistoryInv'
  <1>1. PICK asked : asked = Numbered(names)
    OBVIOUS
  <1>2. /\ loop = "request" /\ loop' = "call" /\ calls' = asked /\ openCalls' = ToSet(asked)
        /\ messages' = Append(messages, [calls |-> asked, receipts |-> <<>>])
        /\ UNCHANGED <<judging, turn, judged>>
    BY <1>1 DEF AssistantMessage
  <1>3. /\ asked \in Seq(Calls) /\ \A j \in DOMAIN asked : asked[j].id = j
        /\ openCalls' = {asked[j] : j \in DOMAIN asked} /\ openCalls' \in SUBSET Calls
    BY <1>1, <1>2, AskedIs
  <1>4. PICK m \in Messages : m = [calls |-> asked, receipts |-> <<>>]
    <2>1. PICK none \in Seq({c.id : c \in Calls}) : none = <<>>
      BY EmptySeq
    <2>2. [calls |-> asked, receipts |-> none] \in Messages
      BY <1>3 DEF Messages
    <2> QED BY <2>1, <2>2
  <1>5. m.calls = asked /\ m.receipts = <<>>
    BY <1>4
  <1>6. PICK n \in Nat : n = Len(messages)
    BY DEF HistoryInv, HarnessOK
  <1>7. /\ messages' \in Seq(Messages) /\ Len(messages') = n + 1
        /\ \A i \in 1..n : messages'[i] = messages[i]
        /\ messages'[n + 1] = m
        /\ DOMAIN messages' = 1..(n + 1) /\ DOMAIN messages = 1..n
    BY <1>2, <1>4, <1>6, AppendProperties DEF HistoryInv, HarnessOK
  <1>8. turn = n + 1
    BY <1>2, <1>6 DEF HistoryInv, Places
  <1>9. HarnessOK'
    BY <1>2, <1>3, <1>7, <1>8 DEF HistoryInv, HarnessOK
  <1>10. \A i \in 1..(n + 1) : i \in 1..n \/ i = n + 1
    OBVIOUS
  <1>11. Identified'
    BY <1>3, <1>5, <1>7, <1>10 DEF HistoryInv, Identified
  <1>12. Places'
    BY <1>2, <1>7, <1>8 DEF Places, InRound
  <1>13. Underway(m)'
    <2>1. Len(m.receipts) = 0 /\ DOMAIN m.receipts = {} /\ Len(asked) \in Nat /\ DOMAIN asked = 1..Len(asked)
      BY <1>3, <1>5
    <2>2. InOrder(m.receipts)
      BY <2>1 DEF InOrder
    <2>3. \A j \in DOMAIN asked : asked[j] = m.calls[Len(m.receipts) + j]
      BY <1>5, <2>1
    <2> QED BY <1>2, <1>3, <1>5, <2>1, <2>2, <2>3 DEF Underway
  <1>14. Rounds'
    <2>1. \A i \in 1..n : Paired(messages[i])
      BY <1>2, <1>7 DEF HistoryInv, Rounds
    <2>2. \A i \in 1..(n + 1) : i < n + 1 => i \in 1..n
      OBVIOUS
    <2> QED BY <1>2, <1>7, <1>13, <2>1, <2>2 DEF Rounds, InRound
  <1> QED BY <1>9, <1>11, <1>12, <1>14 DEF HistoryInv

\* A call begins: it is open already, unless two calls have one name.
LEMMA CallKeeps ==
    ASSUME HistoryInv, ToolCall
    PROVE  HistoryInv'
  <1>1. /\ InRound /\ calls # <<>> /\ loop' = "result" /\ openCalls' = openCalls \cup {Head(calls)}
        /\ UNCHANGED <<judging, turn, judged, calls, messages>>
    BY DEF ToolCall, InRound
  <1>2. Head(calls) \in Calls
    BY <1>1, HeadTailProperties DEF HistoryInv, HarnessOK
  <1>3. HarnessOK'
    BY <1>1, <1>2 DEF HistoryInv, HarnessOK
  <1>4. Identified' /\ Places'
    BY <1>1 DEF HistoryInv, Identified, Places, InRound
  <1>5. PICK m : m = messages[Len(messages)]
    OBVIOUS
  <1>6. Distinct(m.calls) => openCalls' = openCalls
    BY <1>1, <1>5, HeadIsNext
  <1>7. Underway(m)'
    BY <1>1, <1>5, <1>6, LastMessage DEF Underway
  <1>8. Rounds'
    BY <1>1, <1>5, <1>7 DEF HistoryInv, Rounds, InRound
  <1> QED BY <1>3, <1>4, <1>8 DEF HistoryInv

LEMMA ResultKeeps ==
    ASSUME HistoryInv, ToolResult
    PROVE  HistoryInv'
  <1>1. /\ loop = "result" /\ loop' = "call" /\ calls' = Tail(calls)
        /\ messages' = Receipt(Head(calls).id)
        /\ openCalls' = {c \in openCalls : c.id # Head(calls).id}
        /\ UNCHANGED <<judging, turn, judged>>
    BY DEF ToolResult
  <1>2. InRound /\ calls # <<>> /\ Head(calls) \in Calls /\ openCalls' \in SUBSET Calls
    BY <1>1, HeadTailProperties DEF HistoryInv, HarnessOK, Places, InRound
  <1>3. Distinct(messages[Len(messages)].calls)
           => openCalls' = {Tail(calls)[j] : j \in DOMAIN Tail(calls)}
    BY <1>1, <1>2, HeadIsNext
  <1> QED BY <1>1, <1>2, <1>3, RoundGoesOn

\* A block is matched by name: without a double it finds its own call.
LEMMA BlockKeeps ==
    ASSUME HistoryInv, ToolBlocked
    PROVE  HistoryInv'
  <1> DEFINE named == {c \in openCalls : c.name = Head(calls).name}
             last == messages[Len(messages)]
  <1>1. /\ loop = "result" /\ loop' = "call" /\ calls' = Tail(calls)
        /\ UNCHANGED <<judging, turn, judged>>
        /\ \/ named = {} /\ UNCHANGED history
           \/ \E c \in named : messages' = Receipt(c.id) /\ openCalls' = openCalls \ {c}
    BY DEF ToolBlocked
  <1>2. InRound /\ calls # <<>>
    BY <1>1 DEF HistoryInv, Places, InRound
  <1>3. Distinct(last.calls) =>
           named = {Head(calls)} /\ openCalls \ {Head(calls)} = {Tail(calls)[j] : j \in DOMAIN Tail(calls)}
    BY <1>2, HeadIsNext
  <1>4. ASSUME NEW c \in named, messages' = Receipt(c.id), openCalls' = openCalls \ {c}
        PROVE  HistoryInv'
    <2>1. c \in Calls /\ openCalls' \in SUBSET Calls
      BY <1>4 DEF HistoryInv, HarnessOK
    <2>2. Distinct(last.calls) =>
             c = Head(calls) /\ openCalls' = {Tail(calls)[j] : j \in DOMAIN Tail(calls)}
      BY <1>3, <1>4
    <2> QED BY <1>1, <1>4, <2>1, <2>2, RoundGoesOn
  <1>5. CASE named = {} /\ UNCHANGED history
    <2>1. ~Distinct(last.calls)
      BY <1>3, <1>5
    <2>2. messages' = messages /\ openCalls' = openCalls
      BY <1>5 DEF history
    <2>3. calls' \in Seq(Calls)
      BY <1>1, <1>2, HeadTailProperties DEF HistoryInv, HarnessOK
    <2>4. HarnessOK'
      BY <1>1, <2>2, <2>3 DEF HistoryInv, HarnessOK
    <2>5. Identified' /\ Places'
      BY <1>1, <2>2 DEF HistoryInv, Identified, Places, InRound
    <2>6. Underway(last)'
      BY <2>1, <2>2 DEF Underway
    <2>7. Rounds'
      BY <1>1, <2>2, <2>6 DEF HistoryInv, Rounds, InRound
    <2> QED BY <2>4, <2>5, <2>7 DEF HistoryInv
  <1> QED BY <1>1, <1>4, <1>5

\* A round that is over is paired, whether another turn begins or not.
LEMMA TurnKeeps ==
    ASSUME HistoryInv, TurnIsOver, loop' = "boundary"
    PROVE  HistoryInv'
  <1>1. /\ loop = "call" /\ calls = <<>> /\ turn < MaxTurns
        /\ judged' \in {judged, judged + 1} /\ (judged' # judged => judged < MaxJudgeRounds)
        /\ UNCHANGED <<judging, turn, calls, history>>
    BY DEF TurnIsOver, GoesOn, LoopEnd, Ends
  <1>2. messages' = messages /\ openCalls' = openCalls
    BY <1>1 DEF history
  <1>3. HarnessOK'
    BY <1>1, <1>2, AgentAssumption DEF HistoryInv, HarnessOK
  <1>4. Identified' /\ Places'
    BY <1>1, <1>2 DEF HistoryInv, Identified, Places, InRound
  <1>5. PICK m \in Messages : m = messages[Len(messages)]
    BY <1>1, LastMessage DEF InRound
  <1>6. Paired(m)
    <2>1. Underway(m) /\ Len(calls) = 0 /\ Len(m.receipts) \in Nat
      BY <1>1, <1>5, LastMessage DEF InRound, Messages
    <2> QED BY <2>1 DEF Underway, Paired
  <1>7. \A i \in DOMAIN messages : i < Len(messages) \/ i = Len(messages)
    BY DEF HistoryInv, HarnessOK
  <1>8. Rounds'
    BY <1>1, <1>2, <1>5, <1>6, <1>7 DEF HistoryInv, Rounds, InRound
  <1> QED BY <1>3, <1>4, <1>8 DEF HistoryInv

LEMMA HistoryInit == AgentInit => HistoryInv
  <1> SUFFICES ASSUME AgentInit PROVE HistoryInv
    OBVIOUS
  <1>1. messages = <<>> /\ calls = <<>> /\ openCalls = {} /\ loop = "boundary" /\ turn = 0 /\ judged = 0
    BY DEF AgentInit
  <1>2. HarnessOK
    BY <1>1, AgentAssumption DEF AgentInit, HarnessOK
  <1> QED BY <1>1, <1>2, AgentAssumption DEF HistoryInv, Identified, Places, Rounds, InRound

LEMMA HistoryStep ==
    ASSUME HistoryInv, [AgentNext]_agentVars
    PROVE  HistoryInv'
  <1>1. CASE RequestStarts
    <2>1. /\ loop = "boundary" /\ loop' = "request" /\ turn' = turn + 1
          /\ UNCHANGED <<judging, judged, calls, openCalls, messages>>
      BY <1>1 DEF RequestStarts, history
    <2>2. HarnessOK'
      BY <2>1, AgentAssumption DEF HistoryInv, HarnessOK, Places
    <2> QED BY <2>1, <2>2 DEF HistoryInv, Identified, Places, Rounds, InRound, HarnessOK
  <1>2. CASE ContentDelta \/ UNCHANGED agentVars
    BY <1>2, HistorySame DEF ContentDelta, agentVars
  <1>3. ASSUME NEW names \in Plans, NEW text \in BOOLEAN, AssistantMessage(names, text)
        PROVE  HistoryInv'
    BY <1>3, MessageKeeps
  <1>4. CASE ToolCall \/ ToolResult \/ ToolBlocked
    BY <1>4, CallKeeps, ResultKeeps, BlockKeeps
  <1>5. CASE TurnIsOver
    <2>1. CASE loop' = "boundary"
      BY <1>5, <2>1, TurnKeeps
    <2>2. CASE LoopEnd
      BY <1>5, <2>2, EndsKeeps DEF TurnIsOver, LoopEnd, Ends
    <2> QED BY <1>5, <2>1, <2>2 DEF TurnIsOver
  <1>6. CASE LoopAborts \/ LoopErrs \/ LoopThrows
    <2>1. /\ loop # "ended" /\ loop' = "ended" /\ calls' = <<>>
          /\ UNCHANGED <<judging, turn, judged, history>>
      BY <1>6 DEF LoopAborts, LoopErrs, LoopThrows, LoopEnd, Ends
    <2> QED BY <2>1, EndsKeeps
  <1> QED BY <1>1, <1>2, <1>3, <1>4, <1>5, <1>6 DEF AgentNext

LEMMA HistoryAlways == AgentSpec => []HistoryInv
  <1> QED BY HistoryInit, HistoryStep, PTL DEF AgentSpec

-----------------------------------------------------------------------------
(* Folds: induction over the naturals and over the subsets of a finite set.*)

\* A set of naturals that is not empty has a least element.
LEMMA LeastNatural ==
    ASSUME NEW T, T \subseteq Nat, T # {}
    PROVE  \E n \in T : \A k \in T : n <= k
  <1> DEFINE R == OpToRel(<, Nat)
  <1>1. IsWellFoundedOn(R, Nat)
    BY NatLessThanWellFounded
  <1>2. \A k \in Nat, n \in Nat : k < n => <<k, n>> \in R
    BY DEF OpToRel
  <1> HIDE DEF R
  <1>3. PICK n \in T : \A k \in T : ~(<<k, n>> \in R)
    BY <1>1, WFMin
  <1>4. \A k \in T : ~(k < n)
    BY <1>2, <1>3
  <1>5. \A k \in T : k \in Nat /\ n \in Nat
    OBVIOUS
  <1>6. \A k \in T : n <= k
    BY <1>4, <1>5
  <1> QED BY <1>6

\* Induction, with a set in the place of the formula.
LEMMA AllNaturals ==
    ASSUME NEW n \in Nat, NEW T, 0 \in T,
           \A k \in 0..n : k \in T /\ k < n => k + 1 \in T
    PROVE  \A k \in 0..n : k \in T
  <1> SUFFICES ASSUME NEW b \in 0..n, b \notin T PROVE FALSE
    OBVIOUS
  <1> DEFINE U == (0..n) \ T
  <1>1. U \subseteq Nat /\ U # {}
    <2>1. b \in U
      OBVIOUS
    <2> QED BY <2>1
  <1>2. PICK k \in U : \A j \in U : k <= j
    BY <1>1, LeastNatural
  <1>3. k # 0 /\ k \in 0..n /\ k \notin T
    OBVIOUS
  <1>4. k - 1 \in 0..n /\ k - 1 < n /\ (k - 1) + 1 = k /\ ~(k <= k - 1)
    BY <1>3
  <1>5. k - 1 \in T
    BY <1>2, <1>4
  <1> QED BY <1>3, <1>4, <1>5

\* A set of subsets of a finite set has a smallest one.
LEMMA SmallestSubset ==
    ASSUME NEW S, IsFiniteSet(S), NEW T, T \subseteq SUBSET S, T # {}
    PROVE  \E t \in T : \A u \in SUBSET t : u # t => u \notin T
  <1> DEFINE R == StrictSubsetOrdering(S)
  <1>1. IsWellFoundedOn(R, SUBSET S)
    BY FS_StrictSubsetOrderingWellFounded, FS_FiniteSubsetsOfFinite
  <1>2. \A u, t \in SUBSET S : u \subseteq t /\ u # t => <<u, t>> \in R
    BY DEF StrictSubsetOrdering
  <1> HIDE DEF R
  <1>3. PICK t \in T : \A u \in T : ~(<<u, t>> \in R)
    BY <1>1, WFMin
  <1> QED BY <1>2, <1>3

\* A fold of a finite set: it takes the elements of a set in a given order,
\* and less is what is left of a set without the first.
IsFold(g, T, V, base, less, step) ==
    /\ g \in [SUBSET T -> V]
    /\ \A s \in SUBSET T : g[s] = IF s = {} THEN base ELSE step[<<s, g[less[s]]>>]

\* What is left of a set without its first element is smaller.
Descends(less, S) == \A s \in SUBSET S : s # {} => less[s] \in SUBSET s /\ less[s] # s

\* Two folds with the same step agree wherever both are defined.
LEMMA FoldUnique ==
    ASSUME NEW S, IsFiniteSet(S), NEW V, NEW base, NEW less, NEW step, Descends(less, S),
           NEW T \in SUBSET S, NEW U \in SUBSET S, NEW g, NEW h,
           IsFold(g, T, V, base, less, step), IsFold(h, U, V, base, less, step),
           NEW s, s \in SUBSET T, s \in SUBSET U
    PROVE  g[s] = h[s]
  <1> SUFFICES ASSUME g[s] # h[s] PROVE FALSE
    OBVIOUS
  <1> DEFINE Bad == {t \in SUBSET S : t \in SUBSET T /\ t \in SUBSET U /\ g[t] # h[t]}
  <1>1. s \in Bad /\ Bad \subseteq SUBSET S
    OBVIOUS
  <1>2. \A t \in Bad : t \in SUBSET T /\ t \in SUBSET U /\ t \in SUBSET S /\ g[t] # h[t]
    OBVIOUS
  <1>3. \A t \in SUBSET S : t \in SUBSET T /\ t \in SUBSET U /\ g[t] # h[t] => t \in Bad
    OBVIOUS
  <1> HIDE DEF Bad
  <1>4. PICK t \in Bad : \A u \in SUBSET t : u # t => u \notin Bad
    BY <1>1, SmallestSubset
  <1>5. t # {}
    BY <1>2 DEF IsFold
  <1>6. less[t] \in SUBSET t /\ less[t] # t
    BY <1>2, <1>5 DEF Descends
  <1>7. g[less[t]] = h[less[t]]
    BY <1>2, <1>3, <1>4, <1>6
  <1>8. g[t] = step[<<t, g[less[t]]>>] /\ h[t] = step[<<t, h[less[t]]>>]
    BY <1>2, <1>5 DEF IsFold
  <1> QED BY <1>2, <1>7, <1>8

\* And there is one: if there were none on some set, there would be none on a
\* smallest one, but it is got there from the folds of its subsets.
LEMMA FoldExists ==
    ASSUME NEW S, IsFiniteSet(S), NEW V, NEW base \in V, NEW less, NEW step, Descends(less, S),
           \A s \in SUBSET S, v \in V : step[<<s, v>>] \in V
    PROVE  \E g : IsFold(g, S, V, base, less, step)
  <1> DEFINE F(g, T) == IsFold(g, T, V, base, less, step)
             Bad == {T \in SUBSET S : ~\E g : F(g, T)}
             Val(U) == (CHOOSE g : F(g, U))[U]
  <1>1. ASSUME NEW T \in SUBSET S, \A u \in SUBSET T : u # T => \E g : F(g, u)
        PROVE  \E g : F(g, T)
    <2> DEFINE h == [s \in SUBSET T |-> IF s = {} THEN base ELSE step[<<s, Val(less[s])>>]]
    <2>1. ASSUME NEW U \in SUBSET T, U # T
          PROVE  Val(U) \in V /\ Val(U) = IF U = {} THEN base ELSE step[<<U, Val(less[U])>>]
      <3>1. PICK g : g = CHOOSE f : F(f, U)
        OBVIOUS
      <3>2. F(g, U) /\ Val(U) = g[U]
        BY <1>1, <2>1, <3>1
      <3>3. Val(U) \in V
        BY <3>2 DEF IsFold
      <3>4. CASE U = {}
        BY <3>2, <3>3, <3>4 DEF IsFold
      <3>5. CASE U # {}
        <4>1. less[U] \in SUBSET U /\ less[U] # U /\ U \in SUBSET S
          BY <2>1, <3>5 DEF Descends
        <4>2. less[U] \in SUBSET T /\ less[U] # T
          BY <2>1, <4>1
        <4>3. PICK f : f = CHOOSE x : F(x, less[U])
          OBVIOUS
        <4>4. F(f, less[U]) /\ Val(less[U]) = f[less[U]]
          BY <1>1, <4>2, <4>3
        <4>5. f[less[U]] = g[less[U]]
          <5>1. less[U] \in SUBSET S /\ less[U] \in SUBSET less[U]
            BY <4>1
          <5> QED BY <3>2, <4>1, <4>4, <5>1, FoldUnique
        <4>6. g[U] = step[<<U, g[less[U]]>>]
          BY <3>2, <3>5 DEF IsFold
        <4> QED BY <3>2, <3>3, <3>5, <4>4, <4>5, <4>6
      <3> QED BY <3>4, <3>5
    <2> HIDE DEF Val
    <2>2. \A s \in SUBSET T : s # {} => less[s] \in SUBSET T /\ less[s] # T /\ s \in SUBSET S
      BY DEF Descends
    <2>3. \A s \in SUBSET T : h[s] = IF s = {} THEN base ELSE step[<<s, Val(less[s])>>]
      OBVIOUS
    <2>4. \A s \in SUBSET T : h[s] \in V
      BY <2>1, <2>2
    <2>5. h \in [SUBSET T -> V]
      BY <2>4
    <2> HIDE DEF h
    <2>6. \A s \in SUBSET T : s # T => h[s] = Val(s)
      BY <2>1, <2>3
    <2>7. \A s \in SUBSET T : h[s] = IF s = {} THEN base ELSE step[<<s, h[less[s]]>>]
      BY <2>2, <2>3, <2>6
    <2> QED BY <2>5, <2>7 DEF IsFold
  <1>2. Bad \subseteq SUBSET S /\ (S \notin Bad => \E g : F(g, S))
    OBVIOUS
  <1>3. \A T \in SUBSET S : T \notin Bad => \E g : F(g, T)
    OBVIOUS
  <1>4. \A T \in Bad : T \in SUBSET S /\ ~\E g : F(g, T)
    OBVIOUS
  <1> HIDE DEF F, Bad
  <1>5. ASSUME Bad # {} PROVE FALSE
    <2>1. PICK T \in Bad : \A u \in SUBSET T : u # T => u \notin Bad
      BY <1>2, <1>5, SmallestSubset
    <2>2. T \in SUBSET S /\ \A u \in SUBSET T : u # T => \E g : F(g, u)
      BY <1>3, <1>4, <2>1
    <2> QED BY <1>1, <1>4, <2>2
  <1>6. \E g : F(g, S)
    BY <1>2, <1>5
  <1> QED BY <1>6 DEF F

\* Max of a set of positions is the last of them.
LEMMA MaxIs ==
    ASSUME NEW n \in Nat, NEW t \in SUBSET (1..n), t # {}
    PROVE  Max(t) \in t /\ \A x \in t : x <= Max(t)
  <1> DEFINE U == {m \in Nat : \A x \in t : x <= m}
  <1>1. n \in U /\ U \subseteq Nat
    OBVIOUS
  <1>2. PICK m \in U : \A k \in U : m <= k
    BY <1>1, LeastNatural
  <1>3. m \in t
    <2> SUFFICES ASSUME m \notin t PROVE FALSE
      OBVIOUS
    <2>1. \A x \in t : x <= m /\ x # m /\ x \in 1..n /\ m \in Nat
      OBVIOUS
    <2>2. \A x \in t : x <= m - 1
      BY <2>1
    <2>3. PICK x \in t : TRUE
      OBVIOUS
    <2>4. m - 1 \in Nat
      BY <2>1, <2>3
    <2>5. m - 1 \in U
      BY <2>2, <2>4
    <2> QED BY <1>2, <2>1, <2>3, <2>5
  <1>4. \E y \in t : \A x \in t : y >= x
    BY <1>3
  <1>5. Max(t) \in t /\ \A x \in t : Max(t) >= x
    BY <1>4 DEF Max
  <1> QED BY <1>5

\* What is left of the positions without the last.
WithoutLast(n) == [t \in SUBSET (1..n) |-> t \ {Max(t)}]

\* A set of positions without its last is smaller, and a front of a list is a shorter one.
LEMMA FrontIs ==
    ASSUME NEW n \in Nat
    PROVE  /\ IsFiniteSet(1..n) /\ Descends(WithoutLast(n), 1..n)
           /\ \A k \in 1..n : /\ Max(1..k) = k /\ 1..k \in SUBSET (1..n) /\ 1..k # {}
                              /\ 1..(k - 1) \in SUBSET (1..n) /\ WithoutLast(n)[1..k] = 1..(k - 1)
                              /\ (1..k) \ {Max(1..k)} = 1..(k - 1)
  <1>1. IsFiniteSet(1..n)
    BY FS_Interval
  <1>2. Descends(WithoutLast(n), 1..n)
    BY MaxIs DEF Descends, WithoutLast
  <1>3. ASSUME NEW k \in 1..n
        PROVE  /\ Max(1..k) = k /\ 1..k \in SUBSET (1..n) /\ 1..k # {}
               /\ 1..(k - 1) \in SUBSET (1..n) /\ WithoutLast(n)[1..k] = 1..(k - 1)
               /\ (1..k) \ {Max(1..k)} = 1..(k - 1)
    <2>1. k \in 1..k /\ 1..k \in SUBSET (1..n) /\ 1..(k - 1) \in SUBSET (1..n)
      OBVIOUS
    <2>2. Max(1..k) \in 1..k /\ k <= Max(1..k)
      BY <2>1, MaxIs
    <2>3. Max(1..k) = k
      BY <2>2
    <2>4. (1..k) \ {k} = 1..(k - 1)
      OBVIOUS
    <2> QED BY <2>1, <2>3, <2>4 DEF WithoutLast
  <1> QED BY <1>1, <1>2, <1>3

\* MapThenFoldSet takes the positions from the last one on; so do these folds.
FoldedBy(g, step, s, V, n) ==
    /\ g \in [SUBSET (1..n) -> V]
    /\ \A t \in SUBSET (1..n) : g[t] = IF t = {} THEN s ELSE step[<<Max(t), g[t \ {Max(t)}]>>]

\* A step that stays in V has a fold.
LEMMA FoldedSteps ==
    ASSUME NEW V, NEW s \in V, NEW n \in Nat, NEW step \in [(1..n) \X V -> V]
    PROVE  \E g : FoldedBy(g, step, s, V, n)
  <1> DEFINE by == [p \in (SUBSET (1..n)) \X V |-> IF p[1] = {} THEN s ELSE step[<<Max(p[1]), p[2]>>]]
  <1>1. \A t \in SUBSET (1..n), v \in V : by[<<t, v>>] = IF t = {} THEN s ELSE step[<<Max(t), v>>]
    OBVIOUS
  <1>2. \A t \in SUBSET (1..n), v \in V : by[<<t, v>>] \in V
    BY MaxIs
  <1> HIDE DEF by
  <1>3. PICK g : IsFold(g, 1..n, V, s, WithoutLast(n), by)
    BY <1>2, FoldExists, FrontIs
  <1>4. g \in [SUBSET (1..n) -> V]
    BY <1>3 DEF IsFold
  <1>5. \A t \in SUBSET (1..n) : t # {} => WithoutLast(n)[t] = t \ {Max(t)} /\ t \ {Max(t)} \in SUBSET (1..n)
    BY DEF WithoutLast
  <1>6. \A t \in SUBSET (1..n) : g[t] = IF t = {} THEN s ELSE step[<<Max(t), g[t \ {Max(t)}]>>]
    <2> TAKE t \in SUBSET (1..n)
    <2>1. g[t] = IF t = {} THEN s ELSE by[<<t, g[WithoutLast(n)[t]]>>]
      BY <1>3 DEF IsFold
    <2>2. CASE t # {}
      <3>1. PICK v \in V : v = g[t \ {Max(t)}]
        BY <1>4, <1>5, <2>2
      <3>2. by[<<t, v>>] = step[<<Max(t), v>>]
        BY <1>1, <2>2
      <3> QED BY <1>5, <2>1, <2>2, <3>1, <3>2
    <2> QED BY <2>1, <2>2
  <1> QED BY <1>4, <1>6 DEF FoldedBy

\* The calls of a turn are announced one by one, in either format.
UsesOf(a, V, s, asked, n) ==
    a \in [0..n -> V] /\ a[0] = s /\ \A k \in 1..n : a[k] = ToolUse(a[k - 1], asked[k])

LEMMA AnnounceSteps ==
    ASSUME NEW V, NEW s \in V, NEW asked, NEW n \in Nat, DOMAIN asked = 1..n,
           \A v \in V, j \in 1..n : ToolUse(v, asked[j]) \in V
    PROVE  \E a : UsesOf(a, V, s, asked, n) /\ a[n] = AnnounceCalls(s, asked)
  <1> DEFINE step == [p \in (1..n) \X V |-> ToolUse(p[2], asked[p[1]])]
             Folded(g) == [t \in SUBSET DOMAIN asked |->
                              IF t = {} THEN s ELSE ToolUse(g[t \ {Max(t)}], asked[Max(t)])]
  <1>1. step \in [(1..n) \X V -> V] /\ \A j \in 1..n, v \in V : step[<<j, v>>] = ToolUse(v, asked[j])
    <2>1. \A p \in (1..n) \X V : ToolUse(p[2], asked[p[1]]) \in V
      OBVIOUS
    <2>2. step \in [(1..n) \X V -> V]
      BY <2>1
    <2>3. \A j \in 1..n, v \in V : <<j, v>> \in (1..n) \X V /\ <<j, v>>[1] = j /\ <<j, v>>[2] = v
      OBVIOUS
    <2>4. \A j \in 1..n, v \in V : step[<<j, v>>] = ToolUse(v, asked[j])
      BY <2>3
    <2> QED BY <2>2, <2>4
  <1> HIDE DEF step
  <1>2. PICK g : FoldedBy(g, step, s, V, n)
    BY <1>1, FoldedSteps
  <1>3. g = Folded(g)
    <2>1. \A t \in SUBSET (1..n) : t # {} => Max(t) \in 1..n /\ t \ {Max(t)} \in SUBSET (1..n)
      BY MaxIs
    <2>2. \A t \in SUBSET (1..n) : g[t] = IF t = {} THEN s ELSE ToolUse(g[t \ {Max(t)}], asked[Max(t)])
      BY <1>1, <1>2, <2>1 DEF FoldedBy
    <2> QED BY <1>2, <2>2 DEF FoldedBy
  <1>4. PICK f : f = CHOOSE x : x = Folded(x)
    OBVIOUS
  <1>5. f = Folded(f)
    BY <1>3, <1>4
  <1>6. AnnounceCalls(s, asked) = f[1..n]
    BY <1>4 DEF AnnounceCalls, FoldLeft, MapThenFoldSet
  <1>7. ASSUME NEW k \in 1..n
        PROVE  /\ f[1..k] = ToolUse(f[1..(k - 1)], asked[k])
               /\ g[1..k] = ToolUse(g[1..(k - 1)], asked[k])
    <2>1. /\ Max(1..k) = k /\ 1..k \in SUBSET (1..n) /\ 1..k # {}
          /\ (1..k) \ {Max(1..k)} = 1..(k - 1)
      BY FrontIs
    <2> QED BY <1>3, <1>5, <2>1
  <1>8. f[1..0] = s /\ g[1..0] = s
    BY <1>3, <1>5
  <1>9. f[1..n] = g[1..n]
    <2> DEFINE Same == {k \in 0..n : f[1..k] = g[1..k]}
    <2>1. 0 \in Same /\ \A k \in 0..n : k \in Same /\ k < n => k + 1 \in Same
      <3>1. \A k \in 0..n : k < n => k + 1 \in 1..n /\ (k + 1) - 1 = k
        OBVIOUS
      <3> QED BY <1>7, <1>8, <3>1
    <2> HIDE DEF Same
    <2>2. n \in 0..n
      OBVIOUS
    <2>3. n \in Same
      BY <2>1, <2>2, AllNaturals
    <2> QED BY <2>3 DEF Same
  <1> DEFINE a == [k \in 0..n |-> g[1..k]]
  <1>10. a \in [0..n -> V]
    BY <1>2 DEF FoldedBy
  <1>11. a[0] = s /\ a[n] = AnnounceCalls(s, asked)
    BY <1>6, <1>8, <1>9
  <1>12. \A k \in 1..n : a[k] = ToolUse(a[k - 1], asked[k])
    BY <1>7
  <1> QED BY <1>10, <1>11, <1>12 DEF UsesOf

\* And those of the other encoder.
ChunksOf(a, V, s, asked, n) ==
    a \in [0..n -> V] /\ a[0] = s /\ \A k \in 1..n : a[k] = ToolCallChunk(a[k - 1], asked[k])

LEMMA ChunkSteps ==
    ASSUME NEW V, NEW s \in V, NEW asked, NEW n \in Nat, DOMAIN asked = 1..n,
           \A v \in V, j \in 1..n : ToolCallChunk(v, asked[j]) \in V
    PROVE  \E a : ChunksOf(a, V, s, asked, n) /\ a[n] = AnnounceChunks(s, asked)
  <1> DEFINE step == [p \in (1..n) \X V |-> ToolCallChunk(p[2], asked[p[1]])]
             Folded(g) == [t \in SUBSET DOMAIN asked |->
                              IF t = {} THEN s ELSE ToolCallChunk(g[t \ {Max(t)}], asked[Max(t)])]
  <1>1. step \in [(1..n) \X V -> V] /\ \A j \in 1..n, v \in V : step[<<j, v>>] = ToolCallChunk(v, asked[j])
    <2>1. \A p \in (1..n) \X V : ToolCallChunk(p[2], asked[p[1]]) \in V
      OBVIOUS
    <2>2. step \in [(1..n) \X V -> V]
      BY <2>1
    <2>3. \A j \in 1..n, v \in V : <<j, v>> \in (1..n) \X V /\ <<j, v>>[1] = j /\ <<j, v>>[2] = v
      OBVIOUS
    <2>4. \A j \in 1..n, v \in V : step[<<j, v>>] = ToolCallChunk(v, asked[j])
      BY <2>3
    <2> QED BY <2>2, <2>4
  <1> HIDE DEF step
  <1>2. PICK g : FoldedBy(g, step, s, V, n)
    BY <1>1, FoldedSteps
  <1>3. g = Folded(g)
    <2>1. \A t \in SUBSET (1..n) : t # {} => Max(t) \in 1..n /\ t \ {Max(t)} \in SUBSET (1..n)
      BY MaxIs
    <2>2. \A t \in SUBSET (1..n) : g[t] = IF t = {} THEN s ELSE ToolCallChunk(g[t \ {Max(t)}], asked[Max(t)])
      BY <1>1, <1>2, <2>1 DEF FoldedBy
    <2> QED BY <1>2, <2>2 DEF FoldedBy
  <1>4. PICK f : f = CHOOSE x : x = Folded(x)
    OBVIOUS
  <1>5. f = Folded(f)
    BY <1>3, <1>4
  <1>6. AnnounceChunks(s, asked) = f[1..n]
    BY <1>4 DEF AnnounceChunks, FoldLeft, MapThenFoldSet
  <1>7. ASSUME NEW k \in 1..n
        PROVE  /\ f[1..k] = ToolCallChunk(f[1..(k - 1)], asked[k])
               /\ g[1..k] = ToolCallChunk(g[1..(k - 1)], asked[k])
    <2>1. /\ Max(1..k) = k /\ 1..k \in SUBSET (1..n) /\ 1..k # {}
          /\ (1..k) \ {Max(1..k)} = 1..(k - 1)
      BY FrontIs
    <2> QED BY <1>3, <1>5, <2>1
  <1>8. f[1..0] = s /\ g[1..0] = s
    BY <1>3, <1>5
  <1>9. f[1..n] = g[1..n]
    <2> DEFINE Same == {k \in 0..n : f[1..k] = g[1..k]}
    <2>1. 0 \in Same /\ \A k \in 0..n : k \in Same /\ k < n => k + 1 \in Same
      <3>1. \A k \in 0..n : k < n => k + 1 \in 1..n /\ (k + 1) - 1 = k
        OBVIOUS
      <3> QED BY <1>7, <1>8, <3>1
    <2> HIDE DEF Same
    <2>2. n \in 0..n
      OBVIOUS
    <2>3. n \in Same
      BY <2>1, <2>2, AllNaturals
    <2> QED BY <2>3 DEF Same
  <1> DEFINE a == [k \in 0..n |-> g[1..k]]
  <1>10. a \in [0..n -> V]
    BY <1>2 DEF FoldedBy
  <1>11. a[0] = s /\ a[n] = AnnounceChunks(s, asked)
    BY <1>6, <1>8, <1>9
  <1>12. \A k \in 1..n : a[k] = ToolCallChunk(a[k - 1], asked[k])
    BY <1>7
  <1> QED BY <1>10, <1>11, <1>12 DEF ChunksOf

-----------------------------------------------------------------------------
(* What a client is shown.                                                 *)

\* What is shown is not Nothing.
LEMMA DataIs ==
    /\ \A c \in Calls : c.id \in Nat /\ c.id > 0 /\ c \in Data /\ c # Nothing
    /\ \A t \in 1..MaxTurns : Text(t) \in Data /\ Text(t) # Nothing
    /\ Nothing \in Data
  <1>1. ASSUME NEW c \in Calls PROVE c.id \in Nat /\ c.id > 0 /\ c # Nothing
    <2>1. PICK names \in Plans : c \in ToSet(Numbered(names))
      BY DEF Calls
    <2>2. PICK j \in 1..Len(names) : c = Call(j, names[j])
      BY <2>1, AgentAssumption DEF ToSet, Numbered
    <2>3. Len(names) \in Nat
      BY AgentAssumption
    <2> QED BY <2>2, <2>3 DEF Call, Nothing
  <1>2. \A t \in 1..MaxTurns : Text(t) # Nothing
    BY DEF Text, Nothing
  <1> QED BY <1>1, <1>2 DEF Data

\* One list of events goes on from another and shows these things more.
Continues(a, b, sent) ==
    /\ Len(a) <= Len(b) /\ \A i \in 1..Len(a) : b[i] = a[i]
    /\ \A what \in Seq(Data) : Shows(a, what) => Shows(b, what \o sent)

\* A list goes on from itself; and twice is once with both things shown.
LEMMA ContinuesSame ==
    ASSUME NEW E, NEW a \in Seq(E)
    PROVE  Continues(a, a, <<>>)
  <1>1. Len(a) <= Len(a)
    OBVIOUS
  <1>2. \A what \in Seq(Data) : what \o <<>> = what
    BY ConcatEmptySeq
  <1> QED BY <1>1, <1>2 DEF Continues

LEMMA ContinuesTwice ==
    ASSUME NEW E, NEW a \in Seq(E), NEW b \in Seq(E), NEW c \in Seq(E),
           NEW p \in Seq(Data), NEW q \in Seq(Data),
           Continues(a, b, p), Continues(b, c, q)
    PROVE  Continues(a, c, p \o q)
  <1>1. Len(a) <= Len(c) /\ \A i \in 1..Len(a) : c[i] = a[i]
    <2>1. Len(a) \in Nat /\ Len(b) \in Nat /\ Len(c) \in Nat
      OBVIOUS
    <2> QED BY <2>1 DEF Continues
  <1>2. ASSUME NEW what \in Seq(Data), Shows(a, what) PROVE Shows(c, what \o (p \o q))
    <2>1. what \o p \in Seq(Data) /\ (what \o p) \o q = what \o (p \o q)
      BY SMTT(30), ConcatProperties, ConcatAssociative
    <2> QED BY <1>2, <2>1 DEF Continues
  <1> QED BY <1>1, <1>2 DEF Continues

\* The place of an event that shows something is one of those there are.
LEMMA FilledIs ==
    ASSUME NEW E, NEW out \in Seq(E)
    PROVE  /\ IsFiniteSet(Filled(out)) /\ Filled(out) \subseteq 1..Len(out)
           /\ Cardinality(Filled(out)) \in Nat
           /\ \A i \in Filled(out) : Place(out, i) \in 1..Cardinality(Filled(out))
  <1>1. Filled(out) \in SUBSET (1..Len(out)) /\ IsFiniteSet(1..Len(out))
    <2>1. Filled(out) \in SUBSET (1..Len(out)) /\ Len(out) \in Int
      BY DEF Filled
    <2> QED BY <2>1, FS_Interval
  <1>2. IsFiniteSet(Filled(out)) /\ Cardinality(Filled(out)) \in Nat
    BY <1>1, FS_Subset, FS_CardinalityType
  <1>3. ASSUME NEW i \in Filled(out) PROVE Place(out, i) \in 1..Cardinality(Filled(out))
    <2> DEFINE S == {j \in Filled(out) : j <= i}
    <2>1. i \in S /\ S \in SUBSET Filled(out)
      BY <1>1
    <2> HIDE DEF S
    <2>2. IsFiniteSet(S) /\ Cardinality(S) <= Cardinality(Filled(out)) /\ Cardinality(S) \in Nat
      BY <1>2, <2>1, FS_Subset, FS_CardinalityType
    <2>3. Cardinality(S) # 0
      BY <2>1, <2>2, FS_EmptySet
    <2>4. Cardinality(S) \in 1..Cardinality(Filled(out))
      BY <1>2, <2>2, <2>3
    <2> QED BY <2>4 DEF S, Place
  <1> QED BY <1>1, <1>2, <1>3

\* What is known of a list with one element more.
LEMMA AppendIs ==
    ASSUME NEW E, NEW out \in Seq(E), NEW e \in E, NEW new, new = Append(out, e),
           NEW n, n = Len(out)
    PROVE  /\ new \in Seq(E) /\ Len(new) = n + 1 /\ n \in Nat
           /\ DOMAIN out = 1..n /\ DOMAIN new = 1..(n + 1)
           /\ \A i \in 1..n : new[i] = out[i]
           /\ new[n + 1] = e
           /\ \A i \in 1..(n + 1) : i \in 1..n \/ i = n + 1
  <1>1. /\ new \in Seq(E) /\ Len(new) = Len(out) + 1
        /\ \A i \in 1..Len(out) : new[i] = out[i]
        /\ new[Len(out) + 1] = e
    BY AppendProperties
  <1>2. Len(out) \in Nat /\ DOMAIN out = 1..Len(out) /\ DOMAIN new = 1..Len(new)
    BY <1>1
  <1> QED BY <1>1, <1>2

\* An event more shows what it holds, if anything.
LEMMA ContinuesEvent ==
    ASSUME NEW E, NEW out \in Seq(E), NEW e \in E, e.data \in Data, NEW new, new = Append(out, e)
    PROVE  /\ e.data = Nothing => Continues(out, new, <<>>)
           /\ e.data # Nothing => Continues(out, new, <<e.data>>)
  <1>0. PICK n : n = Len(out)
    OBVIOUS
  <1>1. /\ new \in Seq(E) /\ Len(new) = n + 1 /\ n \in Nat
        /\ DOMAIN out = 1..n /\ DOMAIN new = 1..(n + 1)
        /\ \A i \in 1..n : new[i] = out[i]
        /\ new[n + 1] = e
        /\ \A i \in 1..(n + 1) : i \in 1..n \/ i = n + 1
    BY <1>0, AppendIs
  <1>2. Len(out) <= Len(new) /\ \A i \in 1..Len(out) : new[i] = out[i]
    BY <1>0, <1>1
  <1>3. Filled(new) = Filled(out) \cup (IF e.data = Nothing THEN {} ELSE {n + 1})
    <2>1. \A i \in 1..n : i \in 1..(n + 1) /\ new[i].data = out[i].data
      BY <1>1
    <2>2. n + 1 \in 1..(n + 1)
      BY <1>1
    <2> QED BY <1>1, <2>1, <2>2 DEF Filled
  <1>4. Filled(out) \subseteq 1..n /\ n + 1 \notin 1..n /\ \A i \in 1..n : ~(n + 1 <= i) /\ i <= n + 1
    BY <1>0, <1>1, FilledIs
  <1>5. \A i \in Filled(out) : Place(new, i) = Place(out, i)
    <2>1. \A i \in Filled(out) : {j \in Filled(new) : j <= i} = {j \in Filled(out) : j <= i}
      BY <1>3, <1>4
    <2> QED BY <2>1 DEF Place
  <1>6. CASE e.data = Nothing
    <2>1. Filled(new) = Filled(out)
      BY <1>3, <1>6
    <2>2. \A what \in Seq(Data) : what \o <<>> = what
      BY ConcatEmptySeq
    <2>3. \A i \in Filled(out) : new[i] = out[i]
      BY <1>1, <1>4
    <2> QED BY <1>2, <1>5, <1>6, <2>1, <2>2, <2>3 DEF Continues, Shows
  <1>7. CASE e.data # Nothing
    <2>1. Filled(new) = Filled(out) \cup {n + 1} /\ n + 1 \notin Filled(out)
      BY <1>3, <1>4, <1>7
    <2>2. IsFiniteSet(Filled(out)) /\ Cardinality(Filled(out)) \in Nat
      BY FilledIs
    <2>3. Cardinality(Filled(new)) = Cardinality(Filled(out)) + 1
      BY <2>1, <2>2, FS_AddElement
    <2>4. Place(new, n + 1) = Cardinality(Filled(new))
      <3>1. {j \in Filled(new) : j <= n + 1} = Filled(new)
        <4>1. n + 1 <= n + 1
          BY <1>1
        <4> QED BY <1>4, <2>1, <4>1
      <3> QED BY <3>1 DEF Place
    <2>5. ASSUME NEW what \in Seq(Data), Shows(out, what)
          PROVE  Shows(new, what \o <<e.data>>)
      <3>1. PICK more : more = what \o <<e.data>>
        OBVIOUS
      <3>2. /\ Len(more) = Len(what) + 1 /\ more[Len(what) + 1] = e.data
            /\ \A i \in 1..Len(what) : more[i] = what[i]
        <4>1. what \o <<e.data>> = Append(what, e.data)
          BY AppendIsConcat
        <4> QED BY <3>1, <4>1, AppendProperties
      <3>3. Len(what) = Cardinality(Filled(out))
        BY <2>5 DEF Shows
      <3>4. ASSUME NEW i \in Filled(out) PROVE new[i].data = more[Place(new, i)]
        <4>1. Place(out, i) \in 1..Len(what)
          BY <3>3, FilledIs
        <4>2. new[i].data = out[i].data
          BY <1>1, <1>4
        <4>3. out[i].data = what[Place(out, i)]
          BY <2>5 DEF Shows
        <4> QED BY <1>5, <3>2, <4>1, <4>2, <4>3
      <3>5. new[n + 1].data = more[Place(new, n + 1)]
        BY <1>1, <2>3, <2>4, <3>2, <3>3
      <3> QED BY <2>1, <2>3, <3>1, <3>2, <3>3, <3>4, <3>5 DEF Shows
    <2> QED BY <1>2, <1>7, <2>5 DEF Continues
  <1> QED BY <1>6, <1>7

-----------------------------------------------------------------------------
(* The blocks of a message.                                                *)

\* An event added changes nothing before it.
Added(out, e, new, n) ==
    /\ out \in Seq(Events) /\ e \in Events /\ n \in Nat
    /\ n = Len(out) /\ new = Append(out, e)

LEMMA AddedIs ==
    ASSUME NEW out, NEW e, NEW new, NEW n, Added(out, e, new, n)
    PROVE  /\ new \in Seq(Events) /\ Len(new) = n + 1 /\ n \in Nat
           /\ DOMAIN out = 1..n /\ DOMAIN new = 1..(n + 1)
           /\ \A i \in 1..n : new[i] = out[i]
           /\ new[n + 1] = e
           /\ \A i \in 1..(n + 1) : i \in 1..n \/ i = n + 1
  <1>1. out \in Seq(Events) /\ e \in Events /\ new = Append(out, e) /\ n = Len(out)
    BY DEF Added
  <1> QED BY <1>1, AppendIs

LEMMA IndicesAppend ==
    ASSUME NEW out, NEW e, NEW new, NEW n, Added(out, e, new, n), NEW type
    PROVE  /\ e.type = type => Stream!Indices(new, type) = Stream!Indices(out, type) \cup {n + 1}
           /\ e.type # type => Stream!Indices(new, type) = Stream!Indices(out, type)
           /\ Stream!Indices(out, type) \subseteq 1..n
  <1>1. /\ n \in Nat /\ DOMAIN out = 1..n /\ DOMAIN new = 1..(n + 1)
        /\ \A i \in 1..n : new[i] = out[i]
        /\ new[n + 1] = e
        /\ \A i \in 1..(n + 1) : i \in 1..n \/ i = n + 1
    BY AddedIs
  <1>2. (\A i \in 1..n : i \in 1..(n + 1)) /\ n + 1 \in 1..(n + 1)
    BY <1>1
  <1>3. Stream!Indices(out, type) \subseteq 1..n
    BY <1>1 DEF Stream!Indices
  <1>4. e.type = type => Stream!Indices(new, type) = Stream!Indices(out, type) \cup {n + 1}
    BY <1>1, <1>2 DEF Stream!Indices
  <1>5. e.type # type => Stream!Indices(new, type) = Stream!Indices(out, type)
    BY <1>1, <1>2 DEF Stream!Indices
  <1> QED BY <1>3, <1>4, <1>5

\* What precedes an old position stays, and what precedes the next one grows by
\* the event added.
LEMMA BeforeSame ==
    ASSUME NEW out, NEW e, NEW new, NEW n, Added(out, e, new, n), NEW type, NEW i \in 1..(n + 1)
    PROVE  Stream!Before(new, i, type) = Stream!Before(out, i, type) /\ Stream!Before(out, i, type) \subseteq 1..n
  <1>1. /\ e.type = type => Stream!Indices(new, type) = Stream!Indices(out, type) \cup {n + 1}
        /\ e.type # type => Stream!Indices(new, type) = Stream!Indices(out, type)
        /\ Stream!Indices(out, type) \subseteq 1..n
    BY IndicesAppend
  <1>2. n \in Nat /\ ~(n + 1 < i)
    BY AddedIs
  <1> QED BY <1>1, <1>2 DEF Stream!Before

LEMMA BeforeLast ==
    ASSUME NEW out, NEW e, NEW new, NEW n, Added(out, e, new, n), NEW type
    PROVE  /\ e.type = type => Stream!Before(new, n + 2, type) = Stream!Before(out, n + 1, type) \cup {n + 1}
           /\ e.type # type => Stream!Before(new, n + 2, type) = Stream!Before(out, n + 1, type)
           /\ Stream!Before(out, n + 1, type) \subseteq 1..n
  <1>1. /\ e.type = type => Stream!Indices(new, type) = Stream!Indices(out, type) \cup {n + 1}
        /\ e.type # type => Stream!Indices(new, type) = Stream!Indices(out, type)
        /\ Stream!Indices(out, type) \subseteq 1..n
    BY IndicesAppend
  <1>2. n \in Nat /\ n + 1 < n + 2 /\ \A j \in 1..n : j < n + 1 /\ j < n + 2
    BY AddedIs
  <1> QED BY <1>1, <1>2 DEF Stream!Before

\* The numbers of the blocks that are started and of those that are stopped.
Numbers(s, i, type) == {s[j].index : j \in Stream!Before(s, i, type)}

\* So do their numbers.
LEMMA NumbersSame ==
    ASSUME NEW out, NEW e, NEW new, NEW n, Added(out, e, new, n), NEW type, NEW i \in 1..(n + 1)
    PROVE  Numbers(new, i, type) = Numbers(out, i, type)
  <1>1. Stream!Before(new, i, type) = Stream!Before(out, i, type) /\ Stream!Before(out, i, type) \subseteq 1..n
    BY BeforeSame
  <1>2. \A j \in 1..n : new[j] = out[j]
    BY AddedIs
  <1> QED BY <1>1, <1>2 DEF Numbers

LEMMA NumbersLast ==
    ASSUME NEW out, NEW e, NEW new, NEW n, Added(out, e, new, n), NEW type
    PROVE  /\ e.type = type => Numbers(new, n + 2, type) = Numbers(out, n + 1, type) \cup {e.index}
           /\ e.type # type => Numbers(new, n + 2, type) = Numbers(out, n + 1, type)
  <1>1. /\ e.type = type => Stream!Before(new, n + 2, type) = Stream!Before(out, n + 1, type) \cup {n + 1}
        /\ e.type # type => Stream!Before(new, n + 2, type) = Stream!Before(out, n + 1, type)
        /\ Stream!Before(out, n + 1, type) \subseteq 1..n
    BY BeforeLast
  <1>2. (\A j \in 1..n : new[j] = out[j]) /\ new[n + 1] = e
    BY AddedIs
  <1>3. CASE e.type = type
    BY <1>1, <1>2, <1>3 DEF Numbers
  <1>4. CASE e.type # type
    BY <1>1, <1>2, <1>4 DEF Numbers
  <1> QED BY <1>3, <1>4


\* What is known of the blocks in a list of events: those below next are started,
\* and the last of them is the open one, if any.
Blocks(out, open, next) ==
    /\ Stream!Opened(out) /\ Stream!BlocksNest(out)
    /\ \A i \in DOMAIN out : out[i].type \notin {"message_delta", "message_stop"}
    /\ Numbers(out, Len(out) + 1, "content_block_start") = 0..(next - 1)
    /\ Numbers(out, Len(out) + 1, "content_block_stop") = IF open THEN 0..(next - 2) ELSE 0..(next - 1)
    /\ open => next > 0

\* The blocks that are open at an old position stay.
LEMMA OpenSame ==
    ASSUME NEW out, NEW e, NEW new, NEW n, Added(out, e, new, n), NEW i \in 1..(n + 1)
    PROVE  Stream!OpenAt(new, i) = Stream!OpenAt(out, i)
  <1>1. /\ Numbers(new, i, "content_block_start") = Numbers(out, i, "content_block_start")
        /\ Numbers(new, i, "content_block_stop") = Numbers(out, i, "content_block_stop")
    BY NumbersSame
  <1> QED BY <1>1 DEF Stream!OpenAt, Numbers

LEMMA OpenLast ==
    ASSUME NEW out, NEW e, NEW new, NEW n, Added(out, e, new, n)
    PROVE  Stream!OpenAt(new, Len(new)) = Stream!OpenAt(out, Len(new))
  <1>1. n \in Nat /\ Len(new) = n + 1
    BY AddedIs
  <1>2. Len(new) \in 1..(n + 1)
    BY <1>1
  <1> QED BY <1>2, OpenSame

\* Blocks still nest after an event that starts one where none is open, or that
\* names the open one, or that is not about a block.
LEMMA NestAppend ==
    ASSUME NEW out, NEW e, NEW new, NEW n, Added(out, e, new, n), Stream!BlocksNest(out),
           e.type = "content_block_start" =>
               /\ Stream!OpenAt(out, n + 1) = {}
               /\ Numbers(out, n + 1, "content_block_start") = 0..(e.index - 1),
           e.type \in {"content_block_delta", "content_block_stop"} => Stream!OpenAt(out, n + 1) = {e.index}
    PROVE  Stream!BlocksNest(new)
  <1> DEFINE Start == "content_block_start"
             Stop == "content_block_stop"
  <1>1. n \in Nat /\ (\A i \in 1..n : new[i] = out[i] /\ i \in 1..(n + 1)) /\ new[n + 1] = e /\ n + 1 \in 1..(n + 1)
    BY AddedIs
  <1>2. ASSUME NEW type, NEW i \in Stream!Indices(new, type)
        PROVE  \/ i \in Stream!Indices(out, type) /\ i \in 1..n
               \/ i = n + 1 /\ e.type = type
    BY IndicesAppend
  <1>3. ASSUME NEW i \in 1..(n + 1)
        PROVE  Stream!OpenAt(new, i) = Stream!OpenAt(out, i)
    BY OpenSame
  <1>4. \A i \in 1..(n + 1) : Numbers(new, i, Start) = Numbers(out, i, Start)
    BY NumbersSame
  <1>5. ASSUME NEW i \in Stream!Indices(new, Start)
        PROVE  Stream!OpenAt(new, i) = {} /\ Numbers(new, i, Start) = 0..(new[i].index - 1)
    <2>1. CASE i \in Stream!Indices(out, Start) /\ i \in 1..n
      <3>1. Stream!OpenAt(out, i) = {} /\ Numbers(out, i, Start) = 0..(out[i].index - 1)
        BY <2>1 DEF Stream!BlocksNest, Numbers
      <3> QED BY <1>1, <1>3, <1>4, <2>1, <3>1
    <2>2. CASE i = n + 1 /\ e.type = Start
      BY <1>1, <1>3, <1>4, <2>2
    <2> QED BY <1>2, <1>5, <2>1, <2>2
  <1>6. ASSUME NEW type \in {"content_block_delta", Stop}, NEW i \in Stream!Indices(new, type)
        PROVE  Stream!OpenAt(new, i) = {new[i].index}
    <2>1. CASE i \in Stream!Indices(out, type) /\ i \in 1..n
      <3>1. Stream!OpenAt(out, i) = {out[i].index}
        BY <2>1 DEF Stream!BlocksNest
      <3> QED BY <1>1, <1>3, <2>1, <3>1
    <2>2. CASE i = n + 1 /\ e.type = type
      BY <1>1, <1>3, <2>2
    <2> QED BY <1>2, <1>6, <2>1, <2>2
  <1> QED BY <1>5, <1>6 DEF Stream!BlocksNest, Numbers

\* Every kind of event but the last two, added where it may be.
LEMMA BlocksAppend ==
    ASSUME NEW out, NEW e, NEW new, NEW n, Added(out, e, new, n),
           NEW open \in BOOLEAN, NEW next \in Nat, Blocks(out, open, next),
           e.type \notin {"message_delta", "message_stop"},
           e.type = "message_start" => n = 0, n = 0 => e.type = "message_start"
    PROVE  /\ e.type = "content_block_start" /\ ~open /\ e.index = next => Blocks(new, TRUE, next + 1)
           /\ e.type = "content_block_delta" /\ open /\ e.index = next - 1 => Blocks(new, TRUE, next)
           /\ e.type = "content_block_stop" /\ open /\ e.index = next - 1 => Blocks(new, FALSE, next)
           /\ e.type = "error" => Blocks(new, open, next)
           /\ e.type = "message_start" => Blocks(new, open, next)
  <1> DEFINE Start == "content_block_start"
             Stop == "content_block_stop"
             Delta == "content_block_delta"
  <1>1. /\ Len(new) = n + 1 /\ n \in Nat
        /\ DOMAIN out = 1..n /\ DOMAIN new = 1..(n + 1)
        /\ \A i \in 1..n : new[i] = out[i]
        /\ new[n + 1] = e
        /\ \A i \in 1..(n + 1) : i \in 1..n \/ i = n + 1
    BY AddedIs
  <1>2. (n + 1) + 1 = n + 2 /\ Len(out) = n /\ Len(new) + 1 = n + 2
    BY <1>1 DEF Added
  <1>3. Stream!Opened(new)
    <2>1. \A i \in 1..n : (new[i].type = "message_start") <=> (i = 1)
      BY <1>1 DEF Blocks, Stream!Opened
    <2>2. (new[n + 1].type = "message_start") <=> (n + 1 = 1)
      BY <1>1
    <2> QED BY <1>1, <2>1, <2>2 DEF Stream!Opened
  <1>4. \A i \in DOMAIN new : new[i].type \notin {"message_delta", "message_stop"}
    BY <1>1 DEF Blocks
  <1>5. \A type : /\ e.type = type => Numbers(new, n + 2, type) = Numbers(out, n + 1, type) \cup {e.index}
                  /\ e.type # type => Numbers(new, n + 2, type) = Numbers(out, n + 1, type)
    BY NumbersLast
  <1>6. /\ Numbers(out, n + 1, Start) = 0..(next - 1)
        /\ Numbers(out, n + 1, Stop) = IF open THEN 0..(next - 2) ELSE 0..(next - 1)
        /\ open => next > 0
    BY <1>2 DEF Blocks
  <1>7. Stream!OpenAt(out, n + 1) = Numbers(out, n + 1, Start) \ Numbers(out, n + 1, Stop)
    BY DEF Stream!OpenAt, Numbers
  <1>8. Stream!OpenAt(out, n + 1) = IF open THEN {next - 1} ELSE {}
    <2>1. open => (0..(next - 1)) \ (0..(next - 2)) = {next - 1}
      BY <1>6
    <2> QED BY <1>6, <1>7, <2>1
  <1>9. Stream!BlocksNest(out)
    BY DEF Blocks
  <1>10. CASE e.type = Start /\ ~open /\ e.index = next
    <2>1. Stream!BlocksNest(new)
      BY <1>6, <1>8, <1>9, <1>10, NestAppend
    <2>2. (0..(next - 1)) \cup {next} = 0..((next + 1) - 1) /\ 0..(next - 1) = 0..((next + 1) - 2) /\ next + 1 > 0
      OBVIOUS
    <2>3. Numbers(new, n + 2, Start) = 0..((next + 1) - 1)
      BY <1>5, <1>6, <1>10, <2>2
    <2>4. Numbers(new, n + 2, Stop) = 0..((next + 1) - 2)
      BY <1>5, <1>6, <1>10, <2>2
    <2> QED BY <1>2, <1>3, <1>4, <1>10, <2>1, <2>2, <2>3, <2>4 DEF Blocks
  <1>11. CASE e.type = Delta /\ open /\ e.index = next - 1
    <2>1. Stream!BlocksNest(new)
      BY <1>8, <1>9, <1>11, NestAppend
    <2>2. Numbers(new, n + 2, Start) = 0..(next - 1) /\ Numbers(new, n + 2, Stop) = 0..(next - 2)
      BY <1>5, <1>6, <1>11
    <2> QED BY <1>2, <1>3, <1>4, <1>6, <1>11, <2>1, <2>2 DEF Blocks
  <1>12. CASE e.type = Stop /\ open /\ e.index = next - 1
    <2>1. Stream!BlocksNest(new)
      BY <1>8, <1>9, <1>12, NestAppend
    <2>2. (0..(next - 2)) \cup {next - 1} = 0..(next - 1)
      BY <1>6, <1>12
    <2>3. Numbers(new, n + 2, Start) = 0..(next - 1) /\ Numbers(new, n + 2, Stop) = 0..(next - 1)
      BY <1>5, <1>6, <1>12, <2>2
    <2> QED BY <1>2, <1>3, <1>4, <1>12, <2>1, <2>3 DEF Blocks
  <1>13. CASE e.type \in {"error", "message_start"}
    <2>1. Stream!BlocksNest(new)
      BY <1>9, <1>13, NestAppend
    <2>2. Numbers(new, n + 2, Start) = Numbers(out, n + 1, Start) /\ Numbers(new, n + 2, Stop) = Numbers(out, n + 1, Stop)
      BY <1>5, <1>13
    <2> QED BY <1>2, <1>3, <1>4, <1>6, <1>13, <2>1, <2>2 DEF Blocks
  <1> QED BY <1>10, <1>11, <1>12, <1>13

\* The same, event by event.
LEMMA AfterStart ==
    ASSUME NEW out, NEW e, NEW new, NEW n, Added(out, e, new, n), n # 0, NEW next \in Nat,
           Blocks(out, FALSE, next), e.type = "content_block_start", e.index = next
    PROVE  Blocks(new, TRUE, next + 1)
  BY BlocksAppend

LEMMA AfterDelta ==
    ASSUME NEW out, NEW e, NEW new, NEW n, Added(out, e, new, n), n # 0, NEW next \in Nat,
           Blocks(out, TRUE, next), e.type = "content_block_delta", e.index = next - 1
    PROVE  Blocks(new, TRUE, next)
  BY BlocksAppend

LEMMA AfterStop ==
    ASSUME NEW out, NEW e, NEW new, NEW n, Added(out, e, new, n), n # 0, NEW next \in Nat,
           Blocks(out, TRUE, next), e.type = "content_block_stop", e.index = next - 1
    PROVE  Blocks(new, FALSE, next)
  BY BlocksAppend

LEMMA AfterError ==
    ASSUME NEW out, NEW e, NEW new, NEW n, Added(out, e, new, n), n # 0, NEW next \in Nat,
           NEW open \in BOOLEAN, Blocks(out, open, next), e.type = "error"
    PROVE  Blocks(new, open, next)
  <1>1. Blocks(out, TRUE, next) => Blocks(new, TRUE, next)
    BY BlocksAppend
  <1>2. Blocks(out, FALSE, next) => Blocks(new, FALSE, next)
    BY BlocksAppend
  <1>3. CASE open = TRUE
    BY <1>1, <1>3
  <1>4. CASE open = FALSE
    BY <1>2, <1>4
  <1> QED BY <1>3, <1>4

LEMMA AfterFirst ==
    ASSUME NEW out, NEW e, NEW new, NEW n, Added(out, e, new, n), n = 0, NEW next \in Nat,
           NEW open \in BOOLEAN, Blocks(out, open, next), e.type = "message_start"
    PROVE  Blocks(new, open, next)
  <1>1. /\ e.type \notin {"message_delta", "message_stop"}
        /\ e.type = "message_start" => n = 0
        /\ n = 0 => e.type = "message_start"
    OBVIOUS
  <1>2. e.type = "message_start" => Blocks(new, open, next)
    BY ZenonT(60), <1>1, BlocksAppend
  <1> QED BY <1>2

-----------------------------------------------------------------------------
(* The operators of the encoders.                                          *)

\* What an event shows.
Shown(data) == IF data = Nothing THEN <<>> ELSE <<data>>

\* An encoder goes on: it sends something and shows these things more.
Adds(v, w, sent) ==
    /\ w.out # <<>> /\ Continues(v.out, w.out, sent)
    /\ w.delta = v.delta /\ w.seen = v.seen

\* The events so far are those of a message that has not ended.
Framed(v) == v \in Claude /\ Blocks(v.out, v.text, v.index)

\* Two steps of an encoder show what each of them shows.
LEMMA AddsTwice ==
    ASSUME NEW u \in Claude, NEW v \in Claude, NEW w \in Claude,
           NEW p \in Seq(Data), NEW q \in Seq(Data), Adds(u, v, p), Adds(v, w, q)
    PROVE  Adds(u, w, p \o q)
  <1>1. u.out \in Seq(Events) /\ v.out \in Seq(Events) /\ w.out \in Seq(Events)
    BY DEF Claude
  <1>2. Continues(u.out, w.out, p \o q)
    BY <1>1, ContinuesTwice DEF Adds
  <1> QED BY <1>2 DEF Adds

\* emit adds one event and leaves the rest of the encoder.
LEMMA EmitIs ==
    ASSUME NEW v \in Claude, NEW type, NEW index \in Nat, NEW data \in Data,
           type \in {"message_start", "content_block_start", "content_block_delta",
                     "content_block_stop", "error", "message_delta", "message_stop"}
    PROVE  LET w == Emit(v, type, index, data)
           IN  /\ w \in Claude /\ w.text = v.text /\ w.index = v.index
               /\ Added(v.out, Event(type, index, data), w.out, Len(v.out))
               /\ Adds(v, w, Shown(data))
  <1> DEFINE w == Emit(v, type, index, data)
  <1>1. PICK e : e = Event(type, index, data)
    OBVIOUS
  <1>2. e \in Events /\ e.data = data
    BY <1>1 DEF Event, Events
  <1>3. v.out \in Seq(Events) /\ Len(v.out) \in Nat
    BY DEF Claude
  <1>4. PICK new : new = Append(v.out, e)
    OBVIOUS
  <1>5. new \in Seq(Events) /\ new # <<>>
    BY <1>2, <1>3, <1>4
  <1>6. w = [v EXCEPT !.out = new]
    BY <1>1, <1>4 DEF Emit
  <1>7. w \in Claude /\ w.text = v.text /\ w.index = v.index /\ w.out = new /\ w.delta = v.delta /\ w.seen = v.seen
    BY <1>5, <1>6 DEF Claude
  <1>8. Added(v.out, e, new, Len(v.out))
    BY <1>2, <1>3, <1>4 DEF Added
  <1>9. Continues(v.out, new, Shown(data))
    BY <1>2, <1>3, <1>4, ContinuesEvent DEF Shown
  <1> QED BY <1>1, <1>5, <1>7, <1>8, <1>9 DEF Adds

\* message_start is sent before anything else, once.
LEMMA EnsureStartedIs ==
    ASSUME NEW v, Framed(v), NEW w, w = EnsureStarted(v)
    PROVE  /\ Framed(w) /\ w.out # <<>> /\ Continues(v.out, w.out, <<>>)
           /\ w.text = v.text /\ w.delta = v.delta /\ w.seen = v.seen
  <1>0. v \in Claude /\ v.text \in BOOLEAN /\ v.index \in Nat /\ v.out \in Seq(Events)
    BY DEF Framed, Claude
  <1>1. CASE v.out # <<>>
    <2>1. Continues(v.out, v.out, <<>>)
      BY <1>0, ContinuesSame
    <2> QED BY <1>1, <2>1 DEF EnsureStarted
  <1>2. CASE v.out = <<>>
    <2>1. w = Emit(v, "message_start", 0, Nothing)
      BY <1>2 DEF EnsureStarted
    <2>2. /\ w \in Claude /\ w.text = v.text /\ w.index = v.index
          /\ Added(v.out, Event("message_start", 0, Nothing), w.out, Len(v.out))
          /\ Adds(v, w, Shown(Nothing))
      BY <1>0, <2>1, EmitIs, DataIs
    <2>3. PICK e, n : e = Event("message_start", 0, Nothing) /\ n = Len(v.out)
      OBVIOUS
    <2>4. e.type = "message_start" /\ n = 0 /\ Added(v.out, e, w.out, n)
      BY <1>2, <2>2, <2>3 DEF Event
    <2>5. Blocks(w.out, v.text, v.index)
      BY <1>0, <2>4, AfterFirst DEF Framed
    <2> QED BY <2>2, <2>5 DEF Framed, Adds, Shown
  <1> QED BY <1>1, <1>2

\* A block opens where none is open.
LEMMA StartBlockIs ==
    ASSUME NEW v \in Claude, v.out # <<>>, Blocks(v.out, FALSE, v.index), NEW w, w = StartBlock(v)
    PROVE  w \in Claude /\ w.text = v.text /\ Adds(v, w, <<>>) /\ Blocks(w.out, TRUE, w.index)
  <1>1. v.index \in Nat /\ v.out \in Seq(Events) /\ Nothing \in Data /\ Shown(Nothing) = <<>>
    BY DataIs DEF Claude, Shown
  <1>2. PICK u : u = Emit(v, "content_block_start", v.index, Nothing)
    OBVIOUS
  <1>3. PICK n, e : n = Len(v.out) /\ e = Event("content_block_start", v.index, Nothing)
    OBVIOUS
  <1>4. u \in Claude /\ u.text = v.text /\ u.index = v.index /\ Added(v.out, e, u.out, n) /\ Adds(v, u, <<>>)
    BY <1>1, <1>2, <1>3, EmitIs
  <1>5. n # 0 /\ e.type = "content_block_start" /\ e.index = v.index
    BY <1>1, <1>3 DEF Event
  <1>6. Blocks(u.out, TRUE, v.index + 1)
    BY <1>1, <1>4, <1>5, AfterStart
  <1>7. /\ w \in Claude /\ w.out = u.out /\ w.text = v.text /\ w.index = v.index + 1
        /\ w.delta = u.delta /\ w.seen = u.seen
    <2>1. PICK next : next = v.index + 1 /\ next \in Nat
      BY <1>1
    <2>2. w = [u EXCEPT !.index = next]
      BY <1>2, <1>4, <2>1 DEF StartBlock
    <2>3. /\ w \in Claude /\ w.out = u.out /\ w.text = u.text /\ w.index = next
          /\ w.delta = u.delta /\ w.seen = u.seen
      BY <1>4, <2>1, <2>2 DEF Claude
    <2> QED BY <1>4, <2>1, <2>3
  <1>8. Adds(v, w, <<>>)
    BY <1>4, <1>7 DEF Adds
  <1> QED BY <1>6, <1>7, <1>8

\* An open block has the last number that was given.
LEMMA OpenIs ==
    ASSUME NEW v \in Claude, Blocks(v.out, TRUE, v.index)
    PROVE  v.index \in Nat /\ v.index - 1 \in Nat /\ v.out \in Seq(Events)
  BY DEF Blocks, Claude

\* A delta goes into the open block and is shown.
LEMMA FillIs ==
    ASSUME NEW v \in Claude, v.out # <<>>, Blocks(v.out, TRUE, v.index), NEW data \in Data,
           NEW w, w = Fill(v, data)
    PROVE  w \in Claude /\ w.text = v.text /\ Adds(v, w, Shown(data)) /\ Blocks(w.out, TRUE, w.index)
  <1>1. v.index \in Nat /\ v.index - 1 \in Nat /\ v.out \in Seq(Events)
    BY OpenIs
  <1>2. PICK n, e : n = Len(v.out) /\ e = Event("content_block_delta", v.index - 1, data)
    OBVIOUS
  <1>3. w \in Claude /\ w.text = v.text /\ w.index = v.index /\ Added(v.out, e, w.out, n) /\ Adds(v, w, Shown(data))
    BY <1>1, <1>2, EmitIs DEF Fill
  <1>4. n # 0 /\ e.type = "content_block_delta" /\ e.index = v.index - 1
    BY <1>1, <1>2 DEF Event
  <1>5. Blocks(w.out, TRUE, v.index)
    BY <1>1, <1>3, <1>4, AfterDelta
  <1> QED BY <1>3, <1>5

LEMMA StopBlockIs ==
    ASSUME NEW v \in Claude, v.out # <<>>, Blocks(v.out, TRUE, v.index), NEW w, w = StopBlock(v)
    PROVE  w \in Claude /\ w.text = v.text /\ Adds(v, w, <<>>) /\ Blocks(w.out, FALSE, w.index)
  <1>1. v.index \in Nat /\ v.index - 1 \in Nat /\ v.out \in Seq(Events)
    BY OpenIs
  <1>2. PICK n, e : n = Len(v.out) /\ e = Event("content_block_stop", v.index - 1, Nothing)
    OBVIOUS
  <1>3. Nothing \in Data /\ Shown(Nothing) = <<>>
    BY DataIs DEF Shown
  <1>4. w \in Claude /\ w.text = v.text /\ w.index = v.index /\ Added(v.out, e, w.out, n) /\ Adds(v, w, <<>>)
    BY <1>1, <1>2, <1>3, EmitIs DEF StopBlock
  <1>5. n # 0 /\ e.type = "content_block_stop" /\ e.index = v.index - 1
    BY <1>1, <1>2 DEF Event
  <1>6. Blocks(w.out, FALSE, v.index)
    BY <1>1, <1>4, <1>5, AfterStop
  <1> QED BY <1>4, <1>6

\* An error event keeps the framing and shows nothing.
LEMMA ErrorIs ==
    ASSUME NEW v, Framed(v), v.out # <<>>, NEW w, w = Emit(v, "error", 0, Nothing)
    PROVE  Framed(w) /\ Adds(v, w, <<>>)
  <1>1. v \in Claude /\ v.text \in BOOLEAN /\ v.index \in Nat /\ v.out \in Seq(Events)
    BY DEF Framed, Claude
  <1>2. PICK n, e : n = Len(v.out) /\ e = Event("error", 0, Nothing)
    OBVIOUS
  <1>3. Nothing \in Data /\ Shown(Nothing) = <<>>
    BY DataIs DEF Shown
  <1>4. w \in Claude /\ w.text = v.text /\ w.index = v.index /\ Added(v.out, e, w.out, n) /\ Adds(v, w, <<>>)
    BY <1>1, <1>2, <1>3, EmitIs
  <1>5. n # 0 /\ e.type = "error"
    BY <1>1, <1>2 DEF Event
  <1>6. Blocks(w.out, v.text, v.index)
    BY <1>1, <1>4, <1>5, AfterError DEF Framed
  <1> QED BY <1>4, <1>6 DEF Framed

\* An encoder that has sent something goes on as it is.
LEMMA AddsSame ==
    ASSUME NEW v \in Claude, v.out # <<>>
    PROVE  Adds(v, v, <<>>)
  <1>1. v.out \in Seq(Events)
    BY DEF Claude
  <1> QED BY <1>1, ContinuesSame DEF Adds

\* A step that shows nothing and one that shows p show p.
LEMMA AddsOnce ==
    ASSUME NEW u \in Claude, NEW v \in Claude, NEW w \in Claude, NEW p \in Seq(Data),
           Adds(u, v, <<>>), Adds(v, w, p)
    PROVE  Adds(u, w, p)
  <1>1. <<>> \in Seq(Data) /\ <<>> \o p = p
    BY ConcatEmptySeq
  <1>2. Adds(u, w, <<>> \o p)
    BY <1>1, AddsTwice
  <1> QED BY <1>1, <1>2

\* After it a text block is open, whether or not it was.
LEMMA StartTextBlockIs ==
    ASSUME NEW v, Framed(v), v.out # <<>>, NEW w, w = StartTextBlock(v)
    PROVE  Framed(w) /\ w.text = TRUE /\ Adds(v, w, <<>>)
  <1>1. v \in Claude /\ v.text \in BOOLEAN
    BY DEF Framed, Claude
  <1>2. CASE v.text = TRUE
    BY <1>1, <1>2, AddsSame DEF StartTextBlock
  <1>3. CASE v.text = FALSE
    <2>1. PICK u : u = StartBlock(v)
      OBVIOUS
    <2>2. u \in Claude /\ Adds(v, u, <<>>) /\ Blocks(u.out, TRUE, u.index)
      BY <1>1, <1>3, <2>1, StartBlockIs DEF Framed
    <2>3. w = [u EXCEPT !.text = TRUE]
      BY <1>3, <2>1 DEF StartTextBlock
    <2>4. w \in Claude /\ w.text = TRUE /\ w.out = u.out /\ w.index = u.index /\ w.delta = u.delta /\ w.seen = u.seen
      BY <2>2, <2>3 DEF Claude
    <2> QED BY <2>2, <2>4 DEF Framed, Adds
  <1> QED BY <1>1, <1>2, <1>3

LEMMA CloseTextBlockIs ==
    ASSUME NEW v, Framed(v), v.out # <<>>, NEW w, w = CloseTextBlock(v)
    PROVE  Framed(w) /\ w.text = FALSE /\ Adds(v, w, <<>>)
  <1>1. v \in Claude /\ v.text \in BOOLEAN
    BY DEF Framed, Claude
  <1>2. CASE v.text = FALSE
    BY <1>1, <1>2, AddsSame DEF CloseTextBlock
  <1>3. CASE v.text = TRUE
    <2>1. PICK u : u = StopBlock(v)
      OBVIOUS
    <2>2. u \in Claude /\ Adds(v, u, <<>>) /\ Blocks(u.out, FALSE, u.index)
      BY <1>1, <1>3, <2>1, StopBlockIs DEF Framed
    <2>3. w = [u EXCEPT !.text = FALSE]
      BY <1>3, <2>1 DEF CloseTextBlock
    <2>4. w \in Claude /\ w.text = FALSE /\ w.out = u.out /\ w.index = u.index /\ w.delta = u.delta /\ w.seen = u.seen
      BY <2>2, <2>3 DEF Claude
    <2> QED BY <2>2, <2>4 DEF Framed, Adds
  <1> QED BY <1>1, <1>2, <1>3

LEMMA TextIs ==
    ASSUME NEW v, Framed(v), v.out # <<>>, NEW data \in Data, NEW w, w = Fill(StartTextBlock(v), data)
    PROVE  Framed(w) /\ w.out # <<>> /\ Adds(v, w, Shown(data))
  <1>1. PICK u : u = StartTextBlock(v)
    OBVIOUS
  <1>2. Framed(u) /\ u.text = TRUE /\ Adds(v, u, <<>>)
    BY <1>1, StartTextBlockIs
  <1>3. u \in Claude /\ v \in Claude /\ u.out # <<>> /\ Blocks(u.out, TRUE, u.index)
    BY <1>2 DEF Framed, Adds
  <1>4. w \in Claude /\ w.text = TRUE /\ Adds(u, w, Shown(data)) /\ Blocks(w.out, TRUE, w.index)
    BY <1>1, <1>2, <1>3, FillIs
  <1>5. Shown(data) \in Seq(Data)
    BY DEF Shown
  <1>6. Adds(v, w, Shown(data))
    BY <1>2, <1>3, <1>4, <1>5, AddsOnce
  <1> QED BY <1>4, <1>6 DEF Framed, Adds

\* A block that is opened, filled and closed at once shows its data.
LEMMA WholeBlockIs ==
    ASSUME NEW v, Framed(v), v.out # <<>>, NEW data \in Data, NEW w, w = WholeBlock(v, data)
    PROVE  Framed(w) /\ w.out # <<>> /\ Adds(v, w, Shown(data))
  <1>1. PICK a, b, c : a = CloseTextBlock(v) /\ b = StartBlock(a) /\ c = Fill(b, data)
    OBVIOUS
  <1>2. Framed(a) /\ a.text = FALSE /\ Adds(v, a, <<>>)
    BY <1>1, CloseTextBlockIs
  <1>3. v \in Claude /\ a \in Claude /\ a.out # <<>> /\ Blocks(a.out, FALSE, a.index)
    BY <1>2 DEF Framed, Adds
  <1>4. b \in Claude /\ b.text = FALSE /\ Adds(a, b, <<>>) /\ Blocks(b.out, TRUE, b.index)
    BY <1>1, <1>2, <1>3, StartBlockIs
  <1>5. b.out # <<>>
    BY <1>4 DEF Adds
  <1>6. c \in Claude /\ c.text = FALSE /\ Adds(b, c, Shown(data)) /\ Blocks(c.out, TRUE, c.index)
    BY <1>1, <1>4, <1>5, FillIs
  <1>7. c.out # <<>>
    BY <1>6 DEF Adds
  <1>8. w \in Claude /\ w.text = FALSE /\ Adds(c, w, <<>>) /\ Blocks(w.out, FALSE, w.index)
    BY <1>1, <1>6, <1>7, StopBlockIs DEF WholeBlock
  <1>9. Shown(data) \in Seq(Data) /\ <<>> \in Seq(Data) /\ Shown(data) \o <<>> = Shown(data)
    <2>1. Shown(data) \in Seq(Data)
      BY DEF Shown
    <2> QED BY <2>1, ConcatEmptySeq
  <1>10. Adds(v, b, <<>>)
    BY <1>2, <1>3, <1>4, <1>9, AddsOnce
  <1>11. Adds(v, c, Shown(data))
    BY <1>3, <1>4, <1>6, <1>9, <1>10, AddsOnce
  <1>12. Adds(v, w, Shown(data) \o <<>>)
    BY <1>3, <1>6, <1>8, <1>9, <1>11, AddsTwice
  <1> QED BY <1>8, <1>9, <1>12 DEF Framed, Adds

\* A call that has been shown in this turn is not shown again.
LEMMA ToolUseIs ==
    ASSUME NEW v, Framed(v), v.out # <<>>, NEW c \in Calls, NEW w, w = ToolUse(v, c)
    PROVE  /\ Framed(w) /\ w.out # <<>> /\ w.delta = v.delta /\ w.seen = v.seen \cup {c.id}
           /\ c.id \in v.seen => w = v
           /\ c.id \notin v.seen => Continues(v.out, w.out, <<c>>)
  <1>1. v \in Claude /\ v.seen \in SUBSET Ids /\ c \in Data /\ c # Nothing /\ c.id \in Ids
    BY DataIs DEF Framed, Claude, Ids
  <1>2. CASE c.id \in v.seen
    BY <1>1, <1>2 DEF ToolUse
  <1>3. CASE c.id \notin v.seen
    <2>1. PICK u : u = WholeBlock(v, c)
      OBVIOUS
    <2>2. Framed(u) /\ u.out # <<>> /\ Adds(v, u, <<c>>)
      BY <1>1, <2>1, WholeBlockIs DEF Shown
    <2>3. w = [u EXCEPT !.seen = u.seen \cup {c.id}]
      BY <1>3, <2>1 DEF ToolUse
    <2>4. u \in Claude /\ u.seen = v.seen
      BY <2>2 DEF Framed, Adds
    <2>5. w \in Claude /\ w.out = u.out /\ w.text = u.text /\ w.index = u.index /\ w.delta = u.delta
          /\ w.seen = v.seen \cup {c.id}
      BY <1>1, <2>3, <2>4 DEF Claude
    <2> QED BY <1>3, <2>2, <2>5 DEF Framed, Adds
  <1> QED BY <1>2, <1>3

\* A message whose end is not sent is well formed so far; its end closes it.
LEMMA FramedIs ==
    ASSUME NEW v, Framed(v)
    PROVE  Stream!WellFormed(v.out) /\ v.out \in Seq(Events)
  <1>1. v.out \in Seq(Events) /\ Stream!Opened(v.out) /\ Stream!BlocksNest(v.out)
    BY DEF Framed, Blocks, Claude
  <1>2. \A i \in DOMAIN v.out : v.out[i].type \notin {"message_delta", "message_stop"}
    BY DEF Framed, Blocks
  <1>3. Stream!Indices(v.out, "message_delta") = {} /\ Stream!Indices(v.out, "message_stop") = {}
    BY <1>2 DEF Stream!Indices
  <1> QED BY <1>1, <1>3 DEF Stream!WellFormed, Stream!Closed

\* The end of a framed message is well formed and shows nothing.
LEMMA FinishStreamIs ==
    ASSUME NEW v, Framed(v), v.out # <<>>, NEW w, w = GuardStream(FinishStream(v))
    PROVE  w \in Claude /\ Stream!WellFormed(w.out) /\ Adds(v, w, <<>>)
  <1>1. PICK a, b, c : /\ a = CloseTextBlock(v)
                       /\ b = Emit(a, "message_delta", 0, Nothing)
                       /\ c = Emit(b, "message_stop", 0, Nothing)
    OBVIOUS
  <1>2. Framed(a) /\ a.text = FALSE /\ Adds(v, a, <<>>)
    BY <1>1, CloseTextBlockIs
  <1>3. v \in Claude /\ a \in Claude /\ a.out # <<>> /\ Blocks(a.out, FALSE, a.index)
        /\ a.index \in Nat
    BY <1>2 DEF Framed, Adds, Claude
  <1>4. Nothing \in Data /\ Shown(Nothing) = <<>> /\ 0 \in Nat
    BY DataIs DEF Shown
  <1>5. PICK n, d, e : n = Len(a.out) /\ d = Event("message_delta", 0, Nothing) /\ e = Event("message_stop", 0, Nothing)
    OBVIOUS
  <1>6. b \in Claude /\ Added(a.out, d, b.out, n) /\ Adds(a, b, <<>>)
    BY <1>1, <1>3, <1>4, <1>5, EmitIs
  <1>7. c \in Claude /\ Added(b.out, e, c.out, Len(b.out)) /\ Adds(b, c, <<>>)
    BY <1>1, <1>4, <1>5, <1>6, EmitIs
  <1>8. /\ Len(b.out) = n + 1 /\ n \in Nat
        /\ DOMAIN a.out = 1..n /\ DOMAIN b.out = 1..(n + 1)
        /\ \A i \in 1..n : b.out[i] = a.out[i]
        /\ b.out[n + 1] = d
        /\ \A i \in 1..(n + 1) : i \in 1..n \/ i = n + 1
    BY <1>6, AddedIs
  <1>9. PICK m : m = n + 1
    OBVIOUS
  <1>10. Added(b.out, e, c.out, m) /\ m \in Nat
    BY <1>7, <1>8, <1>9
  <1>11. /\ Len(c.out) = m + 1 /\ DOMAIN c.out = 1..(m + 1)
         /\ \A i \in 1..m : c.out[i] = b.out[i]
         /\ c.out[m + 1] = e
         /\ \A i \in 1..(m + 1) : i \in 1..m \/ i = m + 1
    BY <1>10, AddedIs
  <1>12. d.type = "message_delta" /\ e.type = "message_stop" /\ n # 0
    BY <1>3, <1>5, <1>8 DEF Event
  <1>13. PICK as, bs, cs : as = a.out /\ bs = b.out /\ cs = c.out
    OBVIOUS
  <1>14. Stream!Opened(as) /\ Stream!BlocksNest(as) /\ \A i \in 1..n : as[i].type \notin {"message_delta", "message_stop"}
    BY <1>3, <1>8, <1>13 DEF Blocks
  <1>15. /\ \A i \in 1..n : i \in 1..(m + 1) /\ i # m /\ i # m + 1 /\ cs[i] = as[i] /\ bs[i] = as[i]
         /\ cs[m] = d /\ cs[m + 1] = e /\ DOMAIN cs = 1..(m + 1)
         /\ m \in 1..(m + 1) /\ m + 1 \in 1..(m + 1) /\ m - 1 = n
         /\ \A i \in 1..(m + 1) : i \in 1..n \/ i = m \/ i = m + 1
    BY <1>8, <1>9, <1>11, <1>13
  <1>16. Stream!Opened(cs)
    <2>1. \A i \in 1..n : (cs[i].type = "message_start") <=> (i = 1)
      <3>1. \A i \in 1..n : (as[i].type = "message_start") <=> (i = 1)
        BY <1>8, <1>13, <1>14 DEF Stream!Opened
      <3> QED BY <1>15, <3>1
    <2>2. cs[m].type # "message_start" /\ cs[m + 1].type # "message_start" /\ m # 1 /\ m + 1 # 1
      BY <1>8, <1>9, <1>12, <1>15
    <2> QED BY <1>15, <2>1, <2>2 DEF Stream!Opened
  <1>17. Stream!BlocksNest(bs)
    <2>1. Added(as, d, bs, n)
      BY <1>6, <1>13
    <2> QED BY <1>12, <1>14, <2>1, NestAppend
  <1>18. Added(bs, e, cs, m)
    BY <1>10, <1>13
  <1>19. Stream!BlocksNest(cs)
    BY <1>12, <1>17, <1>18, NestAppend
  <1>20. Stream!OpenAt(cs, m) = {}
    <2>1. Stream!OpenAt(cs, m) = Stream!OpenAt(bs, m)
      BY <1>15, <1>18, OpenSame
    <2>2. Stream!OpenAt(bs, m) = Stream!OpenAt(as, m)
      <3>1. Added(as, d, bs, n)
        BY <1>6, <1>13
      <3>2. Stream!OpenAt(bs, Len(bs)) = Stream!OpenAt(as, Len(bs))
        BY <3>1, OpenLast
      <3>3. Len(bs) = m
        BY <1>8, <1>9, <1>13
      <3> QED BY <3>2, <3>3
    <2>3. Stream!OpenAt(as, m) = Numbers(as, m, "content_block_start") \ Numbers(as, m, "content_block_stop")
      BY DEF Stream!OpenAt, Numbers
    <2>4. Numbers(as, m, "content_block_start") = Numbers(as, m, "content_block_stop")
      BY <1>3, <1>5, <1>9, <1>13 DEF Blocks
    <2> QED BY <2>1, <2>2, <2>3, <2>4
  <1>21. Stream!Closed(cs)
    <2>1. Stream!Indices(cs, "message_delta") = {m} /\ Stream!Indices(cs, "message_stop") = {m + 1}
      BY <1>12, <1>14, <1>15 DEF Stream!Indices
    <2>2. Len(cs) = m + 1 /\ m + 1 >= m + 1 /\ (m + 1) - 1 = m
      BY <1>10, <1>11, <1>13
    <2> QED BY <1>12, <1>15, <1>20, <2>1, <2>2 DEF Stream!Closed
  <1>22. w = c
    <2>1. \E i \in DOMAIN c.out : c.out[i].type \in {"content_block_start", "message_delta"}
      BY <1>12, <1>13, <1>15
    <2> QED BY <1>1, <2>1 DEF GuardStream, FinishStream
  <1>23. <<>> \in Seq(Data)
    OBVIOUS
  <1>24. Adds(v, b, <<>>)
    BY <1>2, <1>3, <1>6, <1>23, AddsOnce
  <1>25. Adds(v, c, <<>>)
    BY <1>3, <1>6, <1>7, <1>23, <1>24, AddsOnce
  <1> QED BY <1>7, <1>13, <1>16, <1>19, <1>21, <1>22, <1>25 DEF Stream!WellFormed

\* A chunk is added and shows its data.
LEMMA ChunkIs ==
    ASSUME NEW o \in OpenAI, NEW type, NEW data \in Data,
           type \in {"role", "content", "tool_calls", "note", "finish", "done"},
           NEW w, w = Chunk(o, type, data)
    PROVE  w \in OpenAI /\ w.role = o.role /\ Adds(o, w, Shown(data))
  <1>1. PICK e : e = [type |-> type, data |-> data]
    OBVIOUS
  <1>2. e \in Chunks /\ e.data = data
    BY <1>1 DEF Chunks
  <1>3. o.out \in Seq(Chunks)
    BY DEF OpenAI
  <1>4. PICK new : new = Append(o.out, e)
    OBVIOUS
  <1>5. new \in Seq(Chunks) /\ new # <<>>
    BY <1>2, <1>3, <1>4
  <1>6. w = [o EXCEPT !.out = new]
    BY <1>1, <1>4 DEF Chunk
  <1>7. w \in OpenAI /\ w.role = o.role /\ w.out = new /\ w.delta = o.delta /\ w.seen = o.seen
    BY <1>5, <1>6 DEF OpenAI
  <1>8. Continues(o.out, new, Shown(data))
    BY <1>2, <1>3, <1>4, ContinuesEvent DEF Shown
  <1> QED BY <1>5, <1>7, <1>8 DEF Adds

\* A chunk without data shows nothing.
LEMMA SilentChunk ==
    ASSUME NEW o \in OpenAI, NEW type \in {"role", "note", "finish", "done"}, NEW w, w = Chunk(o, type, Nothing)
    PROVE  w \in OpenAI /\ Adds(o, w, <<>>)
  BY ChunkIs, DataIs DEF Shown

LEMMA ChunksTwice ==
    ASSUME NEW u \in OpenAI, NEW v \in OpenAI, NEW w \in OpenAI, NEW p \in Seq(Data),
           Continues(u.out, v.out, <<>>), Continues(v.out, w.out, p)
    PROVE  Continues(u.out, w.out, p)
  <1>1. u.out \in Seq(Chunks) /\ v.out \in Seq(Chunks) /\ w.out \in Seq(Chunks)
    BY DEF OpenAI
  <1>2. <<>> \in Seq(Data) /\ <<>> \o p = p
    BY ConcatEmptySeq
  <1>3. Continues(u.out, w.out, <<>> \o p)
    BY <1>1, <1>2, ContinuesTwice
  <1> QED BY <1>2, <1>3

\* The role is sent at most once and shows nothing.
LEMMA RoleIs ==
    ASSUME NEW o \in OpenAI, NEW w, w = Role(o)
    PROVE  w \in OpenAI /\ Continues(o.out, w.out, <<>>) /\ w.delta = o.delta /\ w.seen = o.seen
  <1>1. CASE o.role
    <2>1. o.out \in Seq(Chunks)
      BY DEF OpenAI
    <2> QED BY <1>1, <2>1, ContinuesSame DEF Role
  <1>2. CASE ~o.role
    <2>1. PICK u : u = Chunk(o, "role", Nothing)
      OBVIOUS
    <2>2. u \in OpenAI /\ Adds(o, u, <<>>)
      BY <2>1, SilentChunk
    <2>3. w = [u EXCEPT !.role = TRUE]
      BY <1>2, <2>1 DEF Role
    <2>4. w \in OpenAI /\ w.out = u.out /\ w.delta = u.delta /\ w.seen = u.seen
      BY <2>2, <2>3 DEF OpenAI
    <2> QED BY <2>2, <2>4 DEF Adds
  <1> QED BY <1>1, <1>2

\* A call that has been shown in this turn is not shown again.
LEMMA ToolCallChunkIs ==
    ASSUME NEW o \in OpenAI, NEW c \in Calls, NEW w, w = ToolCallChunk(o, c)
    PROVE  /\ w \in OpenAI /\ w.delta = o.delta /\ w.seen = o.seen \cup {c.id}
           /\ c.id \in o.seen => w = o
           /\ c.id \notin o.seen => Continues(o.out, w.out, <<c>>)
  <1>1. o.seen \in SUBSET Ids /\ c \in Data /\ c # Nothing /\ c.id \in Ids
    BY DataIs DEF OpenAI, Ids
  <1>2. CASE c.id \in o.seen
    BY <1>1, <1>2 DEF ToolCallChunk
  <1>3. CASE c.id \notin o.seen
    <2>1. PICK u : u = Chunk(o, "tool_calls", c)
      OBVIOUS
    <2>2. u \in OpenAI /\ Adds(o, u, <<c>>)
      BY <1>1, <2>1, ChunkIs DEF Shown
    <2>3. w = [u EXCEPT !.seen = u.seen \cup {c.id}]
      BY <1>3, <2>1 DEF ToolCallChunk
    <2>4. u.seen = o.seen /\ u.delta = o.delta
      BY <2>2 DEF Adds
    <2>5. w \in OpenAI /\ w.out = u.out /\ w.delta = u.delta /\ w.seen = o.seen \cup {c.id}
      BY <1>1, <2>2, <2>3, <2>4 DEF OpenAI
    <2> QED BY <1>3, <2>2, <2>4, <2>5 DEF Adds
  <1> QED BY <1>2, <1>3

\* The last chunks of a response show nothing.
LEMMA FinishChunksIs ==
    ASSUME NEW o \in OpenAI, NEW w, w = FinishChunks(o)
    PROVE  w \in OpenAI /\ Continues(o.out, w.out, <<>>)
  <1>1. PICK u : u = Chunk(o, "finish", Nothing)
    OBVIOUS
  <1>2. u \in OpenAI /\ Adds(o, u, <<>>)
    BY <1>1, SilentChunk
  <1>3. w \in OpenAI /\ Adds(u, w, <<>>)
    BY <1>1, <1>2, SilentChunk DEF FinishChunks
  <1>4. <<>> \in Seq(Data)
    OBVIOUS
  <1> QED BY <1>2, <1>3, <1>4, ChunksTwice DEF Adds

LEMMA ErrorChunksIs ==
    ASSUME NEW o \in OpenAI, NEW w, w = ErrorChunks(o)
    PROVE  w \in OpenAI /\ Continues(o.out, w.out, <<>>)
  <1>1. PICK u : u = Chunk(o, "note", Nothing)
    OBVIOUS
  <1>2. u \in OpenAI /\ Adds(o, u, <<>>)
    BY <1>1, SilentChunk
  <1>3. w \in OpenAI /\ Continues(u.out, w.out, <<>>)
    BY <1>1, <1>2, FinishChunksIs DEF ErrorChunks
  <1>4. <<>> \in Seq(Data)
    OBVIOUS
  <1> QED BY <1>2, <1>3, <1>4, ChunksTwice DEF Adds

\* A message that ends in an error is well formed, begun or not.
LEMMA ErrorStreamIs ==
    ASSUME NEW v, Framed(v), NEW w, w = GuardStream(ErrorStream(v))
    PROVE  w \in Claude /\ Stream!WellFormed(w.out) /\ Continues(v.out, w.out, <<>>)
  <1>1. PICK a, b : a = EnsureStarted(v) /\ b = Emit(a, "error", 0, Nothing)
    OBVIOUS
  <1>2. Framed(a) /\ a.out # <<>> /\ Continues(v.out, a.out, <<>>)
    BY <1>1, EnsureStartedIs
  <1>3. Framed(b) /\ Adds(a, b, <<>>)
    BY <1>1, <1>2, ErrorIs
  <1>4. b.out # <<>>
    BY <1>3 DEF Adds
  <1>5. w \in Claude /\ Stream!WellFormed(w.out) /\ Adds(b, w, <<>>)
    BY <1>1, <1>3, <1>4, FinishStreamIs DEF ErrorStream
  <1>6. v \in Claude /\ a \in Claude /\ b \in Claude
    BY <1>2, <1>3 DEF Framed
  <1>7. v.out \in Seq(Events) /\ a.out \in Seq(Events) /\ b.out \in Seq(Events) /\ w.out \in Seq(Events)
    BY <1>5, <1>6 DEF Claude
  <1>8. Continues(a.out, b.out, <<>>) /\ Continues(b.out, w.out, <<>>)
    BY <1>3, <1>5 DEF Adds
  <1>9. <<>> \in Seq(Data) /\ <<>> \o <<>> = <<>>
    OBVIOUS
  <1>10. Continues(v.out, b.out, <<>> \o <<>>)
    BY <1>2, <1>7, <1>8, <1>9, ContinuesTwice
  <1>11. Continues(v.out, b.out, <<>>)
    BY <1>9, <1>10
  <1>12. Continues(v.out, w.out, <<>> \o <<>>)
    BY <1>7, <1>8, <1>9, <1>11, ContinuesTwice
  <1> QED BY <1>5, <1>9, <1>12

\* And so is one that ends with the loop.
LEMMA LoopEndIs ==
    ASSUME NEW v, Framed(v), NEW w, w = GuardStream(FinishStream(EnsureStarted(v)))
    PROVE  w \in Claude /\ Stream!WellFormed(w.out) /\ Continues(v.out, w.out, <<>>)
  <1>1. PICK a : a = EnsureStarted(v)
    OBVIOUS
  <1>2. Framed(a) /\ a.out # <<>> /\ Continues(v.out, a.out, <<>>)
    BY <1>1, EnsureStartedIs
  <1>3. w \in Claude /\ Stream!WellFormed(w.out) /\ Adds(a, w, <<>>)
    BY <1>1, <1>2, FinishStreamIs
  <1>4. v.out \in Seq(Events) /\ a.out \in Seq(Events) /\ w.out \in Seq(Events) /\ Continues(a.out, w.out, <<>>)
    BY <1>2, <1>3 DEF Framed, Claude, Adds
  <1>5. <<>> \in Seq(Data) /\ <<>> \o <<>> = <<>>
    OBVIOUS
  <1>6. Continues(v.out, w.out, <<>> \o <<>>)
    BY <1>2, <1>4, <1>5, ContinuesTwice
  <1> QED BY <1>3, <1>5, <1>6

\* The calls of a turn, which is known by their ids.
Turn(asked) == asked \in Seq(Calls) /\ \A j \in DOMAIN asked : asked[j].id = j

\* The first calls of a turn are shown, in order.
LEMMA PartOfTurn ==
    ASSUME NEW asked, Turn(asked), NEW n, n = Len(asked)
    PROVE  /\ n \in Nat /\ DOMAIN asked = 1..n
           /\ SubSeq(asked, 1, 0) = <<>> /\ SubSeq(asked, 1, n) = asked
           /\ \A k \in 0..n : SubSeq(asked, 1, k) \in Seq(Data)
           /\ \A k \in 1..n : /\ asked[k] \in Calls /\ asked[k].id = k /\ <<asked[k]>> \in Seq(Data)
                              /\ SubSeq(asked, 1, k) = SubSeq(asked, 1, k - 1) \o <<asked[k]>>
  <1>1. asked \in Seq(Calls) /\ n \in Nat /\ DOMAIN asked = 1..n
    BY DEF Turn
  <1>2. \A k \in 1..n : asked[k] \in Calls /\ asked[k].id = k /\ asked[k] \in Data
    BY <1>1 DEF Turn, Data
  <1>3. SubSeq(asked, 1, 0) = <<>> /\ SubSeq(asked, 1, n) = asked
    BY <1>1, SubSeqEmpty, SubSeqFull
  <1>4. ASSUME NEW k \in 0..n PROVE SubSeq(asked, 1, k) \in Seq(Data)
    <2>1. \A i \in 1..k : asked[i] \in Data
      BY <1>1, <1>2
    <2>2. k \in Int /\ 1 \in Int
      OBVIOUS
    <2> QED BY <2>1, <2>2, SubSeqProperties
  <1>5. ASSUME NEW k \in 1..n PROVE SubSeq(asked, 1, k) = SubSeq(asked, 1, k - 1) \o <<asked[k]>>
    <2>1. 1 \in 1..Len(asked) /\ k \in 1..Len(asked)
      BY <1>1
    <2> QED BY <1>1, <2>1, SubSeqRecursiveSecond
  <1>6. \A k \in 1..n : <<asked[k]>> \in Seq(Data)
    BY <1>2
  <1> QED BY <1>1, <1>2, <1>3, <1>4, <1>5, <1>6

\* A message that has begun and not ended.
Open(v) == Framed(v) /\ v.out # <<>>

\* Showing a call keeps a begun message framed.
LEMMA ToolUseOpen ==
    ASSUME NEW v, Open(v), NEW c \in Calls
    PROVE  Open(ToolUse(v, c))
  <1>1. PICK w : w = ToolUse(v, c)
    OBVIOUS
  <1>2. Framed(v) /\ v.out # <<>>
    BY DEF Open
  <1>3. /\ Framed(w) /\ w.out # <<>> /\ w.delta = v.delta /\ w.seen = v.seen \cup {c.id}
        /\ c.id \in v.seen => w = v
        /\ c.id \notin v.seen => Continues(v.out, w.out, <<c>>)
    BY <1>1, <1>2, ToolUseIs
  <1> QED BY <1>1, <1>3 DEF Open

\* The fold over the calls of a turn shows each of them once, in order: by
\* induction on how many of them are shown.
LEMMA AnnounceCallsIs ==
    ASSUME NEW asked, Turn(asked), NEW s, Framed(s), s.out # <<>>, s.seen = {},
           NEW w, w = AnnounceCalls(s, asked)
    PROVE  /\ Framed(w) /\ w.out # <<>> /\ w.delta = s.delta
           /\ \A j \in DOMAIN asked : asked[j].id \in w.seen
           /\ Continues(s.out, w.out, asked)
  <1>0. PICK n : n = Len(asked)
    OBVIOUS
  <1>1. /\ n \in Nat /\ DOMAIN asked = 1..n
        /\ SubSeq(asked, 1, 0) = <<>> /\ SubSeq(asked, 1, n) = asked
        /\ \A k \in 0..n : SubSeq(asked, 1, k) \in Seq(Data)
        /\ \A k \in 1..n : /\ asked[k] \in Calls /\ asked[k].id = k /\ <<asked[k]>> \in Seq(Data)
                           /\ SubSeq(asked, 1, k) = SubSeq(asked, 1, k - 1) \o <<asked[k]>>
    BY <1>0, PartOfTurn
  <1>2. PICK V : V = {v \in Claude : Framed(v) /\ v.out # <<>>}
    OBVIOUS
  <1>3. \A v : v \in V <=> Framed(v) /\ v.out # <<>>
    BY <1>2 DEF Framed
  <1>4. ASSUME NEW v \in V, NEW j \in 1..n PROVE ToolUse(v, asked[j]) \in V
    <2>1. asked[j] \in Calls /\ Open(v)
      BY <1>1, <1>3 DEF Open
    <2>2. Open(ToolUse(v, asked[j]))
      BY <2>1, ToolUseOpen
    <2> QED BY <1>3, <2>2 DEF Open
  <1>5. s \in V
    BY <1>3
  <1>6. PICK a \in [0..n -> V] : /\ a[0] = s /\ a[n] = w
                                 /\ \A k \in 1..n : a[k] = ToolUse(a[k - 1], asked[k])
    <2>1. PICK a : UsesOf(a, V, s, asked, n) /\ a[n] = AnnounceCalls(s, asked)
      BY <1>1, <1>4, <1>5, AnnounceSteps
    <2> QED BY <2>1 DEF UsesOf
  <1> DEFINE So == {k \in 0..n : /\ a[k].seen = 1..k /\ a[k].delta = s.delta
                                 /\ Continues(s.out, a[k].out, SubSeq(asked, 1, k))}
  <1>7. 0 \in So
    <2>1. s.out \in Seq(Events)
      BY DEF Framed, Claude
    <2>2. Continues(s.out, s.out, <<>>)
      BY <2>1, ContinuesSame
    <2>3. 1..0 = {} /\ 0 \in 0..n
      BY <1>1
    <2> QED BY <1>1, <1>6, <2>2, <2>3
  <1>8. ASSUME NEW k \in 0..n, k \in So, k < n
        PROVE  k + 1 \in So
    <2>1. k + 1 \in 1..n /\ k + 1 \in 0..n /\ (k + 1) - 1 = k
      BY <1>1, <1>8
    <2>2. PICK v, x, c : v = a[k] /\ x = a[k + 1] /\ c = asked[k + 1]
      OBVIOUS
    <2>3. v \in V /\ x \in V /\ x = ToolUse(v, c)
      BY <1>6, <2>1, <2>2
    <2>4. c \in Calls /\ c.id = k + 1 /\ <<c>> \in Seq(Data)
      BY <1>1, <2>1, <2>2
    <2>5. v.seen = 1..k /\ v.delta = s.delta /\ Continues(s.out, v.out, SubSeq(asked, 1, k))
      BY <1>8, <2>2
    <2>6. c.id \notin v.seen
      BY <1>1, <2>4, <2>5
    <2>7. x.delta = v.delta /\ x.seen = v.seen \cup {c.id} /\ Continues(v.out, x.out, <<c>>)
      BY <1>3, <2>3, <2>4, <2>6, ToolUseIs
    <2>8. s.out \in Seq(Events) /\ v.out \in Seq(Events) /\ x.out \in Seq(Events)
      BY <1>3, <2>3 DEF Framed, Claude
    <2>9. SubSeq(asked, 1, k) \in Seq(Data) /\ SubSeq(asked, 1, k + 1) = SubSeq(asked, 1, k) \o <<c>>
      BY <1>1, <2>1, <2>2
    <2>10. Continues(s.out, x.out, SubSeq(asked, 1, k + 1))
      <3>1. Continues(s.out, x.out, SubSeq(asked, 1, k) \o <<c>>)
        BY <2>4, <2>5, <2>7, <2>8, <2>9, ContinuesTwice
      <3> QED BY <2>9, <3>1
    <2>11. x.seen = 1..(k + 1)
      BY <1>1, <2>4, <2>5, <2>7
    <2> QED BY <2>1, <2>2, <2>5, <2>7, <2>10, <2>11
  <1>9. a[n].seen = 1..n /\ a[n].delta = s.delta /\ Continues(s.out, a[n].out, SubSeq(asked, 1, n))
    <2> HIDE DEF So
    <2>1. \A k \in 0..n : k \in So
      BY <1>1, <1>7, <1>8, AllNaturals
    <2>2. n \in So
      BY <1>1, <2>1
    <2> QED BY <2>2 DEF So
  <1>10. w \in V
    BY <1>1, <1>6
  <1> QED BY <1>1, <1>3, <1>6, <1>9, <1>10

\* The same of the openai encoder.
LEMMA AnnounceChunksIs ==
    ASSUME NEW asked, Turn(asked), NEW s \in OpenAI, s.seen = {},
           NEW w, w = AnnounceChunks(s, asked)
    PROVE  /\ w \in OpenAI /\ w.delta = s.delta
           /\ \A j \in DOMAIN asked : asked[j].id \in w.seen
           /\ Continues(s.out, w.out, asked)
  <1>0. PICK n : n = Len(asked)
    OBVIOUS
  <1>1. /\ n \in Nat /\ DOMAIN asked = 1..n
        /\ SubSeq(asked, 1, 0) = <<>> /\ SubSeq(asked, 1, n) = asked
        /\ \A k \in 0..n : SubSeq(asked, 1, k) \in Seq(Data)
        /\ \A k \in 1..n : /\ asked[k] \in Calls /\ asked[k].id = k /\ <<asked[k]>> \in Seq(Data)
                           /\ SubSeq(asked, 1, k) = SubSeq(asked, 1, k - 1) \o <<asked[k]>>
    BY <1>0, PartOfTurn
  <1>2. \A v \in OpenAI, j \in 1..n : ToolCallChunk(v, asked[j]) \in OpenAI
    BY <1>1, ToolCallChunkIs
  <1>3. PICK a \in [0..n -> OpenAI] : /\ a[0] = s /\ a[n] = w
                                      /\ \A k \in 1..n : a[k] = ToolCallChunk(a[k - 1], asked[k])
    <2>1. PICK V : V = OpenAI
      OBVIOUS
    <2>2. s \in V /\ \A v \in V, j \in 1..n : ToolCallChunk(v, asked[j]) \in V
      BY <1>2, <2>1
    <2>3. PICK a : ChunksOf(a, V, s, asked, n) /\ a[n] = AnnounceChunks(s, asked)
      BY <1>1, <2>2, ChunkSteps
    <2> QED BY <2>1, <2>3 DEF ChunksOf
  <1> DEFINE So == {k \in 0..n : /\ a[k].seen = 1..k /\ a[k].delta = s.delta
                                 /\ Continues(s.out, a[k].out, SubSeq(asked, 1, k))}
  <1>4. 0 \in So
    <2>1. s.out \in Seq(Chunks)
      BY DEF OpenAI
    <2>2. Continues(s.out, s.out, <<>>)
      BY <2>1, ContinuesSame
    <2>3. 1..0 = {} /\ 0 \in 0..n
      BY <1>1
    <2> QED BY <1>1, <1>3, <2>2, <2>3
  <1>5. ASSUME NEW k \in 0..n, k \in So, k < n
        PROVE  k + 1 \in So
    <2>1. k + 1 \in 1..n /\ k + 1 \in 0..n /\ (k + 1) - 1 = k
      BY <1>1, <1>5
    <2>2. PICK v, x, c : v = a[k] /\ x = a[k + 1] /\ c = asked[k + 1]
      OBVIOUS
    <2>3. v \in OpenAI /\ x \in OpenAI /\ x = ToolCallChunk(v, c)
      BY <1>3, <2>1, <2>2
    <2>4. c \in Calls /\ c.id = k + 1 /\ <<c>> \in Seq(Data)
      BY <1>1, <2>1, <2>2
    <2>5. v.seen = 1..k /\ v.delta = s.delta /\ Continues(s.out, v.out, SubSeq(asked, 1, k))
      BY <1>5, <2>2
    <2>6. c.id \notin v.seen
      BY <1>1, <2>4, <2>5
    <2>7. x.delta = v.delta /\ x.seen = v.seen \cup {c.id} /\ Continues(v.out, x.out, <<c>>)
      BY <2>3, <2>4, <2>6, ToolCallChunkIs
    <2>8. s.out \in Seq(Chunks) /\ v.out \in Seq(Chunks) /\ x.out \in Seq(Chunks)
      BY <2>3 DEF OpenAI
    <2>9. SubSeq(asked, 1, k) \in Seq(Data) /\ SubSeq(asked, 1, k + 1) = SubSeq(asked, 1, k) \o <<c>>
      BY <1>1, <2>1, <2>2
    <2>10. Continues(s.out, x.out, SubSeq(asked, 1, k + 1))
      <3>1. Continues(s.out, x.out, SubSeq(asked, 1, k) \o <<c>>)
        BY <2>4, <2>5, <2>7, <2>8, <2>9, ContinuesTwice
      <3> QED BY <2>9, <3>1
    <2>11. x.seen = 1..(k + 1)
      BY <1>1, <2>4, <2>5, <2>7
    <2> QED BY <2>1, <2>2, <2>5, <2>7, <2>10, <2>11
  <1>6. a[n].seen = 1..n /\ a[n].delta = s.delta /\ Continues(s.out, a[n].out, SubSeq(asked, 1, n))
    <2> HIDE DEF So
    <2>1. \A k \in 0..n : k \in So
      BY <1>1, <1>4, <1>5, AllNaturals
    <2>2. n \in So
      BY <1>1, <2>1
    <2> QED BY <2>2 DEF So
  <1>7. w \in OpenAI
    BY <1>1, <1>3
  <1> QED BY <1>1, <1>3, <1>6, <1>7

-----------------------------------------------------------------------------
(* The encoders: their inductive invariant.                                *)

\* What has been said: calls, and texts of the turns so far.
Spoken == Calls \cup {Text(t) : t \in 1..turn}

\* In a request the flags say whether the text is out, and no call is shown yet.
Requested ==
    loop = "request" =>
        /\ claude.delta = TextOut /\ openai.delta = TextOut
        /\ claude.seen = {} /\ openai.seen = {}

\* In a round the calls that are left have been shown.
Announced ==
    InRound =>
        /\ claude.out # <<>>
        /\ \A j \in DOMAIN calls : calls[j].id \in claude.seen /\ calls[j].id \in openai.seen

\* Both encoders have shown what is said; the message of the first one is well
\* formed and, while the loop runs, still open; and the flags that keep a text or
\* a call from being shown twice agree with what the loop is about to say.
EncoderInv ==
    /\ EncodersOK /\ ShownIsSaid /\ said \in Seq(Spoken)
    /\ Stream!WellFormed(claude.out)
    /\ loop # "ended" => Framed(claude)
    /\ Requested /\ Announced

\* A step sends on, in both formats, and shows what is said in it.
Onward(more) ==
    /\ claude' \in Claude /\ openai' \in OpenAI
    /\ Continues(claude.out, claude'.out, more)
    /\ Continues(openai.out, openai'.out, more)
    /\ more \in Seq(Spoken)' /\ said' = said \o more

LEMMA TypesAre == EncodersOK <=> claude \in Claude /\ openai \in OpenAI
  BY DEF EncodersOK

\* A text is none of the calls, nor the text of another turn.
LEMMA TextsDiffer ==
    /\ \A c \in Calls : \A t : c # Text(t)
    /\ \A t, u : Text(t) = Text(u) => t = u
  <1>1. ASSUME NEW c \in Calls, NEW t PROVE c # Text(t)
    <2>1. PICK names \in Plans : c \in ToSet(Numbered(names))
      BY DEF Calls
    <2>2. PICK j \in 1..Len(names) : c = Call(j, names[j])
      BY <2>1, AgentAssumption DEF ToSet, Numbered
    <2>3. DOMAIN c = {"id", "name"} /\ DOMAIN Text(t) = {"turn"}
      BY <2>2 DEF Call, Text
    <2>4. "id" \in DOMAIN c /\ "id" \notin DOMAIN Text(t)
      BY <2>3
    <2> QED BY <2>4
  <1>2. ASSUME NEW t, NEW u, Text(t) = Text(u) PROVE t = u
    <2>1. Text(t).turn = t /\ Text(u).turn = u
      BY DEF Text
    <2> QED BY <1>2, <2>1
  <1> QED BY <1>1, <1>2

\* What is said in a turn is data of the events.
LEMMA SpokenIsData ==
    ASSUME turn \in 0..MaxTurns
    PROVE  Spoken \subseteq Data /\ Seq(Spoken) \subseteq Seq(Data)
  <1>1. 1..turn \subseteq 1..MaxTurns
    BY AgentAssumption
  <1>2. Spoken \subseteq Data
    BY <1>1 DEF Spoken, Data
  <1> QED BY <1>2

\* The invariant holds at first.
LEMMA FreshIs ==
    ASSUME AgentInit
    PROVE  EncoderInv
  <1>1. /\ claude = [out |-> <<>>, text |-> FALSE, index |-> 0, delta |-> FALSE, seen |-> {}]
        /\ openai = [out |-> <<>>, role |-> FALSE, delta |-> FALSE, seen |-> {}]
        /\ said = <<>> /\ loop = "boundary"
    BY DEF AgentInit
  <1>2. claude \in Claude /\ openai \in OpenAI
    <2>1. <<>> \in Seq(Events) /\ <<>> \in Seq(Chunks) /\ {} \in SUBSET Ids /\ 0 \in Nat
      OBVIOUS
    <2> QED BY <1>1, <2>1 DEF Claude, OpenAI
  <1>3. Shows(<<>>, <<>>)
    <2>1. Filled(<<>>) = {}
      BY DEF Filled
    <2> QED BY <2>1, FS_EmptySet DEF Shows
  <1>4. Blocks(<<>>, FALSE, 0)
    <2>1. \A type : Stream!Indices(<<>>, type) = {}
      BY DEF Stream!Indices
    <2>2. \A i, type : Stream!Before(<<>>, i, type) = {}
      BY <2>1 DEF Stream!Before
    <2>3. \A i, type : Numbers(<<>>, i, type) = {}
      BY <2>2 DEF Numbers
    <2>4. Stream!Opened(<<>>) /\ Stream!BlocksNest(<<>>)
      BY <2>1 DEF Stream!Opened, Stream!BlocksNest
    <2>5. 0..(0 - 1) = {} /\ 0..(0 - 2) = {}
      OBVIOUS
    <2> QED BY <2>3, <2>4, <2>5 DEF Blocks
  <1>5. Framed(claude)
    BY <1>1, <1>2, <1>4 DEF Framed
  <1>6. Stream!WellFormed(claude.out)
    BY <1>5, FramedIs
  <1>7. Shows(claude.out, said) /\ Shows(openai.out, said) /\ said \in Seq(Spoken)
    BY <1>1, <1>3
  <1> QED BY <1>1, <1>2, <1>5, <1>6, <1>7, TypesAre DEF EncoderInv, ShownIsSaid, Requested, Announced, InRound

\* What is shown is what is said, after a step that sends on.
LEMMA StillShown ==
    ASSUME HarnessOK, HarnessOK', EncoderInv, turn <= turn', NEW more, Onward(more)
    PROVE  EncodersOK' /\ ShownIsSaid' /\ (said \in Seq(Spoken))'
  <1>1. EncodersOK'
    BY DEF Onward, EncodersOK
  <1>2. Spoken \subseteq Spoken'
    BY DEF Spoken, HarnessOK
  <1>3. said \in Seq(Spoken) /\ said \in Seq(Spoken')
    BY <1>2 DEF EncoderInv
  <1>4. said' \in Seq(Spoken')
    BY <1>3, ConcatProperties DEF Onward
  <1>5. said \in Seq(Data)
    BY <1>3, SpokenIsData DEF HarnessOK
  <1>6. Shows(claude.out, said) /\ Shows(openai.out, said)
    BY DEF EncoderInv, ShownIsSaid
  <1>7. Shows(claude'.out, said') /\ Shows(openai'.out, said')
    BY <1>5, <1>6 DEF Onward, Continues
  <1> QED BY <1>1, <1>4, <1>7 DEF ShownIsSaid

\* What the places of the loop say here of turn.
LEMMA TurnIs ==
    ASSUME HistoryInv
    PROVE  /\ HarnessOK /\ turn \in Nat
           /\ loop = "boundary" => turn < MaxTurns
           /\ loop = "request" \/ InRound => turn \in 1..MaxTurns
  BY AgentAssumption DEF HistoryInv, HarnessOK, Places

\* A step that sends nothing.
LEMMA Quiet ==
    ASSUME EncoderInv, claude' \in Claude, openai' \in OpenAI, claude'.out = claude.out, openai'.out = openai.out,
           said' = said
    PROVE  Onward(<<>>)
  <1>1. claude.out \in Seq(Events) /\ openai.out \in Seq(Chunks)
    BY TypesAre DEF EncoderInv, Claude, OpenAI
  <1>2. Continues(claude.out, claude'.out, <<>>) /\ Continues(openai.out, openai'.out, <<>>)
    BY <1>1, ContinuesSame
  <1>3. <<>> \in Seq(Spoken') /\ said \o <<>> = said
    BY ConcatEmptySeq DEF EncoderInv
  <1> QED BY <1>2, <1>3 DEF Onward

\* A request forgets what the last turn showed, and sends nothing.
LEMMA RequestEncodes ==
    ASSUME HistoryInv, HistoryInv', EncoderInv, RequestStarts
    PROVE  EncoderInv' /\ Onward(<<>>)
  <1>1. /\ claude \in Claude /\ openai \in OpenAI /\ Framed(claude) /\ said \in Seq(Spoken)
        /\ loop = "boundary" /\ loop' = "request" /\ turn' = turn + 1 /\ said' = said
        /\ claude' = [claude EXCEPT !.delta = FALSE, !.seen = {}]
        /\ openai' = [openai EXCEPT !.delta = FALSE, !.seen = {}]
    BY TypesAre DEF RequestStarts, EncoderInv
  <1>2. /\ claude' \in Claude /\ claude'.out = claude.out /\ claude'.text = claude.text /\ claude'.index = claude.index
        /\ claude'.delta = FALSE /\ claude'.seen = {}
    BY <1>1 DEF Claude
  <1>3. /\ openai' \in OpenAI /\ openai'.out = openai.out /\ openai'.delta = FALSE /\ openai'.seen = {}
    BY <1>1 DEF OpenAI
  <1>4. Onward(<<>>)
    BY <1>1, <1>2, <1>3, Quiet
  <1>5. Framed(claude')
    BY <1>1, <1>2 DEF Framed
  <1>6. Text(turn + 1) \notin ToSet(said)
    <2>1. \A i \in DOMAIN said : said[i] \in Spoken
      BY <1>1
    <2>2. Text(turn + 1) \notin Spoken
      <3>1. turn + 1 \notin 1..turn
        BY <1>1, TurnIs
      <3> QED BY <3>1, TextsDiffer DEF Spoken
    <2> QED BY <2>1, <2>2 DEF ToSet
  <1>7. Requested' /\ Announced'
    <2>1. TextOut' = FALSE
      BY <1>1, <1>6 DEF TextOut
    <2> QED BY <1>1, <1>2, <1>3, <2>1 DEF Requested, Announced, InRound
  <1>8. HarnessOK /\ HarnessOK' /\ turn <= turn'
    BY <1>1, TurnIs DEF HistoryInv
  <1>9. EncodersOK' /\ ShownIsSaid' /\ (said \in Seq(Spoken))'
    BY <1>4, <1>8, StillShown
  <1>10. Stream!WellFormed(claude'.out)
    BY <1>5, FramedIs
  <1> QED BY <1>4, <1>5, <1>7, <1>9, <1>10 DEF EncoderInv

\* A delta is shown, and the text of its turn is out.
LEMMA DeltaEncodes ==
    ASSUME HistoryInv, HistoryInv', EncoderInv, ContentDelta
    PROVE  EncoderInv' /\ \E more : Onward(more)
  <1>1. PICK d : d = Text(turn)
    OBVIOUS
  <1>2. PICK a, b, x, y : /\ a = EnsureStarted(claude) /\ b = Fill(StartTextBlock(a), d)
                          /\ x = Role(openai) /\ y = Chunk(x, "content", d)
    OBVIOUS
  <1>3. /\ claude \in Claude /\ openai \in OpenAI /\ Framed(claude) /\ said \in Seq(Spoken)
        /\ loop = "request" /\ loop' = loop /\ turn' = turn /\ calls' = calls
        /\ said' = Append(said, d)
        /\ claude' = [b EXCEPT !.delta = TRUE] /\ openai' = [y EXCEPT !.delta = TRUE]
        /\ claude.seen = {} /\ openai.seen = {}
    BY <1>1, <1>2, TypesAre DEF ContentDelta, EncoderInv, Requested, control
  <1>4. turn \in 1..MaxTurns /\ d \in Data /\ d # Nothing /\ d \in Spoken /\ Spoken' = Spoken
    BY <1>1, <1>3, TurnIs, DataIs DEF Spoken
  <1>5. <<d>> \in Seq(Data) /\ <<d>> \in Seq(Spoken) /\ said' = said \o <<d>> /\ Shown(d) = <<d>>
    BY <1>3, <1>4, AppendIsConcat DEF Shown
  <1>6. Framed(a) /\ a.out # <<>> /\ Continues(claude.out, a.out, <<>>) /\ a.text = claude.text /\ a.delta = claude.delta
        /\ a.seen = claude.seen
    BY <1>2, <1>3, EnsureStartedIs
  <1>7. Framed(b) /\ b.out # <<>> /\ Adds(a, b, <<d>>)
    <2>1. Framed(b) /\ b.out # <<>> /\ Adds(a, b, Shown(d))
      BY <1>2, <1>4, <1>6, TextIs
    <2> QED BY <1>5, <2>1
  <1>8. a.out \in Seq(Events) /\ b.out \in Seq(Events) /\ claude.out \in Seq(Events) /\ b \in Claude
    BY <1>3, <1>6, <1>7 DEF Framed, Claude
  <1>9. Continues(claude.out, b.out, <<d>>)
    <2>1. Continues(a.out, b.out, <<d>>) /\ <<>> \in Seq(Data) /\ <<>> \o <<d>> = <<d>>
      BY <1>5, <1>7, ConcatEmptySeq DEF Adds
    <2>2. Continues(claude.out, b.out, <<>> \o <<d>>)
      BY <1>5, <1>6, <1>8, <2>1, ContinuesTwice
    <2> QED BY <2>1, <2>2
  <1>10. /\ claude' \in Claude /\ claude'.out = b.out /\ claude'.text = b.text /\ claude'.index = b.index
         /\ claude'.delta = TRUE /\ claude'.seen = {}
    <2>1. b.seen = {}
      BY <1>3, <1>6, <1>7 DEF Adds
    <2> QED BY <1>3, <1>8, <2>1 DEF Claude
  <1>11. x \in OpenAI /\ Continues(openai.out, x.out, <<>>) /\ x.seen = openai.seen
    <2>1. x \in OpenAI /\ Continues(openai.out, x.out, <<>>) /\ x.delta = openai.delta /\ x.seen = openai.seen
      BY <1>2, <1>3, RoleIs
    <2> QED BY <2>1
  <1>12. y \in OpenAI /\ y.role = x.role /\ Adds(x, y, <<d>>)
    <2>1. y \in OpenAI /\ y.role = x.role /\ Adds(x, y, Shown(d))
      BY <1>2, <1>4, <1>11, ChunkIs
    <2> QED BY <1>5, <2>1
  <1>13. openai' \in OpenAI /\ openai'.out = y.out /\ openai'.delta = TRUE /\ openai'.seen = {}
    <2>1. y.seen = {}
      BY <1>3, <1>11, <1>12 DEF Adds
    <2> QED BY <1>3, <1>12, <2>1 DEF OpenAI
  <1>14. Continues(openai.out, y.out, <<d>>)
    <2>1. Continues(x.out, y.out, <<d>>)
      BY <1>12 DEF Adds
    <2> QED BY <1>3, <1>5, <1>11, <1>12, <2>1, ChunksTwice
  <1>15. Onward(<<d>>)
    BY <1>4, <1>5, <1>9, <1>10, <1>13, <1>14 DEF Onward
  <1>16. HarnessOK /\ HarnessOK' /\ turn <= turn'
    BY <1>3, TurnIs DEF HistoryInv
  <1>17. EncodersOK' /\ ShownIsSaid' /\ (said \in Seq(Spoken))'
    BY <1>15, <1>16, StillShown
  <1>18. Framed(claude') /\ Stream!WellFormed(claude'.out)
    <2>1. Framed(claude')
      BY <1>7, <1>10 DEF Framed
    <2> QED BY <2>1, FramedIs
  <1>19. TextOut'
    <2>1. DOMAIN said' = 1..(Len(said) + 1) /\ said'[Len(said) + 1] = d /\ Len(said) + 1 \in 1..(Len(said) + 1)
      BY <1>3, <1>4, AppendProperties
    <2> QED BY <1>1, <1>3, <2>1 DEF TextOut, ToSet
  <1>20. Requested' /\ Announced'
    BY <1>3, <1>10, <1>13, <1>19 DEF Requested, Announced, InRound
  <1> QED BY <1>15, <1>17, <1>18, <1>20 DEF EncoderInv

\* What the claude encoder sends of an assistant message before its calls.
LEMMA SpokenIs ==
    ASSUME NEW v, Framed(v), NEW d \in Data, d # Nothing, NEW fresh \in BOOLEAN,
           NEW w, w = IF fresh THEN CloseTextBlock(Fill(StartTextBlock(EnsureStarted(v)), d)) ELSE EnsureStarted(v)
    PROVE  /\ Framed(w) /\ w.out # <<>> /\ w.seen = v.seen
           /\ Continues(v.out, w.out, IF fresh THEN <<d>> ELSE <<>>)
  <1>1. PICK a, b : a = EnsureStarted(v) /\ b = Fill(StartTextBlock(a), d)
    OBVIOUS
  <1>2. Framed(a) /\ a.out # <<>> /\ Continues(v.out, a.out, <<>>) /\ a.text = v.text /\ a.delta = v.delta
        /\ a.seen = v.seen
    BY <1>1, EnsureStartedIs
  <1>3. CASE fresh = FALSE
    BY <1>1, <1>2, <1>3
  <1>4. CASE fresh = TRUE
    <2>1. Framed(b) /\ b.out # <<>> /\ Adds(a, b, Shown(d))
      BY <1>1, <1>2, TextIs
    <2>2. w = CloseTextBlock(b)
      BY <1>1, <1>4
    <2>3. Framed(w) /\ w.text = FALSE /\ Adds(b, w, <<>>)
      BY <2>1, <2>2, CloseTextBlockIs
    <2>4. /\ v.out \in Seq(Events) /\ a.out \in Seq(Events) /\ b.out \in Seq(Events) /\ w.out \in Seq(Events)
      BY <1>2, <2>1, <2>3 DEF Framed, Claude
    <2>5. Continues(a.out, b.out, <<d>>) /\ Continues(b.out, w.out, <<>>) /\ w.seen = v.seen /\ w.out # <<>>
      BY <1>2, <2>1, <2>3 DEF Adds, Shown
    <2>6. <<d>> \in Seq(Data) /\ <<>> \in Seq(Data) /\ <<>> \o <<d>> = <<d>> /\ <<d>> \o <<>> = <<d>>
      BY ConcatEmptySeq
    <2>7. Continues(v.out, b.out, <<d>>)
      <3>1. Continues(v.out, b.out, <<>> \o <<d>>)
        BY <1>2, <2>4, <2>5, <2>6, ContinuesTwice
      <3> QED BY <2>6, <3>1
    <2>8. Continues(v.out, w.out, <<d>>)
      <3>1. Continues(v.out, w.out, <<d>> \o <<>>)
        BY <2>4, <2>5, <2>6, <2>7, ContinuesTwice
      <3> QED BY <2>6, <3>1
    <2> QED BY <1>4, <2>3, <2>5, <2>8
  <1> QED BY <1>3, <1>4

\* And the openai encoder.
LEMMA WrittenIs ==
    ASSUME NEW o \in OpenAI, NEW d \in Data, d # Nothing, NEW fresh \in BOOLEAN,
           NEW w, w = IF fresh THEN Chunk(Chunk(o, "role", Nothing), "content", d) ELSE o
    PROVE  w \in OpenAI /\ w.seen = o.seen /\ Continues(o.out, w.out, IF fresh THEN <<d>> ELSE <<>>)
  <1>1. CASE fresh = FALSE
    <2>1. o.out \in Seq(Chunks)
      BY DEF OpenAI
    <2> QED BY <1>1, <2>1, ContinuesSame
  <1>2. CASE fresh = TRUE
    <2>1. PICK x : x = Chunk(o, "role", Nothing)
      OBVIOUS
    <2>2. x \in OpenAI /\ Adds(o, x, <<>>)
      BY <2>1, SilentChunk
    <2>3. w \in OpenAI /\ w.role = x.role /\ Adds(x, w, Shown(d))
      BY <1>2, <2>1, <2>2, ChunkIs
    <2>4. Continues(o.out, x.out, <<>>) /\ Continues(x.out, w.out, <<d>>) /\ w.seen = o.seen /\ <<d>> \in Seq(Data)
      BY <2>2, <2>3 DEF Adds, Shown
    <2>5. Continues(o.out, w.out, <<d>>)
      BY <2>2, <2>3, <2>4, ChunksTwice
    <2> QED BY <1>2, <2>3, <2>4, <2>5
  <1> QED BY <1>1, <1>2

\* An assistant message shows its text if no delta did, and all its calls.
LEMMA MessageEncodes ==
    ASSUME HistoryInv, HistoryInv', EncoderInv, NEW names \in Plans, NEW text \in BOOLEAN,
           AssistantMessage(names, text)
    PROVE  EncoderInv' /\ \E more : Onward(more)
  <1>1. PICK asked, d : asked = Numbered(names) /\ d = Text(turn)
    OBVIOUS
  <1>2. /\ claude \in Claude /\ openai \in OpenAI /\ Framed(claude) /\ said \in Seq(Spoken)
        /\ loop = "request" /\ turn' = turn /\ loop' = "call" /\ calls' = asked
        /\ claude.delta = TextOut /\ openai.delta = TextOut /\ claude.seen = {} /\ openai.seen = {}
    BY <1>1, TypesAre DEF AssistantMessage, EncoderInv, Requested
  <1>3. PICK fresh \in BOOLEAN : fresh = (text /\ ~TextOut)
    OBVIOUS
  <1>4. PICK s : s = IF fresh THEN CloseTextBlock(Fill(StartTextBlock(EnsureStarted(claude)), d))
                     ELSE EnsureStarted(claude)
    OBVIOUS
  <1>5. PICK u : u = IF fresh THEN Chunk(Chunk(openai, "role", Nothing), "content", d) ELSE openai
    OBVIOUS
  <1>6. PICK w : w = [u EXCEPT !.role = TRUE]
    OBVIOUS
  <1>7. /\ said' = (IF fresh THEN Append(said, d) ELSE said) \o asked
        /\ claude' = AnnounceCalls(s, asked) /\ openai' = AnnounceChunks(w, asked)
    <2>1. (text /\ ~claude.delta) = fresh /\ (text /\ ~openai.delta) = fresh
      BY <1>2, <1>3
    <2> QED BY <1>1, <1>3, <1>4, <1>5, <1>6, <2>1 DEF AssistantMessage
  <1>8. turn \in 1..MaxTurns /\ d \in Data /\ d # Nothing /\ d \in Spoken /\ Spoken' = Spoken
    BY <1>1, <1>2, TurnIs, DataIs DEF Spoken
  <1>9. PICK p : p = IF fresh THEN <<d>> ELSE <<>>
    OBVIOUS
  <1>10. Framed(s) /\ s.out # <<>> /\ s.seen = {} /\ Continues(claude.out, s.out, p)
    BY <1>2, <1>4, <1>8, <1>9, SpokenIs
  <1>11. w \in OpenAI /\ w.seen = {} /\ Continues(openai.out, w.out, p)
    <2>1. u \in OpenAI /\ u.seen = openai.seen /\ Continues(openai.out, u.out, IF fresh THEN <<d>> ELSE <<>>)
      BY <1>2, <1>5, <1>8, WrittenIs
    <2>2. w \in OpenAI /\ w.out = u.out /\ w.seen = u.seen
      BY <1>6, <2>1 DEF OpenAI
    <2> QED BY <1>2, <1>9, <2>1, <2>2
  <1>12. Turn(asked) /\ asked \in Seq(Spoken) /\ asked \in Seq(Data)
    <2>1. asked \in Seq(Calls) /\ \A j \in DOMAIN asked : asked[j].id = j
      BY <1>1, AskedIs
    <2>2. asked \in Seq(Spoken) /\ asked \in Seq(Data)
      BY <2>1 DEF Spoken, Data
    <2> QED BY <2>1, <2>2 DEF Turn
  <1>13. /\ Framed(claude') /\ claude'.out # <<>> /\ claude'.delta = s.delta
         /\ \A j \in DOMAIN asked : asked[j].id \in claude'.seen
         /\ Continues(s.out, claude'.out, asked)
    BY <1>7, <1>10, <1>12, AnnounceCallsIs
  <1>14. /\ openai' \in OpenAI /\ openai'.delta = w.delta
         /\ \A j \in DOMAIN asked : asked[j].id \in openai'.seen
         /\ Continues(w.out, openai'.out, asked)
    BY <1>7, <1>11, <1>12, AnnounceChunksIs
  <1>15. /\ claude.out \in Seq(Events) /\ s.out \in Seq(Events) /\ claude'.out \in Seq(Events)
         /\ openai.out \in Seq(Chunks) /\ w.out \in Seq(Chunks) /\ openai'.out \in Seq(Chunks)
         /\ claude' \in Claude
    BY <1>2, <1>10, <1>11, <1>13, <1>14 DEF Framed, Claude, OpenAI
  <1>16. p \in Seq(Data) /\ p \in Seq(Spoken)
    BY <1>8, <1>9
  <1>17. Continues(claude.out, claude'.out, p \o asked) /\ Continues(openai.out, openai'.out, p \o asked)
    <2>1. Continues(claude.out, s.out, p) /\ Continues(s.out, claude'.out, asked)
      BY <1>10, <1>13
    <2>2. Continues(claude.out, claude'.out, p \o asked)
      BY <1>12, <1>15, <1>16, <2>1, ContinuesTwice
    <2>3. Continues(openai.out, w.out, p) /\ Continues(w.out, openai'.out, asked)
      BY <1>11, <1>14
    <2>4. Continues(openai.out, openai'.out, p \o asked)
      BY <1>12, <1>15, <1>16, <2>3, ContinuesTwice
    <2> QED BY <2>2, <2>4
  <1>18. said' = said \o (p \o asked)
    <2>1. (IF fresh THEN Append(said, d) ELSE said) = said \o p
      BY <1>2, <1>8, <1>9, AppendIsConcat, ConcatEmptySeq
    <2>2. (said \o p) \o asked = said \o (p \o asked)
      BY <1>2, <1>12, <1>16, ConcatAssociative
    <2> QED BY <1>7, <2>1, <2>2
  <1>19. Onward(p \o asked)
    <2>1. p \o asked \in Seq(Spoken)
      BY <1>12, <1>16, ConcatProperties
    <2>2. p \o asked \in Seq(Spoken')
      BY <1>8, <2>1
    <2> QED BY <1>14, <1>15, <1>17, <1>18, <2>2 DEF Onward
  <1>20. HarnessOK /\ HarnessOK' /\ turn <= turn'
    BY <1>2, TurnIs DEF HistoryInv
  <1>21. EncodersOK' /\ ShownIsSaid' /\ (said \in Seq(Spoken))'
    BY <1>19, <1>20, StillShown
  <1>22. Stream!WellFormed(claude'.out)
    BY <1>13, FramedIs
  <1>23. Requested' /\ Announced'
    BY <1>2, <1>13, <1>14 DEF Requested, Announced, InRound
  <1> QED BY <1>13, <1>19, <1>21, <1>22, <1>23 DEF EncoderInv

\* A step in a round: the calls that are left have been shown before it.
LEMMA RoundEncodes ==
    ASSUME HistoryInv, HistoryInv', EncoderInv, InRound, InRound', turn' = turn, said' = said,
           Framed(claude'), claude'.out # <<>>, Continues(claude.out, claude'.out, <<>>), claude'.seen = claude.seen,
           openai' \in OpenAI, Continues(openai.out, openai'.out, <<>>), openai'.seen = openai.seen,
           calls' = calls \/ (calls # <<>> /\ calls' = Tail(calls))
    PROVE  EncoderInv' /\ \E more : Onward(more)
  <1>1. Onward(<<>>)
    <2>1. claude' \in Claude /\ said \in Seq(Spoken)
      BY DEF Framed, EncoderInv
    <2>2. <<>> \in Seq(Spoken') /\ said \o <<>> = said
      BY <2>1, ConcatEmptySeq
    <2> QED BY <2>1, <2>2 DEF Onward
  <1>2. HarnessOK /\ HarnessOK' /\ turn <= turn'
    BY TurnIs DEF HistoryInv
  <1>3. EncodersOK' /\ ShownIsSaid' /\ (said \in Seq(Spoken))'
    BY <1>1, <1>2, StillShown
  <1>4. Stream!WellFormed(claude'.out)
    BY FramedIs
  <1>5. \A j \in DOMAIN calls' : \E k \in DOMAIN calls : calls'[j] = calls[k]
    <2>1. CASE calls' = calls
      BY <2>1
    <2>2. CASE calls # <<>> /\ calls' = Tail(calls)
      <3>1. PICK old \in Seq(Calls) : old = calls
        BY DEF HistoryInv, HarnessOK
      <3>2. PICK new : new = Tail(old)
        OBVIOUS
      <3>3. new \in Seq(Calls) /\ Len(new) = Len(old) - 1 /\ \A i \in 1..Len(new) : new[i] = old[i + 1]
        BY <2>2, <3>1, <3>2, HeadTailProperties
      <3>4. DOMAIN old = 1..Len(old) /\ DOMAIN new = 1..Len(new) /\ Len(old) \in Nat
        BY <3>3
      <3>5. \A i \in 1..Len(new) : i + 1 \in 1..Len(old)
        BY <3>3, <3>4
      <3> QED BY <2>2, <3>1, <3>2, <3>3, <3>4, <3>5
    <2> QED BY <2>1, <2>2
  <1>6. Requested' /\ Announced'
    BY <1>5 DEF EncoderInv, Requested, Announced, InRound
  <1> QED BY <1>1, <1>3, <1>4, <1>6 DEF EncoderInv

\* Calls and results of a round show nothing: the calls have been shown.
LEMMA ToolsEncode ==
    ASSUME HistoryInv, HistoryInv', EncoderInv, ToolCall \/ ToolResult \/ ToolBlocked
    PROVE  EncoderInv' /\ \E more : Onward(more)
  <1>1. /\ InRound /\ InRound' /\ turn' = turn /\ said' = said /\ loop' # "ended" /\ calls # <<>>
        /\ calls' = calls \/ (calls # <<>> /\ calls' = Tail(calls))
    BY DEF ToolCall, ToolResult, ToolBlocked, InRound, HistoryInv, Places
  <1>2. /\ Framed(claude) /\ claude.out # <<>> /\ claude \in Claude /\ openai \in OpenAI
        /\ claude.out \in Seq(Events) /\ openai.out \in Seq(Chunks)
    BY <1>1, TypesAre DEF EncoderInv, Announced, InRound, Claude, OpenAI
  <1>3. /\ Continues(claude.out, claude.out, <<>>) /\ Continues(openai.out, openai.out, <<>>)
        /\ Nothing \in Data /\ Shown(Nothing) = <<>>
    BY <1>2, ContinuesSame, DataIs DEF Shown
  <1>4. CASE ToolCall
    <2>1. Head(calls).id \in claude.seen /\ Head(calls).id \in openai.seen
      <3>1. calls \in Seq(Calls) /\ 1 \in DOMAIN calls /\ Head(calls) = calls[1]
        BY <1>1 DEF HistoryInv, HarnessOK
      <3> QED BY <1>1, <3>1 DEF EncoderInv, Announced
    <2>2. claude' = claude /\ openai' = openai
      BY <1>4, <2>1 DEF ToolCall, ToolUse, ToolCallChunk
    <2>3. /\ Framed(claude') /\ claude'.out # <<>> /\ claude'.seen = claude.seen
          /\ Continues(claude.out, claude'.out, <<>>)
          /\ openai' \in OpenAI /\ openai'.seen = openai.seen
          /\ Continues(openai.out, openai'.out, <<>>)
      BY <1>2, <1>3, <2>2
    <2> QED BY <1>1, <2>3, RoundEncodes
  <1>5. CASE ToolResult \/ ToolBlocked
    <2>1. claude' = WholeBlock(claude, Nothing) /\ (openai' = openai \/ openai' = Chunk(openai, "note", Nothing))
      BY <1>5 DEF ToolResult, ToolBlocked
    <2>2. Framed(claude') /\ claude'.out # <<>> /\ Adds(claude, claude', <<>>)
      <3>1. Framed(claude') /\ claude'.out # <<>> /\ Adds(claude, claude', Shown(Nothing))
        BY <1>2, <1>3, <2>1, WholeBlockIs
      <3> QED BY <1>3, <3>1
    <2>3. openai' \in OpenAI /\ Continues(openai.out, openai'.out, <<>>) /\ openai'.seen = openai.seen
      <3>1. CASE openai' = openai
        BY <1>2, <1>3, <3>1
      <3>2. CASE openai' = Chunk(openai, "note", Nothing)
        <4>1. openai' \in OpenAI /\ Adds(openai, openai', <<>>)
          BY <1>2, <3>2, SilentChunk
        <4> QED BY <4>1 DEF Adds
      <3> QED BY <2>1, <3>1, <3>2
    <2>4. Continues(claude.out, claude'.out, <<>>) /\ claude'.seen = claude.seen
      BY <2>2 DEF Adds
    <2> QED BY <1>1, <2>2, <2>3, <2>4, RoundEncodes
  <1> QED BY <1>4, <1>5

\* The response ends with the same message as far as it was sent.
LEMMA EndEncodes ==
    ASSUME HistoryInv, HistoryInv', EncoderInv, loop # "ended", NEW s, NEW o, Ends(s, o),
           s \in Claude, Stream!WellFormed(s.out), Continues(claude.out, s.out, <<>>),
           o \in OpenAI, Continues(openai.out, o.out, <<>>)
    PROVE  EncoderInv' /\ \E more : Onward(more)
  <1>1. claude' = s /\ openai' = o /\ said' = said /\ turn' = turn /\ loop' = "ended" /\ said \in Seq(Spoken)
    BY DEF Ends, EncoderInv
  <1>2. Onward(<<>>)
    <2>1. <<>> \in Seq(Spoken') /\ said \o <<>> = said
      BY <1>1, ConcatEmptySeq
    <2> QED BY <1>1, <2>1 DEF Onward
  <1>3. HarnessOK /\ HarnessOK' /\ turn <= turn'
    BY <1>1, TurnIs DEF HistoryInv
  <1>4. EncodersOK' /\ ShownIsSaid' /\ (said \in Seq(Spoken))'
    BY <1>2, <1>3, StillShown
  <1>5. Requested' /\ Announced'
    BY <1>1 DEF Requested, Announced, InRound
  <1> QED BY <1>1, <1>2, <1>4, <1>5 DEF EncoderInv

\* However the loop ends, the message is closed.
LEMMA EndsEncode ==
    ASSUME HistoryInv, HistoryInv', EncoderInv, loop # "ended", LoopEnd \/ LoopErrs \/ LoopThrows
    PROVE  EncoderInv' /\ \E more : Onward(more)
  <1>1. Framed(claude) /\ claude \in Claude /\ openai \in OpenAI /\ openai.out \in Seq(Chunks)
    BY TypesAre DEF EncoderInv, OpenAI
  <1>2. CASE LoopEnd
    <2>1. PICK s, o : s = GuardStream(FinishStream(EnsureStarted(claude))) /\ o = FinishChunks(openai)
      OBVIOUS
    <2>2. s \in Claude /\ Stream!WellFormed(s.out) /\ Continues(claude.out, s.out, <<>>)
      BY <1>1, <2>1, LoopEndIs
    <2>3. o \in OpenAI /\ Continues(openai.out, o.out, <<>>)
      BY <1>1, <2>1, FinishChunksIs
    <2>4. Ends(s, o)
      BY <1>2, <2>1 DEF LoopEnd
    <2> QED BY <2>2, <2>3, <2>4, EndEncodes
  <1>3. CASE LoopErrs \/ LoopThrows
    <2>1. PICK s : s = GuardStream(ErrorStream(claude))
      OBVIOUS
    <2>2. s \in Claude /\ Stream!WellFormed(s.out) /\ Continues(claude.out, s.out, <<>>)
      BY <1>1, <2>1, ErrorStreamIs
    <2>3. PICK x \in {openai, Chunk(openai, "role", Nothing)} : Ends(s, ErrorChunks(x))
      BY <1>3, <2>1 DEF LoopErrs, LoopThrows
    <2>4. x \in OpenAI /\ Continues(openai.out, x.out, <<>>)
      <3>1. CASE x = openai
        BY <1>1, <3>1, ContinuesSame
      <3>2. CASE x = Chunk(openai, "role", Nothing)
        <4>1. x \in OpenAI /\ Adds(openai, x, <<>>)
          BY <1>1, <3>2, SilentChunk
        <4> QED BY <4>1 DEF Adds
      <3> QED BY <3>1, <3>2
    <2>5. PICK o : o = ErrorChunks(x)
      OBVIOUS
    <2>6. o \in OpenAI /\ Continues(x.out, o.out, <<>>)
      BY <2>4, <2>5, ErrorChunksIs
    <2>7. Continues(openai.out, o.out, <<>>)
      <3>1. <<>> \in Seq(Data)
        OBVIOUS
      <3> QED BY <1>1, <2>4, <2>6, <3>1, ChunksTwice
    <2>8. Ends(s, o)
      BY <2>3, <2>5
    <2> QED BY <2>2, <2>6, <2>7, <2>8, EndEncodes
  <1> QED BY <1>2, <1>3

LEMMA EncoderStep ==
    ASSUME HistoryInv, HistoryInv', EncoderInv, [AgentNext]_agentVars
    PROVE  EncoderInv' /\ \E more : Onward(more)
  <1>1. CASE RequestStarts
    BY <1>1, RequestEncodes
  <1>2. CASE ContentDelta
    BY <1>2, DeltaEncodes
  <1>3. ASSUME NEW names \in Plans, NEW text \in BOOLEAN, AssistantMessage(names, text)
        PROVE  EncoderInv' /\ \E more : Onward(more)
    BY <1>3, MessageEncodes
  <1>4. CASE ToolCall \/ ToolResult \/ ToolBlocked
    BY <1>4, ToolsEncode
  <1>5. CASE (TurnIsOver /\ loop' = "boundary") \/ UNCHANGED agentVars
    <2>1. /\ UNCHANGED <<said, turn, claude, openai, calls>>
          /\ loop' = loop \/ (loop = "call" /\ loop' = "boundary")
      <3>1. CASE UNCHANGED agentVars
        BY <3>1 DEF agentVars, control
      <3>2. CASE TurnIsOver /\ loop' = "boundary"
        BY <3>2 DEF TurnIsOver, LoopEnd, Ends
      <3> QED BY <1>5, <3>1, <3>2
    <2>2. claude \in Claude /\ openai \in OpenAI
      BY TypesAre DEF EncoderInv
    <2>3. Onward(<<>>)
      BY <2>1, <2>2, Quiet
    <2>4. EncodersOK' /\ ShownIsSaid' /\ (said \in Seq(Spoken))' /\ Stream!WellFormed(claude'.out)
      BY <2>1 DEF EncoderInv, EncodersOK, ShownIsSaid, Spoken
    <2>5. Requested' /\ Announced' /\ (loop' # "ended" => Framed(claude'))
      BY <2>1 DEF EncoderInv, Requested, Announced, TextOut, InRound
    <2> QED BY <2>3, <2>4, <2>5 DEF EncoderInv
  <1>6. CASE (TurnIsOver /\ LoopEnd) \/ LoopAborts \/ LoopErrs \/ LoopThrows
    <2>1. loop # "ended" /\ (LoopEnd \/ LoopErrs \/ LoopThrows)
      BY <1>6 DEF TurnIsOver, LoopAborts, LoopErrs, LoopThrows
    <2> QED BY <2>1, EndsEncode
  <1>7. TurnIsOver => loop' = "boundary" \/ LoopEnd
    BY DEF TurnIsOver
  <1> QED BY <1>1, <1>2, <1>3, <1>4, <1>5, <1>6, <1>7 DEF AgentNext

LEMMA EncodersAlways == AgentSpec => [](HistoryInv /\ EncoderInv)
  <1>1. AgentInit => HistoryInv /\ EncoderInv
    BY HistoryInit, FreshIs
  <1>2. HistoryInv /\ EncoderInv /\ [AgentNext]_agentVars => HistoryInv' /\ EncoderInv'
    BY HistoryStep, EncoderStep
  <1> QED BY <1>1, <1>2, PTL DEF AgentSpec

-----------------------------------------------------------------------------
(* Theorems.                                                               *)

\* The harness stays within its budgets of turns and of judge rounds, and its
\* history is a list of turns with calls of a plan and receipts of calls.
THEOREM HarnessWithinBudget == AgentSpec => []HarnessOK
  <1>1. HistoryInv => HarnessOK
    BY DEF HistoryInv
  <1> QED BY <1>1, HistoryAlways, PTL

\* Every turn that is sent to the model again has one receipt per call, for any
\* plans of any length with distinct names, whichever calls are blocked and
\* wherever a former turn broke off.
THEOREM RoundsArePaired == AgentSpec => []HistoryPaired
  <1>1. HistoryInv => HistoryPaired
    <2> SUFFICES ASSUME HistoryInv, NEW i \in DOMAIN messages, i < Len(messages) \/ loop = "boundary",
                        Distinct(messages[i].calls)
                 PROVE  /\ Len(messages[i].receipts) = Len(messages[i].calls)
                        /\ ToSet(messages[i].receipts) = {c.id : c \in ToSet(messages[i].calls)}
      BY DEF HistoryPaired, Distinct
    <2>1. PICK m \in Messages : m = messages[i]
      BY DEF HistoryInv, HarnessOK
    <2>2. Len(m.receipts) = Len(m.calls) /\ InOrder(m.receipts) /\ \A j \in DOMAIN m.calls : m.calls[j].id = j
      BY <2>1 DEF HistoryInv, Rounds, Paired, Identified
    <2>3. DOMAIN m.receipts = DOMAIN m.calls
      BY <2>2 DEF Messages
    <2>4. ToSet(m.receipts) = DOMAIN m.calls
      BY <2>2, <2>3 DEF ToSet, InOrder
    <2>5. {c.id : c \in ToSet(m.calls)} = DOMAIN m.calls
      BY <2>2 DEF ToSet
    <2> QED BY <2>1, <2>2, <2>4, <2>5
  <1> QED BY <1>1, HistoryAlways, PTL

\* In both formats the client sees each text and each call of the model once and
\* in the order in which they were said: for any plans of any length, streamed or
\* only in the assistant message, over any number of turns that use the same ids,
\* and wherever the loop breaks off.
THEOREM ClientSeesEachOnce == AgentSpec => []ShownIsSaid
  <1>1. EncoderInv => ShownIsSaid
    BY DEF EncoderInv
  <1> QED BY <1>1, EncodersAlways, PTL

\* The encoders are of their types, and so is the whole harness.
THEOREM AgentTypeCorrect == AgentSpec => []AgentTypeOK
  <1>1. HistoryInv /\ EncoderInv => AgentTypeOK
    BY DEF HistoryInv, EncoderInv, AgentTypeOK
  <1> QED BY <1>1, EncodersAlways, PTL

LEMMA PrefixIs ==
    ASSUME NEW E, NEW a \in Seq(E), NEW b \in Seq(E), Len(a) <= Len(b), \A i \in 1..Len(a) : b[i] = a[i]
    PROVE  Stream!IsPrefix(a, b)
  <1>1. PICK n \in Nat : n = Len(a)
    OBVIOUS
  <1>2. \A i \in 1..n : a[i] \in E /\ b[i] \in E /\ a[i] = b[i]
    BY <1>1
  <1>3. SubSeq(a, 1, n) = a
    BY <1>1, SubSeqFull
  <1>4. SubSeq(b, 1, n) = a
    <2>1. PICK c : c = SubSeq(b, 1, n)
      OBVIOUS
    <2>2. c \in Seq(E) /\ Len(c) = (IF 1 <= n THEN n - 1 + 1 ELSE 0) /\ \A i \in 1..(n - 1 + 1) : c[i] = b[1 + i - 1]
      BY <1>2, <2>1, SubSeqProperties
    <2>3. Len(c) = n /\ \A i \in 1..n : c[i] = a[i]
      BY <1>2, <2>2
    <2>4. DOMAIN c = 1..n /\ DOMAIN a = 1..n
      BY <1>1, <2>2, <2>3
    <2> QED BY <2>1, <2>2, <2>3, <2>4
  <1> QED BY <1>1, <1>3, <1>4 DEF Stream!IsPrefix

\* The safe part of the refinement of MessageStream: the events of a response
\* are only added to, and at every moment they form a message in which each block
\* is closed before the next one opens, blocks are numbered without gaps and
\* nothing follows the end.
THEOREM ResponsesAreWellFormed == AgentSpec => Stream!Safe
  <1>1. AgentInit => Stream!Init
    BY DEF AgentInit, Stream!Init
  <1>2. ASSUME HistoryInv, HistoryInv', EncoderInv, EncoderInv', [AgentNext]_agentVars
        PROVE  Stream!Send
    <2>1. PICK more : Onward(more)
      BY <1>2, EncoderStep
    <2>2. PICK a \in Seq(Events) : a = claude.out
      BY <1>2, TypesAre DEF EncoderInv, Claude
    <2>3. PICK b \in Seq(Events) : b = claude'.out
      BY <2>1 DEF Onward, Claude
    <2>4. Len(a) <= Len(b) /\ \A i \in 1..Len(a) : b[i] = a[i]
      BY <2>1, <2>2, <2>3 DEF Onward, Continues
    <2>5. Stream!IsPrefix(a, b)
      BY <2>4, PrefixIs
    <2>6. Stream!WellFormed(b)
      BY <1>2, <2>3 DEF EncoderInv
    <2> QED BY <2>2, <2>3, <2>5, <2>6 DEF Stream!Send
  <1>3. HistoryInv /\ EncoderInv /\ HistoryInv' /\ EncoderInv' /\ [AgentNext]_agentVars
           => [Stream!Send]_(claude.out)
    BY <1>2
  <1> QED BY <1>1, <1>3, EncodersAlways, PTL DEF AgentSpec, Stream!Safe

-----------------------------------------------------------------------------
(* Both components of MCServices.                                          *)

\* In a behaviour of either, both are of their types throughout.
THEOREM ServicesTypeCorrect == BothSpec => []TypesOK
  <1> DEFINE Inv == SupervisionInv /\ HistoryInv /\ EncoderInv
  <1>1. BothInit => Inv
    BY SupervisionInit, HistoryInit, FreshIs DEF BothInit
  <1>2. ASSUME Inv, [Supervised \/ Looping]_allVars PROVE Inv'
    <2>1. [Next]_vars /\ [AgentNext]_agentVars
      BY <1>2 DEF Supervised, Looping, AgentIdle, allVars
    <2>2. SupervisionInv' /\ HistoryInv'
      BY <1>2, <2>1, SupervisionStep, HistoryStep
    <2>3. EncoderInv'
      BY <1>2, <2>1, <2>2, EncoderStep
    <2> QED BY <2>2, <2>3
  <1>3. Inv => TypesOK
    BY InvTypes DEF TypesOK, AgentTypeOK, HistoryInv, EncoderInv
  <1> QED BY <1>1, <1>2, <1>3, PTL DEF BothSpec

=============================================================================
