------------------------- MODULE InteractionsProofs -------------------------
(***************************************************************************)
(* Theorems about Interactions, for every set of requests, tools and       *)
(* clients and every bound on the restarts.                                *)
(***************************************************************************)
EXTENDS Interactions, SequenceTheorems, TLAPS

-----------------------------------------------------------------------------
(* The inductive invariant: beside the types, where a request waits and    *)
(* what an answer on its way stands for.                                   *)

\* A waiting request is on display or in one place of the queue, and nobody
\* queues behind an empty display.
QueuedOnce ==
    /\ current = NoRequest => queue = <<>>
    /\ current # NoRequest => verdict[current] = "waiting"
    /\ \A i \in DOMAIN queue : queue[i] # current /\ verdict[queue[i]] = "waiting"
    /\ \A i, k \in DOMAIN queue : queue[i] = queue[k] => i = k

\* What a TUI displays has been asked, and an answer on its way was offered
\* for that request and is on record as the user's.
AnswersAreMeant ==
    /\ \A r \in Requests : verdict[r] # "none" => asks[r] \in Tools \cup {Question}
    /\ \A c \in Clients : shown[c] # NoRequest => verdict[shown[c]] # "none"
    /\ \A c \in Clients : posted[c] # NoAnswer =>
          /\ posted[c][1] \in Requests
          /\ verdict[posted[c][1]] # "none"
          /\ posted[c][2] \in Offered(asks[posted[c][1]])
          /\ posted[c][2] = "allow" => posted[c][1] \in allowed
          /\ posted[c][2] = "always" => asks[posted[c][1]] \in granted

BridgeInv == TypeOK /\ QueuedOnce /\ AnswersAreMeant /\ AllowedByUser

Verdicts == {"none", "waiting", "allow", "deny", "answers", "default"}

-----------------------------------------------------------------------------
(* The operators the actions are built from.                               *)

\* drainQueue shows a request of the queue or nothing.
LEMMA NextPromptType ==
    ASSUME TypeOK, NextPrompt
    PROVE  current' \in Requests \cup {NoRequest} /\ queue' \in Seq(Requests)
  <1>1. CASE queue = <<>>
    BY <1>1 DEF NextPrompt, TypeOK
  <1>2. CASE queue # <<>>
    <2>1. Head(queue) \in Requests /\ Tail(queue) \in Seq(Requests)
      BY <1>2, HeadTailProperties DEF TypeOK
    <2> QED BY <1>2, <2>1 DEF NextPrompt
  <1> QED BY <1>1, <1>2

\* The prompt on display is settled and the next one takes its place: the
\* lock's release.
LEMMA Drained ==
    ASSUME TypeOK, QueuedOnce, current # NoRequest, NextPrompt,
           NEW how, how # "waiting", verdict' = [verdict EXCEPT ![current] = how]
    PROVE  QueuedOnce' /\ Lock!Release(current)
  <1>0. current \in Requests /\ NoRequest \notin Requests
    BY InteractionAssumption DEF TypeOK
  <1>1. CASE queue = <<>>
    <2>1. current' = NoRequest /\ queue' = <<>>
      BY <1>1 DEF NextPrompt
    <2> QED BY <1>0, <1>1, <2>1 DEF QueuedOnce, Lock!Release
  <1>2. CASE queue # <<>>
    <2>1. /\ Head(queue) \in Requests /\ Head(queue) = queue[1] /\ 1 \in DOMAIN queue
          /\ DOMAIN queue = 1..Len(queue) /\ Len(queue) \in Nat
          /\ DOMAIN Tail(queue) = 1..(Len(queue) - 1)
          /\ \A i \in 1..(Len(queue) - 1) : Tail(queue)[i] = queue[i + 1]
          /\ \A i \in DOMAIN queue : queue[i] \in Requests
      BY <1>2 DEF TypeOK
    <2>2. current' = queue[1] /\ queue' = Tail(queue)
      BY <1>2, <2>1 DEF NextPrompt
    <2>3. \A i \in DOMAIN queue : verdict'[queue[i]] = "waiting"
      BY <2>1 DEF QueuedOnce, TypeOK
    <2>4. \A i \in DOMAIN queue' : i + 1 \in DOMAIN queue /\ queue'[i] = queue[i + 1] /\ i + 1 # 1
      BY <2>1, <2>2
    <2>5. \A i \in DOMAIN queue' : queue'[i] # current' /\ verdict'[queue'[i]] = "waiting"
      BY <2>1, <2>2, <2>3, <2>4 DEF QueuedOnce
    <2>6. \A i, k \in DOMAIN queue' : queue'[i] = queue'[k] => i = k
      <3>1. \A i, k \in DOMAIN queue' : queue'[i] = queue'[k] => i + 1 = k + 1
        BY <2>4 DEF QueuedOnce
      <3> QED BY <2>1, <2>2, <3>1
    <2>7. QueuedOnce'
      BY <1>0, <2>1, <2>2, <2>3, <2>5, <2>6 DEF QueuedOnce
    <2> QED BY <1>0, <1>2, <2>1, <2>2, <2>7 DEF Lock!Release
  <1> QED BY <1>1, <1>2

\* A request comes: the lock's acquisition.
LEMMA Enqueued ==
    ASSUME TypeOK, QueuedOnce, NEW r \in Requests, NEW what, Ask(r, what)
    PROVE  /\ QueuedOnce' /\ Lock!Acquire(r)
           /\ current' \in Requests \cup {NoRequest} /\ queue' \in Seq(Requests)
  <1>0. r # NoRequest /\ verdict[r] = "none" /\ verdict'[r] = "waiting"
        /\ \A q \in Requests : q # r => verdict'[q] = verdict[q]
    BY InteractionAssumption DEF Ask, TypeOK
  <1>1. r # current /\ \A i \in DOMAIN queue : queue[i] # r /\ queue[i] \in Requests
    BY <1>0 DEF QueuedOnce, TypeOK
  <1>2. CASE current = NoRequest
    <2>1. current' = r /\ queue' = <<>> /\ queue = <<>>
      BY <1>2 DEF Ask, QueuedOnce
    <2> QED BY <1>0, <1>2, <2>1 DEF QueuedOnce, Lock!Acquire, Lock!Waiting
  <1>3. CASE current # NoRequest
    <2>1. /\ current' = current /\ queue' = Append(queue, r)
          /\ queue' \in Seq(Requests) /\ Len(queue) \in Nat
          /\ DOMAIN queue = 1..Len(queue)
          /\ DOMAIN queue' = 1..(Len(queue) + 1)
          /\ queue'[Len(queue) + 1] = r
          /\ \A i \in 1..Len(queue) : queue'[i] = queue[i]
      <3>1. current' = current /\ queue' = Append(queue, r)
        BY <1>3 DEF Ask
      <3> QED BY <3>1 DEF TypeOK
    <2>2. verdict'[current] = "waiting"
      BY <1>0, <1>1, <1>3 DEF QueuedOnce, TypeOK
    <2>3. \A i \in DOMAIN queue' : queue'[i] # current' /\ verdict'[queue'[i]] = "waiting"
      BY <1>0, <1>1, <2>1 DEF QueuedOnce
    <2>4. \A i, k \in DOMAIN queue' : queue'[i] = queue'[k] => i = k
      BY <1>1, <2>1 DEF QueuedOnce
    <2>5. QueuedOnce'
      BY <1>3, <2>1, <2>2, <2>3, <2>4 DEF QueuedOnce
    <2>6. Lock!Acquire(r)
      BY <1>1, <1>3, <2>1 DEF Lock!Acquire, Lock!Waiting
    <2> QED BY <2>1, <2>5, <2>6 DEF TypeOK
  <1> QED BY <1>2, <1>3

\* What a caller makes of a response is a verdict; only "allow" and "always"
\* let a tool run.
LEMMA OutcomeType ==
    ASSUME NEW response \in Responses
    PROVE  /\ Outcome(response) \in Verdicts \ {"none", "waiting"}
           /\ Outcome(response) = "allow" <=> response \in {"allow", "always"}
  <1>1. CASE response \in {"allow", "always"}
    BY <1>1 DEF Outcome, Verdicts
  <1>2. CASE response = "cancelled"
    BY <1>2 DEF Outcome, Verdicts
  <1>3. CASE response \in {"deny", "answers"}
    BY <1>3 DEF Outcome, Verdicts
  <1> QED BY <1>1, <1>2, <1>3 DEF Responses

\* What is on its way keeps its meaning while requests that were asked stay
\* what they are and the user's marks are not taken back.
LEMMA AnswersKept ==
    ASSUME TypeOK, AnswersAreMeant,
           \A r \in Requests : verdict[r] # "none" => asks'[r] = asks[r] /\ verdict'[r] # "none",
           \A r \in Requests : verdict[r] = "none" /\ verdict'[r] # "none" =>
               asks'[r] \in Tools \cup {Question},
           \A c \in Clients : shown'[c] \in {shown[c], NoRequest},
           \A c \in Clients : posted'[c] \in {posted[c], NoAnswer},
           allowed \subseteq allowed', granted \subseteq granted'
    PROVE  AnswersAreMeant'
  <1>1. \A r \in Requests : verdict'[r] # "none" => asks'[r] \in Tools \cup {Question}
    BY DEF AnswersAreMeant
  <1>2. \A c \in Clients : shown'[c] # NoRequest => verdict'[shown'[c]] # "none"
    BY DEF AnswersAreMeant, TypeOK
  <1>3. ASSUME NEW c \in Clients, posted'[c] # NoAnswer
        PROVE  /\ posted'[c][1] \in Requests
               /\ verdict'[posted'[c][1]] # "none"
               /\ posted'[c][2] \in Offered(asks'[posted'[c][1]])
               /\ posted'[c][2] = "allow" => posted'[c][1] \in allowed'
               /\ posted'[c][2] = "always" => asks'[posted'[c][1]] \in granted'
    <2>1. posted'[c] = posted[c] /\ posted[c] # NoAnswer
      BY <1>3
    <2>2. posted[c][1] \in Requests /\ verdict[posted[c][1]] # "none"
      BY <2>1 DEF AnswersAreMeant
    <2>3. asks'[posted[c][1]] = asks[posted[c][1]] /\ verdict'[posted[c][1]] # "none"
      BY <2>2
    <2> QED BY <2>1, <2>2, <2>3 DEF AnswersAreMeant
  <1> QED BY <1>1, <1>2, <1>3 DEF AnswersAreMeant, Offered, NoAnswer

-----------------------------------------------------------------------------
(* One lemma per operation.                                                *)

\* The lock sees nothing of a step that leaves the prompts alone.
LEMMA PromptsUntouched ==
    ASSUME QueuedOnce, UNCHANGED prompts
    PROVE  QueuedOnce' /\ UNCHANGED Lock!lockVars
  BY DEF QueuedOnce, prompts, Lock!lockVars

\* requestInteraction.
LEMMA AskStep ==
    ASSUME BridgeInv, NEW r \in Requests, NEW what \in Tools \cup {Question},
           Ask(r, what), UNCHANGED <<tui, rules, restarts>>
    PROVE  BridgeInv' /\ Lock!Acquire(r)
  <1> USE DEF tui, rules
  <1>1. QueuedOnce' /\ Lock!Acquire(r)
    BY Enqueued DEF BridgeInv
  <1>2. verdict[r] = "none" /\ asks' = [asks EXCEPT ![r] = what]
        /\ verdict' = [verdict EXCEPT ![r] = "waiting"]
    BY DEF Ask
  <1>3. TypeOK'
    <2>1. current' \in Requests \cup {NoRequest} /\ queue' \in Seq(Requests)
      BY Enqueued DEF BridgeInv
    <2>2. asks' \in [Requests -> Tools \cup {Question, NoTool}]
      BY <1>2 DEF BridgeInv, TypeOK
    <2> QED BY <1>2, <2>1, <2>2 DEF BridgeInv, TypeOK
  <1>4. AnswersAreMeant'
    BY <1>2, AnswersKept DEF BridgeInv, TypeOK
  <1>5. AllowedByUser'
    BY <1>2 DEF BridgeInv, TypeOK, AllowedByUser
  <1> QED BY <1>1, <1>3, <1>4, <1>5 DEF BridgeInv

\* A caller that needs no prompt: a tool goes ahead only on a remembered rule.
LEMMA SettleStep ==
    ASSUME BridgeInv, NEW r \in Requests, NEW what \in Tools \cup {Question},
           NEW how \in {"allow", "default"}, how = "allow" => what \in memory,
           Settle(r, what, how), UNCHANGED <<tui, rules, restarts>>
    PROVE  BridgeInv' /\ UNCHANGED Lock!lockVars
  <1> USE DEF tui, rules
  <1>1. verdict[r] = "none" /\ asks' = [asks EXCEPT ![r] = what]
        /\ verdict' = [verdict EXCEPT ![r] = how] /\ UNCHANGED <<current, queue>>
    BY DEF Settle
  <1>2. QueuedOnce' /\ UNCHANGED Lock!lockVars
    <2>1. \A i \in DOMAIN queue : queue[i] # r /\ queue[i] \in Requests
      BY <1>1 DEF BridgeInv, QueuedOnce, TypeOK
    <2>2. current # NoRequest => current # r /\ current \in Requests
      BY <1>1 DEF BridgeInv, QueuedOnce, TypeOK
    <2> QED BY <1>1, <2>1, <2>2 DEF BridgeInv, QueuedOnce, TypeOK, Lock!lockVars
  <1>3. TypeOK'
    <2>1. asks' \in [Requests -> Tools \cup {Question, NoTool}]
      BY <1>1 DEF BridgeInv, TypeOK
    <2>2. verdict' \in [Requests -> {"none", "waiting", "allow", "deny", "answers", "default"}]
      BY <1>1 DEF BridgeInv, TypeOK
    <2> QED BY <1>1, <2>1, <2>2 DEF BridgeInv, TypeOK
  <1>4. AnswersAreMeant'
    BY <1>1, AnswersKept DEF BridgeInv, TypeOK
  <1>5. AllowedByUser'
    <2>1. how = "allow" => what \in granted
      BY DEF BridgeInv, AllowedByUser
    <2> QED BY <1>1, <2>1 DEF BridgeInv, TypeOK, AllowedByUser
  <1> QED BY <1>2, <1>3, <1>4, <1>5 DEF BridgeInv

\* The timer of the prompt on display.
LEMMA TimeoutStep ==
    ASSUME BridgeInv, TimesOut
    PROVE  BridgeInv' /\ Lock!Release(current) /\ current \in Requests
  <1> USE DEF tui, rules
  <1> DEFINE how == IF asks[current] = Question THEN "default" ELSE "deny"
  <1>1. /\ current # NoRequest /\ NextPrompt
        /\ verdict' = [verdict EXCEPT ![current] = how]
        /\ how \in {"default", "deny"}
        /\ UNCHANGED <<asks, tui, rules, restarts>>
    BY DEF TimesOut
  <1>2. current \in Requests /\ verdict[current] = "waiting"
    BY <1>1 DEF BridgeInv, TypeOK, QueuedOnce
  <1> HIDE DEF how
  <1>3. QueuedOnce' /\ Lock!Release(current)
    BY <1>1, Drained DEF BridgeInv
  <1>4. TypeOK'
    <2>1. verdict' \in [Requests -> {"none", "waiting", "allow", "deny", "answers", "default"}]
      BY <1>1 DEF BridgeInv, TypeOK
    <2>2. current' \in Requests \cup {NoRequest} /\ queue' \in Seq(Requests)
      BY <1>1, NextPromptType DEF BridgeInv
    <2> QED BY <1>1, <2>1, <2>2 DEF BridgeInv, TypeOK
  <1>5. AnswersAreMeant'
    BY <1>1, <1>2, AnswersKept DEF BridgeInv, TypeOK
  <1>6. AllowedByUser'
    BY <1>1 DEF BridgeInv, TypeOK, AllowedByUser
  <1> QED BY <1>2, <1>3, <1>4, <1>5, <1>6 DEF BridgeInv

\* An answer reaches the prompt on display.
LEMMA AnswerStep ==
    ASSUME BridgeInv, NEW c \in Clients, posted[c] # NoAnswer,
           Answer(posted[c][1], posted[c][2]),
           posted' = [posted EXCEPT ![c] = NoAnswer],
           shown' = [shown EXCEPT ![c] = NoRequest],
           UNCHANGED <<asks, chat, allowed, granted, disk, loaded, restarts>>
    PROVE  BridgeInv' /\ Lock!Release(current) /\ current \in Requests
  <1> DEFINE response == posted[c][2]
             how == Outcome(response)
  <1>1. /\ current = posted[c][1] /\ current \in Requests /\ current # NoRequest
        /\ response \in Responses /\ verdict[current] = "waiting"
    BY InteractionAssumption DEF Answer, BridgeInv, AnswersAreMeant, QueuedOnce, TypeOK
  <1>2. verdict' = [verdict EXCEPT ![current] = how] /\ NextPrompt
    BY <1>1 DEF Answer
  <1>3. how \in Verdicts \ {"none", "waiting"} /\ (how = "allow" <=> response \in {"allow", "always"})
    BY <1>1, OutcomeType
  <1>4. response = "always" => asks[current] \in granted
    BY <1>1 DEF BridgeInv, AnswersAreMeant
  <1>5. response = "allow" => current \in allowed
    BY <1>1 DEF BridgeInv, AnswersAreMeant
  <1>6. IF response = "always"
        THEN memory' = memory \cup {asks[current]} /\ saving' = saving \cup {asks[current]}
        ELSE UNCHANGED <<memory, saving>>
    BY <1>1 DEF Answer
  <1> HIDE DEF how, response
  <1>7. QueuedOnce' /\ Lock!Release(current)
    BY <1>1, <1>2, <1>3, Drained DEF BridgeInv
  <1>8. TypeOK'
    <2>1. verdict' \in [Requests -> {"none", "waiting", "allow", "deny", "answers", "default"}]
      BY <1>2, <1>3 DEF BridgeInv, TypeOK, Verdicts
    <2>2. current' \in Requests \cup {NoRequest} /\ queue' \in Seq(Requests)
      BY <1>2, NextPromptType DEF BridgeInv
    <2>3. memory' \in SUBSET Tools /\ saving' \in SUBSET Tools
      BY <1>4, <1>6 DEF BridgeInv, TypeOK
    <2>4. posted' \in [Clients -> (Requests \cup {NoRequest}) \X Responses]
          /\ shown' \in [Clients -> Requests \cup {NoRequest}]
      BY DEF BridgeInv, TypeOK, NoAnswer, Responses
    <2> QED BY <2>1, <2>2, <2>3, <2>4 DEF BridgeInv, TypeOK
  <1>9. AnswersAreMeant'
    BY <1>1, <1>2, <1>3, AnswersKept DEF BridgeInv, TypeOK
  <1>10. AllowedByUser'
    BY <1>1, <1>2, <1>3, <1>4, <1>5, <1>6 DEF BridgeInv, TypeOK, AllowedByUser
  <1> QED BY <1>1, <1>7, <1>8, <1>9, <1>10 DEF BridgeInv

\* A TUI's own steps and an answer that comes too late.
LEMMA TuiStep ==
    ASSUME BridgeInv, UNCHANGED <<prompts, rules, restarts>>,
           chat' \in [Clients -> {"idle", "open", "left"}],
           \/ /\ UNCHANGED <<posted, allowed, granted>>
              /\ \E c \in Clients : \/ shown' = [shown EXCEPT ![c] = current]
                                   \/ shown' = [shown EXCEPT ![c] = NoRequest]
                                   \/ UNCHANGED shown
           \/ /\ UNCHANGED <<allowed, granted>>
              /\ \E c \in Clients : /\ posted' = [posted EXCEPT ![c] = NoAnswer]
                                   /\ shown' = [shown EXCEPT ![c] = NoRequest]
           \/ \E c \in Clients, response \in Responses : Respond(c, response)
    PROVE  BridgeInv' /\ UNCHANGED Lock!lockVars
  <1> USE DEF prompts, rules
  <1>1. QueuedOnce' /\ UNCHANGED Lock!lockVars
    BY PromptsUntouched DEF BridgeInv
  <1>2. CASE /\ UNCHANGED <<posted, allowed, granted>>
             /\ \E c \in Clients : \/ shown' = [shown EXCEPT ![c] = current]
                                  \/ shown' = [shown EXCEPT ![c] = NoRequest]
                                  \/ UNCHANGED shown
    <2>1. TypeOK'
      <3>1. shown' \in [Clients -> Requests \cup {NoRequest}]
        BY <1>2 DEF BridgeInv, TypeOK
      <3> QED BY <1>2, <3>1 DEF BridgeInv, TypeOK
    <2>2. \A c \in Clients : shown'[c] # NoRequest => verdict[shown'[c]] # "none"
      <3>1. \A c \in Clients : shown'[c] \in {shown[c], current, NoRequest}
        BY <1>2 DEF BridgeInv, TypeOK
      <3> QED BY <3>1 DEF BridgeInv, QueuedOnce, AnswersAreMeant
    <2>3. AnswersAreMeant'
      BY <1>2, <2>2 DEF BridgeInv, AnswersAreMeant
    <2>4. AllowedByUser'
      BY <1>2 DEF BridgeInv, AllowedByUser
    <2> QED BY <1>1, <2>1, <2>3, <2>4 DEF BridgeInv
  <1>3. ASSUME UNCHANGED <<allowed, granted>>, NEW c \in Clients,
               posted' = [posted EXCEPT ![c] = NoAnswer], shown' = [shown EXCEPT ![c] = NoRequest]
        PROVE  BridgeInv'
    <2>1. TypeOK'
      <3>1. posted' \in [Clients -> (Requests \cup {NoRequest}) \X Responses]
            /\ shown' \in [Clients -> Requests \cup {NoRequest}]
        BY <1>3 DEF BridgeInv, TypeOK, NoAnswer, Responses
      <3> QED BY <1>3, <3>1 DEF BridgeInv, TypeOK
    <2>2. AnswersAreMeant'
      BY <1>3, AnswersKept DEF BridgeInv, TypeOK, AnswersAreMeant
    <2>3. AllowedByUser'
      BY <1>3 DEF BridgeInv, AllowedByUser
    <2> QED BY <1>1, <2>1, <2>2, <2>3 DEF BridgeInv
  <1>4. ASSUME NEW c \in Clients, NEW response \in Responses, Respond(c, response)
        PROVE  BridgeInv'
    <2> DEFINE r == shown[c]
    <2>1. /\ r \in Requests /\ verdict[r] # "none" /\ asks[r] \in Tools \cup {Question}
          /\ response \in Offered(asks[r])
          /\ posted' = [posted EXCEPT ![c] = <<r, response>>]
          /\ UNCHANGED <<chat, shown>>
      BY <1>4 DEF Respond, BridgeInv, TypeOK, AnswersAreMeant
    <2>2. /\ allowed' = IF response = "allow" THEN allowed \cup {r} ELSE allowed
          /\ granted' = IF response = "always" THEN granted \cup {asks[r]} ELSE granted
      BY <1>4 DEF Respond
    <2>3. response = "always" => asks[r] \in Tools
      BY <2>1 DEF Offered
    <2> HIDE DEF r
    <2>4. TypeOK'
      <3>1. posted' \in [Clients -> (Requests \cup {NoRequest}) \X Responses]
        BY <2>1 DEF BridgeInv, TypeOK
      <3>2. allowed' \in SUBSET Requests /\ granted' \in SUBSET Tools
        BY <2>1, <2>2, <2>3 DEF BridgeInv, TypeOK
      <3> QED BY <2>1, <3>1, <3>2 DEF BridgeInv, TypeOK
    <2>5. ASSUME NEW d \in Clients, posted'[d] # NoAnswer
          PROVE  /\ posted'[d][1] \in Requests
                 /\ verdict[posted'[d][1]] # "none"
                 /\ posted'[d][2] \in Offered(asks[posted'[d][1]])
                 /\ posted'[d][2] = "allow" => posted'[d][1] \in allowed'
                 /\ posted'[d][2] = "always" => asks[posted'[d][1]] \in granted'
      <3>1. CASE d = c
        <4>1. posted'[d] = <<r, response>>
          BY <2>1, <3>1 DEF BridgeInv, TypeOK
        <4> QED BY <2>1, <2>2, <4>1
      <3>2. CASE d # c
        <4>1. posted'[d] = posted[d]
          BY <2>1, <3>2 DEF BridgeInv, TypeOK
        <4> QED BY <2>2, <2>5, <4>1 DEF BridgeInv, AnswersAreMeant
      <3> QED BY <3>1, <3>2
    <2>6. AnswersAreMeant'
      BY <2>1, <2>5 DEF BridgeInv, AnswersAreMeant, NoAnswer
    <2>7. AllowedByUser'
      BY <2>2 DEF BridgeInv, AllowedByUser
    <2> QED BY <1>1, <2>4, <2>6, <2>7 DEF BridgeInv
  <1> QED BY <1>1, <1>2, <1>3, <1>4

\* The rule file and the death of the process.
LEMMA RulesStep ==
    ASSUME BridgeInv, LoadRules \/ (\E tool \in Tools : PersistRule(tool)) \/ UNCHANGED vars
    PROVE  BridgeInv' /\ UNCHANGED Lock!lockVars
  <1> USE DEF tui
  <1>1. UNCHANGED <<prompts, tui, restarts>>
    BY DEF LoadRules, PersistRule, vars
  <1>2. memory' \cup disk' \cup saving' \subseteq memory \cup disk \cup saving
        /\ loaded' \in BOOLEAN
    BY DEF LoadRules, PersistRule, vars, rules, BridgeInv, TypeOK
  <1>3. QueuedOnce' /\ UNCHANGED Lock!lockVars
    BY <1>1, PromptsUntouched DEF BridgeInv
  <1>4. TypeOK' /\ AnswersAreMeant' /\ AllowedByUser'
    BY <1>1, <1>2 DEF prompts, BridgeInv, TypeOK, AnswersAreMeant, AllowedByUser
  <1> QED BY <1>3, <1>4 DEF BridgeInv

LEMMA RestartStep ==
    ASSUME BridgeInv, Restart
    PROVE  BridgeInv' /\ Lock!Reset
  <1>1. TypeOK'
    <2>1. restarts' \in 0..MaxRestarts
      BY InteractionAssumption DEF Restart, BridgeInv, TypeOK
    <2>2. queue' \in Seq(Requests) /\ posted' \in [Clients -> (Requests \cup {NoRequest}) \X Responses]
      BY DEF Restart, NoAnswer, Responses
    <2> QED BY <2>1, <2>2 DEF Restart, BridgeInv, TypeOK
  <1>2. QueuedOnce' /\ Lock!Reset
    BY DEF Restart, QueuedOnce, Lock!Reset
  <1>3. AnswersAreMeant'
    BY DEF Restart, AnswersAreMeant, NoAnswer
  <1>4. AllowedByUser'
    BY DEF Restart, BridgeInv, AllowedByUser
  <1> QED BY <1>1, <1>2, <1>3, <1>4 DEF BridgeInv

-----------------------------------------------------------------------------
(* The theorems.                                                           *)

LEMMA BridgeInit == Init => BridgeInv /\ Lock!Init
  <1> SUFFICES ASSUME Init PROVE BridgeInv /\ Lock!Init
    OBVIOUS
  <1>1. TypeOK
    <2>1. queue \in Seq(Requests) /\ posted \in [Clients -> (Requests \cup {NoRequest}) \X Responses]
          /\ restarts \in 0..MaxRestarts
      BY InteractionAssumption DEF Init, NoAnswer, Responses
    <2> QED BY <2>1 DEF Init, TypeOK
  <1>2. QueuedOnce /\ Lock!Init
    BY DEF Init, QueuedOnce, Lock!Init
  <1>3. AnswersAreMeant /\ AllowedByUser
    BY DEF Init, AnswersAreMeant, AllowedByUser, NoAnswer
  <1> QED BY <1>1, <1>2, <1>3 DEF BridgeInv

\* Every step keeps the inductive invariant and is a step of the lock.
LEMMA BridgeStep == BridgeInv /\ [Next]_vars => BridgeInv' /\ [Lock!Next]_(Lock!lockVars)
  <1> SUFFICES ASSUME BridgeInv, [Next]_vars
               PROVE  BridgeInv' /\ [Lock!Next]_(Lock!lockVars)
    OBVIOUS
  <1>1. ASSUME NEW r \in Requests, AskQuestion(r)
        PROVE  BridgeInv' /\ [Lock!Next]_(Lock!lockVars)
    BY <1>1, AskStep, SettleStep DEF AskQuestion, Lock!Next
  <1>2. ASSUME NEW r \in Requests, NEW tool \in Tools, AskPermission(r, tool)
        PROVE  BridgeInv' /\ [Lock!Next]_(Lock!lockVars)
    BY <1>2, AskStep, SettleStep DEF AskPermission, Lock!Next
  <1>3. CASE TimesOut
    BY <1>3, TimeoutStep DEF Lock!Next
  <1>4. ASSUME NEW c \in Clients, Arrive(c)
        PROVE  BridgeInv' /\ [Lock!Next]_(Lock!lockVars)
    <2>1. CASE Answer(posted[c][1], posted[c][2])
      BY <1>4, <2>1, AnswerStep DEF Arrive, Lock!Next
    <2>2. CASE UNCHANGED <<verdict, current, queue, memory, saving>>
      <3>1. UNCHANGED <<prompts, rules, restarts>> /\ UNCHANGED <<allowed, granted>>
            /\ posted' = [posted EXCEPT ![c] = NoAnswer] /\ shown' = [shown EXCEPT ![c] = NoRequest]
            /\ chat' \in [Clients -> {"idle", "open", "left"}]
        BY <1>4, <2>2 DEF Arrive, prompts, rules, BridgeInv, TypeOK
      <3> QED BY <3>1, TuiStep
    <2> QED BY <1>4, <2>1, <2>2 DEF Arrive
  <1>5. ASSUME NEW c \in Clients,
               \/ Chat(c) \/ LoopEnds(c) \/ Poll(c)
               \/ \E to \in {"idle", "left"} : Leave(c, to)
        PROVE  BridgeInv' /\ [Lock!Next]_(Lock!lockVars)
    <2>1. UNCHANGED <<prompts, rules, restarts>> /\ UNCHANGED <<posted, allowed, granted>>
      BY <1>5 DEF Chat, LoopEnds, Poll, Leave
    <2>2. \/ shown' = [shown EXCEPT ![c] = current]
          \/ shown' = [shown EXCEPT ![c] = NoRequest]
          \/ UNCHANGED shown
      BY <1>5 DEF Chat, LoopEnds, Poll, Leave
    <2>3. chat' \in [Clients -> {"idle", "open", "left"}]
      BY <1>5 DEF Chat, LoopEnds, Poll, Leave, BridgeInv, TypeOK
    <2> QED BY <2>1, <2>2, <2>3, TuiStep
  <1>6. ASSUME NEW c \in Clients, NEW response \in Responses, Respond(c, response)
        PROVE  BridgeInv' /\ [Lock!Next]_(Lock!lockVars)
    <2>1. UNCHANGED <<prompts, rules, restarts>> /\ chat' \in [Clients -> {"idle", "open", "left"}]
      BY <1>6 DEF Respond, BridgeInv, TypeOK
    <2> QED BY <1>6, <2>1, TuiStep
  <1>7. CASE LoadRules \/ (\E tool \in Tools : PersistRule(tool)) \/ UNCHANGED vars
    BY <1>7, RulesStep
  <1>8. CASE Restart
    BY <1>8, RestartStep DEF Lock!Next
  <1> QED BY <1>1, <1>2, <1>3, <1>4, <1>5, <1>6, <1>7, <1>8 DEF Next

LEMMA BridgeAlways == Spec => []BridgeInv
  <1> QED BY BridgeInit, BridgeStep, PTL DEF Spec

\* The bridge's state keeps its shape: a rule that is remembered or saved is
\* always a tool's, never a question's.
THEOREM BridgeTypeCorrect == Spec => []TypeOK
  <1>1. BridgeInv => TypeOK
    BY DEF BridgeInv
  <1> QED BY <1>1, BridgeAlways, PTL

\* No tool runs that a user has not allowed: for any number of requests and
\* TUIs, with answers that come late, prompts that time out and restarts.
THEOREM ToolsRunByUser == Spec => []AllowedByUser
  <1>1. BridgeInv => AllowedByUser
    BY DEF BridgeInv
  <1> QED BY <1>1, BridgeAlways, PTL

\* Prompts come up one at a time and in the order of the requests, as the
\* abstract first-come first-served lock promises.
THEOREM PromptsRefineLock == Spec => ImplementsFifoLock
  <1>1. Init => Lock!Init
    BY BridgeInit
  <1>2. BridgeInv /\ [Next]_vars => [Lock!Next]_(Lock!lockVars)
    BY BridgeStep
  <1> QED BY <1>1, <1>2, BridgeAlways, PTL DEF Spec, Lock!Spec, ImplementsFifoLock

=============================================================================
