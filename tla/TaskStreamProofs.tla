-------------------------- MODULE TaskStreamProofs --------------------------
(***************************************************************************)
(* Theorems about TaskStream, for every set of tasks and streams and every *)
(* bound.                                                                  *)
(***************************************************************************)
EXTENDS TaskStream, FiniteSetTheorems, SequenceTheorems, TLAPS

-----------------------------------------------------------------------------
(* The inductive invariant.                                                *)

\* An open stream is one of a task.
OpenHasTask == \A s \in Streams : Open(s) => of[s] \in Tasks

\* What a stream has said, by where its handler stands: the agent loop may
\* report an error and then throw, but nothing follows a task_done.
SaidByStage ==
    \A s \in Streams :
        /\ at[s] \in {"looping", "forcing"} => said[s] = <<>>
        /\ at[s] = "failed" => said[s] = <<"task_error">>
        /\ at[s] = "closed" /\ of[s] # NoTask =>
              said[s] \in {<<"task_done">>, <<"task_error">>, <<"task_error", "task_error">>}
        /\ at[s] = "closed" /\ of[s] = NoTask => said[s] = <<>>

StreamInv == ShapeOK /\ OpenHasTask /\ SaidByStage /\ RunningIsStreamed /\ FinishedTasksAreClosed

Rows == {"none", "active", "completed", "interrupted", "error"}

-----------------------------------------------------------------------------
(* The operators the actions are built from.                               *)

PayloadOK(p) == DOMAIN p \subseteq Tasks /\ \A t \in DOMAIN p : p[t] \in Mirrored
PushesOK == \A p \in BagToSet(pushes) : PayloadOK(p)

\* Every status of an entry has a name in the mirror.
LEMMA MapStatusType ==
    ASSUME NEW status \in Statuses \ {"none"}
    PROVE  MapStatus(status) \in Mirrored
  <1>1. CASE status = "done"
    BY <1>1 DEF MapStatus, Mirrored
  <1>2. CASE status = "error"
    BY <1>2 DEF MapStatus, Mirrored
  <1>3. CASE status \in Live \cup {"cancelled"}
    BY <1>3 DEF MapStatus, Mirrored, Live
  <1> QED BY <1>1, <1>2, <1>3 DEF Statuses, Live, Terminal

\* A payload is put into the bag or lost.
LEMMA SentPayloads ==
    ASSUME NEW bag, NEW payload
    PROVE  BagToSet(Sent(bag, payload)) \subseteq BagToSet(bag) \cup {payload}
  BY DEF Sent, (+), SetToBag, BagToSet

LEMMA PublishType ==
    ASSUME PushesOK, NEW t \in Tasks, NEW status \in Statuses \ {"none"}, Publish(t, status)
    PROVE  PushesOK'
  <1> DEFINE payload == [u \in {t} |-> MapStatus(status)]
  <1>1. PayloadOK(payload)
    BY MapStatusType DEF PayloadOK
  <1>2. BagToSet(pushes') \subseteq BagToSet(pushes) \cup {payload}
    BY SentPayloads DEF Publish
  <1> HIDE DEF payload
  <1> QED BY <1>1, <1>2 DEF PushesOK

LEMMA SnapshotsType ==
    ASSUME ShapeOK
    PROVE  PayloadOK(Snapshots)
  <1> DEFINE T == {u \in Tasks : entry[u] # "none" \/ stored[u] \in {"active", "interrupted"}}
  <1>1. ASSUME NEW t \in T PROVE Snapshots[t] \in Mirrored
    <2>1. CASE entry[t] # "none"
      BY <2>1, MapStatusType DEF ShapeOK, Snapshots
    <2>2. CASE entry[t] = "none"
      BY <2>2 DEF Snapshots, Mirrored
    <2> QED BY <2>1, <2>2
  <1>2. DOMAIN Snapshots = T
    BY DEF Snapshots
  <1> QED BY <1>1, <1>2 DEF PayloadOK

\* Delivery and loss take a payload out.
LEMMA RemovedPayloads ==
    ASSUME NEW bag, NEW payload
    PROVE  BagToSet(bag (-) SetToBag({payload})) \subseteq BagToSet(bag)
  BY DEF (-), SetToBag, BagToSet

\* A step keeps the properties of the tasks it does not touch.
LEMMA OtherTasks ==
    ASSUME StreamInv, NEW s \in Streams, NEW t \in Tasks,
           \A r \in Streams : r # s => at'[r] = at[r] /\ of'[r] = of[r],
           \A u \in Tasks : u # t => entry'[u] = entry[u] /\ stored'[u] = stored[u],
           Open(s) => of[s] = t,
           entry'[t] = "running" =>
               \E r \in Streams : at'[r] \in {"looping", "forcing"} /\ of'[r] = t,
           stored'[t] = "active" /\ entry'[t] # "none" =>
               entry'[t] = "pending" \/ \E r \in Streams : at'[r] # "closed" /\ of'[r] = t
    PROVE  RunningIsStreamed' /\ FinishedTasksAreClosed'
  <1>1. RunningIsStreamed'
    <2> SUFFICES ASSUME NEW u \in Tasks, entry'[u] = "running"
                 PROVE  \E r \in Streams : at'[r] \in {"looping", "forcing"} /\ of'[r] = u
      BY DEF RunningIsStreamed, OpenOn, Open
    <2>1. CASE u = t
      BY <2>1
    <2>2. CASE u # t
      <3>1. PICK r \in Streams : Open(r) /\ of[r] = u /\ at[r] \in {"looping", "forcing"}
        BY <2>2 DEF StreamInv, RunningIsStreamed, OpenOn
      <3> QED BY <2>2, <3>1
    <2> QED BY <2>1, <2>2
  <1>2. FinishedTasksAreClosed'
    <2> SUFFICES ASSUME NEW u \in Tasks, stored'[u] = "active", entry'[u] # "none", entry'[u] # "pending"
                 PROVE  \E r \in Streams : at'[r] # "closed" /\ of'[r] = u
      BY DEF FinishedTasksAreClosed, OpenOn, Open
    <2>1. CASE u = t
      BY <2>1
    <2>2. CASE u # t
      <3>1. PICK r \in Streams : Open(r) /\ of[r] = u
        BY <2>2 DEF StreamInv, FinishedTasksAreClosed, OpenOn
      <3> QED BY <2>2, <3>1 DEF Open
    <2> QED BY <2>1, <2>2
  <1> QED BY <1>1, <1>2

\* A step that moves no stream and takes no task out of the states the
\* properties are about.
LEMMA StreamsUntouched ==
    ASSUME StreamInv, UNCHANGED streamVars, NEW t \in Tasks,
           \A u \in Tasks : u # t => entry'[u] = entry[u] /\ stored'[u] = stored[u],
           entry'[t] = "running" => entry[t] = "running",
           stored'[t] = "active" /\ entry'[t] # "none" => entry'[t] = "pending"
    PROVE  OpenHasTask' /\ SaidByStage' /\ RunningIsStreamed' /\ FinishedTasksAreClosed'
  <1> USE DEF streamVars, OpenOn, Open
  <1>1. OpenHasTask' /\ SaidByStage'
    BY DEF StreamInv, OpenHasTask, SaidByStage
  <1>2. RunningIsStreamed'
    BY DEF StreamInv, RunningIsStreamed
  <1>3. FinishedTasksAreClosed'
    BY DEF StreamInv, FinishedTasksAreClosed
  <1> QED BY <1>1, <1>2, <1>3

-----------------------------------------------------------------------------
(* One lemma per operation.                                                *)

LEMMA SubmitStep ==
    ASSUME StreamInv, NEW t \in Tasks, Submit(t)
    PROVE  StreamInv'
  <1> USE DEF streamVars
  <1>1. ShapeOK'
    <2>1. PushesOK'
      BY PublishType DEF Submit, StreamInv, ShapeOK, PushesOK, PayloadOK, Statuses, Live
    <2> QED BY <2>1 DEF Submit, StreamInv, ShapeOK, PushesOK, PayloadOK, Statuses, Live
  <1>2. /\ \A u \in Tasks : u # t => entry'[u] = entry[u] /\ stored'[u] = stored[u]
        /\ entry'[t] = "pending"
    BY DEF Submit, StreamInv, ShapeOK
  <1> QED BY <1>1, <1>2, StreamsUntouched DEF Submit, StreamInv

LEMMA CancelStep ==
    ASSUME StreamInv, NEW t \in Tasks, Cancel(t)
    PROVE  StreamInv'
  <1> USE DEF streamVars
  <1>1. PushesOK'
    <2>1. CASE Publish(t, "cancelled")
      BY <2>1, PublishType DEF StreamInv, ShapeOK, PushesOK, PayloadOK, Statuses, Terminal
    <2>2. CASE UNCHANGED pushes
      BY <2>2 DEF StreamInv, ShapeOK, PushesOK, PayloadOK
    <2> QED BY <2>1, <2>2 DEF Cancel
  <1>2. ShapeOK'
    BY <1>1 DEF Cancel, StreamInv, ShapeOK, PushesOK, PayloadOK, Statuses, Terminal
  <1>3. /\ \A u \in Tasks : u # t => entry'[u] = entry[u] /\ stored'[u] = stored[u]
        /\ entry'[t] = "running" => entry[t] = "running"
        /\ stored'[t] = "interrupted"
    BY DEF Cancel, StreamInv, ShapeOK
  <1> QED BY <1>2, <1>3, StreamsUntouched DEF Cancel, StreamInv

LEMMA OpenStep ==
    ASSUME StreamInv, NEW s \in Streams, NEW t \in Tasks, OpenStream(s, t)
    PROVE  StreamInv'
  <1> USE TaskAssumption
  <1>1. PushesOK'
    BY PublishType DEF OpenStream, StreamInv, ShapeOK, PushesOK, PayloadOK, Statuses, Live
  <1>2. ShapeOK'
    BY <1>1 DEF OpenStream, StreamInv, ShapeOK, PushesOK, PayloadOK, Statuses, Live
  <1>3. /\ at[s] = "closed" /\ at'[s] = "looping" /\ of'[s] = t /\ said'[s] = <<>>
        /\ \A r \in Streams : r # s => at'[r] = at[r] /\ of'[r] = of[r] /\ said'[r] = said[r]
        /\ \A u \in Tasks : u # t => entry'[u] = entry[u] /\ stored'[u] = stored[u]
    BY DEF OpenStream, StreamInv, ShapeOK
  <1>4. RunningIsStreamed' /\ FinishedTasksAreClosed'
    BY <1>3, OtherTasks DEF Open
  <1>5. OpenHasTask' /\ SaidByStage'
    BY <1>3 DEF StreamInv, OpenHasTask, SaidByStage, Open
  <1> QED BY <1>2, <1>4, <1>5 DEF StreamInv

LEMMA RejectStep ==
    ASSUME StreamInv, NEW s \in Streams, NEW t \in Tasks, OpenRejected(s, t)
    PROVE  StreamInv'
  <1> USE TaskAssumption
  <1> DEFINE first == [u \in {t} |-> "running"]
             second == [u \in {t} |-> "failed"]
  <1>1. PushesOK'
    <2>1. PayloadOK(first) /\ PayloadOK(second)
      BY DEF PayloadOK, Mirrored
    <2>2. pushes' = Sent(Sent(pushes, first), second)
      BY DEF OpenRejected
    <2> HIDE DEF first, second
    <2>3. BagToSet(pushes') \subseteq BagToSet(pushes) \cup {first, second}
      BY <2>2, SentPayloads
    <2> QED BY <2>1, <2>3 DEF StreamInv, ShapeOK, PushesOK, PayloadOK
  <1>2. ShapeOK'
    <2>1. <<"task_error">> \in Seq({"task_done", "task_error"})
      OBVIOUS
    <2> QED BY <1>1, <2>1 DEF OpenRejected, StreamInv, ShapeOK, PushesOK, PayloadOK, Statuses, Terminal
  <1>3. /\ at[s] = "closed" /\ at' = at /\ of'[s] = t /\ said'[s] = <<"task_error">>
        /\ \A r \in Streams : r # s => of'[r] = of[r] /\ said'[r] = said[r]
        /\ \A u \in Tasks : u # t => entry'[u] = entry[u] /\ stored'[u] = stored[u]
        /\ entry'[t] = "error" /\ stored'[t] = "error"
    BY DEF OpenRejected, StreamInv, ShapeOK
  <1>4. RunningIsStreamed' /\ FinishedTasksAreClosed'
    BY <1>3, OtherTasks DEF Open
  <1>5. OpenHasTask' /\ SaidByStage'
    BY <1>3 DEF StreamInv, OpenHasTask, SaidByStage, Open
  <1> QED BY <1>2, <1>4, <1>5 DEF StreamInv

LEMMA SecondWord ==
    ASSUME NEW first, NEW second
    PROVE  Append(<<first>>, second) = <<first, second>>
  <1> DEFINE S == {first, second}
             a == Append(<<first>>, second)
             b == <<first, second>>
  <1>1. <<first>> \in Seq(S) /\ Len(<<first>>) = 1
    OBVIOUS
  <1>2. /\ a \in Seq(S) /\ Len(a) = 2 /\ a[1] = first /\ a[2] = second
    BY <1>1, AppendProperties
  <1>3. /\ b \in Seq(S) /\ Len(b) = 2 /\ b[1] = first /\ b[2] = second
    OBVIOUS
  <1> HIDE DEF a, b
  <1>4. a = b
    BY <1>2, <1>3, SeqEqual
  <1> QED BY <1>4 DEF a, b

\* The last word: task_done only into silence, task_error after one error at
\* most.
LEMMA ConcludeStep ==
    ASSUME StreamInv, NEW s \in Streams, Open(s),
           \/ Succeed(s) /\ at[s] \in {"looping", "forcing"}
           \/ Fail(s)
    PROVE  StreamInv'
  <1> USE TaskAssumption
  <1> DEFINE t == of[s]
  <1>1. PICK word \in {"task_done", "task_error"}, status \in {"done", "error"},
             row \in {"completed", "error"} :
               /\ Conclude(s, word, status, row)
               /\ word = "task_done" => at[s] \in {"looping", "forcing"}
    BY DEF Succeed, Fail
  <1>2. t \in Tasks /\ t # NoTask
    BY DEF StreamInv, OpenHasTask
  <1>3. PushesOK'
    BY <1>1, <1>2, PublishType DEF Conclude, StreamInv, ShapeOK, PushesOK, PayloadOK, Statuses, Terminal
  <1>4. said[s] \in {<<>>, <<"task_error">>} /\ (said[s] # <<>> => word = "task_error")
    BY <1>1 DEF StreamInv, ShapeOK, SaidByStage, Open
  <1>5. Append(said[s], word) \in {<<"task_done">>, <<"task_error">>, <<"task_error", "task_error">>}
    <2>1. CASE said[s] = <<>>
      <3>1. Append(<<>>, word) = <<word>>
        OBVIOUS
      <3> QED BY <2>1, <3>1
    <2>2. CASE said[s] = <<"task_error">>
      <3>1. Append(<<"task_error">>, "task_error") = <<"task_error", "task_error">>
        BY SecondWord
      <3>2. word = "task_error"
        BY <1>4, <2>2
      <3> QED BY <2>2, <3>1, <3>2
    <2> QED BY <1>4, <2>1, <2>2
  <1>6. Append(said[s], word) \in Seq({"task_done", "task_error"})
    BY DEF StreamInv, ShapeOK
  <1>7. /\ at' = [at EXCEPT ![s] = "closed"] /\ of' = of
        /\ said' = [said EXCEPT ![s] = Append(said[s], word)]
        /\ entry' = [entry EXCEPT ![t] = status] /\ stored' = [stored EXCEPT ![t] = row]
        /\ UNCHANGED <<mirror, up, restarts>>
    BY <1>1 DEF Conclude
  <1> HIDE DEF t
  <1>8. ShapeOK'
    <2>1. entry' \in [Tasks -> Statuses] /\ stored' \in [Tasks -> Rows]
      BY <1>2, <1>7 DEF StreamInv, ShapeOK, Statuses, Terminal, Rows
    <2>2. /\ said' \in [Streams -> Seq({"task_done", "task_error"})]
          /\ at' \in [Streams -> {"closed", "looping", "failed", "forcing"}]
      BY <1>6, <1>7 DEF StreamInv, ShapeOK
    <2> QED BY <1>3, <1>7, <2>1, <2>2 DEF StreamInv, ShapeOK, PushesOK, PayloadOK, Rows
  <1>9. /\ \A r \in Streams : r # s => at'[r] = at[r] /\ of'[r] = of[r] /\ said'[r] = said[r]
        /\ \A u \in Tasks : u # t => entry'[u] = entry[u] /\ stored'[u] = stored[u]
        /\ entry'[t] # "running" /\ stored'[t] # "active" /\ at'[s] = "closed"
        /\ said'[s] = Append(said[s], word)
    BY <1>2, <1>7 DEF StreamInv, ShapeOK
  <1>10. RunningIsStreamed' /\ FinishedTasksAreClosed'
    BY <1>2, <1>9, OtherTasks DEF t
  <1>11. OpenHasTask' /\ SaidByStage'
    BY <1>2, <1>5, <1>7, <1>9 DEF StreamInv, OpenHasTask, SaidByStage, Open, t
  <1> QED BY <1>8, <1>10, <1>11 DEF StreamInv

LEMMA ErrorStep ==
    ASSUME StreamInv, NEW s \in Streams, LoopErrs(s)
    PROVE  StreamInv'
  <1> USE TaskAssumption
  <1> DEFINE t == of[s]
  <1>1. t \in Tasks /\ t # NoTask /\ said[s] = <<>>
    BY DEF LoopErrs, StreamInv, OpenHasTask, SaidByStage, Open
  <1>2. PushesOK'
    BY <1>1, PublishType DEF LoopErrs, StreamInv, ShapeOK, PushesOK, PayloadOK, Statuses, Terminal
  <1>3. Append(said[s], "task_error") = <<"task_error">>
    <2>1. Append(<<>>, "task_error") = <<"task_error">>
      OBVIOUS
    <2> QED BY <1>1, <2>1
  <1>4. <<"task_error">> \in Seq({"task_done", "task_error"})
    OBVIOUS
  <1>5. /\ at' = [at EXCEPT ![s] = "failed"] /\ said' = [said EXCEPT ![s] = <<"task_error">>]
        /\ entry' = [entry EXCEPT ![t] = "error"]
        /\ UNCHANGED <<stored, of, mirror, up, restarts>>
    BY <1>3 DEF LoopErrs
  <1> HIDE DEF t
  <1>6. ShapeOK'
    <2>1. entry' \in [Tasks -> Statuses]
      BY <1>5 DEF StreamInv, ShapeOK, Statuses, Terminal
    <2>2. /\ said' \in [Streams -> Seq({"task_done", "task_error"})]
          /\ at' \in [Streams -> {"closed", "looping", "failed", "forcing"}]
      BY <1>4, <1>5 DEF StreamInv, ShapeOK
    <2> QED BY <1>2, <1>5, <2>1, <2>2 DEF StreamInv, ShapeOK, PushesOK, PayloadOK
  <1>7. /\ \A r \in Streams : r # s => at'[r] = at[r] /\ of'[r] = of[r] /\ said'[r] = said[r]
        /\ \A u \in Tasks : u # t => entry'[u] = entry[u] /\ stored'[u] = stored[u]
        /\ entry'[t] = "error" /\ at'[s] = "failed" /\ said'[s] = <<"task_error">> /\ of'[s] = t
    BY <1>1, <1>5 DEF StreamInv, ShapeOK, t
  <1>8. RunningIsStreamed' /\ FinishedTasksAreClosed'
    BY <1>1, <1>7, OtherTasks DEF t
  <1>9. OpenHasTask' /\ SaidByStage'
    BY <1>1, <1>7 DEF StreamInv, OpenHasTask, SaidByStage, Open
  <1> QED BY <1>6, <1>8, <1>9 DEF StreamInv

\* The steps of a stream that say nothing.
LEMMA SilentStep ==
    ASSUME StreamInv, NEW s \in Streams, FailedLoopEnds(s) \/ LoopEndsMute(s)
    PROVE  StreamInv'
  <1> USE TaskAssumption
  <1> DEFINE t == of[s]
  <1>1. t \in Tasks /\ t # NoTask
    BY DEF FailedLoopEnds, LoopEndsMute, StreamInv, OpenHasTask, Open
  <1>2. UNCHANGED <<entry, of, said, pushes, mirror, up, restarts>>
    BY DEF FailedLoopEnds, LoopEndsMute
  <1>3. \/ /\ at[s] = "failed" /\ at' = [at EXCEPT ![s] = "closed"]
           /\ stored' = [stored EXCEPT ![t] = "error"]
        \/ /\ at[s] = "looping" /\ at' = [at EXCEPT ![s] = "forcing"]
           /\ stored' = stored
    BY DEF FailedLoopEnds, LoopEndsMute
  <1> HIDE DEF t
  <1>4. ShapeOK'
    <2>1. /\ at' \in [Streams -> {"closed", "looping", "failed", "forcing"}]
          /\ stored' \in [Tasks -> {"none", "active", "completed", "interrupted", "error"}]
      BY <1>3 DEF StreamInv, ShapeOK
    <2> QED BY <1>2, <2>1 DEF StreamInv, ShapeOK
  <1>5. OpenHasTask' /\ SaidByStage'
    <2>1. OpenHasTask'
      BY <1>1, <1>2, <1>3 DEF StreamInv, ShapeOK, OpenHasTask, Open, t
    <2>2. /\ \A r \in Streams \ {s} : at'[r] = at[r]
          /\ \/ at'[s] = "forcing" /\ at[s] = "looping"
             \/ at'[s] = "closed" /\ at[s] = "failed"
      <3>1. at \in [Streams -> {"closed", "looping", "failed", "forcing"}]
        BY DEF StreamInv, ShapeOK
      <3> QED BY <1>3, <3>1
    <2>3. of[s] # NoTask
      BY <1>1 DEF t
    <2>4. SaidByStage'
      BY <1>2, <2>2, <2>3 DEF StreamInv, SaidByStage
    <2> QED BY <2>1, <2>4
  <1>6. CASE at[s] = "failed"
    <2>1. \A r \in Streams : at[r] \in {"looping", "forcing"} => at'[r] = at[r]
      BY <1>3, <1>6 DEF StreamInv, ShapeOK
    <2>2. RunningIsStreamed'
      BY <1>2, <2>1 DEF StreamInv, RunningIsStreamed, OpenOn, Open
    <2>3. \A u \in Tasks : stored'[u] = "active" => u # t /\ stored[u] = "active"
      BY <1>1, <1>3, <1>6 DEF StreamInv, ShapeOK
    <2>4. \A r \in Streams : of[r] # t => at'[r] = at[r]
      BY <1>3, <1>6 DEF StreamInv, ShapeOK, t
    <2>5. FinishedTasksAreClosed'
      BY <1>2, <2>3, <2>4 DEF StreamInv, FinishedTasksAreClosed, OpenOn, Open
    <2> QED BY <1>4, <1>5, <2>2, <2>5 DEF StreamInv
  <1>7. CASE at[s] = "looping"
    <2>1. stored' = stored /\ at'[s] = "forcing" /\ \A r \in Streams : r # s => at'[r] = at[r]
      BY <1>3, <1>7 DEF StreamInv, ShapeOK
    <2>2. \A r \in Streams : /\ at[r] \in {"looping", "forcing"} => at'[r] \in {"looping", "forcing"}
                             /\ at[r] # "closed" => at'[r] # "closed"
      BY <2>1
    <2>3. RunningIsStreamed'
      BY <1>2, <2>2 DEF StreamInv, RunningIsStreamed, OpenOn, Open
    <2>4. FinishedTasksAreClosed'
      BY <1>2, <2>1, <2>2 DEF StreamInv, FinishedTasksAreClosed, OpenOn, Open
    <2> QED BY <1>4, <1>5, <2>3, <2>4 DEF StreamInv
  <1> QED BY <1>3, <1>6, <1>7

LEMMA StreamStepKeeps ==
    ASSUME StreamInv, NEW s \in Streams, StreamStep(s)
    PROVE  StreamInv'
  <1>1. CASE LoopErrs(s)
    BY <1>1, ErrorStep
  <1>2. CASE FailedLoopEnds(s) \/ LoopEndsMute(s)
    BY <1>2, SilentStep
  <1>3. CASE LoopThrows(s) \/ LoopConcludes(s) \/ ForcedEnds(s)
    BY <1>3, ConcludeStep DEF LoopThrows, LoopConcludes, ForcedEnds, Open
  <1> QED BY <1>1, <1>2, <1>3 DEF StreamStep

\* Pushes and TriMC.
LEMMA MirrorStep ==
    ASSUME StreamInv,
           \/ HeartbeatPush \/ TrimcChanges \/ UNCHANGED vars
           \/ \E p \in BagToSet(pushes) : Deliver(p) \/ Lose(p)
    PROVE  StreamInv'
  <1> USE DEF streamVars
  <1>1. UNCHANGED <<entry, stored, streamVars, restarts>>
    BY DEF HeartbeatPush, TrimcChanges, Deliver, Lose, vars
  <1>2. PushesOK'
    <2>1. CASE HeartbeatPush
      <3>1. BagToSet(pushes') \subseteq BagToSet(pushes) \cup {Snapshots} /\ PayloadOK(Snapshots)
        BY <2>1, SentPayloads, SnapshotsType DEF HeartbeatPush, StreamInv
      <3> QED BY <3>1 DEF StreamInv, ShapeOK, PushesOK, PayloadOK
    <2>2. ASSUME NEW p \in BagToSet(pushes), Deliver(p) \/ Lose(p) PROVE PushesOK'
      <3>1. BagToSet(pushes') \subseteq BagToSet(pushes)
        BY <2>2, RemovedPayloads DEF Deliver, Lose
      <3> QED BY <3>1 DEF StreamInv, ShapeOK, PushesOK, PayloadOK
    <2>3. CASE UNCHANGED pushes
      BY <2>3 DEF StreamInv, ShapeOK, PushesOK, PayloadOK
    <2> QED BY <2>1, <2>2, <2>3 DEF TrimcChanges, vars
  <1>3. mirror' \in [Tasks -> Mirrored \cup {"none"}] /\ up' \in BOOLEAN
    <2>1. ASSUME NEW p \in BagToSet(pushes), Deliver(p)
          PROVE  mirror' \in [Tasks -> Mirrored \cup {"none"}]
      <3>1. \A t \in DOMAIN p : p[t] \in Mirrored
        BY DEF StreamInv, ShapeOK
      <3> QED BY <2>1, <3>1 DEF Deliver, StreamInv, ShapeOK
    <2> QED BY <2>1 DEF HeartbeatPush, TrimcChanges, Deliver, Lose, vars, StreamInv, ShapeOK
  <1>4. ShapeOK'
    BY <1>1, <1>2, <1>3 DEF StreamInv, ShapeOK, PushesOK, PayloadOK
  <1> QED BY <1>1, <1>4 DEF StreamInv, OpenHasTask, SaidByStage, RunningIsStreamed,
                            FinishedTasksAreClosed, OpenOn, Open

LEMMA TaskRestartStep ==
    ASSUME StreamInv, Restart
    PROVE  StreamInv'
  <1>1. ShapeOK'
    <2>1. restarts' \in 0..MaxRestarts
      BY TaskAssumption DEF Restart, StreamInv, ShapeOK
    <2>2. BagToSet(pushes') = {}
      BY DEF Restart, BagToSet, EmptyBag, SetToBag
    <2>3. said' \in [Streams -> Seq({"task_done", "task_error"})]
      BY DEF Restart
    <2> QED BY <2>1, <2>2, <2>3 DEF Restart, StreamInv, ShapeOK, Statuses
  <1>2. OpenHasTask' /\ SaidByStage'
    BY DEF Restart, OpenHasTask, SaidByStage, Open
  <1>3. RunningIsStreamed' /\ FinishedTasksAreClosed'
    BY DEF Restart, RunningIsStreamed, FinishedTasksAreClosed
  <1> QED BY <1>1, <1>2, <1>3 DEF StreamInv

-----------------------------------------------------------------------------
(* The number of POSTs under way.                                          *)

Bag(bag) == \A p \in DOMAIN bag : bag[p] \in Nat \ {0}

\* The invariant, which needs nothing of the tasks.
Bounded(bag) == Bag(bag) /\ IsFiniteSet(Posts(bag)) /\ Cardinality(Posts(bag)) <= MaxPushes

\* A POST is one of the copies of its payload.
LEMMA PostIs ==
    ASSUME NEW bag
    PROVE  \A x : x \in Posts(bag) <=>
               \E p \in DOMAIN bag : \E k \in 1..bag[p] : x = <<p, k>>
  BY DEF Posts, BagToSet

\* The same payload again is one POST more, with the next number.
LEMMA AddedPost ==
    ASSUME NEW bag, NEW payload, Bag(bag), IsFiniteSet(Posts(bag))
    PROVE  /\ Bag(bag (+) SetToBag({payload})) /\ IsFiniteSet(Posts(bag (+) SetToBag({payload})))
           /\ Cardinality(Posts(bag (+) SetToBag({payload}))) = Cardinality(Posts(bag)) + 1
  <1>1. PICK more : more = bag (+) SetToBag({payload})
    OBVIOUS
  <1>2. PICK k : k = IF payload \in DOMAIN bag THEN bag[payload] + 1 ELSE 1
    OBVIOUS
  <1>3. /\ DOMAIN more = DOMAIN bag \cup {payload} /\ more[payload] = k
        /\ \A p \in DOMAIN bag : p # payload => more[p] = bag[p]
        /\ k \in Nat \ {0}
        /\ payload \in DOMAIN bag => bag[payload] \in Nat /\ k = bag[payload] + 1
        /\ payload \notin DOMAIN bag => k = 1
    BY <1>1, <1>2 DEF (+), SetToBag, Bag
  <1>4. Bag(more)
    BY <1>3 DEF Bag
  <1>5. <<payload, k>> \notin Posts(bag)
    BY <1>3, PostIs
  <1>6. Posts(more) = Posts(bag) \cup {<<payload, k>>}
    <2>1. ASSUME NEW x \in Posts(bag) PROVE x \in Posts(more)
      <3>1. PICK p, j : p \in DOMAIN bag /\ j \in 1..bag[p] /\ x = <<p, j>>
        BY <2>1, PostIs
      <3>2. p \in DOMAIN more /\ j \in 1..more[p]
        BY <1>3, <3>1
      <3> QED BY <3>1, <3>2, PostIs
    <2>2. <<payload, k>> \in Posts(more)
      <3>1. payload \in DOMAIN more /\ k \in 1..more[payload]
        BY <1>3
      <3> QED BY <3>1, PostIs
    <2>3. ASSUME NEW x \in Posts(more), x # <<payload, k>> PROVE x \in Posts(bag)
      <3>1. PICK p, j : p \in DOMAIN more /\ j \in 1..more[p] /\ x = <<p, j>>
        BY <2>3, PostIs
      <3>2. p \in DOMAIN bag /\ j \in 1..bag[p]
        <4>1. CASE p # payload
          BY <1>3, <3>1, <4>1
        <4>2. CASE p = payload
          <5>1. j # k /\ j \in 1..k
            BY <1>3, <2>3, <3>1, <4>2
          <5>2. payload \in DOMAIN bag
            BY <1>3, <5>1
          <5> QED BY <1>3, <4>2, <5>1, <5>2
        <4> QED BY <4>1, <4>2
      <3> QED BY <3>1, <3>2, PostIs
    <2> QED BY <2>1, <2>2, <2>3
  <1>7. /\ IsFiniteSet(Posts(bag) \cup {<<payload, k>>})
        /\ Cardinality(Posts(bag) \cup {<<payload, k>>}) = Cardinality(Posts(bag)) + 1
    <2>1. PICK S, x : S = Posts(bag) /\ x = <<payload, k>>
      OBVIOUS
    <2>2. IsFiniteSet(S) /\ x \notin S
      BY <1>5, <2>1
    <2>3. IsFiniteSet(S \cup {x}) /\ Cardinality(S \cup {x}) = Cardinality(S) + 1
      BY <2>2, FS_AddElement
    <2> QED BY <2>1, <2>3
  <1> QED BY <1>1, <1>4, <1>6, <1>7

\* A POST that is over leaves the others.
LEMMA RemovedPost ==
    ASSUME NEW bag, NEW payload, Bounded(bag)
    PROVE  Bounded(bag (-) SetToBag({payload}))
  <1>1. PICK rest : rest = bag (-) SetToBag({payload})
    OBVIOUS
  <1>2. /\ DOMAIN rest \subseteq DOMAIN bag
        /\ \A p \in DOMAIN rest : rest[p] \in Nat \ {0} /\ bag[p] \in Nat /\ rest[p] <= bag[p]
    BY <1>1 DEF (-), SetToBag, Bounded, Bag
  <1>3. ASSUME NEW x \in Posts(rest) PROVE x \in Posts(bag)
    <2>1. PICK p, j : p \in DOMAIN rest /\ j \in 1..rest[p] /\ x = <<p, j>>
      BY <1>3, PostIs
    <2>2. p \in DOMAIN bag /\ j \in 1..bag[p]
      BY <1>2, <2>1
    <2> QED BY <2>1, <2>2, PostIs
  <1>4. Posts(rest) \in SUBSET Posts(bag)
    BY <1>3
  <1>5. /\ IsFiniteSet(Posts(rest)) /\ Cardinality(Posts(rest)) <= Cardinality(Posts(bag))
        /\ Cardinality(Posts(rest)) \in Nat /\ Cardinality(Posts(bag)) \in Nat
    <2>1. PICK S, T : S = Posts(bag) /\ T = Posts(rest)
      OBVIOUS
    <2>2. IsFiniteSet(S) /\ T \in SUBSET S
      BY <1>4, <2>1 DEF Bounded
    <2>3. IsFiniteSet(T) /\ Cardinality(T) <= Cardinality(S)
      BY <2>2, FS_Subset
    <2>4. Cardinality(S) \in Nat /\ Cardinality(T) \in Nat
      BY <2>2, <2>3, FS_CardinalityType
    <2> QED BY <2>1, <2>3, <2>4
  <1>6. Cardinality(Posts(rest)) <= MaxPushes
    BY <1>5, TaskAssumption DEF Bounded
  <1> QED BY <1>1, <1>2, <1>5, <1>6 DEF Bounded, Bag

\* A payload is sent only below the bound.
LEMMA SentBounded ==
    ASSUME NEW bag, NEW payload, Bounded(bag)
    PROVE  Bounded(Sent(bag, payload))
  <1>1. CASE Cardinality(Posts(bag)) < MaxPushes
    <2>1. PICK more : more = bag (+) SetToBag({payload})
      OBVIOUS
    <2>2. /\ Bag(more) /\ IsFiniteSet(Posts(more))
          /\ Cardinality(Posts(more)) = Cardinality(Posts(bag)) + 1
      BY <2>1, AddedPost DEF Bounded
    <2>3. Cardinality(Posts(bag)) \in Nat
      <3>1. PICK S : S = Posts(bag)
        OBVIOUS
      <3>2. IsFiniteSet(S)
        BY <3>1 DEF Bounded
      <3> QED BY <3>1, <3>2, FS_CardinalityType
    <2>4. Cardinality(Posts(more)) <= MaxPushes
      BY <1>1, <2>2, <2>3, TaskAssumption
    <2> QED BY <1>1, <2>1, <2>2, <2>4 DEF Sent, Bounded
  <1>2. CASE ~(Cardinality(Posts(bag)) < MaxPushes)
    BY <1>2 DEF Sent
  <1> QED BY <1>1, <1>2

LEMMA NothingSent == Bounded(EmptyBag)
  <1>1. DOMAIN EmptyBag = {}
    BY DEF EmptyBag, SetToBag
  <1>2. Posts(EmptyBag) = {}
    BY <1>1, PostIs
  <1>3. IsFiniteSet({}) /\ Cardinality({}) = 0 /\ 0 <= MaxPushes
    BY FS_EmptySet, TaskAssumption
  <1> QED BY <1>1, <1>2, <1>3 DEF Bounded, Bag

\* What any step does to the POSTs.
LEMMA PushesBounded ==
    ASSUME Bounded(pushes), [Next]_vars
    PROVE  Bounded(pushes)'
  <1>1. CASE \E payload : pushes' = Sent(pushes, payload)
    BY <1>1, SentBounded
  <1>2. CASE \E first, second : pushes' = Sent(Sent(pushes, first), second)
    <2>1. PICK first, second : pushes' = Sent(Sent(pushes, first), second)
      BY <1>2
    <2>2. Bounded(Sent(pushes, first))
      BY SentBounded
    <2> QED BY <2>1, <2>2, SentBounded
  <1>3. CASE \E payload : pushes' = pushes (-) SetToBag({payload})
    BY <1>3, RemovedPost
  <1>4. CASE pushes' = EmptyBag
    BY <1>4, NothingSent
  <1>5. CASE UNCHANGED pushes
    BY <1>5
  <1>6. ASSUME Next
        PROVE  \/ \E payload : pushes' = Sent(pushes, payload)
               \/ \E first, second : pushes' = Sent(Sent(pushes, first), second)
               \/ \E payload : pushes' = pushes (-) SetToBag({payload})
               \/ pushes' = EmptyBag
               \/ UNCHANGED pushes
    <2>1. ASSUME NEW t \in Tasks, Submit(t) \/ Cancel(t)
          PROVE  (\E payload : pushes' = Sent(pushes, payload)) \/ UNCHANGED pushes
      BY <2>1 DEF Submit, Cancel, Publish
    <2>2. ASSUME NEW s \in Streams, NEW t \in Tasks, OpenStream(s, t)
          PROVE  \E payload : pushes' = Sent(pushes, payload)
      BY <2>2 DEF OpenStream, Publish
    <2>3. ASSUME NEW s \in Streams, NEW t \in Tasks, OpenRejected(s, t)
          PROVE  \E first, second : pushes' = Sent(Sent(pushes, first), second)
      BY <2>3 DEF OpenRejected
    <2>4. ASSUME NEW s \in Streams, StreamStep(s)
          PROVE  (\E payload : pushes' = Sent(pushes, payload)) \/ UNCHANGED pushes
      BY <2>4 DEF StreamStep, LoopErrs, FailedLoopEnds, LoopThrows, LoopConcludes, LoopEndsMute,
                  ForcedEnds, Succeed, Fail, Conclude, Publish
    <2>5. ASSUME HeartbeatPush
          PROVE  \E payload : pushes' = Sent(pushes, payload)
      BY <2>5 DEF HeartbeatPush
    <2>6. ASSUME NEW p, Deliver(p) \/ Lose(p)
          PROVE  \E payload : pushes' = pushes (-) SetToBag({payload})
      BY <2>6 DEF Deliver, Lose
    <2>7. TrimcChanges \/ Restart => pushes' = EmptyBag \/ UNCHANGED pushes
      BY DEF TrimcChanges, Restart
    <2> QED BY <1>6, <2>1, <2>2, <2>3, <2>4, <2>5, <2>6, <2>7 DEF Next
  <1> QED BY <1>1, <1>2, <1>3, <1>4, <1>5, <1>6 DEF vars

-----------------------------------------------------------------------------
(* The theorems.                                                           *)

LEMMA TaskInit == Init => StreamInv
  <1> SUFFICES ASSUME Init PROVE StreamInv
    OBVIOUS
  <1>1. ShapeOK
    <2>1. BagToSet(pushes) = {}
      BY DEF Init, BagToSet, EmptyBag, SetToBag
    <2>2. said \in [Streams -> Seq({"task_done", "task_error"})] /\ restarts \in 0..MaxRestarts
      BY TaskAssumption DEF Init
    <2> QED BY <2>1, <2>2 DEF Init, ShapeOK, Statuses
  <1>2. OpenHasTask /\ SaidByStage
    BY DEF Init, OpenHasTask, SaidByStage, Open
  <1>3. RunningIsStreamed /\ FinishedTasksAreClosed
    BY DEF Init, RunningIsStreamed, FinishedTasksAreClosed
  <1> QED BY <1>1, <1>2, <1>3 DEF StreamInv

LEMMA TaskAlways == Spec => []StreamInv
  <1>1. StreamInv /\ [Next]_vars => StreamInv'
    BY SubmitStep, CancelStep, OpenStep, RejectStep, StreamStepKeeps, MirrorStep, TaskRestartStep
       DEF Next
  <1> QED BY <1>1, TaskInit, PTL DEF Spec

\* The records of a task, the streams and the payloads keep their shapes:
\* every status has a name in the mirror.
THEOREM TaskShapeCorrect == Spec => []ShapeOK
  <1>1. StreamInv => ShapeOK
    BY DEF StreamInv
  <1> QED BY <1>1, TaskAlways, PTL

\* And no more POSTs are under way than the bound allows, however publications,
\* heartbeats, answers and restarts alternate.
THEOREM TaskTypeCorrect == Spec => []TypeOK
  <1>1. Init => Bounded(pushes)
    BY NothingSent DEF Init
  <1>2. Bounded(pushes) /\ [Next]_vars => Bounded(pushes)'
    BY PushesBounded
  <1>3. StreamInv /\ Bounded(pushes) => TypeOK
    BY DEF StreamInv, Bounded, TypeOK
  <1> QED BY <1>1, <1>2, <1>3, TaskAlways, PTL DEF Spec

\* A stream ends with a word, and task_done is its only one, for any number of
\* streams on the same task.
THEOREM StreamsEndOnce == Spec => []OneOutcomePerStream
  <1>1. StreamInv => OneOutcomePerStream
    <2> SUFFICES ASSUME StreamInv, NEW s \in Streams
                 PROVE  /\ \A i \in DOMAIN said[s] : said[s][i] = "task_done" => Len(said[s]) = 1
                        /\ ~Open(s) /\ of[s] # NoTask => said[s] # <<>>
                        /\ at[s] \in {"looping", "forcing"} => said[s] = <<>>
      BY DEF OneOutcomePerStream
    <2>1. said[s] \in {<<>>, <<"task_done">>, <<"task_error">>, <<"task_error", "task_error">>}
      BY DEF StreamInv, ShapeOK, SaidByStage
    <2>2. \A i \in DOMAIN said[s] : said[s][i] = "task_done" => Len(said[s]) = 1
      <3>1. CASE said[s] = <<>>
        BY <3>1
      <3>2. CASE said[s] \in {<<"task_done">>, <<"task_error">>}
        BY <3>2
      <3>3. CASE said[s] = <<"task_error", "task_error">>
        BY <3>3
      <3> QED BY <2>1, <3>1, <3>2, <3>3
    <2>3. /\ ~Open(s) /\ of[s] # NoTask => said[s] # <<>>
          /\ at[s] \in {"looping", "forcing"} => said[s] = <<>>
      BY DEF StreamInv, SaidByStage, Open
    <2> QED BY <2>2, <2>3
  <1> QED BY <1>1, TaskAlways, PTL

\* A task that says running has an agent loop at work, whatever streams on it
\* overlap, fail or are cancelled.
THEOREM RunningTasksAreStreamed == Spec => []RunningIsStreamed
  <1>1. StreamInv => RunningIsStreamed
    BY DEF StreamInv
  <1> QED BY <1>1, TaskAlways, PTL

\* While the process lives, no row stays active once its task has ended and
\* its streams are closed.
THEOREM FinishedRowsAreClosed == Spec => []FinishedTasksAreClosed
  <1>1. StreamInv => FinishedTasksAreClosed
    BY DEF StreamInv
  <1> QED BY <1>1, TaskAlways, PTL

=============================================================================
