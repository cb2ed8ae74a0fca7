----------------------------- MODULE TaskStream -----------------------------
(***************************************************************************)
(* Submitted tasks: POST tasks/submit registers one, GET .../stream runs   *)
(* it and streams the agent loop's events, POST .../cancel marks it, and   *)
(* every change is pushed to TriMC's mirror (src/src/server/app.ts and     *)
(* src/src/mirror/pusher.ts).                                              *)
(*                                                                         *)
(* A task has two records: its entry in the taskStreams Map, lost with the *)
(* process, and its row in sessions.db. A stream is one GET request; its   *)
(* handler is suspended while it waits for the agent loop's next event or  *)
(* for the forced conclusion. Events that only report progress change      *)
(* nothing here. A client that goes away changes nothing: the handler      *)
(* writes on and the loop runs to its end. The agent loop and TriMC are    *)
(* external. A push is an unordered POST that nobody waits for. The        *)
(* endpoint that compacts a stored session is left out.                    *)
(***************************************************************************)
EXTENDS Naturals, Sequences, FiniteSets, Bags

CONSTANTS
    Tasks,            \* session ids
    Streams,          \* slots for stream requests that are being handled
    MaxPushes,        \* bound: pushes in flight; one more gets lost
    MaxRestarts,      \* bound: process restarts
    NoTask

ASSUME TaskAssumption ==
    /\ NoTask \notin Tasks
    /\ MaxPushes \in Nat \ {0} /\ MaxRestarts \in Nat

VARIABLES
    entry,            \* status in taskStreams, "none" without an entry
    stored,           \* sessions.status, "none" without a row
    of,               \* the task each stream was last opened on
    at,               \* where its handler is suspended
    said,             \* the terminal events the stream has written
    pushes,           \* bag of mirror payloads in flight
    mirror,           \* TriMC's view, last payload wins
    up,               \* TriMC answers
    restarts

streamVars == <<of, at, said>>
vars == <<entry, stored, streamVars, pushes, mirror, up, restarts>>

Live == {"pending", "running"}
Terminal == {"done", "error", "cancelled"}
Statuses == {"none"} \cup Live \cup Terminal
Mirrored == {"pending", "running", "success", "failed", "cancelled"}

Open(s) == at[s] # "closed"
OpenOn(t) == {s \in Streams : Open(s) /\ of[s] = t}

\* A variant that leaves the translation of an outcome out.
MapStatusAsIs(status) == status

\* mapStreamStatus.
MapStatus(status) ==
    CASE status = "done" -> "success"
      [] status = "error" -> "failed"
      [] OTHER -> status

\* getActiveSnapshots: the entries, and the unfinished sessions without one.
Snapshots ==
    [t \in {u \in Tasks : entry[u] # "none" \/ stored[u] \in {"active", "interrupted"}} |->
        IF entry[t] # "none" THEN MapStatus(entry[t])
        ELSE IF stored[t] = "interrupted" THEN "failed" ELSE "running"]

ShapeOK ==
    /\ entry \in [Tasks -> Statuses]
    /\ stored \in [Tasks -> {"none", "active", "completed", "interrupted", "error"}]
    /\ of \in [Streams -> Tasks \cup {NoTask}]
    /\ at \in [Streams -> {"closed", "looping", "failed", "forcing"}]
    /\ said \in [Streams -> Seq({"task_done", "task_error"})]
    /\ \A p \in BagToSet(pushes) : DOMAIN p \subseteq Tasks /\ \A t \in DOMAIN p : p[t] \in Mirrored
    /\ mirror \in [Tasks -> Mirrored \cup {"none"}]
    /\ up \in BOOLEAN
    /\ restarts \in 0..MaxRestarts

\* The POSTs under way: the copies of each payload, numbered.
Posts(bag) == UNION {{p} \X (1..bag[p]) : p \in BagToSet(bag)}

TypeOK == ShapeOK /\ Cardinality(Posts(pushes)) <= MaxPushes

Init ==
    /\ entry = [t \in Tasks |-> "none"]
    /\ stored = [t \in Tasks |-> "none"]
    /\ of = [s \in Streams |-> NoTask]
    /\ at = [s \in Streams |-> "closed"]
    /\ said = [s \in Streams |-> <<>>]
    /\ pushes = EmptyBag
    /\ mirror = [t \in Tasks |-> "none"]
    /\ up \in BOOLEAN
    /\ restarts = 0

-----------------------------------------------------------------------------
(* Pushes.                                                                 *)

Sent(bag, payload) ==
    IF Cardinality(Posts(bag)) < MaxPushes THEN bag (+) SetToBag({payload}) ELSE bag

\* publish(task:...) reaches the pusher before it returns: one task's snapshot.
Publish(t, status) == pushes' = Sent(pushes, [u \in {t} |-> MapStatus(status)])

\* heartbeatPush, every 30 s and at a recovery.
HeartbeatPush ==
    /\ Snapshots # [t \in {} |-> "pending"]
    /\ pushes' = Sent(pushes, Snapshots)
    /\ UNCHANGED <<entry, stored, streamVars, mirror, up, restarts>>

\* A variant of the mirror that takes a task's first terminal status for good.
DeliverFirst(p) ==
    /\ up
    /\ BagIn(p, pushes)
    /\ pushes' = pushes (-) SetToBag({p})
    /\ mirror' = [t \in Tasks |-> IF t \in DOMAIN p /\ mirror[t] \notin {"success", "failed", "cancelled"}
                                  THEN p[t] ELSE mirror[t]]
    /\ UNCHANGED <<entry, stored, streamVars, up, restarts>>

Deliver(p) ==
    /\ up
    /\ BagIn(p, pushes)
    /\ pushes' = pushes (-) SetToBag({p})
    /\ mirror' = [t \in Tasks |-> IF t \in DOMAIN p THEN p[t] ELSE mirror[t]]
    /\ UNCHANGED <<entry, stored, streamVars, up, restarts>>

\* The POST fails or times out: nobody repeats it.
Lose(p) ==
    /\ ~up
    /\ BagIn(p, pushes)
    /\ pushes' = pushes (-) SetToBag({p})
    /\ UNCHANGED <<entry, stored, streamVars, mirror, up, restarts>>

-----------------------------------------------------------------------------
(* Requests.                                                               *)

Submit(t) ==
    /\ entry[t] = "none" /\ stored[t] = "none"
    /\ entry' = [entry EXCEPT ![t] = "pending"]
    /\ Publish(t, "pending")
    /\ stored' = [stored EXCEPT ![t] = "active"]
    /\ UNCHANGED <<streamVars, mirror, up, restarts>>

\* GET .../stream on a task in any state starts an agent loop for it.
OpenStream(s, t) ==
    /\ at[s] = "closed"
    /\ entry[t] # "none"
    /\ of' = [of EXCEPT ![s] = t]
    /\ at' = [at EXCEPT ![s] = "looping"]
    /\ said' = [said EXCEPT ![s] = <<>>]
    /\ entry' = [entry EXCEPT ![t] = "running"]
    /\ Publish(t, "running")
    /\ UNCHANGED <<stored, mirror, up, restarts>>

\* The model is not in the registry: running and failed in one go.
OpenRejected(s, t) ==
    /\ at[s] = "closed"
    /\ entry[t] # "none"
    /\ of' = [of EXCEPT ![s] = t]
    /\ said' = [said EXCEPT ![s] = <<"task_error">>]
    /\ entry' = [entry EXCEPT ![t] = "error"]
    /\ pushes' = Sent(Sent(pushes, [u \in {t} |-> "running"]), [u \in {t} |-> "failed"])
    /\ stored' = [stored EXCEPT ![t] = "error"]
    /\ UNCHANGED <<at, mirror, up, restarts>>

\* The stream says its last word and the outcome is recorded everywhere.
Conclude(s, word, status, row) ==
    /\ at' = [at EXCEPT ![s] = "closed"]
    /\ said' = [said EXCEPT ![s] = Append(@, word)]
    /\ entry' = [entry EXCEPT ![of[s]] = status]
    /\ Publish(of[s], status)
    /\ stored' = [stored EXCEPT ![of[s]] = row]
    /\ UNCHANGED <<of, mirror, up, restarts>>

Succeed(s) == Conclude(s, "task_done", "done", "completed")
Fail(s) == Conclude(s, "task_error", "error", "error")

\* An 'error' event of the agent loop. The handler goes on to the next event.
LoopErrs(s) ==
    /\ at[s] = "looping"
    /\ at' = [at EXCEPT ![s] = "failed"]
    /\ said' = [said EXCEPT ![s] = Append(@, "task_error")]
    /\ entry' = [entry EXCEPT ![of[s]] = "error"]
    /\ Publish(of[s], "error")
    /\ UNCHANGED <<stored, of, mirror, up, restarts>>

\* A variant that forgets the error once the loop is over.
FailedLoopEndsWell(s) ==
    /\ at[s] = "failed"
    /\ Succeed(s)

\* A variant that leaves the session's row alone.
FailedLoopEndsUnsaved(s) ==
    /\ at[s] = "failed"
    /\ at' = [at EXCEPT ![s] = "closed"]
    /\ UNCHANGED <<stored, entry, of, said, pushes, mirror, up, restarts>>

\* After the error: the next event, or the loop's end, ends the stream.
FailedLoopEnds(s) ==
    /\ at[s] = "failed"
    /\ at' = [at EXCEPT ![s] = "closed"]
    /\ stored' = [stored EXCEPT ![of[s]] = "error"]
    /\ UNCHANGED <<entry, of, said, pushes, mirror, up, restarts>>

\* The agent loop throws.
LoopThrows(s) ==
    /\ at[s] \in {"looping", "failed"}
    /\ Fail(s)

\* The loop ends with a conclusion for the user ...
LoopConcludes(s) ==
    /\ at[s] = "looping"
    /\ Succeed(s)

\* ... or without one: the model is asked for it, for 60 s at most.
LoopEndsMute(s) ==
    /\ at[s] = "looping"
    /\ at' = [at EXCEPT ![s] = "forcing"]
    /\ UNCHANGED <<entry, stored, of, said, pushes, mirror, up, restarts>>

\* A variant that ends the stream without a word when nothing was produced.
ForcedEndsMute(s) ==
    /\ at[s] = "forcing"
    /\ \/ Succeed(s)
       \/ /\ at' = [at EXCEPT ![s] = "closed"]
          /\ UNCHANGED <<entry, stored, of, said, pushes, mirror, up, restarts>>

ForcedEnds(s) ==
    /\ at[s] = "forcing"
    /\ Succeed(s) \/ Fail(s)

\* POST .../cancel: the entry if it is not finished, the row in any case. The
\* stream's handler is not told.
Cancel(t) ==
    /\ stored[t] # "none"
    /\ stored' = [stored EXCEPT ![t] = "interrupted"]
    /\ \/ /\ entry[t] \in Live
          /\ entry' = [entry EXCEPT ![t] = "cancelled"]
          /\ Publish(t, "cancelled")
       \/ entry[t] \notin Live /\ UNCHANGED <<entry, pushes>>
    /\ UNCHANGED <<streamVars, mirror, up, restarts>>

-----------------------------------------------------------------------------

TrimcChanges ==
    /\ up' = ~up
    /\ UNCHANGED <<entry, stored, streamVars, pushes, mirror, restarts>>

\* The process dies: the Map, the streams and the pushes die with it.
Restart ==
    /\ restarts < MaxRestarts
    /\ restarts' = restarts + 1
    /\ entry' = [t \in Tasks |-> "none"]
    /\ of' = [s \in Streams |-> NoTask]
    /\ at' = [s \in Streams |-> "closed"]
    /\ said' = [s \in Streams |-> <<>>]
    /\ pushes' = EmptyBag
    /\ UNCHANGED <<stored, mirror, up>>

StreamStep(s) ==
    \/ LoopErrs(s)
    \/ FailedLoopEnds(s)
    \/ LoopThrows(s)
    \/ LoopConcludes(s)
    \/ LoopEndsMute(s)
    \/ ForcedEnds(s)

Payloads == UNION {[S -> Mirrored] : S \in SUBSET Tasks \ {{}}}

Next ==
    \/ \E t \in Tasks : Submit(t) \/ Cancel(t)
    \/ \E s \in Streams, t \in Tasks : OpenStream(s, t) \/ OpenRejected(s, t)
    \/ \E s \in Streams : StreamStep(s)
    \/ HeartbeatPush
    \/ \E p \in BagToSet(pushes) : Deliver(p) \/ Lose(p)
    \/ TrimcChanges
    \/ Restart

\* An agent loop ends (maxTurns), the 30 s interval fires and a POST is
\* answered or times out.
Fairness ==
    /\ \A s \in Streams : WF_vars(StreamStep(s))
    /\ WF_vars(HeartbeatPush)
    /\ \A p \in Payloads : WF_vars(Deliver(p) \/ Lose(p))

Spec == Init /\ [][Next]_vars
FairSpec == Spec /\ Fairness

-----------------------------------------------------------------------------
(* Properties.                                                             *)

\* app.ts 3474, "never send task_done after task_error", and the guard against
\* pseudo success (3652): a stream that has ended said how, task_done at most
\* once and never together with an error.
OneOutcomePerStream ==
    \A s \in Streams :
        /\ \A i \in DOMAIN said[s] : said[s][i] = "task_done" => Len(said[s]) = 1
        /\ ~Open(s) /\ of[s] # NoTask => said[s] # <<>>
        /\ at[s] \in {"looping", "forcing"} => said[s] = <<>>

\* A task that is reported running (healthz activeTasks, the mirror) has an
\* agent loop at work, also when streams on the same task overlap or are
\* cancelled: nothing is left that looks busy for ever.
RunningIsStreamed ==
    \A t \in Tasks : entry[t] = "running" =>
        \E s \in OpenOn(t) : at[s] \in {"looping", "forcing"}

\* session-store/store.ts 11, "Interrupted sessions detected via
\* status='active'": as long as the process lives, the row of a task is active
\* only while the task is pending or one of its streams is open.
FinishedTasksAreClosed ==
    \A t \in Tasks : stored[t] = "active" /\ entry[t] # "none" =>
        entry[t] = "pending" \/ OpenOn(t) # {}

\* pusher.ts 1-3 and 57: pushes get lost and overtake each other, but once
\* TriMC stays reachable and no stream is open or tried any more, the mirror
\* settles on the state of every task of the process.
MirrorConverges ==
    /\ <>[](up /\ \A s \in Streams : ~Open(s))
    /\ <>[][~\E s \in Streams, t \in Tasks : OpenRejected(s, t)]_vars
    => <>[](\A t \in Tasks : entry[t] # "none" => mirror[t] = MapStatus(entry[t]))

\* app.ts 3772, "Marks session as cancelled and aborts SSE stream": a
\* cancelled task does not become anything else unless its stream is requested
\* once more.
CancelSticks ==
    [][\A t \in Tasks : entry[t] = "cancelled" =>
          \/ entry'[t] = "cancelled"
          \/ \E s \in Streams : OpenStream(s, t) \/ OpenRejected(s, t)
          \/ Restart]_vars
=============================================================================
