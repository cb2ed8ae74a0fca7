---------------------------- MODULE MessageStream ----------------------------
(***************************************************************************)
(* What a client of POST /v1/messages may rely on: a message is a growing  *)
(* sequence of server-sent events that is well formed at every moment and  *)
(* in the end complete. AgentStream implements it.                         *)
(***************************************************************************)
EXTENDS Integers, Sequences, SequencesExt

VARIABLE out          \* the events sent so far

Indices(s, type) == {i \in DOMAIN s : s[i].type = type}
Before(s, i, type) == {j \in Indices(s, type) : j < i}

\* The block that is open before position i, if any: one that has started and
\* not stopped.
OpenAt(s, i) ==
    {s[j].index : j \in Before(s, i, "content_block_start")}
        \ {s[j].index : j \in Before(s, i, "content_block_stop")}

Opened(s) == \A i \in DOMAIN s : (s[i].type = "message_start") <=> (i = 1)

\* One block at a time, numbered without gaps; what is inside names it.
BlocksNest(s) ==
    /\ \A i \in Indices(s, "content_block_start") :
          /\ OpenAt(s, i) = {}
          /\ {s[j].index : j \in Before(s, i, "content_block_start")} = 0..(s[i].index - 1)
    /\ \A i \in Indices(s, "content_block_delta") \cup Indices(s, "content_block_stop") :
          OpenAt(s, i) = {s[i].index}

\* The end comes once, with every block closed, and nothing follows it.
Closed(s) ==
    /\ \A i \in Indices(s, "message_delta") : OpenAt(s, i) = {} /\ i + 1 >= Len(s)
    /\ \A i \in Indices(s, "message_stop") : i = Len(s) /\ s[i - 1].type = "message_delta"

WellFormed(s) == Opened(s) /\ BlocksNest(s) /\ Closed(s)

Complete(s) == s # <<>> /\ Last(s).type = "message_stop"

Init == out = <<>>

Send == IsPrefix(out, out') /\ WellFormed(out')

Safe == Init /\ [][Send]_out

Spec == Safe /\ <>Complete(out)
=============================================================================
