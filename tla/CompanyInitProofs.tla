------------------------- MODULE CompanyInitProofs -------------------------
(***************************************************************************)
(* Theorems about CompanyInit, for any number of requests, worktrees,      *)
(* faults, crashes and resets. Types and stages are kept whatever overlaps *)
(* and fails; the skeleton asks for a reset that is not disturbed.         *)
(***************************************************************************)
EXTENDS CompanyInit, TLAPS

-----------------------------------------------------------------------------
(* What may be in flight.                                                  *)

\* Where a request of each operation can be, and what it may go on to.
Fits(r) ==
    /\ r.op = "none" <=> r.at = "none"
    /\ r.at = "probe" => r.op = "selfcheck"
    /\ r.at = "prewrite" => r.op = "assemble"
    /\ r.at \in {"save", "saving"} => r.op \in {"assemble", "progress"}
    /\ r.at \in {"tree", "unlink"} => r.op = "link"
    /\ r.at \in {"register", "remove"} => r.op \in {"link", "claim"}
    /\ r.at \in {"collect", "push"} => r.op = "sync"
    /\ r.at = "check" => r.op = "confirm"
    /\ r.at = "enter" => r.op = "assemble"
    /\ r.at = "wipe" => r.op = "reset"
    /\ r.op = "reset" => r.at \in {"wipe", "write", "rename"} /\ r.saves = "none"
    /\ r.op = "progress" => r.at \in {"save", "saving"}
    /\ r.at # "wipe" => \/ r.then = "none"
                        \/ r.then = "onboarding" /\ r.op = "selfcheck"
                        \/ r.then \in {"collect", "confirm"} /\ r.op = "sync"
                        \/ r.then = "ready" /\ r.op = "confirm"

Placed(c) == Fits(call[c]) /\ (call[c].op = "none" => call[c] = Idle)

\* The operations no flag of a module refuses a second time.
Repeatable == {"progress", "claim", "collab", "reset"}

Compatible ==
    \A c, d \in Calls : c # d /\ call[c] # Idle /\ call[d] # Idle =>
        /\ {call[c].op, call[d].op} \in Overlap
        /\ call[c].op # call[d].op \/ call[c].op \in Repeatable

CallsTyped ==
    /\ call \in [Calls -> Requests]
    /\ \A c \in Calls : Placed(c)
    /\ Compatible

DataTyped ==
    /\ cache \in Frames /\ disk \in Frames
    /\ \A f \in tmp : f \in Frames
    /\ company \in {"none", "torn", "open"} /\ companyCache \in {"none", "open"}
    /\ files \in SUBSET Targets
    /\ reg \in Registries /\ regCache \in Registries
    /\ trees \in SUBSET Trees
    /\ cloned \in BOOLEAN
    /\ bundle \in Bundles /\ pushed \in Bundles /\ applied \in Bundles
    /\ line \in {"shared", "left", "foreign"}

\* The inductive invariant of all the rest.
RequestInv == CallsTyped /\ DataTyped /\ extras \in 0..MaxExtras

-----------------------------------------------------------------------------
(* Types of frames and requests.                                           *)

Nexts == {"none", "collect", "onboarding", "confirm", "ready"}

LEMMA StageNames == {"uninitialized", "selfcheck", "onboarding", "link", "sync", "confirm", "ready"} = Stages
  BY DEF Stages, Transitions

LEMMA FrameUpdates ==
    ASSUME NEW f \in Frames
    PROVE  /\ \A n \in Nat : [f EXCEPT !.seq = n] \in Frames
           /\ \A s \in Stages : [f EXCEPT !.state = s] \in Frames
           /\ \A s \in {"none", "pass", "blocked"} : [f EXCEPT !.check = s] \in Frames
           /\ \A s \in SUBSET Trees : [f EXCEPT !.link = s] \in Frames
           /\ \A s \in {"pending", "failed", "pushed"} : [f EXCEPT !.sync = s] \in Frames
           /\ [f EXCEPT !.confirmed = TRUE] \in Frames
           /\ f.collab < 2 => [f EXCEPT !.collab = @ + 1] \in Frames
           /\ f.seq + 1 \in Nat
           /\ f.state \in Stages
  <1>1. /\ \A n \in Nat : [f EXCEPT !.seq = n] \in Frames
        /\ \A s \in Stages : [f EXCEPT !.state = s] \in Frames
    BY DEF Frames
  <1>2. /\ \A s \in {"none", "pass", "blocked"} : [f EXCEPT !.check = s] \in Frames
        /\ \A s \in SUBSET Trees : [f EXCEPT !.link = s] \in Frames
    BY DEF Frames
  <1>3. /\ \A s \in {"pending", "failed", "pushed"} : [f EXCEPT !.sync = s] \in Frames
        /\ [f EXCEPT !.confirmed = TRUE] \in Frames
    BY DEF Frames
  <1>4. f.collab < 2 => [f EXCEPT !.collab = @ + 1] \in Frames
    <2>1. \A n \in 0..2 : [f EXCEPT !.collab = n] \in Frames
      BY DEF Frames
    <2>2. f.collab \in 0..2 /\ (f.collab < 2 => f.collab + 1 \in 0..2)
      BY DEF Frames
    <2> QED BY <2>1, <2>2
  <1>5. f.seq + 1 \in Nat /\ f.state \in Stages
    BY DEF Frames
  <1> QED BY <1>1, <1>2, <1>3, <1>4, <1>5

LEMMA DefaultType == DefaultFrame \in Frames /\ Idle \in Requests
  <1>1. "uninitialized" \in Stages
    BY DEF Stages, Transitions
  <1>2. DefaultFrame \in Frames
    BY <1>1 DEF DefaultFrame, Frames
  <1> QED BY <1>2 DEF Idle, Requests

LEMMA BeginType ==
    ASSUME NEW op \in Operations, NEW at \in {"enter", "probe", "prewrite", "save", "register", "tree",
                                             "collect", "check", "write", "wipe"}
    PROVE  /\ Begin(op, at) \in Requests
           /\ Begin(op, at).at = at /\ Begin(op, at).op = op /\ Begin(op, at).then = "none"
           /\ Begin(op, at).tree = {} /\ Begin(op, at).saves = "none"
           /\ Begin(op, at).frame = DefaultFrame /\ Begin(op, at).mine = {}
  BY DefaultType DEF Begin, Idle, Requests

\* The frame persist writes.
Numbered(f) == [f EXCEPT !.seq = @ + 1]

LEMMA PersistingType ==
    ASSUME NEW r \in Requests, NEW f \in Frames, NEW then \in Nexts,
           NEW q, q = Persisting(r, f, then)
    PROVE  /\ q \in Requests
           /\ q.at = "write" /\ q.then = then /\ q.op = r.op
           /\ q.frame = Numbered(f)
           /\ q.tree = r.tree /\ q.mine = r.mine /\ q.saves = r.saves
  <1>1. Numbered(f) \in Frames
    <2>1. PICK n \in Nat : n = f.seq + 1
      BY FrameUpdates
    <2>2. [f EXCEPT !.seq = @ + 1] = [f EXCEPT !.seq = n]
      BY <2>1
    <2> QED BY <2>1, <2>2, FrameUpdates DEF Numbered
  <1>2. q = [r EXCEPT !.at = "write", !.frame = Numbered(f), !.then = then]
    BY DEF Persisting, Numbered
  <1> QED BY <1>1, <1>2 DEF Requests, Nexts

\* A request that begins at a given place.
Starting(op, at, t, s) == [Begin(op, at) EXCEPT !.tree = t, !.saves = s]

LEMMA StartingIs ==
    ASSUME NEW op \in Operations,
           NEW at \in {"probe", "prewrite", "save", "register", "tree", "collect", "check", "enter"},
           NEW t \in SUBSET Trees, NEW s \in {"none", "open"}, NEW r, r = Starting(op, at, t, s)
    PROVE  /\ r \in Requests /\ r.at = at /\ r.op = op /\ r.then = "none"
           /\ r.tree = t /\ r.saves = s /\ r.frame = DefaultFrame /\ r.mine = {}
  <1>1. PICK b : b = Begin(op, at)
    OBVIOUS
  <1>2. b \in Requests /\ b.at = at /\ b.op = op /\ b.then = "none" /\ b.frame = DefaultFrame /\ b.mine = {}
    BY <1>1, BeginType
  <1>3. r = [b EXCEPT !.tree = t, !.saves = s]
    BY <1>1 DEF Starting
  <1> QED BY <1>2, <1>3 DEF Requests

LEMMA BeginIsStarting ==
    ASSUME NEW op \in Operations,
           NEW at \in {"probe", "prewrite", "save", "register", "tree", "collect", "check", "enter"}
    PROVE  Begin(op, at) = Starting(op, at, {}, "none")
  <1>1. PICK b : b = Begin(op, at)
    OBVIOUS
  <1>2. b \in Requests /\ b.tree = {} /\ b.saves = "none"
    BY <1>1, BeginType
  <1>3. b = [b EXCEPT !.tree = {}, !.saves = "none"]
    BY <1>2 DEF Requests
  <1> QED BY <1>1, <1>3 DEF Starting

LEMMA TreeIsStarting ==
    ASSUME NEW op \in Operations, NEW at \in {"register", "tree"}, NEW t \in Trees,
           NEW r, r = [Begin(op, at) EXCEPT !.tree = {t}]
    PROVE  r = Starting(op, at, {t}, "none")
  <1>1. PICK b : b = Begin(op, at)
    OBVIOUS
  <1>2. b \in Requests /\ b.saves = "none"
    BY <1>1, BeginType
  <1>3. [b EXCEPT !.tree = {t}] = [b EXCEPT !.tree = {t}, !.saves = "none"]
    BY <1>2 DEF Requests
  <1> QED BY <1>1, <1>3 DEF Starting

LEMMA SavesIsStarting ==
    ASSUME NEW op \in Operations, NEW s \in {"none", "open"}, NEW r, r = [Begin(op, "save") EXCEPT !.saves = s]
    PROVE  r = Starting(op, "save", {}, s)
  <1>1. PICK b : b = Begin(op, "save")
    OBVIOUS
  <1>2. b \in Requests /\ b.tree = {}
    BY <1>1, BeginType
  <1>3. [b EXCEPT !.saves = s] = [b EXCEPT !.tree = {}, !.saves = s]
    BY <1>2 DEF Requests
  <1> QED BY <1>1, <1>3 DEF Starting

LEMMA ExtrasType == ASSUME extras \in 0..MaxExtras, UNCHANGED extras \/ Extra PROVE extras' \in 0..MaxExtras
  BY SetupAssumption DEF Extra

-----------------------------------------------------------------------------
(* What a step does to the request that takes it.                          *)

Only(c) == call' \in [Calls -> Requests] /\ \A d \in Calls \ {c} : call'[d] = call[d]

Ended(c) == Only(c) /\ call'[c] = Idle

\* It goes on with what it had.
Stays(c) ==
    /\ Only(c)
    /\ call'[c].op = call[c].op /\ call'[c].tree = call[c].tree
    /\ call'[c].mine = call[c].mine /\ call'[c].saves = call[c].saves

Moved(c, at) ==
    /\ Stays(c)
    /\ call'[c].at = at /\ call'[c].then = call[c].then /\ call'[c].frame = call[c].frame

Thrown(c) ==
    \/ Moved(c, "unlink") /\ call[c].op = "link"
    \/ Ended(c) /\ call[c].op # "link"

\* It is about to write a frame that follows on f.
Wrote(c, f, then) ==
    /\ Stays(c)
    /\ call'[c].at = "write" /\ call'[c].then = then /\ call'[c].frame = Numbered(f)

Begun(c, op, at, t, s) ==
    /\ Only(c)
    /\ call'[c].op = op /\ call'[c].at = at /\ call'[c].then = "none"
    /\ call'[c].tree = t /\ call'[c].mine = {} /\ call'[c].saves = s

\* A request whose first step is the chain file.
BegunWriting(c, op, f, then) ==
    /\ Only(c)
    /\ call'[c].op = op /\ call'[c].at = "write" /\ call'[c].then = then
    /\ call'[c].mine = {} /\ call'[c].saves = "none" /\ call'[c].frame = Numbered(f)

LEMMA GoesTo ==
    ASSUME RequestInv, NEW c \in Calls, NEW r \in Requests, Goes(c, r)
    PROVE  Only(c) /\ call'[c] = r
  BY DEF RequestInv, CallsTyped, Goes, Only

LEMMA EndsIs == ASSUME RequestInv, NEW c \in Calls, Ends(c) PROVE Ended(c)
  <1>1. PICK r \in Requests : r = Idle
    BY DefaultType
  <1> QED BY <1>1, GoesTo DEF Ends, Ended

At(c, at) == [call[c] EXCEPT !.at = at]

LEMMA MovedIs ==
    ASSUME RequestInv, NEW c \in Calls,
           NEW at \in {"write", "rename", "verify", "save", "saving", "enter", "register",
                       "unlink", "remove", "collect", "push"},
           Goes(c, At(c, at))
    PROVE  Moved(c, at)
  <1>1. PICK q : q = At(c, at)
    OBVIOUS
  <1>2. call[c] \in Requests
    BY DEF RequestInv, CallsTyped
  <1>3. /\ q \in Requests /\ q.at = at /\ q.op = call[c].op /\ q.then = call[c].then
        /\ q.frame = call[c].frame /\ q.tree = call[c].tree /\ q.mine = call[c].mine
        /\ q.saves = call[c].saves
    BY <1>1, <1>2 DEF Requests, At
  <1>4. Goes(c, q)
    BY <1>1
  <1> QED BY <1>3, <1>4, GoesTo DEF Moved, Stays

LEMMA ThrowsIs == ASSUME RequestInv, NEW c \in Calls, Throws(c) PROVE Thrown(c)
  <1>1. CASE call[c].op = "link"
    <2>1. Goes(c, At(c, "unlink"))
      BY <1>1 DEF Throws, At
    <2> QED BY <1>1, <2>1, MovedIs DEF Thrown
  <1>2. CASE call[c].op # "link"
    BY <1>2, EndsIs DEF Throws, Thrown
  <1> QED BY <1>1, <1>2

LEMMA WroteIs ==
    ASSUME RequestInv, NEW c \in Calls, NEW f \in Frames, NEW then \in Nexts,
           Goes(c, Persisting(call[c], f, then))
    PROVE  Wrote(c, f, then)
  <1>1. PICK q : q = Persisting(call[c], f, then)
    OBVIOUS
  <1>2. call[c] \in Requests
    BY DEF RequestInv, CallsTyped
  <1>3. /\ q \in Requests /\ q.at = "write" /\ q.then = then /\ q.op = call[c].op
        /\ q.frame = Numbered(f) /\ q.tree = call[c].tree /\ q.mine = call[c].mine
        /\ q.saves = call[c].saves
    BY <1>1, <1>2, PersistingType
  <1>4. Goes(c, q)
    BY <1>1
  <1> QED BY <1>3, <1>4, GoesTo DEF Wrote, Stays

LEMMA BegunIs ==
    ASSUME RequestInv, NEW c \in Calls, NEW op \in Operations,
           NEW at \in {"probe", "prewrite", "save", "register", "tree", "collect", "check", "enter"},
           NEW t \in SUBSET Trees, NEW s \in {"none", "open"}, Goes(c, Starting(op, at, t, s))
    PROVE  Begun(c, op, at, t, s)
  <1>1. PICK r : r = Starting(op, at, t, s)
    OBVIOUS
  <1>2. /\ r \in Requests /\ r.at = at /\ r.op = op /\ r.then = "none"
        /\ r.tree = t /\ r.mine = {} /\ r.saves = s
    BY <1>1, StartingIs
  <1>3. Goes(c, r)
    BY <1>1
  <1> QED BY <1>2, <1>3, GoesTo DEF Begun

LEMMA BegunWritingIs ==
    ASSUME RequestInv, NEW c \in Calls, NEW op \in Operations, NEW at \in {"enter", "write", "collect"},
           NEW f \in Frames, NEW then \in Nexts,
           Goes(c, Persisting(Begin(op, at), f, then))
    PROVE  BegunWriting(c, op, f, then)
  <1>1. PICK b \in Requests : b = Begin(op, at)
    BY BeginType
  <1>2. b.op = op /\ b.mine = {} /\ b.saves = "none"
    BY <1>1, BeginType
  <1>3. PICK q : q = Persisting(b, f, then)
    OBVIOUS
  <1>4. /\ q \in Requests /\ q.at = "write" /\ q.then = then /\ q.op = b.op
        /\ q.frame = Numbered(f) /\ q.mine = b.mine /\ q.saves = b.saves
    BY <1>3, PersistingType
  <1>5. Goes(c, q)
    BY <1>1, <1>3
  <1> QED BY <1>2, <1>4, <1>5, GoesTo DEF BegunWriting

\* transitionTo, from a place in a request, on the frame f.
Entered(c, f, state) ==
    /\ Transitions[f.state] = state
    /\ Wrote(c, [f EXCEPT !.state = state], "none")

LEMMA EnteringIs ==
    ASSUME RequestInv, NEW c \in Calls, NEW f \in Frames, NEW state \in Stages,
           Entering(c, call[c], f, state)
    PROVE  Entered(c, f, state) \/ Ended(c)
  <1>1. CASE Transitions[f.state] = state
    <2>1. PICK g \in Frames : g = [f EXCEPT !.state = state]
      BY FrameUpdates
    <2>2. Goes(c, Persisting(call[c], g, "none"))
      BY <1>1, <2>1 DEF Entering
    <2>3. Wrote(c, g, "none")
      BY <2>2, WroteIs DEF Nexts
    <2> QED BY <1>1, <2>1, <2>3 DEF Entered
  <1>2. CASE Transitions[f.state] # state
    BY <1>2, EndsIs DEF Entering
  <1> QED BY <1>1, <1>2

\* The three ways in which what is in flight stays in order.
LEMMA CallsKept ==
    ASSUME RequestInv, NEW c \in Calls, Only(c), call[c].at # "none", call'[c].op = call[c].op,
           Fits(call'[c])
    PROVE  CallsTyped'
  <1>1. call[c].op # "none" /\ call[c] # Idle
    BY DEF RequestInv, CallsTyped, Placed, Fits, Idle
  <1>2. \A d \in Calls : Placed(d)'
    BY <1>1 DEF RequestInv, CallsTyped, Placed, Only
  <1>3. Compatible'
    BY <1>1 DEF RequestInv, CallsTyped, Compatible, Only
  <1> QED BY <1>2, <1>3 DEF CallsTyped, Only

LEMMA CallsEnded == ASSUME RequestInv, NEW c \in Calls, Ended(c) PROVE CallsTyped'
  <1>1. PICK r \in Requests : r = Idle /\ r.op = "none" /\ r.at = "none" /\ r.then = "none" /\ r.saves = "none"
    BY DefaultType DEF Idle
  <1>2. \A d \in Calls : Placed(d)'
    BY <1>1 DEF RequestInv, CallsTyped, Placed, Ended, Only, Fits
  <1>3. Compatible'
    BY <1>1 DEF RequestInv, CallsTyped, Compatible, Ended, Only
  <1> QED BY <1>2, <1>3 DEF CallsTyped, Ended, Only

LEMMA CallsBegun ==
    ASSUME RequestInv, NEW c \in Calls, NEW op \in Operations,
           MayBegin(c, op) \/ \A d \in Calls : call[d] = Idle,
           Only(c), call'[c].op = op, Fits(call'[c])
    PROVE  CallsTyped'
  <1>1. op # "none"
    BY DEF Operations
  <1>2. \A d \in Calls : Placed(d)'
    BY <1>1 DEF RequestInv, CallsTyped, Placed, Only
  <1>3. \A d \in Calls \ {c} : call[d] # Idle =>
           {op, call[d].op} \in Overlap /\ (op # call[d].op \/ op \in Repeatable)
    BY DEF MayBegin, Repeatable
  <1>4. Compatible'
    <2> SUFFICES ASSUME NEW d \in Calls, NEW e \in Calls, d # e, call'[d] # Idle, call'[e] # Idle
                 PROVE  /\ {call'[d].op, call'[e].op} \in Overlap
                        /\ call'[d].op # call'[e].op \/ call'[d].op \in Repeatable
      BY DEF Compatible
    <2>1. CASE d = c
      BY <1>3, <2>1 DEF Only
    <2>2. CASE e = c
      <3>1. {op, call[d].op} = {call[d].op, op}
        OBVIOUS
      <3> QED BY <1>3, <2>2, <3>1 DEF Only
    <2>3. CASE d # c /\ e # c
      BY <2>3 DEF Only, RequestInv, CallsTyped, Compatible
    <2> QED BY <2>1, <2>2, <2>3
  <1> QED BY <1>2, <1>4 DEF CallsTyped, Only

-----------------------------------------------------------------------------
(* Each action: what it does to its request, and that all keeps its type.  *)

\* What a failing write leaves of the tmp file.
TmpTorn == tmp' \in {tmp, {DefaultFrame}}

LEMMA WriteTmpStep ==
    ASSUME RequestInv, NEW c \in Calls, WriteTmp(c)
    PROVE  /\ RequestInv'
           /\ \/ Moved(c, "rename") /\ tmp' = {call[c].frame}
              \/ Thrown(c) /\ TmpTorn /\ ChainFault(c) \in Faults
  <1>1. /\ CallsTyped /\ DataTyped /\ extras \in 0..MaxExtras
        /\ call[c] \in Requests /\ Fits(call[c])
    BY DEF RequestInv, CallsTyped, Placed
  <1>2. \/ Moved(c, "rename") /\ tmp' = {call[c].frame}
        \/ Thrown(c) /\ TmpTorn /\ ChainFault(c) \in Faults
    <2>1. CASE Goes(c, [call[c] EXCEPT !.at = "rename"]) /\ tmp' = {call[c].frame}
      <3>1. Goes(c, At(c, "rename"))
        BY <2>1 DEF At
      <3> QED BY <2>1, <3>1, MovedIs
    <2>2. CASE Throws(c) /\ TmpTorn /\ ChainFault(c) \in Faults
      BY <2>2, ThrowsIs
    <2> QED BY <2>1, <2>2 DEF WriteTmp, Fault, TmpTorn
  <1>3. CallsTyped'
    <2>1. CASE Ended(c)
      BY <2>1, CallsEnded
    <2>2. CASE \E at \in {"rename", "unlink"} : Moved(c, at) /\ (at = "unlink" => call[c].op = "link")
      <3>1. Fits(call'[c])
        BY <1>1, <2>2 DEF WriteTmp, Moved, Stays, Fits
      <3> QED BY <2>2, <3>1, CallsKept DEF WriteTmp, Moved, Stays
    <2> QED BY <1>2, <2>1, <2>2 DEF Thrown
  <1>4. DataTyped'
    <2>1. call[c].frame \in Frames /\ DefaultFrame \in Frames
      BY <1>1, DefaultType DEF Requests
    <2> QED BY <1>1, <2>1 DEF WriteTmp, DataTyped, firm, project, bundles
  <1>5. extras' \in 0..MaxExtras
    BY <1>1, ExtrasType DEF WriteTmp, Fault
  <1> QED BY <1>2, <1>3, <1>4, <1>5 DEF RequestInv

LEMMA RenameTmpStep ==
    ASSUME RequestInv, NEW c \in Calls, RenameTmp(c)
    PROVE  /\ RequestInv'
           /\ \/ /\ disk' \in Renamed(c) /\ tmp' = {} /\ Moved(c, "verify") /\ call[c].op # "reset"
                 /\ UNCHANGED <<cache, companyCache>>
              \/ /\ disk' \in Renamed(c) /\ tmp' = {} /\ Ended(c) /\ call[c].op = "reset"
                 /\ cache' = call[c].frame /\ companyCache' = "none"
              \/ /\ Thrown(c) /\ (tmp = {} \/ ChainFault(c) \in Faults)
                 /\ UNCHANGED <<cache, disk, tmp, companyCache>>
  <1>1. /\ CallsTyped /\ DataTyped /\ extras \in 0..MaxExtras
        /\ call[c] \in Requests /\ Fits(call[c])
    BY DEF RequestInv, CallsTyped, Placed
  <1>2. \/ /\ disk' \in Renamed(c) /\ tmp' = {} /\ Moved(c, "verify") /\ call[c].op # "reset"
           /\ UNCHANGED <<cache, companyCache>>
        \/ /\ disk' \in Renamed(c) /\ tmp' = {} /\ Ended(c) /\ call[c].op = "reset"
           /\ cache' = call[c].frame /\ companyCache' = "none"
        \/ /\ Thrown(c) /\ (tmp = {} \/ ChainFault(c) \in Faults)
           /\ UNCHANGED <<cache, disk, tmp, companyCache>>
    <2>1. CASE /\ Goes(c, [call[c] EXCEPT !.at = "verify"]) /\ disk' \in Renamed(c) /\ tmp' = {}
               /\ call[c].op # "reset" /\ UNCHANGED <<cache, companyCache>>
      <3>1. Goes(c, At(c, "verify"))
        BY <2>1 DEF At
      <3>2. Moved(c, "verify")
        BY <3>1, MovedIs
      <3> QED BY <2>1, <3>2
    <2>2. CASE /\ Ends(c) /\ disk' \in Renamed(c) /\ tmp' = {} /\ call[c].op = "reset"
               /\ cache' = call[c].frame /\ companyCache' = "none"
      BY <2>2, EndsIs
    <2>3. CASE /\ Throws(c) /\ (tmp = {} \/ ChainFault(c) \in Faults)
               /\ UNCHANGED <<cache, disk, tmp, companyCache>>
      BY <2>3, ThrowsIs
    <2> QED BY <2>1, <2>2, <2>3 DEF RenameTmp, Fault
  <1>3. CallsTyped'
    <2>1. CASE Ended(c)
      BY <2>1, CallsEnded
    <2>2. CASE \E at \in {"verify", "unlink"} : /\ Moved(c, at)
                                             /\ call[c].op # "reset" /\ (at = "unlink" => call[c].op = "link")
      <3>1. Fits(call'[c])
        BY <1>1, <2>2 DEF RenameTmp, Moved, Stays, Fits
      <3> QED BY <2>2, <3>1, CallsKept DEF RenameTmp, Moved, Stays
    <2> QED BY <1>2, <2>1, <2>2 DEF Thrown
  <1>4. DataTyped'
    <2>1. call[c].frame \in Frames
      BY <1>1 DEF Requests
    <2>2. cache' \in Frames /\ disk' \in Frames /\ (\A f \in tmp' : f \in Frames)
      BY <1>1, <2>1, DefaultType DEF RenameTmp, Renamed, DataTyped
    <2> QED BY <1>1, <2>2 DEF RenameTmp, DataTyped, project, bundles
  <1>5. extras' \in 0..MaxExtras
    BY <1>1, ExtrasType DEF RenameTmp, Fault
  <1> QED BY <1>2, <1>3, <1>4, <1>5 DEF RequestInv

LEMMA VerifyStep ==
    ASSUME RequestInv, NEW c \in Calls, Verify(c)
    PROVE  /\ RequestInv'
           /\ \/ Thrown(c) /\ UNCHANGED cache
              \/ /\ cache' = call[c].frame
                 /\ \/ Ended(c)
                    \/ Stays(c) /\ call[c].op = "sync" /\ call'[c].at = "collect" /\ call'[c].then = "none"
                    \/ \E state \in {"onboarding", "confirm", "ready"} :
                          call[c].then = state /\ Entered(c, call[c].frame, state)
  <1>1. /\ CallsTyped /\ DataTyped /\ extras \in 0..MaxExtras
        /\ call[c] \in Requests /\ Fits(call[c])
    BY DEF RequestInv, CallsTyped, Placed
  <1> DEFINE Collecting == Stays(c) /\ call[c].op = "sync" /\ call'[c].at = "collect" /\ call'[c].then = "none"
             Onward == \E state \in {"onboarding", "confirm", "ready"} :
                          call[c].then = state /\ Entered(c, call[c].frame, state)
  <1>2. \/ Thrown(c) /\ UNCHANGED cache
        \/ cache' = call[c].frame /\ (Ended(c) \/ Collecting \/ Onward)
    <2>1. CASE Throws(c) /\ UNCHANGED cache
      BY <2>1, ThrowsIs
    <2>2. CASE cache' = call[c].frame /\ GoesOn(c, cache')
      <3>1. call[c].frame \in Frames
        BY <1>1 DEF Requests
      <3>2. CASE call[c].then = "none"
        BY <2>2, <3>2, EndsIs DEF GoesOn
      <3>3. CASE call[c].then = "collect"
        <4>1. PICK q : q = [call[c] EXCEPT !.at = "collect", !.then = "none"]
          OBVIOUS
        <4>2. /\ q \in Requests /\ q.at = "collect" /\ q.then = "none" /\ q.op = call[c].op
              /\ q.tree = call[c].tree /\ q.mine = call[c].mine /\ q.saves = call[c].saves
          BY <1>1, <4>1 DEF Requests
        <4>3. Goes(c, q)
          BY <2>2, <3>3, <4>1 DEF GoesOn
        <4>4. call[c].op = "sync"
          BY <1>1, <3>3 DEF Verify, Fits
        <4> QED BY <2>2, <4>2, <4>3, <4>4, GoesTo DEF Stays
      <3>4. CASE call[c].then \in {"onboarding", "confirm", "ready"}
        <4>1. PICK state \in {"onboarding", "confirm", "ready"} : state = call[c].then
          BY <3>4
        <4>2. Entering(c, call[c], call[c].frame, state)
          BY <2>2, <3>4, <4>1 DEF GoesOn
        <4>3. Entered(c, call[c].frame, state) \/ Ended(c)
          BY <3>1, <4>2, StageNames, EnteringIs
        <4> QED BY <2>2, <4>1, <4>3
      <3> QED BY <1>1, <3>2, <3>3, <3>4 DEF Verify, Fits
    <2> QED BY <2>1, <2>2 DEF Verify
  <1>3. CallsTyped'
    <2>1. CASE Ended(c)
      BY <2>1, CallsEnded
    <2>2. CASE Moved(c, "unlink") /\ call[c].op = "link"
      <3>1. Fits(call'[c])
        BY <1>1, <2>2 DEF Verify, Moved, Stays, Fits
      <3> QED BY <2>2, <3>1, CallsKept DEF Verify, Moved, Stays
    <2>3. CASE Collecting
      <3>1. Fits(call'[c])
        BY <1>1, <2>3 DEF Verify, Stays, Fits
      <3> QED BY <2>3, <3>1, CallsKept DEF Verify, Stays
    <2>4. CASE Onward
      <3>1. Stays(c) /\ call'[c].at = "write" /\ call'[c].then = "none"
        BY <2>4 DEF Entered, Wrote
      <3>2. Fits(call'[c])
        BY <1>1, <3>1 DEF Verify, Stays, Fits
      <3> QED BY <3>1, <3>2, CallsKept DEF Verify, Stays
    <2> QED BY <1>2, <2>1, <2>2, <2>3, <2>4 DEF Thrown
  <1>4. DataTyped'
    <2>1. call[c].frame \in Frames
      BY <1>1 DEF Requests
    <2>2. cache' \in Frames
      BY <1>1, <1>2, <2>1 DEF DataTyped
    <2> QED BY <1>1, <2>2 DEF Verify, DataTyped, firm, project, bundles
  <1>5. extras' \in 0..MaxExtras
    BY <1>1, ExtrasType DEF Verify, Fault
  <1> QED BY <1>2, <1>3, <1>4, <1>5 DEF RequestInv

LEMMA BootStep ==
    ASSUME RequestInv, NEW c \in Calls, Boot(c)
    PROVE  /\ RequestInv'
           /\ \/ BegunWriting(c, "boot", [cache EXCEPT !.state = "selfcheck"], "none")
              \/ Ended(c)
  <1>1. /\ CallsTyped /\ DataTyped /\ extras \in 0..MaxExtras
        /\ call[c] \in Requests /\ Fits(call[c])
    BY DEF RequestInv, CallsTyped, Placed
  <1>2. \/ BegunWriting(c, "boot", [cache EXCEPT !.state = "selfcheck"], "none")
        \/ Ended(c)
    <2>1. CASE Transitions[cache.state] = "selfcheck"
      <3>1. PICK f \in Frames : f = [cache EXCEPT !.state = "selfcheck"]
        BY <1>1, FrameUpdates, StageNames DEF DataTyped
      <3>2. Goes(c, Persisting(Begin("boot", "enter"), f, "none"))
        BY <2>1, <3>1 DEF Boot, Entering
      <3>3. BegunWriting(c, "boot", f, "none")
        BY <3>2, BegunWritingIs DEF Nexts, Operations
      <3> QED BY <3>1, <3>3
    <2>2. CASE Transitions[cache.state] # "selfcheck"
      BY <2>2, EndsIs DEF Boot, Entering
    <2> QED BY <2>1, <2>2
  <1>3. CallsTyped'
    <2>1. CASE Ended(c)
      BY <2>1, CallsEnded
    <2>2. CASE BegunWriting(c, "boot", [cache EXCEPT !.state = "selfcheck"], "none")
      <3>1. Fits(call'[c])
        BY <2>2 DEF BegunWriting, Fits
      <3> QED BY <2>2, <3>1, CallsBegun DEF Boot, BegunWriting, Operations
    <2> QED BY <1>2, <2>1, <2>2
  <1>4. DataTyped'
    BY <1>1 DEF Boot, DataTyped, chain, firm, project, bundles
  <1>5. extras' \in 0..MaxExtras
    BY <1>1, ExtrasType DEF Boot, Fault
  <1> QED BY <1>2, <1>3, <1>4, <1>5 DEF RequestInv

LEMMA EnterStep ==
    ASSUME RequestInv, NEW c \in Calls, Enter(c)
    PROVE  /\ RequestInv'
           /\ Entered(c, cache, "link") \/ Ended(c)
  <1>1. /\ CallsTyped /\ DataTyped /\ extras \in 0..MaxExtras
        /\ call[c] \in Requests /\ Fits(call[c])
    BY DEF RequestInv, CallsTyped, Placed
  <1>2. Entered(c, cache, "link") \/ Ended(c)
    BY <1>1, StageNames, EnteringIs DEF Enter, DataTyped
  <1>3. CallsTyped'
    <2>1. CASE Ended(c)
      BY <2>1, CallsEnded
    <2>2. CASE Entered(c, cache, "link")
      <3>1. Stays(c) /\ call'[c].at = "write" /\ call'[c].then = "none"
        BY <2>2 DEF Entered, Wrote
      <3>2. Fits(call'[c])
        BY <1>1, <3>1 DEF Enter, Stays, Fits
      <3> QED BY <3>1, <3>2, CallsKept DEF Enter, Stays
    <2> QED BY <1>2, <2>1, <2>2
  <1>4. DataTyped'
    BY <1>1 DEF Enter, DataTyped, chain, firm, project, bundles
  <1>5. extras' \in 0..MaxExtras
    BY <1>1, ExtrasType DEF Enter, Fault
  <1> QED BY <1>2, <1>3, <1>4, <1>5 DEF RequestInv

LEMMA SelfcheckRunStep ==
    ASSUME RequestInv, NEW c \in Calls, SelfcheckRun(c)
    PROVE  /\ RequestInv'
           /\ Begun(c, "selfcheck", "probe", {}, "none")
  <1>1. /\ CallsTyped /\ DataTyped /\ extras \in 0..MaxExtras
        /\ call[c] \in Requests /\ Fits(call[c])
    BY DEF RequestInv, CallsTyped, Placed
  <1>2. Begun(c, "selfcheck", "probe", {}, "none")
    <2>1. Goes(c, Starting("selfcheck", "probe", {}, "none"))
      BY BeginIsStarting DEF SelfcheckRun, Operations
    <2> QED BY <2>1, BegunIs DEF Operations
  <1>3. CallsTyped'
    <2>1. Fits(call'[c])
      BY <1>2 DEF Begun, Fits
    <2> QED BY <1>2, <2>1, CallsBegun DEF SelfcheckRun, Begun, Operations
  <1>4. DataTyped'
    BY <1>1 DEF SelfcheckRun, DataTyped, chain, firm, project, bundles
  <1>5. extras' \in 0..MaxExtras
    BY <1>1, ExtrasType DEF SelfcheckRun, Fault
  <1> QED BY <1>2, <1>3, <1>4, <1>5 DEF RequestInv

LEMMA ProbedStep ==
    ASSUME RequestInv, NEW c \in Calls, Probed(c)
    PROVE  /\ RequestInv'
           /\ \/ Wrote(c, [cache EXCEPT !.check = "pass"], "onboarding")
              \/ Wrote(c, [cache EXCEPT !.check = "blocked"], "none")
  <1>1. /\ CallsTyped /\ DataTyped /\ extras \in 0..MaxExtras
        /\ call[c] \in Requests /\ Fits(call[c])
    BY DEF RequestInv, CallsTyped, Placed
  <1>2. \/ Wrote(c, [cache EXCEPT !.check = "pass"], "onboarding")
        \/ Wrote(c, [cache EXCEPT !.check = "blocked"], "none")
    <2>1. CASE Goes(c, Persisting(call[c], [cache EXCEPT !.check = "pass"], "onboarding"))
      <3>1. PICK f \in Frames : f = [cache EXCEPT !.check = "pass"]
        BY <1>1, FrameUpdates DEF DataTyped
      <3>2. Goes(c, Persisting(call[c], f, "onboarding"))
        BY <2>1, <3>1
      <3> QED BY <3>1, <3>2, WroteIs DEF Nexts
    <2>2. CASE Goes(c, Persisting(call[c], [cache EXCEPT !.check = "blocked"], "none"))
      <3>1. PICK f \in Frames : f = [cache EXCEPT !.check = "blocked"]
        BY <1>1, FrameUpdates DEF DataTyped
      <3>2. Goes(c, Persisting(call[c], f, "none"))
        BY <2>2, <3>1
      <3> QED BY <3>1, <3>2, WroteIs DEF Nexts
    <2> QED BY <2>1, <2>2 DEF Probed
  <1>3. CallsTyped'
    <2>1. Stays(c) /\ call'[c].at = "write" /\ call'[c].then \in {"none", "onboarding"}
      BY <1>2 DEF Wrote
    <2>2. Fits(call'[c])
      BY <1>1, <2>1 DEF Probed, Stays, Fits
    <2> QED BY <2>1, <2>2, CallsKept DEF Probed, Stays
  <1>4. DataTyped'
    BY <1>1 DEF Probed, DataTyped, chain, firm, project, bundles
  <1>5. extras' \in 0..MaxExtras
    BY <1>1, ExtrasType DEF Probed, Fault
  <1> QED BY <1>2, <1>3, <1>4, <1>5 DEF RequestInv

LEMMA AssembleStep ==
    ASSUME RequestInv, NEW c \in Calls, Assemble(c)
    PROVE  /\ RequestInv'
           /\ \/ Begun(c, "assemble", "enter", {}, "none") /\ companyCache = "open"
              \/ Begun(c, "assemble", "prewrite", {}, "none") /\ companyCache # "open"
  <1>1. /\ CallsTyped /\ DataTyped /\ extras \in 0..MaxExtras
        /\ call[c] \in Requests /\ Fits(call[c])
    BY DEF RequestInv, CallsTyped, Placed
  <1>2. \/ Begun(c, "assemble", "enter", {}, "none") /\ companyCache = "open"
        \/ Begun(c, "assemble", "prewrite", {}, "none") /\ companyCache # "open"
    <2>1. PICK at \in {"enter", "prewrite"} :
             Goes(c, Begin("assemble", at)) /\ (at = "enter" <=> companyCache = "open")
      BY DEF Assemble
    <2>2. Goes(c, Starting("assemble", at, {}, "none"))
      BY <2>1, BeginIsStarting DEF Operations
    <2> QED BY <2>1, <2>2, BegunIs DEF Operations
  <1>3. CallsTyped'
    <2>1. Fits(call'[c])
      BY <1>2 DEF Begun, Fits
    <2> QED BY <1>2, <2>1, CallsBegun DEF Assemble, Begun, Operations
  <1>4. DataTyped'
    BY <1>1 DEF Assemble, DataTyped, chain, firm, project, bundles
  <1>5. extras' \in 0..MaxExtras
    BY <1>1, ExtrasType DEF Assemble, Fault
  <1> QED BY <1>2, <1>3, <1>4, <1>5 DEF RequestInv

LEMMA PrewriteStep ==
    ASSUME RequestInv, NEW c \in Calls, Prewrite(c)
    PROVE  /\ RequestInv'
           /\ \/ \E f \in Targets \ files :
                    /\ files' = files \cup {f}
                    /\ Only(c) /\ call'[c].op = call[c].op /\ call'[c].at = "prewrite" /\ call'[c].then = call[c].then
                    /\ call'[c].saves = call[c].saves /\ call'[c].frame = call[c].frame
              \/ /\ Targets \subseteq files /\ UNCHANGED files
                 /\ Only(c) /\ call'[c].op = call[c].op /\ call'[c].at = "save" /\ call'[c].then = call[c].then
                 /\ call'[c].saves = "open"
              \/ Ended(c) /\ files' = files \ call[c].mine
  <1>1. /\ CallsTyped /\ DataTyped /\ extras \in 0..MaxExtras
        /\ call[c] \in Requests /\ Fits(call[c])
    BY DEF RequestInv, CallsTyped, Placed
  <1>2. \/ \E f \in Targets \ files :
              /\ files' = files \cup {f}
              /\ Only(c) /\ call'[c].op = call[c].op /\ call'[c].at = "prewrite" /\ call'[c].then = call[c].then
              /\ call'[c].saves = call[c].saves /\ call'[c].frame = call[c].frame
        \/ /\ Targets \subseteq files /\ UNCHANGED files
           /\ Only(c) /\ call'[c].op = call[c].op /\ call'[c].at = "save" /\ call'[c].then = call[c].then
           /\ call'[c].saves = "open"
        \/ Ended(c) /\ files' = files \ call[c].mine
    <2>1. CASE \E f \in Targets \ files : files' = files \cup {f} /\ Goes(c, [call[c] EXCEPT !.mine = @ \cup {f}])
      <3>1. PICK f \in Targets \ files : files' = files \cup {f} /\ Goes(c, [call[c] EXCEPT !.mine = @ \cup {f}])
        BY <2>1
      <3>2. PICK q : q = [call[c] EXCEPT !.mine = @ \cup {f}]
        OBVIOUS
      <3>3. /\ q \in Requests /\ q.at = call[c].at /\ q.then = call[c].then /\ q.op = call[c].op
            /\ q.saves = call[c].saves /\ q.frame = call[c].frame
        BY <1>1, <3>2 DEF Requests
      <3>4. Goes(c, q)
        BY <3>1, <3>2
      <3> QED BY <3>1, <3>3, <3>4, GoesTo DEF Prewrite
    <2>2. CASE Goes(c, [call[c] EXCEPT !.at = "save", !.saves = "open"]) /\ Targets \subseteq files /\ UNCHANGED files
      <3>1. PICK q : q = [call[c] EXCEPT !.at = "save", !.saves = "open"]
        OBVIOUS
      <3>2. q \in Requests /\ q.at = "save" /\ q.then = call[c].then /\ q.op = call[c].op /\ q.saves = "open"
        BY <1>1, <3>1 DEF Requests
      <3>3. Goes(c, q)
        BY <2>2, <3>1
      <3> QED BY <2>2, <3>2, <3>3, GoesTo
    <2>3. CASE Ends(c) /\ files' = files \ call[c].mine
      BY <2>3, EndsIs
    <2> QED BY <2>1, <2>2, <2>3 DEF Prewrite
  <1>3. CallsTyped'
    <2>1. CASE Ended(c)
      BY <2>1, CallsEnded
    <2>2. CASE /\ Only(c) /\ call'[c].op = call[c].op /\ call'[c].at \in {"prewrite", "save"}
               /\ call'[c].then = call[c].then
      <3>1. Fits(call'[c])
        BY <1>1, <2>2 DEF Prewrite, Fits
      <3> QED BY <2>2, <3>1, CallsKept DEF Prewrite
    <2> QED BY <1>2, <2>1, <2>2
  <1>4. DataTyped'
    BY <1>1 DEF Prewrite, DataTyped, chain, firm, project, bundles
  <1>5. extras' \in 0..MaxExtras
    BY <1>1, ExtrasType DEF Prewrite, Fault
  <1> QED BY <1>2, <1>3, <1>4, <1>5 DEF RequestInv

LEMMA ProgressStep ==
    ASSUME RequestInv, NEW c \in Calls, Progress(c)
    PROVE  /\ RequestInv'
           /\ Begun(c, "progress", "save", {}, companyCache)
  <1>1. /\ CallsTyped /\ DataTyped /\ extras \in 0..MaxExtras
        /\ call[c] \in Requests /\ Fits(call[c])
    BY DEF RequestInv, CallsTyped, Placed
  <1>2. Begun(c, "progress", "save", {}, companyCache)
    <2>1. companyCache \in {"none", "open"}
      BY <1>1 DEF DataTyped
    <2>2. Goes(c, Starting("progress", "save", {}, companyCache))
      BY <2>1, SavesIsStarting DEF Progress, Operations
    <2> QED BY <2>1, <2>2, BegunIs DEF Operations
  <1>3. CallsTyped'
    <2>1. Fits(call'[c])
      BY <1>2 DEF Begun, Fits
    <2> QED BY <1>2, <2>1, CallsBegun DEF Progress, Begun, Operations
  <1>4. DataTyped'
    BY <1>1 DEF Progress, DataTyped, chain, firm, project, bundles
  <1>5. extras' \in 0..MaxExtras
    BY <1>1, ExtrasType DEF Progress, Fault
  <1> QED BY <1>2, <1>3, <1>4, <1>5 DEF RequestInv

LEMMA SaveStep ==
    ASSUME RequestInv, NEW c \in Calls, Save(c)
    PROVE  /\ RequestInv'
           /\ \/ Moved(c, "saving") /\ company' = "torn"
              \/ Ended(c) /\ UNCHANGED company
  <1>1. /\ CallsTyped /\ DataTyped /\ extras \in 0..MaxExtras
        /\ call[c] \in Requests /\ Fits(call[c])
    BY DEF RequestInv, CallsTyped, Placed
  <1>2. \/ Moved(c, "saving") /\ company' = "torn"
        \/ Ended(c) /\ UNCHANGED company
    <2>1. CASE Goes(c, [call[c] EXCEPT !.at = "saving"]) /\ company' = "torn"
      <3>1. Goes(c, At(c, "saving"))
        BY <2>1 DEF At
      <3> QED BY <2>1, <3>1, MovedIs
    <2>2. CASE Ends(c) /\ UNCHANGED company
      BY <2>2, EndsIs
    <2> QED BY <2>1, <2>2 DEF Save
  <1>3. CallsTyped'
    <2>1. CASE Ended(c)
      BY <2>1, CallsEnded
    <2>2. CASE Moved(c, "saving")
      <3>1. Fits(call'[c])
        BY <1>1, <2>2 DEF Save, Moved, Stays, Fits
      <3> QED BY <2>2, <3>1, CallsKept DEF Save, Moved, Stays
    <2> QED BY <1>2, <2>1, <2>2
  <1>4. DataTyped'
    BY <1>1 DEF Save, DataTyped, chain, firm, project, bundles
  <1>5. extras' \in 0..MaxExtras
    BY <1>1, ExtrasType DEF Save, Fault
  <1> QED BY <1>2, <1>3, <1>4, <1>5 DEF RequestInv

LEMMA SavedStep ==
    ASSUME RequestInv, NEW c \in Calls, Saved(c)
    PROVE  /\ RequestInv'
           /\ (Moved(c, "enter") /\ call[c].op = "assemble") \/ Ended(c)
           /\ \/ company' = call[c].saves /\ companyCache' = call[c].saves
              \/ Ended(c) /\ UNCHANGED <<company, companyCache>>
  <1>1. /\ CallsTyped /\ DataTyped /\ extras \in 0..MaxExtras
        /\ call[c] \in Requests /\ Fits(call[c])
    BY DEF RequestInv, CallsTyped, Placed
  <1>2. /\ (Moved(c, "enter") /\ call[c].op = "assemble") \/ Ended(c)
        /\ \/ company' = call[c].saves /\ companyCache' = call[c].saves
           \/ Ended(c) /\ UNCHANGED <<company, companyCache>>
    <2>1. CASE /\ IF call[c].op = "assemble" THEN Goes(c, [call[c] EXCEPT !.at = "enter"]) ELSE Ends(c)
               /\ company' = call[c].saves /\ companyCache' = call[c].saves
      <3>1. CASE call[c].op = "assemble"
        <4>1. Goes(c, At(c, "enter"))
          BY <2>1, <3>1 DEF At
        <4> QED BY <2>1, <3>1, <4>1, MovedIs
      <3>2. CASE call[c].op # "assemble"
        BY <2>1, <3>2, EndsIs
      <3> QED BY <3>1, <3>2
    <2>2. CASE Ends(c) /\ UNCHANGED <<company, companyCache>>
      BY <2>2, EndsIs
    <2> QED BY <2>1, <2>2 DEF Saved
  <1>3. CallsTyped'
    <2>1. CASE Ended(c)
      BY <2>1, CallsEnded
    <2>2. CASE Moved(c, "enter") /\ call[c].op = "assemble"
      <3>1. Fits(call'[c])
        BY <1>1, <2>2 DEF Saved, Moved, Stays, Fits
      <3> QED BY <2>2, <3>1, CallsKept DEF Saved, Moved, Stays
    <2> QED BY <1>2, <2>1, <2>2
  <1>4. DataTyped'
    <2>1. call[c].saves \in {"none", "open"}
      BY <1>1 DEF Requests
    <2>2. company' \in {"none", "torn", "open"} /\ companyCache' \in {"none", "open"}
      BY <1>1, <1>2, <2>1 DEF DataTyped
    <2> QED BY <1>1, <2>2 DEF Saved, DataTyped, project, bundles
  <1>5. extras' \in 0..MaxExtras
    BY <1>1, ExtrasType DEF Saved, Fault
  <1> QED BY <1>2, <1>3, <1>4, <1>5 DEF RequestInv

LEMMA LinkStep ==
    ASSUME RequestInv, NEW c \in Calls, NEW t \in Trees, NEW source \in {"local", "github"}, Link(c, t, source)
    PROVE  /\ RequestInv'
           /\ \/ \E at \in {"register", "tree"} : Begun(c, "link", at, {t}, "none")
              \/ UNCHANGED call
  <1>1. /\ CallsTyped /\ DataTyped /\ extras \in 0..MaxExtras
        /\ call[c] \in Requests /\ Fits(call[c])
    BY DEF RequestInv, CallsTyped, Placed
  <1>2. \/ \E at \in {"register", "tree"} : Begun(c, "link", at, {t}, "none")
        \/ UNCHANGED call
    <2>1. CASE \E at \in {"register", "tree"} : Goes(c, [Begin("link", at) EXCEPT !.tree = {t}])
      <3>1. PICK at \in {"register", "tree"} : Goes(c, [Begin("link", at) EXCEPT !.tree = {t}])
        BY <2>1
      <3>2. Goes(c, Starting("link", at, {t}, "none"))
        BY <3>1, TreeIsStarting DEF Operations
      <3> QED BY <3>2, BegunIs DEF Operations
    <2> QED BY <2>1 DEF Link
  <1>3. CallsTyped'
    <2>1. CASE UNCHANGED call
      BY <1>1, <2>1 DEF CallsTyped, Placed, Compatible
    <2>2. CASE \E at \in {"register", "tree"} : Begun(c, "link", at, {t}, "none")
      <3>1. Fits(call'[c])
        BY <2>2 DEF Begun, Fits
      <3> QED BY <2>2, <3>1, CallsBegun DEF Link, Begun, Operations
    <2> QED BY <1>2, <2>1, <2>2
  <1>4. DataTyped'
    <2>1. regCache' \in Registries /\ reg' \in Registries
      <3>1. regCache' \in Registries
        BY <1>1 DEF Link, DataTyped, Registries
      <3>2. reg' = reg \/ reg' = regCache'
        BY DEF Link
      <3> QED BY <1>1, <3>1, <3>2 DEF DataTyped
    <2> QED BY <1>1, <2>1 DEF Link, DataTyped, firm, bundles
  <1>5. extras' \in 0..MaxExtras
    BY <1>1, ExtrasType DEF Link, Fault
  <1> QED BY <1>2, <1>3, <1>4, <1>5 DEF RequestInv

LEMMA AddTreeStep ==
    ASSUME RequestInv, NEW c \in Calls, AddTree(c)
    PROVE  /\ RequestInv'
           /\ \/ \E at \in {"register", "remove"} :
                    /\ Only(c) /\ call'[c].op = call[c].op /\ call'[c].at = at /\ call'[c].then = call[c].then
                    /\ call'[c].tree = call[c].tree /\ call'[c].saves = call[c].saves
              \/ Ended(c)
  <1>1. /\ CallsTyped /\ DataTyped /\ extras \in 0..MaxExtras
        /\ call[c] \in Requests /\ Fits(call[c])
    BY DEF RequestInv, CallsTyped, Placed
  <1>2. \/ \E at \in {"register", "remove"} :
              /\ Only(c) /\ call'[c].op = call[c].op /\ call'[c].at = at /\ call'[c].then = call[c].then
              /\ call'[c].tree = call[c].tree /\ call'[c].saves = call[c].saves
        \/ Ended(c)
    <2>1. ASSUME NEW at \in {"register", "remove"}, Goes(c, [call[c] EXCEPT !.at = at, !.mine = {"worktree"}])
          PROVE  /\ Only(c) /\ call'[c].op = call[c].op /\ call'[c].at = at /\ call'[c].then = call[c].then
                 /\ call'[c].tree = call[c].tree /\ call'[c].saves = call[c].saves
      <3>1. PICK q : q = [call[c] EXCEPT !.at = at, !.mine = {"worktree"}]
        OBVIOUS
      <3>2. /\ q \in Requests /\ q.at = at /\ q.then = call[c].then /\ q.op = call[c].op
            /\ q.tree = call[c].tree /\ q.saves = call[c].saves
        BY <1>1, <3>1 DEF Requests
      <3>3. Goes(c, q)
        BY <2>1, <3>1
      <3> QED BY <3>2, <3>3, GoesTo
    <2>2. CASE Ends(c)
      BY <2>2, EndsIs
    <2>3. \/ \E at \in {"register", "remove"} : Goes(c, [call[c] EXCEPT !.at = at, !.mine = {"worktree"}])
          \/ Ends(c)
      BY DEF AddTree
    <2> QED BY <2>1, <2>2, <2>3
  <1>3. CallsTyped'
    <2>1. CASE Ended(c)
      BY <2>1, CallsEnded
    <2>2. CASE \E at \in {"register", "remove"} :
                  Only(c) /\ call'[c].op = call[c].op /\ call'[c].at = at /\ call'[c].then = call[c].then
      <3>1. Fits(call'[c])
        BY <1>1, <2>2 DEF AddTree, Fits
      <3> QED BY <2>2, <3>1, CallsKept DEF AddTree
    <2> QED BY <1>2, <2>1, <2>2
  <1>4. DataTyped'
    <2>1. call[c].tree \in SUBSET Trees
      BY <1>1 DEF Requests
    <2>2. trees' \in SUBSET Trees
      BY <1>1, <2>1 DEF AddTree, DataTyped
    <2> QED BY <1>1, <2>2 DEF AddTree, DataTyped, firm, bundles
  <1>5. extras' \in 0..MaxExtras
    BY <1>1, ExtrasType DEF AddTree, Fault
  <1> QED BY <1>2, <1>3, <1>4, <1>5 DEF RequestInv

LEMMA UndoneIs ==
    ASSUME RequestInv, NEW c \in Calls, Undone(c)
    PROVE  Moved(c, "remove") \/ Ended(c)
  <1>1. CASE "worktree" \in call[c].mine
    <2>1. Goes(c, At(c, "remove"))
      BY <1>1 DEF Undone, At
    <2> QED BY <2>1, MovedIs
  <1>2. CASE "worktree" \notin call[c].mine
    BY <1>2, EndsIs DEF Undone
  <1> QED BY <1>1, <1>2

LEMMA RollBackStep ==
    ASSUME RequestInv, NEW c \in Calls, RollBack(c)
    PROVE  RequestInv' /\ Ended(c)
  <1>1. /\ CallsTyped /\ DataTyped /\ extras \in 0..MaxExtras
        /\ call[c] \in Requests /\ Fits(call[c])
    BY DEF RequestInv, CallsTyped, Placed
  <1>2. Ended(c)
    BY EndsIs DEF RollBack
  <1>3. CallsTyped'
    BY <1>2, CallsEnded
  <1>4. DataTyped'
    <2>1. trees' \in SUBSET Trees
      BY <1>1 DEF RollBack, DataTyped
    <2> QED BY <1>1, <2>1 DEF RollBack, DataTyped, firm, bundles
  <1>5. extras' \in 0..MaxExtras
    BY <1>1, ExtrasType DEF RollBack, Fault
  <1> QED BY <1>2, <1>3, <1>4, <1>5 DEF RequestInv

LEMMA RegisterStep ==
    ASSUME RequestInv, NEW c \in Calls, Register(c)
    PROVE  /\ RequestInv'
           /\ \/ Wrote(c, [cache EXCEPT !.link = call[c].tree], "none")
              \/ Moved(c, "remove")
              \/ Ended(c)
  <1>1. /\ CallsTyped /\ DataTyped /\ extras \in 0..MaxExtras
        /\ call[c] \in Requests /\ Fits(call[c])
    BY DEF RequestInv, CallsTyped, Placed
  <1>2. \/ Wrote(c, [cache EXCEPT !.link = call[c].tree], "none")
        \/ Moved(c, "remove")
        \/ Ended(c)
    <2>1. CASE Goes(c, Persisting(call[c], [cache EXCEPT !.link = call[c].tree], "none"))
      <3>1. call[c].tree \in SUBSET Trees
        BY <1>1 DEF Requests
      <3>2. PICK f \in Frames : f = [cache EXCEPT !.link = call[c].tree]
        BY <1>1, <3>1, FrameUpdates DEF DataTyped
      <3>3. Goes(c, Persisting(call[c], f, "none"))
        BY <2>1, <3>2
      <3> QED BY <3>2, <3>3, WroteIs DEF Nexts
    <2>2. CASE Undone(c)
      BY <2>2, UndoneIs
    <2> QED BY <2>1, <2>2 DEF Register
  <1>3. CallsTyped'
    <2>1. CASE Ended(c)
      BY <2>1, CallsEnded
    <2>2. CASE \/ Stays(c) /\ call'[c].at = "write" /\ call'[c].then = "none"
               \/ Moved(c, "remove")
      <3>1. Fits(call'[c])
        BY <1>1, <2>2 DEF Register, Moved, Stays, Fits
      <3> QED BY <2>2, <3>1, CallsKept DEF Register, Moved, Stays
    <2> QED BY <1>2, <2>1, <2>2 DEF Wrote
  <1>4. DataTyped'
    <2>1. call[c].tree \in SUBSET Trees
      BY <1>1 DEF Requests
    <2>2. \A s \in SUBSET Trees : [regCache EXCEPT !.trees = s] \in Registries
      BY <1>1 DEF DataTyped, Registries
    <2>3. regCache.trees \in SUBSET Trees /\ trees \in SUBSET Trees
      BY <1>1 DEF DataTyped, Registries
    <2>4. regCache' \in Registries /\ (reg' = regCache' \/ reg' = reg)
      BY <2>1, <2>2, <2>3 DEF Register
    <2> QED BY <1>1, <2>4 DEF Register, DataTyped, firm, bundles
  <1>5. extras' \in 0..MaxExtras
    BY <1>1, ExtrasType DEF Register, Fault
  <1> QED BY <1>2, <1>3, <1>4, <1>5 DEF RequestInv

LEMMA UnlinkStep ==
    ASSUME RequestInv, NEW c \in Calls, Unlink(c)
    PROVE  /\ RequestInv'
           /\ Moved(c, "remove") \/ Ended(c)
  <1>1. /\ CallsTyped /\ DataTyped /\ extras \in 0..MaxExtras
        /\ call[c] \in Requests /\ Fits(call[c])
    BY DEF RequestInv, CallsTyped, Placed
  <1>2. Moved(c, "remove") \/ Ended(c)
    BY UndoneIs DEF Unlink
  <1>3. CallsTyped'
    <2>1. CASE Ended(c)
      BY <2>1, CallsEnded
    <2>2. CASE Moved(c, "remove")
      <3>1. Fits(call'[c])
        BY <1>1, <2>2 DEF Unlink, Moved, Stays, Fits
      <3> QED BY <2>2, <3>1, CallsKept DEF Unlink, Moved, Stays
    <2> QED BY <1>2, <2>1, <2>2
  <1>4. DataTyped'
    <2>1. regCache' \in Registries
      BY <1>1 DEF Unlink, DataTyped, Registries
    <2>2. reg' = regCache' \/ reg' = reg
      BY DEF Unlink
    <2> QED BY <1>1, <2>1, <2>2 DEF Unlink, DataTyped, firm, bundles
  <1>5. extras' \in 0..MaxExtras
    BY <1>1, ExtrasType DEF Unlink, Fault
  <1> QED BY <1>2, <1>3, <1>4, <1>5 DEF RequestInv

LEMMA ClaimStep ==
    ASSUME RequestInv, NEW c \in Calls, NEW t \in Trees, Claim(c, t)
    PROVE  /\ RequestInv'
           /\ Begun(c, "claim", "register", {t}, "none")
  <1>1. /\ CallsTyped /\ DataTyped /\ extras \in 0..MaxExtras
        /\ call[c] \in Requests /\ Fits(call[c])
    BY DEF RequestInv, CallsTyped, Placed
  <1>2. Begun(c, "claim", "register", {t}, "none")
    <2>1. Goes(c, Starting("claim", "register", {t}, "none"))
      BY TreeIsStarting DEF Claim, Operations
    <2> QED BY <2>1, BegunIs DEF Operations
  <1>3. CallsTyped'
    <2>1. Fits(call'[c])
      BY <1>2 DEF Begun, Fits
    <2> QED BY <1>2, <2>1, CallsBegun DEF Claim, Begun, Operations
  <1>4. DataTyped'
    BY <1>1 DEF Claim, DataTyped, chain, firm, project, bundles
  <1>5. extras' \in 0..MaxExtras
    BY <1>1, ExtrasType DEF Claim, Fault
  <1> QED BY <1>2, <1>3, <1>4, <1>5 DEF RequestInv

LEMMA SyncStep ==
    ASSUME RequestInv, NEW c \in Calls, Sync(c)
    PROVE  /\ RequestInv'
           /\ \/ /\ cache.state = "link" /\ cache.link # {}
                 /\ BegunWriting(c, "sync", [cache EXCEPT !.state = "sync"], "collect")
              \/ cache.state = "sync" /\ Begun(c, "sync", "collect", {}, "none")
  <1>1. /\ CallsTyped /\ DataTyped /\ extras \in 0..MaxExtras
        /\ call[c] \in Requests /\ Fits(call[c])
    BY DEF RequestInv, CallsTyped, Placed
  <1>2. \/ /\ cache.state = "link" /\ cache.link # {}
           /\ BegunWriting(c, "sync", [cache EXCEPT !.state = "sync"], "collect")
        \/ cache.state = "sync" /\ Begun(c, "sync", "collect", {}, "none")
    <2>1. CASE /\ cache.state = "link" /\ cache.link # {}
               /\ Goes(c, Persisting(Begin("sync", "collect"), [cache EXCEPT !.state = "sync"], "collect"))
      <3>1. PICK f \in Frames : f = [cache EXCEPT !.state = "sync"]
        BY <1>1, StageNames, FrameUpdates DEF DataTyped
      <3>2. Goes(c, Persisting(Begin("sync", "collect"), f, "collect"))
        BY <2>1, <3>1
      <3>3. BegunWriting(c, "sync", f, "collect")
        BY <3>2, BegunWritingIs DEF Nexts, Operations
      <3> QED BY <2>1, <3>1, <3>3
    <2>2. CASE cache.state = "sync" /\ Goes(c, Begin("sync", "collect"))
      <3>1. Goes(c, Starting("sync", "collect", {}, "none"))
        BY <2>2, BeginIsStarting DEF Operations
      <3> QED BY <2>2, <3>1, BegunIs DEF Operations
    <2> QED BY <2>1, <2>2 DEF Sync
  <1>3. CallsTyped'
    <2>1. Fits(call'[c])
      BY <1>2 DEF Begun, BegunWriting, Fits
    <2> QED BY <1>2, <2>1, CallsBegun DEF Sync, Begun, BegunWriting, Operations
  <1>4. DataTyped'
    BY <1>1 DEF Sync, DataTyped, chain, firm, project, bundles
  <1>5. extras' \in 0..MaxExtras
    BY <1>1, ExtrasType DEF Sync, Fault
  <1> QED BY <1>2, <1>3, <1>4, <1>5 DEF RequestInv

LEMMA CollectStep ==
    ASSUME RequestInv, NEW c \in Calls, Collect(c)
    PROVE  /\ RequestInv'
           /\ \/ Moved(c, "push") /\ bundle' = {regCache.trees}
              \/ Ended(c) /\ UNCHANGED bundle
  <1>1. /\ CallsTyped /\ DataTyped /\ extras \in 0..MaxExtras
        /\ call[c] \in Requests /\ Fits(call[c])
    BY DEF RequestInv, CallsTyped, Placed
  <1>2. \/ Moved(c, "push") /\ bundle' = {regCache.trees}
        \/ Ended(c) /\ UNCHANGED bundle
    <2>1. CASE Goes(c, [call[c] EXCEPT !.at = "push"]) /\ bundle' = {regCache.trees}
      <3>1. Goes(c, At(c, "push"))
        BY <2>1 DEF At
      <3> QED BY <2>1, <3>1, MovedIs
    <2>2. CASE Ends(c) /\ UNCHANGED bundle
      BY <2>2, EndsIs
    <2> QED BY <2>1, <2>2 DEF Collect
  <1>3. CallsTyped'
    <2>1. CASE Ended(c)
      BY <2>1, CallsEnded
    <2>2. CASE Moved(c, "push")
      <3>1. Fits(call'[c])
        BY <1>1, <2>2 DEF Collect, Moved, Stays, Fits
      <3> QED BY <2>2, <3>1, CallsKept DEF Collect, Moved, Stays
    <2> QED BY <1>2, <2>1, <2>2
  <1>4. DataTyped'
    <2>1. {regCache.trees} \in Bundles
      BY <1>1 DEF DataTyped, Registries, Bundles
    <2>2. bundle' \in Bundles
      BY <1>1, <1>2, <2>1 DEF DataTyped
    <2>3. line' \in {"shared", "left", "foreign"}
      BY <1>1 DEF Collect, DataTyped
    <2> QED BY <1>1, <2>2, <2>3 DEF Collect, DataTyped, firm, project
  <1>5. extras' \in 0..MaxExtras
    BY <1>1, ExtrasType DEF Collect, Fault
  <1> QED BY <1>2, <1>3, <1>4, <1>5 DEF RequestInv

LEMMA PushStep ==
    ASSUME RequestInv, NEW c \in Calls, Push(c)
    PROVE  /\ RequestInv'
           /\ \/ Wrote(c, [cache EXCEPT !.sync = "pushed"], "confirm")
              \/ Wrote(c, [cache EXCEPT !.sync = "failed"], "none")
  <1>1. /\ CallsTyped /\ DataTyped /\ extras \in 0..MaxExtras
        /\ call[c] \in Requests /\ Fits(call[c])
    BY DEF RequestInv, CallsTyped, Placed
  <1>2. \/ Wrote(c, [cache EXCEPT !.sync = "pushed"], "confirm")
        \/ Wrote(c, [cache EXCEPT !.sync = "failed"], "none")
    <2>1. CASE Goes(c, Persisting(call[c], [cache EXCEPT !.sync = "pushed"], "confirm"))
      <3>1. PICK f \in Frames : f = [cache EXCEPT !.sync = "pushed"]
        BY <1>1, FrameUpdates DEF DataTyped
      <3>2. Goes(c, Persisting(call[c], f, "confirm"))
        BY <2>1, <3>1
      <3> QED BY <3>1, <3>2, WroteIs DEF Nexts
    <2>2. CASE Goes(c, Persisting(call[c], [cache EXCEPT !.sync = "failed"], "none"))
      <3>1. PICK f \in Frames : f = [cache EXCEPT !.sync = "failed"]
        BY <1>1, FrameUpdates DEF DataTyped
      <3>2. Goes(c, Persisting(call[c], f, "none"))
        BY <2>2, <3>1
      <3> QED BY <3>1, <3>2, WroteIs DEF Nexts
    <2> QED BY <2>1, <2>2 DEF Push
  <1>3. CallsTyped'
    <2>1. Stays(c) /\ call'[c].at = "write" /\ call'[c].then \in {"none", "confirm"}
      BY <1>2 DEF Wrote
    <2>2. Fits(call'[c])
      BY <1>1, <2>1 DEF Push, Stays, Fits
    <2> QED BY <2>1, <2>2, CallsKept DEF Push, Stays
  <1>4. DataTyped'
    <2>1. pushed' \in Bundles
      BY <1>1 DEF Push, DataTyped
    <2> QED BY <1>1, <2>1 DEF Push, DataTyped, firm, project
  <1>5. extras' \in 0..MaxExtras
    BY <1>1, ExtrasType DEF Push, Fault
  <1> QED BY <1>2, <1>3, <1>4, <1>5 DEF RequestInv

LEMMA ConfirmStep ==
    ASSUME RequestInv, NEW c \in Calls, Confirm(c)
    PROVE  /\ RequestInv'
           /\ Begun(c, "confirm", "check", {}, "none")
  <1>1. /\ CallsTyped /\ DataTyped /\ extras \in 0..MaxExtras
        /\ call[c] \in Requests /\ Fits(call[c])
    BY DEF RequestInv, CallsTyped, Placed
  <1>2. Begun(c, "confirm", "check", {}, "none")
    <2>1. Goes(c, Starting("confirm", "check", {}, "none"))
      BY BeginIsStarting DEF Confirm, Operations
    <2> QED BY <2>1, BegunIs DEF Operations
  <1>3. CallsTyped'
    <2>1. Fits(call'[c])
      BY <1>2 DEF Begun, Fits
    <2> QED BY <1>2, <2>1, CallsBegun DEF Confirm, Begun, Operations
  <1>4. DataTyped'
    BY <1>1 DEF Confirm, DataTyped, chain, firm, project, bundles
  <1>5. extras' \in 0..MaxExtras
    BY <1>1, ExtrasType DEF Confirm, Fault
  <1> QED BY <1>2, <1>3, <1>4, <1>5 DEF RequestInv

LEMMA CheckedStep ==
    ASSUME RequestInv, NEW c \in Calls, Checked(c)
    PROVE  /\ RequestInv'
           /\ \/ Wrote(c, [cache EXCEPT !.confirmed = TRUE], "ready")
              \/ Ended(c)
  <1>1. /\ CallsTyped /\ DataTyped /\ extras \in 0..MaxExtras
        /\ call[c] \in Requests /\ Fits(call[c])
    BY DEF RequestInv, CallsTyped, Placed
  <1>2. \/ Wrote(c, [cache EXCEPT !.confirmed = TRUE], "ready")
        \/ Ended(c)
    <2>1. CASE Goes(c, Persisting(call[c], [cache EXCEPT !.confirmed = TRUE], "ready"))
      <3>1. PICK f \in Frames : f = [cache EXCEPT !.confirmed = TRUE]
        BY <1>1, FrameUpdates DEF DataTyped
      <3>2. Goes(c, Persisting(call[c], f, "ready"))
        BY <2>1, <3>1
      <3> QED BY <3>1, <3>2, WroteIs DEF Nexts
    <2>2. CASE Ends(c)
      BY <2>2, EndsIs
    <2> QED BY <2>1, <2>2 DEF Checked
  <1>3. CallsTyped'
    <2>1. CASE Ended(c)
      BY <2>1, CallsEnded
    <2>2. CASE Stays(c) /\ call'[c].at = "write" /\ call'[c].then = "ready"
      <3>1. Fits(call'[c])
        BY <1>1, <2>2 DEF Checked, Stays, Fits
      <3> QED BY <2>2, <3>1, CallsKept DEF Checked, Stays
    <2> QED BY <1>2, <2>1, <2>2 DEF Wrote
  <1>4. DataTyped'
    BY <1>1 DEF Checked, DataTyped, chain, firm, project, bundles
  <1>5. extras' \in 0..MaxExtras
    BY <1>1, ExtrasType DEF Checked, Fault
  <1> QED BY <1>2, <1>3, <1>4, <1>5 DEF RequestInv

LEMMA FirstCollabStep ==
    ASSUME RequestInv, NEW c \in Calls, FirstCollab(c)
    PROVE  /\ RequestInv'
           /\ cache.state = "ready"
           /\ BegunWriting(c, "collab", [cache EXCEPT !.collab = @ + 1], "none")
  <1>1. /\ CallsTyped /\ DataTyped /\ extras \in 0..MaxExtras
        /\ call[c] \in Requests /\ Fits(call[c])
    BY DEF RequestInv, CallsTyped, Placed
  <1>2. cache.state = "ready" /\ BegunWriting(c, "collab", [cache EXCEPT !.collab = @ + 1], "none")
    <2>1. PICK f \in Frames : f = [cache EXCEPT !.collab = @ + 1]
      BY <1>1, FrameUpdates DEF DataTyped, FirstCollab
    <2>2. Goes(c, Persisting(Begin("collab", "write"), f, "none"))
      BY <2>1 DEF FirstCollab
    <2>3. BegunWriting(c, "collab", f, "none")
      BY <2>2, BegunWritingIs DEF Nexts, Operations
    <2> QED BY <2>1, <2>3 DEF FirstCollab
  <1>3. CallsTyped'
    <2>1. Fits(call'[c])
      BY <1>2 DEF BegunWriting, Fits
    <2> QED BY <1>2, <2>1, CallsBegun DEF FirstCollab, BegunWriting, Operations
  <1>4. DataTyped'
    BY <1>1 DEF FirstCollab, DataTyped, chain, firm, project, bundles
  <1>5. extras' \in 0..MaxExtras
    BY <1>1, ExtrasType DEF FirstCollab, Fault
  <1> QED BY <1>2, <1>3, <1>4, <1>5 DEF RequestInv

LEMMA ResetStep ==
    ASSUME RequestInv, NEW c \in Calls, NEW kind \in Resets, Reset(c, kind)
    PROVE  /\ RequestInv'
           /\ /\ Only(c) /\ call'[c].op = "reset" /\ call'[c].at = "wipe"
              /\ call'[c].mine = {} /\ call'[c].saves = "none"
  <1>1. /\ CallsTyped /\ DataTyped /\ extras \in 0..MaxExtras
        /\ call[c] \in Requests /\ Fits(call[c])
    BY DEF RequestInv, CallsTyped, Placed
  <1>2. /\ Only(c) /\ call'[c].op = "reset" /\ call'[c].at = "wipe"
        /\ call'[c].mine = {} /\ call'[c].saves = "none"
    <2>1. PICK b : b = Begin("reset", "wipe")
      OBVIOUS
    <2>2. PICK r : r = [b EXCEPT !.then = kind]
      OBVIOUS
    <2>3. b \in Requests /\ b.at = "wipe" /\ b.op = "reset" /\ b.mine = {} /\ b.saves = "none"
      BY <2>1, BeginType DEF Operations
    <2>4. r \in Requests /\ r.at = "wipe" /\ r.op = "reset" /\ r.mine = {} /\ r.saves = "none"
      BY <2>2, <2>3 DEF Requests
    <2>5. Goes(c, r)
      BY <2>1, <2>2 DEF Reset
    <2> QED BY <2>4, <2>5, GoesTo
  <1>3. CallsTyped'
    <2>1. Fits(call'[c])
      BY <1>2 DEF Fits
    <2> QED BY <1>2, <2>1, CallsBegun DEF Reset, Operations
  <1>4. DataTyped'
    BY <1>1 DEF Reset, DataTyped, chain, firm, project, bundles
  <1>5. extras' \in 0..MaxExtras
    BY <1>1, ExtrasType DEF Reset, Fault
  <1> QED BY <1>2, <1>3, <1>4, <1>5 DEF RequestInv

LEMMA WipeStep ==
    ASSUME RequestInv, NEW c \in Calls, Wipe(c)
    PROVE  /\ RequestInv'
           /\ /\ Stays(c) /\ call'[c].at = "write" /\ call'[c].then = "none"
              /\ call'[c].frame = [DefaultFrame EXCEPT !.state = "selfcheck", !.seq = 1]
  <1>1. /\ CallsTyped /\ DataTyped /\ extras \in 0..MaxExtras
        /\ call[c] \in Requests /\ Fits(call[c])
    BY DEF RequestInv, CallsTyped, Placed
  <1>2. /\ Stays(c) /\ call'[c].at = "write" /\ call'[c].then = "none"
        /\ call'[c].frame = [DefaultFrame EXCEPT !.state = "selfcheck", !.seq = 1]
    <2>1. PICK f : f = [DefaultFrame EXCEPT !.state = "selfcheck", !.seq = 1]
      OBVIOUS
    <2>2. f \in Frames
      BY <2>1, DefaultType, StageNames DEF Frames
    <2>3. PICK r : r = [call[c] EXCEPT !.at = "write", !.then = "none", !.frame = f]
      OBVIOUS
    <2>4. /\ r \in Requests /\ r.at = "write" /\ r.then = "none" /\ r.op = call[c].op
          /\ r.frame = f /\ r.tree = call[c].tree /\ r.mine = call[c].mine /\ r.saves = call[c].saves
      BY <1>1, <2>2, <2>3 DEF Requests
    <2>5. Goes(c, r)
      BY <2>1, <2>3 DEF Wipe
    <2> QED BY <2>1, <2>4, <2>5, GoesTo DEF Stays
  <1>3. CallsTyped'
    <2>1. Fits(call'[c])
      BY <1>1, <1>2 DEF Wipe, Stays, Fits
    <2> QED BY <1>2, <2>1, CallsKept DEF Wipe, Stays
  <1>4. DataTyped'
    <2>1. reg' \in Registries
      <3>1. reg' = reg \/ reg' = [trees |-> {}, main |-> FALSE]
        BY DEF Wipe
      <3>2. [trees |-> {}, main |-> FALSE] \in Registries
        BY DEF Registries
      <3> QED BY <1>1, <3>1, <3>2 DEF DataTyped
    <2> QED BY <1>1, <2>1 DEF Wipe, DataTyped, bundles
  <1>5. extras' \in 0..MaxExtras
    BY <1>1, ExtrasType DEF Wipe, Fault
  <1> QED BY <1>2, <1>3, <1>4, <1>5 DEF RequestInv

LEMMA OutsideStep == ASSUME RequestInv, Apply \/ Strays \/ Rejoins PROVE RequestInv'
  <1>1. CallsTyped'
    BY DEF Apply, Strays, Rejoins, chain, RequestInv, CallsTyped, Placed, Compatible
  <1>2. DataTyped'
    BY DEF Apply, Strays, Rejoins, RequestInv, DataTyped, chain, firm, project
  <1>3. extras' \in 0..MaxExtras
    BY ExtrasType DEF Apply, Strays, Rejoins, Fault, RequestInv
  <1> QED BY <1>1, <1>2, <1>3 DEF RequestInv

LEMMA RestartStep ==
    ASSUME RequestInv, Restart
    PROVE  RequestInv' /\ \A c \in Calls : call'[c] = Idle
  <1>1. PICK r \in Requests : r = Idle /\ r.op = "none" /\ r.at = "none" /\ r.then = "none" /\ r.saves = "none"
    BY DefaultType DEF Idle
  <1>2. call' = [d \in Calls |-> r]
    BY <1>1 DEF Restart
  <1>3. CallsTyped'
    BY <1>1, <1>2 DEF CallsTyped, Placed, Fits, Compatible
  <1>4. DataTyped'
    <2>1. regCache' \in Registries /\ reg' = regCache'
      BY DEF Restart, RequestInv, DataTyped, Registries
    <2> QED BY <2>1 DEF Restart, RequestInv, DataTyped, bundles
  <1>5. extras' \in 0..MaxExtras
    BY ExtrasType DEF Restart, RequestInv
  <1> QED BY <1>1, <1>2, <1>3, <1>4, <1>5 DEF RequestInv

LEMMA RequestStep == RequestInv /\ [Next]_vars => RequestInv'
  <1> SUFFICES ASSUME RequestInv, [Next]_vars PROVE RequestInv'
    OBVIOUS
  <1>1. ASSUME NEW c \in Calls, Step(c) PROVE RequestInv'
    BY <1>1, WriteTmpStep, RenameTmpStep, VerifyStep, BootStep, EnterStep, ProbedStep,
           PrewriteStep, SaveStep, SavedStep, AddTreeStep, RegisterStep, UnlinkStep, RollBackStep,
           CollectStep, PushStep, CheckedStep, WipeStep DEF Step
  <1>2. ASSUME NEW c \in Calls, Request(c) PROVE RequestInv'
    BY <1>2, SelfcheckRunStep, AssembleStep, ProgressStep, ClaimStep, LinkStep, SyncStep, ConfirmStep,
           FirstCollabStep, ResetStep DEF Request
  <1>3. CASE UNCHANGED vars
    BY <1>3 DEF vars, chain, firm, project, bundles, RequestInv, CallsTyped, DataTyped, Placed, Compatible
  <1> QED BY <1>1, <1>2, <1>3, OutsideStep, RestartStep DEF Next

LEMMA RequestInit == Init => RequestInv
  <1> SUFFICES ASSUME Init PROVE RequestInv
    OBVIOUS
  <1>1. PICK r \in Requests : r = Idle /\ r.op = "none" /\ r.at = "none" /\ r.then = "none" /\ r.saves = "none"
    BY DefaultType DEF Idle
  <1>2. call = [d \in Calls |-> r]
    BY <1>1 DEF Init
  <1>3. CallsTyped
    BY <1>1, <1>2 DEF CallsTyped, Placed, Fits, Compatible
  <1>4. DataTyped
    <2>1. cache \in Frames /\ disk \in Frames /\ tmp = {}
      BY DefaultType DEF Init
    <2>2. reg \in Registries /\ regCache \in Registries
      BY DEF Init, Registries
    <2> QED BY <2>1, <2>2, SetupAssumption DEF Init, DataTyped, Bundles
  <1>5. extras \in 0..MaxExtras
    BY SetupAssumption DEF Init
  <1> QED BY <1>3, <1>4, <1>5 DEF RequestInv

LEMMA RequestsAlways == Spec => []RequestInv
  BY RequestInit, RequestStep, PTL DEF Spec

\* Whatever the requests, their order, the faults and the crashes, the chain
\* file, the company's state, the registry and what is in flight keep their
\* shape: no request is left with a next step its operation does not have.
THEOREM CompanyTypeCorrect == Spec => []TypeOK
  <1>1. RequestInv => TypeOK
    BY DEF RequestInv, CallsTyped, DataTyped, TypeOK
  <1> QED BY <1>1, RequestsAlways, PTL

-----------------------------------------------------------------------------
(* The company's state and its skeleton.                                   *)

\* The reset has the daemon to itself and its own writes succeed. Without it
\* the company and its skeleton do part: the endpoint has no flag, and a reset
\* that fails half way has removed state.json and the skeleton, not the cache.
CleanResets == (\A s \in Overlap : "reset" \notin s) /\ "reset" \notin Faults

Resetting == \E c \in Calls : call[c].op = "reset"

\* The company is open to the daemon, or somebody is about to write that it is.
Opening == companyCache = "open" \/ \E c \in Calls : call[c].saves = "open"

\* From the first "open" on the skeleton is whole and no assembly may take a
\* file of its own away again; a reset removes the state before the skeleton
\* and cannot be overtaken; a write under way, or one that failed half way,
\* leaves the file torn.
SkeletonKept ==
    ~Resetting /\ Opening => /\ Targets \subseteq files
                             /\ \A c \in Calls : call[c].at = "prewrite" => call[c].mine = {}
FileFollows == company # "torn" /\ ~Resetting => company = companyCache
ResetWrites ==
    /\ Resetting => company = "none"
    /\ \A c \in Calls : call[c].op = "reset" /\ call[c].at = "rename" => tmp # {}

FirmInv == SkeletonKept /\ FileFollows /\ ResetWrites

LEMMA ResetIsAlone ==
    ASSUME CleanResets, RequestInv, NEW c \in Calls, call[c].op = "reset"
    PROVE  \A d \in Calls \ {c} : call[d] = Idle
  <1>1. call[c] # Idle
    BY DEF Idle
  <1>2. ASSUME NEW d \in Calls \ {c}, call[d] # Idle PROVE FALSE
    <2>1. {call[c].op, call[d].op} \in Overlap
      BY <1>1, <1>2 DEF RequestInv, CallsTyped, Compatible
    <2> QED BY <2>1 DEF CleanResets
  <1> QED BY <1>2

LEMMA BusyNoReset ==
    ASSUME CleanResets, RequestInv, NEW c \in Calls, call[c] # Idle, call[c].op # "reset"
    PROVE  ~Resetting
  BY ResetIsAlone DEF Resetting

\* A step that leaves the company's files alone.
LEMMA FirmQuiet ==
    ASSUME CleanResets, RequestInv, FirmInv, NEW c \in Calls, Only(c), UNCHANGED firm,
           call'[c].at = "prewrite" => call'[c].mine = {},
           call'[c].saves = "open" => Opening,
           call'[c].op = "reset" <=> call[c].op = "reset",
           \A d \in Calls : call'[d].op = "reset" /\ call'[d].at = "rename" => tmp' # {}
    PROVE  FirmInv'
  <1>1. Resetting' <=> Resetting
    BY DEF Resetting, Only
  <1>2. Opening' => Opening
    BY DEF Opening, Only, firm
  <1>3. SkeletonKept'
    BY <1>1, <1>2 DEF FirmInv, SkeletonKept, Only, firm
  <1>4. FileFollows'
    BY <1>1 DEF FirmInv, FileFollows, firm
  <1>5. ResetWrites'
    BY <1>1 DEF FirmInv, ResetWrites, firm
  <1> QED BY <1>3, <1>4, <1>5 DEF FirmInv

LEMMA ThrownFirm ==
    ASSUME CleanResets, RequestInv, FirmInv, NEW c \in Calls, Thrown(c), UNCHANGED firm, TmpTorn,
           call[c].op # "reset"
    PROVE  FirmInv'
  <1>1. Idle.op = "none" /\ Idle.at = "none" /\ Idle.saves = "none"
    BY DEF Idle
  <1>2. Only(c) /\ call'[c].at \in {"none", "unlink"} /\ call'[c].op # "reset"
    BY <1>1 DEF Thrown, Moved, Stays, Ended
  <1>3. call'[c].saves = "open" => Opening
    BY <1>1 DEF Thrown, Moved, Stays, Ended, Opening
  <1>4. \A d \in Calls : call'[d].op = "reset" /\ call'[d].at = "rename" => tmp' # {}
    BY <1>2 DEF FirmInv, ResetWrites, Only, TmpTorn
  <1> QED BY <1>2, <1>3, <1>4, FirmQuiet

\* The requests of the chain file and the project: the tmp file stays.
LEMMA OtherFirm ==
    ASSUME CleanResets, RequestInv, FirmInv, NEW c \in Calls, Only(c), UNCHANGED <<firm, tmp>>,
           call[c].op # "reset", call'[c].op # "reset", call'[c].at # "prewrite",
           call'[c].saves \in {call[c].saves, companyCache, "none"}
    PROVE  FirmInv'
  <1>1. call'[c].saves = "open" => Opening
    BY DEF Opening
  <1>2. \A d \in Calls : call'[d].op = "reset" /\ call'[d].at = "rename" => tmp' # {}
    BY DEF FirmInv, ResetWrites, Only
  <1> QED BY <1>1, <1>2, FirmQuiet

LEMMA WriteTmpFirm ==
    ASSUME CleanResets, RequestInv, FirmInv, NEW c \in Calls, WriteTmp(c)
    PROVE  FirmInv'
  <1>4. call[c].op = "reset" => ChainFault(c) \notin Faults
    BY DEF ChainFault, CleanResets
  <1>5. CASE Moved(c, "rename") /\ tmp' = {call[c].frame}
    <2>1. \A d \in Calls : call'[d].op = "reset" /\ call'[d].at = "rename" => tmp' # {}
      BY <1>5
    <2>2. call'[c].saves = "open" => Opening
      BY <1>5 DEF Moved, Stays, Opening
    <2> QED BY <1>5, <2>1, <2>2, FirmQuiet DEF WriteTmp, Moved, Stays
  <1>6. CASE Thrown(c) /\ TmpTorn /\ ChainFault(c) \in Faults
    BY <1>4, <1>6, ThrownFirm DEF WriteTmp
  <1> QED BY <1>5, <1>6, WriteTmpStep

LEMMA RenameTmpFirm ==
    ASSUME CleanResets, RequestInv, FirmInv, NEW c \in Calls, RenameTmp(c)
    PROVE  FirmInv'
  <1>1. Idle.op = "none" /\ Idle.at = "none" /\ Idle.saves = "none"
    BY DEF Idle
  <1>2. call[c] # Idle
    BY <1>1 DEF RenameTmp
  <1>3. CASE Moved(c, "verify") /\ call[c].op # "reset" /\ UNCHANGED companyCache
    <2>1. \A d \in Calls : call'[d].op = "reset" /\ call'[d].at = "rename" => tmp' # {}
      BY <1>2, <1>3, BusyNoReset DEF Resetting, Moved, Stays, Only
    <2>2. call'[c].saves = "open" => Opening
      BY <1>3 DEF Moved, Stays, Opening
    <2> QED BY <1>3, <2>1, <2>2, FirmQuiet DEF RenameTmp, Moved, Stays, firm
  <1>4. CASE Ended(c) /\ call[c].op = "reset" /\ companyCache' = "none"
    <2>1. \A d \in Calls : call'[d] = Idle
      BY <1>4, ResetIsAlone DEF Ended, Only
    <2>2. ~Resetting' /\ ~Opening'
      BY <1>1, <1>4, <2>1 DEF Resetting, Opening
    <2>3. company' = "none"
      BY <1>4 DEF FirmInv, ResetWrites, Resetting, RenameTmp
    <2> QED BY <1>1, <1>4, <2>1, <2>2, <2>3 DEF FirmInv, SkeletonKept, FileFollows, ResetWrites
  <1>5. CASE Thrown(c) /\ (tmp = {} \/ ChainFault(c) \in Faults) /\ UNCHANGED <<tmp, companyCache>>
    <2>1. call[c].op # "reset"
      BY <1>5 DEF RenameTmp, FirmInv, ResetWrites, ChainFault, CleanResets
    <2> QED BY <1>5, <2>1, ThrownFirm DEF RenameTmp, firm, TmpTorn
  <1> QED BY <1>3, <1>4, <1>5, RenameTmpStep

LEMMA VerifyFirm ==
    ASSUME CleanResets, RequestInv, FirmInv, NEW c \in Calls, Verify(c)
    PROVE  FirmInv'
  <1>1. Fits(call[c])
    BY DEF RequestInv, CallsTyped, Placed
  <1>2. Idle.op = "none" /\ Idle.at = "none" /\ Idle.saves = "none"
    BY DEF Idle
  <1>3. call[c].op # "reset"
    BY <1>1 DEF Verify, Fits
  <1>4. /\ Only(c) /\ call'[c].op # "reset" /\ call'[c].at # "prewrite"
        /\ call'[c].saves \in {call[c].saves, "none"}
    BY <1>1, <1>2, <1>3, VerifyStep DEF Verify, Fits, Thrown, Moved, Stays, Ended, Entered, Wrote
  <1> QED BY <1>3, <1>4, OtherFirm DEF Verify

LEMMA BootFirm ==
    ASSUME CleanResets, RequestInv, FirmInv, NEW c \in Calls, Boot(c)
    PROVE  FirmInv'
  <1>1. Fits(call[c])
    BY DEF RequestInv, CallsTyped, Placed
  <1>2. Idle.op = "none" /\ Idle.at = "none" /\ Idle.saves = "none"
    BY DEF Idle
  <1>3. call[c].op # "reset"
    BY <1>1, <1>2 DEF Boot, Fits, MayBegin
  <1>4. /\ Only(c) /\ call'[c].op # "reset" /\ call'[c].at # "prewrite"
        /\ call'[c].saves \in {call[c].saves, companyCache, "none"}
    BY <1>2, <1>3, BootStep DEF Begun, BegunWriting, Wrote, Entered, Stays, Moved, Ended
  <1> QED BY <1>3, <1>4, OtherFirm DEF Boot

LEMMA EnterFirm ==
    ASSUME CleanResets, RequestInv, FirmInv, NEW c \in Calls, Enter(c)
    PROVE  FirmInv'
  <1>1. Fits(call[c])
    BY DEF RequestInv, CallsTyped, Placed
  <1>2. Idle.op = "none" /\ Idle.at = "none" /\ Idle.saves = "none"
    BY DEF Idle
  <1>3. call[c].op # "reset"
    BY <1>1, <1>2 DEF Enter, Fits, MayBegin
  <1>4. /\ Only(c) /\ call'[c].op # "reset" /\ call'[c].at # "prewrite"
        /\ call'[c].saves \in {call[c].saves, companyCache, "none"}
    BY <1>2, <1>3, EnterStep DEF Begun, BegunWriting, Wrote, Entered, Stays, Moved, Ended
  <1> QED BY <1>3, <1>4, OtherFirm DEF Enter

LEMMA ProbedFirm ==
    ASSUME CleanResets, RequestInv, FirmInv, NEW c \in Calls, Probed(c)
    PROVE  FirmInv'
  <1>1. Fits(call[c])
    BY DEF RequestInv, CallsTyped, Placed
  <1>2. Idle.op = "none" /\ Idle.at = "none" /\ Idle.saves = "none"
    BY DEF Idle
  <1>3. call[c].op # "reset"
    BY <1>1, <1>2 DEF Probed, Fits, MayBegin
  <1>4. /\ Only(c) /\ call'[c].op # "reset" /\ call'[c].at # "prewrite"
        /\ call'[c].saves \in {call[c].saves, companyCache, "none"}
    BY <1>2, <1>3, ProbedStep DEF Begun, BegunWriting, Wrote, Entered, Stays, Moved, Ended
  <1> QED BY <1>3, <1>4, OtherFirm DEF Probed

LEMMA AddTreeFirm ==
    ASSUME CleanResets, RequestInv, FirmInv, NEW c \in Calls, AddTree(c)
    PROVE  FirmInv'
  <1>1. Fits(call[c])
    BY DEF RequestInv, CallsTyped, Placed
  <1>2. Idle.op = "none" /\ Idle.at = "none" /\ Idle.saves = "none"
    BY DEF Idle
  <1>3. call[c].op # "reset"
    BY <1>1, <1>2 DEF AddTree, Fits, MayBegin
  <1>4. /\ Only(c) /\ call'[c].op # "reset" /\ call'[c].at # "prewrite"
        /\ call'[c].saves \in {call[c].saves, companyCache, "none"}
    BY <1>2, <1>3, AddTreeStep DEF Begun, BegunWriting, Wrote, Entered, Stays, Moved, Ended
  <1> QED BY <1>3, <1>4, OtherFirm DEF AddTree

LEMMA RegisterFirm ==
    ASSUME CleanResets, RequestInv, FirmInv, NEW c \in Calls, Register(c)
    PROVE  FirmInv'
  <1>1. Fits(call[c])
    BY DEF RequestInv, CallsTyped, Placed
  <1>2. Idle.op = "none" /\ Idle.at = "none" /\ Idle.saves = "none"
    BY DEF Idle
  <1>3. call[c].op # "reset"
    BY <1>1, <1>2 DEF Register, Fits, MayBegin
  <1>4. /\ Only(c) /\ call'[c].op # "reset" /\ call'[c].at # "prewrite"
        /\ call'[c].saves \in {call[c].saves, companyCache, "none"}
    BY <1>2, <1>3, RegisterStep DEF Begun, BegunWriting, Wrote, Entered, Stays, Moved, Ended
  <1> QED BY <1>3, <1>4, OtherFirm DEF Register

LEMMA UnlinkFirm ==
    ASSUME CleanResets, RequestInv, FirmInv, NEW c \in Calls, Unlink(c)
    PROVE  FirmInv'
  <1>1. Fits(call[c])
    BY DEF RequestInv, CallsTyped, Placed
  <1>2. Idle.op = "none" /\ Idle.at = "none" /\ Idle.saves = "none"
    BY DEF Idle
  <1>3. call[c].op # "reset"
    BY <1>1, <1>2 DEF Unlink, Fits, MayBegin
  <1>4. /\ Only(c) /\ call'[c].op # "reset" /\ call'[c].at # "prewrite"
        /\ call'[c].saves \in {call[c].saves, companyCache, "none"}
    BY <1>2, <1>3, UnlinkStep DEF Begun, BegunWriting, Wrote, Entered, Stays, Moved, Ended
  <1> QED BY <1>3, <1>4, OtherFirm DEF Unlink

LEMMA RollBackFirm ==
    ASSUME CleanResets, RequestInv, FirmInv, NEW c \in Calls, RollBack(c)
    PROVE  FirmInv'
  <1>1. Fits(call[c])
    BY DEF RequestInv, CallsTyped, Placed
  <1>2. Idle.op = "none" /\ Idle.at = "none" /\ Idle.saves = "none"
    BY DEF Idle
  <1>3. call[c].op # "reset"
    BY <1>1, <1>2 DEF RollBack, Fits, MayBegin
  <1>4. /\ Only(c) /\ call'[c].op # "reset" /\ call'[c].at # "prewrite"
        /\ call'[c].saves \in {call[c].saves, companyCache, "none"}
    BY <1>2, <1>3, RollBackStep DEF Begun, BegunWriting, Wrote, Entered, Stays, Moved, Ended
  <1> QED BY <1>3, <1>4, OtherFirm DEF RollBack

LEMMA CollectFirm ==
    ASSUME CleanResets, RequestInv, FirmInv, NEW c \in Calls, Collect(c)
    PROVE  FirmInv'
  <1>1. Fits(call[c])
    BY DEF RequestInv, CallsTyped, Placed
  <1>2. Idle.op = "none" /\ Idle.at = "none" /\ Idle.saves = "none"
    BY DEF Idle
  <1>3. call[c].op # "reset"
    BY <1>1, <1>2 DEF Collect, Fits, MayBegin
  <1>4. /\ Only(c) /\ call'[c].op # "reset" /\ call'[c].at # "prewrite"
        /\ call'[c].saves \in {call[c].saves, companyCache, "none"}
    BY <1>2, <1>3, CollectStep DEF Begun, BegunWriting, Wrote, Entered, Stays, Moved, Ended
  <1> QED BY <1>3, <1>4, OtherFirm DEF Collect

LEMMA PushFirm ==
    ASSUME CleanResets, RequestInv, FirmInv, NEW c \in Calls, Push(c)
    PROVE  FirmInv'
  <1>1. Fits(call[c])
    BY DEF RequestInv, CallsTyped, Placed
  <1>2. Idle.op = "none" /\ Idle.at = "none" /\ Idle.saves = "none"
    BY DEF Idle
  <1>3. call[c].op # "reset"
    BY <1>1, <1>2 DEF Push, Fits, MayBegin
  <1>4. /\ Only(c) /\ call'[c].op # "reset" /\ call'[c].at # "prewrite"
        /\ call'[c].saves \in {call[c].saves, companyCache, "none"}
    BY <1>2, <1>3, PushStep DEF Begun, BegunWriting, Wrote, Entered, Stays, Moved, Ended
  <1> QED BY <1>3, <1>4, OtherFirm DEF Push

LEMMA CheckedFirm ==
    ASSUME CleanResets, RequestInv, FirmInv, NEW c \in Calls, Checked(c)
    PROVE  FirmInv'
  <1>1. Fits(call[c])
    BY DEF RequestInv, CallsTyped, Placed
  <1>2. Idle.op = "none" /\ Idle.at = "none" /\ Idle.saves = "none"
    BY DEF Idle
  <1>3. call[c].op # "reset"
    BY <1>1, <1>2 DEF Checked, Fits, MayBegin
  <1>4. /\ Only(c) /\ call'[c].op # "reset" /\ call'[c].at # "prewrite"
        /\ call'[c].saves \in {call[c].saves, companyCache, "none"}
    BY <1>2, <1>3, CheckedStep DEF Begun, BegunWriting, Wrote, Entered, Stays, Moved, Ended
  <1> QED BY <1>3, <1>4, OtherFirm DEF Checked

LEMMA SelfcheckRunFirm ==
    ASSUME CleanResets, RequestInv, FirmInv, NEW c \in Calls, SelfcheckRun(c)
    PROVE  FirmInv'
  <1>1. Fits(call[c])
    BY DEF RequestInv, CallsTyped, Placed
  <1>2. Idle.op = "none" /\ Idle.at = "none" /\ Idle.saves = "none"
    BY DEF Idle
  <1>3. call[c].op # "reset"
    BY <1>1, <1>2 DEF SelfcheckRun, Fits, MayBegin
  <1>4. /\ Only(c) /\ call'[c].op # "reset" /\ call'[c].at # "prewrite"
        /\ call'[c].saves \in {call[c].saves, companyCache, "none"}
    BY <1>2, <1>3, SelfcheckRunStep DEF Begun, BegunWriting, Wrote, Entered, Stays, Moved, Ended
  <1> QED BY <1>3, <1>4, OtherFirm DEF SelfcheckRun

LEMMA ProgressFirm ==
    ASSUME CleanResets, RequestInv, FirmInv, NEW c \in Calls, Progress(c)
    PROVE  FirmInv'
  <1>1. Fits(call[c])
    BY DEF RequestInv, CallsTyped, Placed
  <1>2. Idle.op = "none" /\ Idle.at = "none" /\ Idle.saves = "none"
    BY DEF Idle
  <1>3. call[c].op # "reset"
    BY <1>1, <1>2 DEF Progress, Fits, MayBegin
  <1>4. /\ Only(c) /\ call'[c].op # "reset" /\ call'[c].at # "prewrite"
        /\ call'[c].saves \in {call[c].saves, companyCache, "none"}
    BY <1>2, <1>3, ProgressStep DEF Begun, BegunWriting, Wrote, Entered, Stays, Moved, Ended
  <1> QED BY <1>3, <1>4, OtherFirm DEF Progress

LEMMA SyncFirm ==
    ASSUME CleanResets, RequestInv, FirmInv, NEW c \in Calls, Sync(c)
    PROVE  FirmInv'
  <1>1. Fits(call[c])
    BY DEF RequestInv, CallsTyped, Placed
  <1>2. Idle.op = "none" /\ Idle.at = "none" /\ Idle.saves = "none"
    BY DEF Idle
  <1>3. call[c].op # "reset"
    BY <1>1, <1>2 DEF Sync, Fits, MayBegin
  <1>4. /\ Only(c) /\ call'[c].op # "reset" /\ call'[c].at # "prewrite"
        /\ call'[c].saves \in {call[c].saves, companyCache, "none"}
    BY <1>2, <1>3, SyncStep DEF Begun, BegunWriting, Wrote, Entered, Stays, Moved, Ended
  <1> QED BY <1>3, <1>4, OtherFirm DEF Sync

LEMMA ConfirmFirm ==
    ASSUME CleanResets, RequestInv, FirmInv, NEW c \in Calls, Confirm(c)
    PROVE  FirmInv'
  <1>1. Fits(call[c])
    BY DEF RequestInv, CallsTyped, Placed
  <1>2. Idle.op = "none" /\ Idle.at = "none" /\ Idle.saves = "none"
    BY DEF Idle
  <1>3. call[c].op # "reset"
    BY <1>1, <1>2 DEF Confirm, Fits, MayBegin
  <1>4. /\ Only(c) /\ call'[c].op # "reset" /\ call'[c].at # "prewrite"
        /\ call'[c].saves \in {call[c].saves, companyCache, "none"}
    BY <1>2, <1>3, ConfirmStep DEF Begun, BegunWriting, Wrote, Entered, Stays, Moved, Ended
  <1> QED BY <1>3, <1>4, OtherFirm DEF Confirm

LEMMA FirstCollabFirm ==
    ASSUME CleanResets, RequestInv, FirmInv, NEW c \in Calls, FirstCollab(c)
    PROVE  FirmInv'
  <1>1. Fits(call[c])
    BY DEF RequestInv, CallsTyped, Placed
  <1>2. Idle.op = "none" /\ Idle.at = "none" /\ Idle.saves = "none"
    BY DEF Idle
  <1>3. call[c].op # "reset"
    BY <1>1, <1>2 DEF FirstCollab, Fits, MayBegin
  <1>4. /\ Only(c) /\ call'[c].op # "reset" /\ call'[c].at # "prewrite"
        /\ call'[c].saves \in {call[c].saves, companyCache, "none"}
    BY <1>2, <1>3, FirstCollabStep DEF Begun, BegunWriting, Wrote, Entered, Stays, Moved, Ended
  <1> QED BY <1>3, <1>4, OtherFirm DEF FirstCollab

LEMMA ClaimFirm ==
    ASSUME CleanResets, RequestInv, FirmInv, NEW c \in Calls, NEW t \in Trees, Claim(c, t)
    PROVE  FirmInv'
  <1>1. Fits(call[c])
    BY DEF RequestInv, CallsTyped, Placed
  <1>2. Idle.op = "none" /\ Idle.at = "none" /\ Idle.saves = "none"
    BY DEF Idle
  <1>3. call[c].op # "reset"
    BY <1>1, <1>2 DEF Claim, Fits, MayBegin
  <1>4. /\ Only(c) /\ call'[c].op # "reset" /\ call'[c].at # "prewrite"
        /\ call'[c].saves \in {call[c].saves, companyCache, "none"}
    BY <1>2, <1>3, ClaimStep DEF Begun, BegunWriting, Wrote, Entered, Stays, Moved, Ended
  <1> QED BY <1>3, <1>4, OtherFirm DEF Claim

LEMMA LinkFirm ==
    ASSUME CleanResets, RequestInv, FirmInv, NEW c \in Calls, NEW t \in Trees,
           NEW source \in {"local", "github"}, Link(c, t, source)
    PROVE  FirmInv'
  <1>1. CASE UNCHANGED call
    BY <1>1 DEF Link, firm, FirmInv, SkeletonKept, FileFollows, ResetWrites, Resetting, Opening
  <1>2. CASE \E at \in {"register", "tree"} : Begun(c, "link", at, {t}, "none")
    <2>1. call[c].op = "none" /\ call[c].at = "none"
      BY DEF Link, MayBegin, Idle
    <2> QED BY <1>2, <2>1, OtherFirm DEF Link, Begun
  <1> QED BY <1>1, <1>2, LinkStep

LEMMA AssembleFirm ==
    ASSUME CleanResets, RequestInv, FirmInv, NEW c \in Calls, Assemble(c)
    PROVE  FirmInv'
  <1>1. call[c].op = "none" /\ call[c].at = "none"
    BY DEF Assemble, MayBegin, Idle
  <1>2. \E at \in {"enter", "prewrite"} : Begun(c, "assemble", at, {}, "none")
    BY AssembleStep
  <1>3. \A d \in Calls : call'[d].op = "reset" /\ call'[d].at = "rename" => tmp' # {}
    BY <1>2 DEF Assemble, FirmInv, ResetWrites, Begun, Only
  <1> QED BY <1>1, <1>2, <1>3, FirmQuiet DEF Assemble, Begun

LEMMA PrewriteFirm ==
    ASSUME CleanResets, RequestInv, FirmInv, NEW c \in Calls, Prewrite(c)
    PROVE  FirmInv'
  <1>1. Fits(call[c])
    BY DEF RequestInv, CallsTyped, Placed
  <1>2. Idle.op = "none" /\ Idle.at = "none" /\ Idle.saves = "none"
    BY DEF Idle
  <1>3. call[c].op = "assemble" /\ call[c].at = "prewrite" /\ call[c] # Idle
    BY <1>1, <1>2 DEF Prewrite, Fits
  <1>4. ~Resetting
    BY <1>3, BusyNoReset
  <1>5. Only(c) /\ call'[c].op # "reset" /\ UNCHANGED <<company, companyCache, tmp>>
    BY <1>2, <1>3, PrewriteStep DEF Prewrite, Ended
  <1>6. ~Resetting'
    BY <1>4, <1>5 DEF Resetting, Only
  <1>7. \A d \in Calls \ {c} : call[d].at # "prewrite"
    <2> SUFFICES ASSUME NEW d \in Calls \ {c}, call[d].at = "prewrite" PROVE FALSE
      OBVIOUS
    <2>1. call[d].op = "assemble" /\ call[d] # Idle
      BY <1>2 DEF RequestInv, CallsTyped, Placed, Fits
    <2> QED BY <1>3, <2>1 DEF RequestInv, CallsTyped, Compatible, Repeatable
  <1>8. SkeletonKept'
    <2>1. CASE Opening
      <3>1. Targets \subseteq files /\ call[c].mine = {}
        BY <1>3, <1>4, <2>1 DEF FirmInv, SkeletonKept
      <3>2. Targets \subseteq files' /\ call'[c].at # "prewrite"
        BY <1>2, <3>1, PrewriteStep DEF Ended
      <3> QED BY <1>5, <1>7, <3>2 DEF SkeletonKept, Only
    <2>2. CASE ~Opening
      <3>1. CASE Targets \subseteq files /\ UNCHANGED files /\ call'[c].at = "save"
        BY <1>5, <1>7, <3>1 DEF SkeletonKept, Only
      <3>2. CASE call'[c].saves # "open"
        BY <1>5, <2>2, <3>2 DEF SkeletonKept, Opening, Only
      <3>3. call[c].saves # "open"
        BY <2>2 DEF Opening
      <3> QED BY <1>2, <3>1, <3>2, <3>3, PrewriteStep DEF Ended
    <2> QED BY <2>1, <2>2
  <1>9. FileFollows'
    BY <1>3, <1>4, <1>5, <1>6 DEF FirmInv, FileFollows, Only
  <1>10. ResetWrites'
    BY <1>6 DEF ResetWrites, Resetting
  <1> QED BY <1>8, <1>9, <1>10 DEF FirmInv

LEMMA SaveFirm ==
    ASSUME CleanResets, RequestInv, FirmInv, NEW c \in Calls, Save(c)
    PROVE  FirmInv'
  <1>1. Fits(call[c])
    BY DEF RequestInv, CallsTyped, Placed
  <1>2. Idle.op = "none" /\ Idle.at = "none" /\ Idle.saves = "none"
    BY DEF Idle
  <1>3. call[c].op \in {"assemble", "progress"} /\ call[c] # Idle
    BY <1>1, <1>2 DEF Save, Fits
  <1>4. ~Resetting
    BY <1>3, BusyNoReset
  <1>5. /\ Only(c) /\ call'[c].op # "reset" /\ call'[c].at # "prewrite"
        /\ call'[c].saves = "open" => call[c].saves = "open"
    BY <1>2, <1>3, SaveStep DEF Ended, Moved, Stays
  <1>6. ~Resetting'
    BY <1>4, <1>5 DEF Resetting, Only
  <1>7. SkeletonKept'
    BY <1>4, <1>5 DEF Save, FirmInv, SkeletonKept, Opening, Only
  <1>8. FileFollows'
    <2>1. CASE Moved(c, "saving") /\ company' = "torn"
      BY <2>1 DEF FileFollows
    <2>2. CASE Ended(c) /\ UNCHANGED company
      BY <1>4, <1>5, <2>2 DEF Save, FirmInv, FileFollows
    <2> QED BY <2>1, <2>2, SaveStep
  <1>9. ResetWrites'
    BY <1>6 DEF ResetWrites, Resetting
  <1> QED BY <1>7, <1>8, <1>9 DEF FirmInv

LEMMA SavedFirm ==
    ASSUME CleanResets, RequestInv, FirmInv, NEW c \in Calls, Saved(c)
    PROVE  FirmInv'
  <1>1. Fits(call[c])
    BY DEF RequestInv, CallsTyped, Placed
  <1>2. Idle.op = "none" /\ Idle.at = "none" /\ Idle.saves = "none"
    BY DEF Idle
  <1>3. call[c].op \in {"assemble", "progress"} /\ call[c] # Idle
    BY <1>1, <1>2 DEF Saved, Fits
  <1>4. ~Resetting
    BY <1>3, BusyNoReset
  <1>5. /\ Only(c) /\ call'[c].op # "reset" /\ call'[c].at # "prewrite"
        /\ call'[c].saves = "open" => call[c].saves = "open"
    BY <1>2, <1>3, SavedStep DEF Ended, Moved, Stays
  <1>6. ~Resetting'
    BY <1>4, <1>5 DEF Resetting, Only
  <1>7. Opening' => Opening
    BY <1>5, SavedStep DEF Opening, Only
  <1>8. SkeletonKept'
    BY <1>4, <1>5, <1>7 DEF Saved, FirmInv, SkeletonKept, Only
  <1>9. FileFollows'
    BY <1>4, SavedStep DEF FirmInv, FileFollows
  <1>10. ResetWrites'
    BY <1>6 DEF ResetWrites, Resetting
  <1> QED BY <1>8, <1>9, <1>10 DEF FirmInv

LEMMA ResetFirm ==
    ASSUME CleanResets, RequestInv, FirmInv, NEW c \in Calls, NEW kind \in Resets, Reset(c, kind)
    PROVE  FirmInv'
  <1>1. \A d \in Calls \ {c} : call[d] = Idle
    BY DEF Reset, MayBegin, CleanResets
  <1>2. call'[c].op = "reset" /\ call'[c].at = "wipe" /\ Only(c)
    BY ResetStep
  <1>3. Resetting' /\ company' = "none"
    BY <1>2 DEF Resetting, Reset
  <1>4. \A d \in Calls : call'[d].at # "rename"
    BY <1>1, <1>2 DEF Only, Idle
  <1> QED BY <1>3, <1>4 DEF FirmInv, SkeletonKept, FileFollows, ResetWrites

LEMMA WipeFirm ==
    ASSUME CleanResets, RequestInv, FirmInv, NEW c \in Calls, Wipe(c)
    PROVE  FirmInv'
  <1>1. Fits(call[c])
    BY DEF RequestInv, CallsTyped, Placed
  <1>2. call[c].op = "reset" /\ company = "none"
    BY <1>1 DEF Wipe, Fits, FirmInv, ResetWrites, Resetting
  <1>3. \A d \in Calls \ {c} : call[d] = Idle
    BY <1>2, ResetIsAlone
  <1>4. Only(c) /\ call'[c].op = "reset" /\ call'[c].at = "write"
    BY <1>2, WipeStep DEF Stays
  <1>5. Resetting' /\ company' = "none"
    BY <1>2, <1>4 DEF Resetting, Wipe
  <1>6. \A d \in Calls : call'[d].at # "rename"
    BY <1>3, <1>4 DEF Only, Idle
  <1> QED BY <1>5, <1>6 DEF FirmInv, SkeletonKept, FileFollows, ResetWrites

LEMMA RestartFirm == ASSUME RequestInv, FirmInv, Restart PROVE FirmInv'
  <1>1. Idle.op = "none" /\ Idle.at = "none" /\ Idle.saves = "none"
    BY DEF Idle
  <1>2. \A d \in Calls : call'[d] = Idle
    BY RestartStep
  <1>3. ~Resetting' /\ \A d \in Calls : call'[d].at # "prewrite" /\ call'[d].saves # "open"
    BY <1>1, <1>2 DEF Resetting
  <1>4. company' = companyCache' /\ company' # "torn"
    BY DEF Restart, RequestInv, DataTyped
  <1>5. SkeletonKept'
    <2>1. companyCache' = "open" => company = "open"
      BY DEF Restart
    <2>2. company = "open" => ~Resetting /\ companyCache = "open"
      BY DEF FirmInv, FileFollows, ResetWrites
    <2>3. companyCache' = "open" => Targets \subseteq files'
      BY <2>1, <2>2 DEF FirmInv, SkeletonKept, Opening, Restart
    <2> QED BY <1>3, <2>3 DEF SkeletonKept, Opening
  <1>6. ResetWrites'
    BY <1>3 DEF ResetWrites, Resetting
  <1> QED BY <1>4, <1>5, <1>6 DEF FirmInv, FileFollows

LEMMA FirmStep == ASSUME CleanResets, RequestInv, FirmInv, [Next]_vars PROVE FirmInv'
  <1>1. ASSUME NEW c \in Calls, Step(c) PROVE FirmInv'
    BY <1>1, WriteTmpFirm, RenameTmpFirm, VerifyFirm, BootFirm, EnterFirm, ProbedFirm,
           PrewriteFirm, SaveFirm, SavedFirm, AddTreeFirm, RegisterFirm, UnlinkFirm, RollBackFirm,
           CollectFirm, PushFirm, CheckedFirm, WipeFirm DEF Step
  <1>2. ASSUME NEW c \in Calls, Request(c) PROVE FirmInv'
    BY <1>2, SelfcheckRunFirm, AssembleFirm, ProgressFirm, ClaimFirm, LinkFirm, SyncFirm, ConfirmFirm,
           FirstCollabFirm, ResetFirm DEF Request
  <1>3. CASE Apply \/ Strays \/ Rejoins \/ UNCHANGED vars
    BY <1>3 DEF Apply, Strays, Rejoins, vars, chain, firm, FirmInv, SkeletonKept, FileFollows, ResetWrites, Resetting, Opening
  <1> QED BY <1>1, <1>2, <1>3, RestartFirm DEF Next

LEMMA FirmInit == Init => FirmInv
  <1>1. Idle.op = "none" /\ Idle.at = "none" /\ Idle.saves = "none"
    BY DEF Idle
  <1> QED BY <1>1 DEF Init, FirmInv, SkeletonKept, FileFollows, ResetWrites, Resetting, Opening

LEMMA FirmAlways == ASSUME CleanResets PROVE Spec => [](RequestInv /\ FirmInv)
  <1>1. Init => RequestInv /\ FirmInv
    BY RequestInit, FirmInit
  <1>2. RequestInv /\ FirmInv /\ [Next]_vars => (RequestInv /\ FirmInv)'
    BY RequestStep, FirmStep
  <1> QED BY <1>1, <1>2, PTL DEF Spec

\* A company that is open has its whole skeleton, however assemblies, notes of
\* the wizard and the rest overlap, fail, and are cut short by crashes and
\* resets, as long as the reset runs by itself and its writes succeed.
THEOREM SkeletonNeverLost == CleanResets => (Spec => []SkeletonInPlace)
  <1> SUFFICES ASSUME CleanResets PROVE Spec => []SkeletonInPlace
    OBVIOUS
  <1>1. RequestInv /\ FirmInv => SkeletonInPlace
    BY DEF FirmInv, SkeletonKept, FileFollows, ResetWrites, Opening, SkeletonInPlace
  <1> QED BY <1>1, FirmAlways, PTL

-----------------------------------------------------------------------------
(* The stages and what was earned for them.                                *)

Writing == {"write", "rename", "verify"}

\* What a request that means to go on has put into the frame it is writing.
Owed(r) ==
    /\ r.then = "onboarding" => r.frame.check = "pass"
    /\ r.then = "confirm" => r.frame.sync = "pushed"
    /\ r.then = "ready" => r.frame.confirmed

\* Every frame on its way to the disk is as good as the one the daemon goes by:
\* which of them gets there, and from which of two writers, does not matter.
EarnedInv ==
    /\ Earned(cache) /\ Earned(disk)
    /\ \A f \in tmp : Earned(f)
    /\ \A c \in Calls :
          /\ call[c].at \in Writing => Earned(call[c].frame) /\ Owed(call[c])
          /\ call[c].at \in {"tree", "register"} => call[c].tree # {}

LEMMA EarnedUpdates ==
    ASSUME NEW f \in Frames, Earned(f)
    PROVE  /\ Earned(Numbered(f))
           /\ \A s \in {"pass", "blocked"} : Earned([f EXCEPT !.check = s])
           /\ \A s \in SUBSET Trees : s # {} => Earned([f EXCEPT !.link = s])
           /\ \A s \in {"failed", "pushed"} : Earned([f EXCEPT !.sync = s])
           /\ Earned([f EXCEPT !.confirmed = TRUE])
           /\ f.state = "ready" => Earned([f EXCEPT !.collab = @ + 1])
  BY DEF Earned, Frames, Numbered

\* The next stage, where its evidence is there.
LEMMA EarnedStage ==
    ASSUME NEW f \in Frames, Earned(f), NEW state \in Stages, Transitions[f.state] = state,
           state = "onboarding" => f.check = "pass",
           state = "sync" => f.link # {},
           state = "confirm" => f.sync = "pushed",
           state = "ready" => f.confirmed
    PROVE  Earned(Numbered([f EXCEPT !.state = state]))
  <1>1. f.state \in {"uninitialized", "selfcheck", "onboarding", "link", "sync", "confirm", "ready"}
    BY StageNames DEF Frames
  <1>2. PICK g \in Frames : g = [f EXCEPT !.state = state]
    BY FrameUpdates
  <1>3. /\ g.state = state /\ g.check = f.check /\ g.link = f.link /\ g.sync = f.sync
        /\ g.confirmed = f.confirmed /\ g.collab = f.collab
    BY <1>2 DEF Frames
  <1>4. \/ f.state = "uninitialized" /\ state = "selfcheck"
        \/ f.state = "selfcheck" /\ state = "onboarding"
        \/ f.state = "onboarding" /\ state = "link"
        \/ f.state = "link" /\ state = "sync"
        \/ f.state = "sync" /\ state = "confirm"
        \/ f.state = "confirm" /\ state = "ready"
    <2>1. state # "none"
      BY StageNames
    <2> QED BY <1>1, <2>1 DEF Transitions
  <1>5. Earned(g)
    BY <1>3, <1>4 DEF Earned
  <1> QED BY <1>2, <1>5, EarnedUpdates

LEMMA EarnedFrames ==
    ASSUME RequestInv
    PROVE  /\ cache \in Frames /\ disk \in Frames
           /\ \A c \in Calls : call[c] \in Requests /\ call[c].frame \in Frames /\ call[c].tree \in SUBSET Trees
           /\ \A c \in Calls : Fits(call[c])
  BY DEF RequestInv, CallsTyped, DataTyped, Placed, Requests

\* A step of one request that leaves the files as they are.
LEMMA EarnedQuiet ==
    ASSUME RequestInv, EarnedInv, NEW c \in Calls, Only(c), UNCHANGED <<disk, tmp>>, Earned(cache'),
           call'[c].at \in Writing => Earned(call'[c].frame) /\ Owed(call'[c]),
           call'[c].at \in {"tree", "register"} => call'[c].tree # {}
    PROVE  EarnedInv'
  BY DEF EarnedInv, Only

LEMMA EndedEarned ==
    ASSUME RequestInv, EarnedInv, NEW c \in Calls, Ended(c), UNCHANGED <<disk, tmp>>, Earned(cache')
    PROVE  EarnedInv'
  <1>1. Idle.at = "none"
    BY DEF Idle
  <1> QED BY <1>1, EarnedQuiet DEF Ended, Writing

LEMMA ThrownEarned ==
    ASSUME RequestInv, EarnedInv, NEW c \in Calls, Thrown(c), UNCHANGED <<cache, disk, tmp>>
    PROVE  EarnedInv'
  <1>1. Earned(cache')
    BY DEF EarnedInv
  <1>2. CASE Ended(c)
    BY <1>1, <1>2, EndedEarned
  <1>3. CASE Moved(c, "unlink")
    BY <1>1, <1>3, EarnedQuiet DEF Moved, Stays, Writing
  <1> QED BY <1>2, <1>3 DEF Thrown

LEMMA DefaultEarned == Earned(DefaultFrame)
  BY DEF Earned, DefaultFrame

\* A request sets out to write a frame that has been earned.
LEMMA WroteEarned ==
    ASSUME RequestInv, EarnedInv, NEW c \in Calls, NEW f, NEW then, Wrote(c, f, then),
           UNCHANGED <<disk, tmp>>, Earned(cache'), Earned(Numbered(f)), Owed(call'[c])
    PROVE  EarnedInv'
  BY EarnedQuiet DEF Wrote, Stays, Writing

LEMMA BegunWritingEarned ==
    ASSUME RequestInv, EarnedInv, NEW c \in Calls, NEW op, NEW f, NEW then \in {"none", "collect"},
           BegunWriting(c, op, f, then), UNCHANGED <<cache, disk, tmp>>, Earned(Numbered(f))
    PROVE  EarnedInv'
  <1>1. Only(c) /\ call'[c].at = "write" /\ Earned(call'[c].frame) /\ Owed(call'[c])
    BY DEF BegunWriting, Owed
  <1>2. Earned(cache')
    BY DEF EarnedInv
  <1> QED BY <1>1, <1>2, EarnedQuiet DEF Writing

LEMMA BegunEarned ==
    ASSUME RequestInv, EarnedInv, NEW c \in Calls, NEW op, NEW at, NEW s, NEW t, Begun(c, op, at, t, s),
           at \notin Writing, at \in {"tree", "register"} => t # {}, UNCHANGED <<cache, disk, tmp>>
    PROVE  EarnedInv'
  <1>1. Earned(cache')
    BY DEF EarnedInv
  <1> QED BY <1>1, EarnedQuiet DEF Begun

\* A request goes on to somewhere it writes no frame.
LEMMA MovedEarned ==
    ASSUME RequestInv, EarnedInv, NEW c \in Calls, Only(c), UNCHANGED <<cache, disk, tmp>>,
           call'[c].at \in {"collect", "push", "remove", "enter", "save", "saving", "prewrite", "wipe"}
    PROVE  EarnedInv'
  <1>1. Earned(cache')
    BY DEF EarnedInv
  <1> QED BY <1>1, EarnedQuiet DEF Writing

LEMMA WriteTmpEarned == ASSUME RequestInv, EarnedInv, NEW c \in Calls, WriteTmp(c) PROVE EarnedInv'
  <1>1. UNCHANGED <<cache, disk>> /\ call[c].at \in Writing
    BY DEF WriteTmp, Writing
  <1>2. Earned(call[c].frame) /\ Owed(call[c])
    BY <1>1 DEF EarnedInv
  <1>3. CASE Moved(c, "rename") /\ tmp' = {call[c].frame}
    <2>1. Only(c) /\ call'[c].at = "rename" /\ Earned(call'[c].frame) /\ Owed(call'[c])
      BY <1>2, <1>3 DEF Moved, Stays, Owed
    <2>2. \A f \in tmp' : Earned(f)
      BY <1>2, <1>3
    <2> QED BY <1>1, <2>1, <2>2 DEF EarnedInv, Only, Writing
  <1>4. CASE Thrown(c) /\ TmpTorn
    <2>1. Only(c) /\ call'[c].at \in {"none", "unlink"}
      BY <1>4 DEF Thrown, Moved, Stays, Ended, Idle
    <2>2. \A f \in tmp' : Earned(f)
      BY <1>4, DefaultEarned DEF EarnedInv, TmpTorn
    <2> QED BY <1>1, <2>1, <2>2 DEF EarnedInv, Only, Writing
  <1> QED BY <1>3, <1>4, WriteTmpStep

LEMMA RenameTmpEarned == ASSUME RequestInv, EarnedInv, NEW c \in Calls, RenameTmp(c) PROVE EarnedInv'
  <1>1. Earned(call[c].frame) /\ Owed(call[c])
    BY DEF RenameTmp, EarnedInv, Writing
  <1>2. CASE disk' \in Renamed(c) /\ tmp' = {} /\ Moved(c, "verify") /\ UNCHANGED cache
    <2>1. Only(c) /\ call'[c].at = "verify" /\ Earned(call'[c].frame) /\ Owed(call'[c])
      BY <1>1, <1>2 DEF Moved, Stays, Owed
    <2>2. Earned(disk') /\ Earned(cache')
      BY <1>2, DefaultEarned DEF EarnedInv, Renamed
    <2> QED BY <1>2, <2>1, <2>2 DEF EarnedInv, Only, Writing
  <1>3. CASE disk' \in Renamed(c) /\ tmp' = {} /\ Ended(c) /\ cache' = call[c].frame
    <2>1. Only(c) /\ call'[c].at = "none"
      BY <1>3 DEF Ended, Idle
    <2>2. Earned(disk') /\ Earned(cache')
      BY <1>1, <1>3, DefaultEarned DEF EarnedInv, Renamed
    <2> QED BY <1>3, <2>1, <2>2 DEF EarnedInv, Only, Writing
  <1>4. CASE Thrown(c) /\ UNCHANGED <<cache, disk, tmp>>
    BY <1>4, ThrownEarned
  <1> QED BY <1>2, <1>3, <1>4, RenameTmpStep

\* What is stored becomes what the daemon goes by, and its promise is kept.
LEMMA VerifyEarned == ASSUME RequestInv, EarnedInv, NEW c \in Calls, Verify(c) PROVE EarnedInv'
  <1>1. UNCHANGED <<disk, tmp>> /\ call[c].frame \in Frames
    BY EarnedFrames DEF Verify
  <1>2. Earned(call[c].frame) /\ Owed(call[c])
    BY DEF Verify, EarnedInv, Writing
  <1>3. CASE Thrown(c) /\ UNCHANGED cache
    BY <1>1, <1>3, ThrownEarned
  <1>4. CASE cache' = call[c].frame /\ Ended(c)
    BY <1>1, <1>2, <1>4, EndedEarned
  <1>5. CASE cache' = call[c].frame /\ Stays(c) /\ call'[c].at = "collect"
    BY <1>1, <1>2, <1>5, EarnedQuiet DEF Stays, Writing
  <1>6. ASSUME NEW state \in {"onboarding", "confirm", "ready"}, call[c].then = state,
               cache' = call[c].frame, Entered(c, call[c].frame, state)
        PROVE  EarnedInv'
    <2>1. PICK f \in Frames : f = call[c].frame
      BY <1>1
    <2>2. /\ Transitions[f.state] = state /\ Wrote(c, [f EXCEPT !.state = state], "none")
          /\ Earned(f) /\ cache' = f
      BY <1>2, <1>6, <2>1 DEF Entered
    <2>3. /\ state = "onboarding" => f.check = "pass"
          /\ state = "confirm" => f.sync = "pushed"
          /\ state = "ready" => f.confirmed
          /\ state \in Stages /\ state # "sync"
      BY <1>2, <1>6, <2>1, StageNames DEF Owed
    <2>4. Earned(Numbered([f EXCEPT !.state = state]))
      BY <2>2, <2>3, EarnedStage
    <2>5. Owed(call'[c])
      BY <2>2 DEF Wrote, Owed
    <2> QED BY <1>1, <2>2, <2>4, <2>5, WroteEarned
  <1> QED BY <1>3, <1>4, <1>5, <1>6, VerifyStep

LEMMA BootEarned == ASSUME RequestInv, EarnedInv, NEW c \in Calls, Boot(c) PROVE EarnedInv'
  <1>1. UNCHANGED <<cache, disk, tmp>> /\ cache \in Frames /\ Earned(cache) /\ cache.state = "uninitialized"
    BY EarnedFrames DEF Boot, EarnedInv
  <1>2. Earned(Numbered([cache EXCEPT !.state = "selfcheck"]))
    BY <1>1, EarnedStage, StageNames DEF Transitions
  <1>3. CASE BegunWriting(c, "boot", [cache EXCEPT !.state = "selfcheck"], "none")
    BY <1>1, <1>2, <1>3, BegunWritingEarned
  <1>4. CASE Ended(c)
    BY <1>1, <1>4, EndedEarned
  <1> QED BY <1>3, <1>4, BootStep

LEMMA EnterEarned == ASSUME RequestInv, EarnedInv, NEW c \in Calls, Enter(c) PROVE EarnedInv'
  <1>1. UNCHANGED <<cache, disk, tmp>> /\ cache \in Frames /\ Earned(cache)
    BY EarnedFrames DEF Enter, EarnedInv
  <1>2. CASE Entered(c, cache, "link")
    <2>1. Earned(Numbered([cache EXCEPT !.state = "link"]))
      BY <1>1, <1>2, EarnedStage, StageNames DEF Entered
    <2>2. Wrote(c, [cache EXCEPT !.state = "link"], "none") /\ Owed(call'[c])
      BY <1>2 DEF Entered, Wrote, Owed
    <2> QED BY <1>1, <2>1, <2>2, WroteEarned
  <1>3. CASE Ended(c)
    BY <1>1, <1>3, EndedEarned
  <1> QED BY <1>2, <1>3, EnterStep

LEMMA ProbedEarned == ASSUME RequestInv, EarnedInv, NEW c \in Calls, Probed(c) PROVE EarnedInv'
  <1>1. UNCHANGED <<cache, disk, tmp>> /\ cache \in Frames /\ Earned(cache)
    BY EarnedFrames DEF Probed, EarnedInv
  <1>2. ASSUME NEW s \in {"pass", "blocked"}, NEW then \in {"none", "onboarding"}, s = "pass" \/ then = "none",
               Wrote(c, [cache EXCEPT !.check = s], then)
        PROVE  EarnedInv'
    <2>1. PICK f \in Frames : f = [cache EXCEPT !.check = s]
      BY <1>1, FrameUpdates
    <2>2. f.check = s /\ Earned(f)
      BY <1>1, <2>1, EarnedUpdates DEF Frames
    <2>3. Numbered(f).check = s /\ Earned(Numbered(f))
      BY <2>2, EarnedUpdates DEF Numbered, Frames
    <2>4. Owed(call'[c])
      BY <1>2, <2>1, <2>3 DEF Wrote, Owed
    <2> QED BY <1>1, <1>2, <2>1, <2>3, <2>4, WroteEarned
  <1> QED BY <1>2, ProbedStep

LEMMA RegisterEarned == ASSUME RequestInv, EarnedInv, NEW c \in Calls, Register(c) PROVE EarnedInv'
  <1>1. UNCHANGED <<cache, disk, tmp>> /\ cache \in Frames /\ Earned(cache)
    BY EarnedFrames DEF Register, EarnedInv
  <1>2. CASE Wrote(c, [cache EXCEPT !.link = call[c].tree], "none")
    <2>1. call[c].tree \in SUBSET Trees /\ call[c].tree # {}
      BY EarnedFrames DEF Register, EarnedInv
    <2>2. PICK f \in Frames : f = [cache EXCEPT !.link = call[c].tree]
      BY <1>1, <2>1, FrameUpdates
    <2>3. Earned(Numbered(f))
      BY <1>1, <2>1, <2>2, EarnedUpdates
    <2>4. Owed(call'[c])
      BY <1>2 DEF Wrote, Owed
    <2> QED BY <1>1, <1>2, <2>2, <2>3, <2>4, WroteEarned
  <1>3. CASE Moved(c, "remove")
    BY <1>1, <1>3, MovedEarned DEF Moved, Stays
  <1>4. CASE Ended(c)
    BY <1>1, <1>4, EndedEarned
  <1> QED BY <1>2, <1>3, <1>4, RegisterStep

LEMMA PushEarned == ASSUME RequestInv, EarnedInv, NEW c \in Calls, Push(c) PROVE EarnedInv'
  <1>1. UNCHANGED <<cache, disk, tmp>> /\ cache \in Frames /\ Earned(cache)
    BY EarnedFrames DEF Push, EarnedInv
  <1>2. ASSUME NEW s \in {"pushed", "failed"}, NEW then \in {"none", "confirm"}, s = "pushed" \/ then = "none",
               Wrote(c, [cache EXCEPT !.sync = s], then)
        PROVE  EarnedInv'
    <2>1. PICK f \in Frames : f = [cache EXCEPT !.sync = s]
      BY <1>1, FrameUpdates
    <2>2. f.sync = s /\ Earned(f)
      BY <1>1, <2>1, EarnedUpdates DEF Frames
    <2>3. Numbered(f).sync = s /\ Earned(Numbered(f))
      BY <2>2, EarnedUpdates DEF Numbered, Frames
    <2>4. Owed(call'[c])
      BY <1>2, <2>1, <2>3 DEF Wrote, Owed
    <2> QED BY <1>1, <1>2, <2>1, <2>3, <2>4, WroteEarned
  <1> QED BY <1>2, PushStep

LEMMA CheckedEarned == ASSUME RequestInv, EarnedInv, NEW c \in Calls, Checked(c) PROVE EarnedInv'
  <1>1. UNCHANGED <<cache, disk, tmp>> /\ cache \in Frames /\ Earned(cache)
    BY EarnedFrames DEF Checked, EarnedInv
  <1>2. CASE Wrote(c, [cache EXCEPT !.confirmed = TRUE], "ready")
    <2>1. PICK f \in Frames : f = [cache EXCEPT !.confirmed = TRUE]
      BY <1>1, FrameUpdates
    <2>2. f.confirmed = TRUE /\ Earned(f)
      BY <1>1, <2>1, EarnedUpdates DEF Frames
    <2>3. Numbered(f).confirmed = TRUE /\ Earned(Numbered(f))
      BY <2>2, EarnedUpdates DEF Numbered, Frames
    <2>4. Owed(call'[c])
      BY <1>2, <2>1, <2>3 DEF Wrote, Owed
    <2> QED BY <1>1, <1>2, <2>1, <2>3, <2>4, WroteEarned
  <1>3. CASE Ended(c)
    BY <1>1, <1>3, EndedEarned
  <1> QED BY <1>2, <1>3, CheckedStep

LEMMA SyncEarned == ASSUME RequestInv, EarnedInv, NEW c \in Calls, Sync(c) PROVE EarnedInv'
  <1>1. UNCHANGED <<cache, disk, tmp>> /\ cache \in Frames /\ Earned(cache)
    BY EarnedFrames DEF Sync, EarnedInv
  <1>2. CASE /\ cache.state = "link" /\ cache.link # {}
             /\ BegunWriting(c, "sync", [cache EXCEPT !.state = "sync"], "collect")
    <2>1. Earned(Numbered([cache EXCEPT !.state = "sync"]))
      BY <1>1, <1>2, EarnedStage, StageNames DEF Transitions
    <2> QED BY <1>1, <1>2, <2>1, BegunWritingEarned
  <1>3. CASE Begun(c, "sync", "collect", {}, "none")
    BY <1>1, <1>3, BegunEarned DEF Writing
  <1> QED BY <1>2, <1>3, SyncStep

LEMMA FirstCollabEarned == ASSUME RequestInv, EarnedInv, NEW c \in Calls, FirstCollab(c) PROVE EarnedInv'
  <1>1. UNCHANGED <<cache, disk, tmp>> /\ cache \in Frames /\ Earned(cache) /\ cache.collab < 2
    BY EarnedFrames DEF FirstCollab, EarnedInv
  <1>2. PICK f \in Frames : f = [cache EXCEPT !.collab = @ + 1]
    BY <1>1, FrameUpdates
  <1>3. Earned(Numbered(f)) /\ BegunWriting(c, "collab", f, "none")
    BY <1>1, <1>2, EarnedUpdates, FirstCollabStep
  <1> QED BY <1>1, <1>3, BegunWritingEarned

LEMMA WipeEarned == ASSUME RequestInv, EarnedInv, NEW c \in Calls, Wipe(c) PROVE EarnedInv'
  <1>1. PICK f : f = [DefaultFrame EXCEPT !.state = "selfcheck", !.seq = 1]
    OBVIOUS
  <1>2. Earned(f)
    BY <1>1 DEF DefaultFrame, Earned
  <1>3. Only(c) /\ call'[c].at = "write" /\ call'[c].frame = f /\ call'[c].then = "none"
    BY <1>1, WipeStep DEF Stays
  <1>4. Earned(cache') /\ UNCHANGED <<disk, tmp>>
    BY DEF Wipe, EarnedInv
  <1> QED BY <1>2, <1>3, <1>4, EarnedQuiet DEF Owed, Writing

LEMMA AddTreeEarned == ASSUME RequestInv, EarnedInv, NEW c \in Calls, AddTree(c) PROVE EarnedInv'
  <1>1. UNCHANGED <<cache, disk, tmp>> /\ Earned(cache') /\ call[c].tree # {}
    BY DEF AddTree, EarnedInv
  <1>2. CASE Only(c) /\ call'[c].at \in {"register", "remove"} /\ call'[c].tree = call[c].tree
    BY <1>1, <1>2, EarnedQuiet DEF Writing
  <1>3. CASE Ended(c)
    BY <1>1, <1>3, EndedEarned
  <1> QED BY <1>2, <1>3, AddTreeStep

\* The company, its notes and what is undone: no frame is written.
LEMMA OtherEarned ==
    ASSUME RequestInv, EarnedInv, NEW c \in Calls,
           Prewrite(c) \/ Save(c) \/ Saved(c) \/ Unlink(c) \/ RollBack(c) \/ Collect(c)
    PROVE  EarnedInv'
  <1>1. UNCHANGED <<cache, disk, tmp>>
    BY DEF Prewrite, Save, Saved, Unlink, RollBack, Collect
  <1>2. Earned(cache')
    BY <1>1 DEF EarnedInv
  <1>3. \/ Ended(c)
        \/ Only(c) /\ call'[c].at \in {"prewrite", "save", "saving", "enter", "remove", "push"}
    BY PrewriteStep, SaveStep, SavedStep, UnlinkStep, RollBackStep, CollectStep DEF Moved, Stays
  <1> QED BY <1>1, <1>2, <1>3, EndedEarned, MovedEarned

LEMMA AcceptedEarned ==
    ASSUME RequestInv, EarnedInv, NEW c \in Calls,
           SelfcheckRun(c) \/ Assemble(c) \/ Progress(c) \/ Confirm(c)
    PROVE  EarnedInv'
  <1>1. UNCHANGED <<cache, disk, tmp>>
    BY DEF SelfcheckRun, Assemble, Progress, Confirm
  <1>2. \E op \in Operations, at \in {"probe", "enter", "prewrite", "save", "check"}, s \in {"none", companyCache} :
           Begun(c, op, at, {}, s)
    BY SelfcheckRunStep, AssembleStep, ProgressStep, ConfirmStep DEF Operations
  <1> QED BY <1>1, <1>2, BegunEarned DEF Writing

LEMMA ProjectEarned ==
    ASSUME RequestInv, EarnedInv, NEW c \in Calls, NEW t \in Trees,
           Claim(c, t) \/ \E source \in {"local", "github"} : Link(c, t, source)
    PROVE  EarnedInv'
  <1>1. UNCHANGED <<cache, disk, tmp>>
    BY DEF Claim, Link
  <1>2. CASE \E op \in {"claim", "link"}, at \in {"register", "tree"} : Begun(c, op, at, {t}, "none")
    BY <1>1, <1>2, BegunEarned DEF Writing
  <1>3. CASE UNCHANGED call
    BY <1>1, <1>3 DEF EarnedInv
  <1> QED BY <1>2, <1>3, ClaimStep, LinkStep

LEMMA ResetEarned ==
    ASSUME RequestInv, EarnedInv, NEW c \in Calls, NEW kind \in Resets, Reset(c, kind)
    PROVE  EarnedInv'
  <1>1. UNCHANGED <<cache, disk, tmp>>
    BY DEF Reset
  <1> QED BY <1>1, ResetStep, MovedEarned

LEMMA RestartEarned == ASSUME RequestInv, EarnedInv, Restart PROVE EarnedInv'
  <1>1. \A c \in Calls : call'[c].at = "none"
    BY RestartStep DEF Idle
  <1>2. Earned(cache') /\ UNCHANGED <<disk, tmp>>
    BY DEF Restart, EarnedInv
  <1> QED BY <1>1, <1>2 DEF EarnedInv, Writing

LEMMA EarnedStep == ASSUME RequestInv, EarnedInv, [Next]_vars PROVE EarnedInv'
  <1>1. ASSUME NEW c \in Calls, Step(c) PROVE EarnedInv'
    BY <1>1, WriteTmpEarned, RenameTmpEarned, VerifyEarned, BootEarned, EnterEarned, ProbedEarned,
           OtherEarned, AddTreeEarned, RegisterEarned, PushEarned, CheckedEarned, WipeEarned DEF Step
  <1>2. ASSUME NEW c \in Calls, Request(c) PROVE EarnedInv'
    BY <1>2, AcceptedEarned, ProjectEarned, SyncEarned, FirstCollabEarned, ResetEarned DEF Request
  <1>3. CASE Apply \/ Strays \/ Rejoins \/ UNCHANGED vars
    BY <1>3 DEF Apply, Strays, Rejoins, vars, chain, EarnedInv
  <1> QED BY <1>1, <1>2, <1>3, RestartEarned DEF Next

LEMMA EarnedInit == Init => EarnedInv
  <1>1. Earned(DefaultFrame) /\ Idle.at = "none"
    BY DEF Earned, DefaultFrame, Idle
  <1> QED BY <1>1 DEF Init, EarnedInv, Writing

\* However requests overlap, whoever of them writes the one tmp file, renames it
\* or finds it gone, and wherever a write, a check, a reset or the daemon itself
\* stops: a frame on the disk or in the daemon that stands for a stage has the
\* marks of the stages before it, and the chain is ready only confirmed.
THEOREM StagesAreEarned == Spec => []StagesEarned
  <1>1. Init => RequestInv /\ EarnedInv
    BY RequestInit, EarnedInit
  <1>2. RequestInv /\ EarnedInv /\ [Next]_vars => (RequestInv /\ EarnedInv)'
    BY RequestStep, EarnedStep
  <1>3. EarnedInv => StagesEarned
    BY DEF EarnedInv, StagesEarned
  <1> QED BY <1>1, <1>2, <1>3, PTL DEF Spec
=============================================================================
