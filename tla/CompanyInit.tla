---------------------------- MODULE CompanyInit ----------------------------
(***************************************************************************)
(* The initialisation of a company in the daemon: the chain file and the   *)
(* requests that move it along (src/src/company/init-chain.ts, init-state, *)
(* init-selfcheck, init-assemble, init-sync, init-confirm,                 *)
(* init-first-collab, src/src/project/project-link.ts and                  *)
(* project-registry.ts, with their endpoints in src/src/server/app.ts).    *)
(*                                                                         *)
(* A request runs from one await to the next. The chain file is written as *)
(* the code does it: a frame is computed from the cache, written to one    *)
(* shared tmp file, renamed, read back, and only then becomes the cache.   *)
(* A write may fail and the daemon may die between any two steps; what is  *)
(* on the disk survives. A frame keeps what the handlers look at; there is *)
(* one project; a bundle is the set of worktrees it lists; a write of the  *)
(* registry is one step; TriMC fetches what was pushed when it likes.      *)
(***************************************************************************)
EXTENDS Naturals, FiniteSets

CONSTANTS
    Calls,            \* requests in flight
    Overlap,          \* sets of operations that may be in flight together
    Trees,            \* paths of worktrees
    UserTrees,        \* those the user has made, on branches of their own
    UserFiles,        \* the skeleton files the user has written
    Faults,           \* what may fail
    Resets,           \* the debug resets: "plain", "project" or "purge"
    MaxExtras         \* bound: faults, crashes, resets and repeated requests, together

VARIABLES
    call,             \* what each request is doing
    cache,            \* InitChain.cache
    disk,             \* init-chain.json; the default frame stands for no file
    tmp,              \* init-chain.json.tmp: no frame or one
    company,          \* company/state.json: "none", "torn" by a write under way, or "open"
    companyCache,     \* CompanyInitState.cache: "none" or "open"
    files,            \* the skeleton files in the workspace
    reg,              \* project-registry.json
    regCache,         \* ProjectRegistry.cache
    trees,            \* the worktrees git knows
    cloned,           \* whether the clone target holds a repository
    bundle,           \* sync-config.json in the main checkout: none or one
    pushed,           \* the one at the remotes
    applied,          \* the one TriMC runs with
    line,             \* main checkout and fleet are on a "shared" line, the checkout
                      \* has "left" the commit of the bundle, or the fleet is at a
                      \* "foreign" commit: none, an unknown or a diverged one
    extras

chain == <<call, cache, disk, tmp>>
firm == <<company, companyCache, files>>
project == <<reg, regCache, trees, cloned>>
bundles == <<bundle, pushed, applied, line>>
vars == <<chain, firm, project, bundles, extras>>

Transitions == [uninitialized |-> "selfcheck", selfcheck |-> "onboarding",
                onboarding |-> "link", link |-> "sync", sync |-> "confirm",
                confirm |-> "ready", ready |-> "none"]
Stages == DOMAIN Transitions

Frames == [state : Stages, seq : Nat, check : {"none", "pass", "blocked"},
           link : SUBSET Trees, sync : {"pending", "failed", "pushed"},
           confirmed : BOOLEAN, collab : 0..2]
DefaultFrame == [state |-> "uninitialized", seq |-> 0, check |-> "none", link |-> {},
                 sync |-> "pending", confirmed |-> FALSE, collab |-> 0]

Operations == {"boot", "selfcheck", "assemble", "progress", "link", "claim",
               "sync", "confirm", "collab", "reset"}
Targets == {"company-state", "business-state", "agents"}

ASSUME SetupAssumption ==
    /\ UserTrees \subseteq Trees
    /\ UserFiles \subseteq Targets
    /\ Resets \subseteq {"plain", "project", "purge"}
    /\ MaxExtras \in Nat

Idle == [op |-> "none", at |-> "none", tree |-> {}, frame |-> DefaultFrame,
         then |-> "none", mine |-> {}, saves |-> "none"]
Requests ==
    [op : Operations \cup {"none"},
     at : {"none", "write", "rename", "verify", "probe", "prewrite", "save", "saving", "enter",
           "tree", "register", "unlink", "remove", "collect", "push", "check", "wipe"},
     tree : SUBSET Trees, frame : Frames,
     then : {"none", "collect", "onboarding", "confirm", "ready"} \cup Resets,
     mine : SUBSET (Targets \cup {"worktree"}), saves : {"none", "open"}]

Registries == [trees : SUBSET Trees, main : BOOLEAN]
Bundles == SUBSET SUBSET Trees

TypeOK ==
    /\ call \in [Calls -> Requests]
    /\ cache \in Frames /\ disk \in Frames
    /\ \A f \in tmp : f \in Frames
    /\ company \in {"none", "torn", "open"} /\ companyCache \in {"none", "open"}
    /\ files \in SUBSET Targets
    /\ reg \in Registries /\ regCache \in Registries
    /\ trees \in SUBSET Trees
    /\ cloned \in BOOLEAN
    /\ bundle \in Bundles /\ pushed \in Bundles /\ applied \in Bundles
    /\ line \in {"shared", "left", "foreign"}
    /\ extras \in 0..MaxExtras

Init ==
    /\ call = [c \in Calls |-> Idle]
    /\ cache = DefaultFrame /\ disk = DefaultFrame /\ tmp = {}
    /\ company = "none" /\ companyCache = "none"
    /\ files = UserFiles
    /\ reg = [trees |-> {}, main |-> FALSE] /\ regCache = reg
    /\ trees = UserTrees
    /\ cloned = FALSE
    /\ bundle = {} /\ pushed = {} /\ applied = {} /\ line = "shared"
    /\ extras = 0

Extra == extras < MaxExtras /\ extras' = extras + 1
Fault(what) == what \in Faults /\ Extra

-----------------------------------------------------------------------------
(* Requests and the chain file.                                            *)

\* The flags of the modules refuse a second run of the same operation.
MayBegin(c, op) ==
    /\ cache.state # "uninitialized"
    /\ call[c] = Idle
    /\ \A d \in Calls :
          \/ call[d] = Idle
          \/ /\ {op, call[d].op} \in Overlap
             /\ op \in {"progress", "claim", "collab", "reset"} \/ call[d].op # op

Begin(op, at) == [Idle EXCEPT !.op = op, !.at = at]
Goes(c, r) == call' = [call EXCEPT ![c] = r]
Ends(c) == Goes(c, Idle)

\* The start of persist: the frame is based on the cache of this moment.
Persisting(r, frame, then) ==
    [r EXCEPT !.at = "write", !.frame = [frame EXCEPT !.seq = @ + 1], !.then = then]

\* transitionTo from what the cache holds, up to its first await; an illegal
\* transition throws.
Entering(c, r, frame, state) ==
    IF Transitions[frame.state] = state
    THEN Goes(c, Persisting(r, [frame EXCEPT !.state = state], "none"))
    ELSE Ends(c)

\* Only link undoes something when the chain file cannot be written.
Throws(c) ==
    IF call[c].op = "link" THEN Goes(c, [call[c] EXCEPT !.at = "unlink"]) ELSE Ends(c)

ChainFault(c) == IF call[c].op = "reset" THEN "reset" ELSE "chain"

\* A write that fails may leave a torn file, which is read like none.
WriteTmp(c) ==
    /\ call[c].at = "write"
    /\ \/ /\ tmp' = {call[c].frame}
          /\ Goes(c, [call[c] EXCEPT !.at = "rename"])
          /\ UNCHANGED extras
       \/ Fault(ChainFault(c)) /\ Throws(c) /\ tmp' \in {tmp, {DefaultFrame}}
    /\ UNCHANGED <<cache, disk, firm, project, bundles>>

\* What there is to rename: somebody else may be writing the same file.
Renamed(c) ==
    tmp \cup {f \in {DefaultFrame} : \E d \in Calls \ {c} : call[d].at = "write"}

\* rename fails when another request has renamed the file. reset does not read
\* back, and its endpoint then forgets the company's cache.
RenameTmp(c) ==
    /\ call[c].at = "rename"
    /\ \/ /\ disk' \in Renamed(c)
          /\ tmp' = {}
          /\ IF call[c].op = "reset"
             THEN cache' = call[c].frame /\ companyCache' = "none" /\ Ends(c)
             ELSE Goes(c, [call[c] EXCEPT !.at = "verify"]) /\ UNCHANGED <<cache, companyCache>>
          /\ UNCHANGED extras
       \/ /\ \/ tmp = {} /\ UNCHANGED extras
             \/ Fault(ChainFault(c))
          /\ Throws(c)
          /\ UNCHANGED <<cache, disk, tmp, companyCache>>
    /\ UNCHANGED <<company, files, project, bundles>>

\* What a request does with the frame it has just stored, before anybody else
\* gets in: the next transition, or its collection.
GoesOn(c, frame) ==
    CASE call[c].then = "none" -> Ends(c)
      [] call[c].then = "collect" -> Goes(c, [call[c] EXCEPT !.at = "collect", !.then = "none"])
      [] OTHER -> Entering(c, call[c], frame, call[c].then)

\* The read-back compares eventSeq and chainState only. When it fails the file
\* keeps what was written, and the cache what it had.
Verify(c) ==
    /\ call[c].at = "verify"
    /\ \/ /\ disk.seq = call[c].frame.seq /\ disk.state = call[c].frame.state
          /\ cache' = call[c].frame
          /\ GoesOn(c, cache')
          /\ UNCHANGED extras
       \/ /\ \/ ~(disk.seq = call[c].frame.seq /\ disk.state = call[c].frame.state)
                /\ UNCHANGED extras
             \/ Fault("chain")
          /\ Throws(c)
          /\ UNCHANGED cache
    /\ UNCHANGED <<disk, tmp, firm, project, bundles>>

\* The start of the daemon; if the write fails the next start tries again.
Boot(c) ==
    /\ \A d \in Calls : call[d] = Idle
    /\ cache.state = "uninitialized"
    /\ Entering(c, Begin("boot", "enter"), cache, "selfcheck")
    /\ UNCHANGED <<cache, disk, tmp, firm, project, bundles, extras>>

\* The transition at the end of an assembly.
Enter(c) ==
    /\ call[c].at = "enter"
    /\ Entering(c, call[c], cache, "link")
    /\ UNCHANGED <<cache, disk, tmp, firm, project, bundles, extras>>

-----------------------------------------------------------------------------
(* Health check and assembly.                                              *)

\* POST selfcheck/run looks at no chain state.
SelfcheckRun(c) ==
    /\ MayBegin(c, "selfcheck")
    /\ IF cache.state = "selfcheck" THEN UNCHANGED extras ELSE Extra
    /\ Goes(c, Begin("selfcheck", "probe"))
    /\ UNCHANGED <<cache, disk, tmp, firm, project, bundles>>

\* Mutant: the chain goes on whatever the probes have found.
ProbedAnyway(c) ==
    /\ call[c].at = "probe"
    /\ \E summary \in {"pass", "blocked"} :
          /\ IF summary = "blocked" THEN Fault("probe") ELSE UNCHANGED extras
          /\ Goes(c, Persisting(call[c], [cache EXCEPT !.check = summary], "onboarding"))
    /\ UNCHANGED <<cache, disk, tmp, firm, project, bundles>>

\* The five probes and updateSelfcheck; what was found decides whether the chain
\* goes on to onboarding, if it is at the health check still.
Probed(c) ==
    /\ call[c].at = "probe"
    /\ \/ /\ Goes(c, Persisting(call[c], [cache EXCEPT !.check = "pass"], "onboarding"))
          /\ UNCHANGED extras
       \/ /\ Fault("probe")
          /\ Goes(c, Persisting(call[c], [cache EXCEPT !.check = "blocked"], "none"))
    /\ UNCHANGED <<cache, disk, tmp, firm, project, bundles>>

\* Mutant: a company that is open already is refused.
AssembleOnce(c) ==
    /\ MayBegin(c, "assemble")
    /\ cache.state = "onboarding"
    /\ companyCache # "open"
    /\ Goes(c, Begin("assemble", "prewrite"))
    /\ UNCHANGED <<cache, disk, tmp, firm, project, bundles, extras>>

\* doAssemble: a company that is open already goes straight to the transition.
Assemble(c) ==
    /\ MayBegin(c, "assemble")
    /\ cache.state = "onboarding"
    /\ Goes(c, Begin("assemble", IF companyCache = "open" THEN "enter" ELSE "prewrite"))
    /\ UNCHANGED <<cache, disk, tmp, firm, project, bundles, extras>>

\* Mutant: no return after the rollback.
PrewriteGoesOn(c) ==
    /\ call[c].at = "prewrite"
    /\ \/ /\ \E f \in Targets \ files :
                /\ files' = files \cup {f}
                /\ Goes(c, [call[c] EXCEPT !.mine = @ \cup {f}])
          /\ UNCHANGED extras
       \/ /\ \/ Targets \subseteq files /\ UNCHANGED <<files, extras>>
             \/ Fault("files") /\ files' = files \ call[c].mine
          /\ Goes(c, [call[c] EXCEPT !.at = "save", !.saves = "open"])
    /\ UNCHANGED <<cache, disk, tmp, company, companyCache, project, bundles>>

\* A file that fails takes those written before it away again.
Prewrite(c) ==
    /\ call[c].at = "prewrite"
    /\ \/ /\ \E f \in Targets \ files :
                /\ files' = files \cup {f}
                /\ Goes(c, [call[c] EXCEPT !.mine = @ \cup {f}])
          /\ UNCHANGED extras
       \/ /\ Targets \subseteq files
          /\ Goes(c, [call[c] EXCEPT !.at = "save", !.saves = "open"])
          /\ UNCHANGED <<files, extras>>
       \/ /\ Fault("files")
          /\ files' = files \ call[c].mine
          /\ Ends(c)
    /\ UNCHANGED <<cache, disk, tmp, company, companyCache, project, bundles>>

\* POST onboarding/progress, at any stage: the rest of the state is written as
\* the cache has it.
Progress(c) ==
    /\ MayBegin(c, "progress")
    /\ Goes(c, [Begin("progress", "save") EXCEPT !.saves = companyCache])
    /\ UNCHANGED <<cache, disk, tmp, firm, project, bundles, extras>>

\* CompanyInitState.save: the tmp file, then the file itself, in place.
Save(c) ==
    /\ call[c].at = "save"
    /\ \/ /\ company' = "torn"
          /\ Goes(c, [call[c] EXCEPT !.at = "saving"])
          /\ UNCHANGED extras
       \/ Fault("company") /\ Ends(c) /\ UNCHANGED company
    /\ UNCHANGED <<cache, disk, tmp, companyCache, files, project, bundles>>

\* A write that fails once the file is truncated leaves it torn, and the cache
\* as it was: the request ends, and what an assembly has written stays.
Saved(c) ==
    /\ call[c].at = "saving"
    /\ \/ /\ company' = call[c].saves
          /\ companyCache' = call[c].saves
          /\ IF call[c].op = "assemble" THEN Goes(c, [call[c] EXCEPT !.at = "enter"]) ELSE Ends(c)
          /\ UNCHANGED extras
       \/ Fault("company") /\ Ends(c) /\ UNCHANGED <<company, companyCache>>
    /\ UNCHANGED <<cache, disk, tmp, files, project, bundles>>

-----------------------------------------------------------------------------
(* Project.                                                                *)

\* doLink up to the worktree: the main checkout is registered once, in the
\* cached object first; an existing worktree is claimed, not added.
Link(c, t, source) ==
    /\ MayBegin(c, "link")
    /\ cache.state = "link"
    /\ source = "github" => ~cloned /\ t \notin trees
    /\ cloned' = (cloned \/ source = "github")
    /\ regCache' = [regCache EXCEPT !.main = TRUE]
    /\ \/ /\ IF cache.link = {} THEN UNCHANGED extras ELSE Extra
          /\ reg' = IF regCache.main THEN reg ELSE regCache'
          /\ Goes(c, [Begin("link", IF t \in trees THEN "register" ELSE "tree") EXCEPT !.tree = {t}])
       \/ ~regCache.main /\ Fault("registry") /\ reg' \in {reg, regCache'} /\ UNCHANGED call
    /\ UNCHANGED <<cache, disk, tmp, firm, trees, bundles>>

\* rollbackWorktree has something to do where this request has added a worktree.
Undone(c) ==
    IF "worktree" \in call[c].mine THEN Goes(c, [call[c] EXCEPT !.at = "remove"]) ELSE Ends(c)

\* git worktree add: the branch of the project can be checked out once. A new
\* worktree whose gitdir is not found is taken away again.
AddTree(c) ==
    /\ call[c].at = "tree"
    /\ \/ /\ trees \subseteq UserTrees
          /\ trees' = trees \cup call[c].tree
          /\ \/ /\ Goes(c, [call[c] EXCEPT !.at = "register", !.mine = {"worktree"}])
                /\ UNCHANGED extras
             \/ /\ Fault("git")
                /\ Goes(c, [call[c] EXCEPT !.at = "remove", !.mine = {"worktree"}])
       \/ /\ \/ ~(trees \subseteq UserTrees) /\ UNCHANGED extras
             \/ Fault("git")
          /\ Ends(c)
          /\ UNCHANGED trees
    /\ UNCHANGED <<cache, disk, tmp, firm, reg, regCache, cloned, bundles>>

\* git worktree remove, never with --force: where it fails the worktree stays.
RollBack(c) ==
    /\ call[c].at = "remove"
    /\ \/ trees' = trees \ call[c].tree /\ UNCHANGED extras
       \/ Fault("git") /\ UNCHANGED trees
    /\ Ends(c)
    /\ UNCHANGED <<cache, disk, tmp, firm, reg, regCache, cloned, bundles>>

\* registerWorktree changes the cached object before it writes; link then drops
\* what git does not know. A write may fail before or after the rename.
Register(c) ==
    /\ call[c].at = "register"
    /\ LET known == regCache.trees \cup call[c].tree
       IN  \/ /\ regCache' = [regCache EXCEPT !.trees =
                                IF call[c].op = "link" THEN known \cap trees ELSE known]
              /\ reg' = regCache'
              /\ Goes(c, Persisting(call[c], [cache EXCEPT !.link = call[c].tree], "none"))
              /\ UNCHANGED extras
           \/ /\ Fault("registry")
              /\ regCache' = [regCache EXCEPT !.trees = known]
              /\ reg' \in {reg, regCache'}
              /\ Undone(c)
    /\ UNCHANGED <<cache, disk, tmp, firm, trees, cloned, bundles>>

\* The chain file could not be written: unregisterWorktree, which writes only
\* what it changes and may fail as well, and roll back.
Unlink(c) ==
    /\ call[c].at = "unlink"
    /\ regCache' = [regCache EXCEPT !.trees = @ \ call[c].tree]
    /\ \/ /\ reg' = IF call[c].tree \subseteq regCache.trees THEN regCache' ELSE reg
          /\ UNCHANGED extras
       \/ /\ call[c].tree \subseteq regCache.trees
          /\ Fault("registry")
          /\ reg' \in {reg, regCache'}
    /\ Undone(c)
    /\ UNCHANGED <<cache, disk, tmp, firm, trees, cloned, bundles>>

\* runClaim registers a worktree that exists, and no main checkout.
Claim(c, t) ==
    /\ MayBegin(c, "claim")
    /\ cache.state = "link"
    /\ t \in trees
    /\ IF cache.link = {} THEN UNCHANGED extras ELSE Extra
    /\ Goes(c, [Begin("claim", "register") EXCEPT !.tree = {t}])
    /\ UNCHANGED <<cache, disk, tmp, firm, project, bundles>>

-----------------------------------------------------------------------------
(* Synchronisation, confirmation and what follows.                         *)

\* Mutant: sync does not ask for a link.
SyncUnlinked(c) ==
    /\ MayBegin(c, "sync")
    /\ \/ /\ cache.state = "link"
          /\ Goes(c, Persisting(Begin("sync", "collect"), [cache EXCEPT !.state = "sync"], "collect"))
       \/ cache.state = "sync" /\ Goes(c, Begin("sync", "collect"))
    /\ UNCHANGED <<cache, disk, tmp, firm, project, bundles, extras>>

\* doInitSync: the chain enters "sync" before anything is collected.
Sync(c) ==
    /\ MayBegin(c, "sync")
    /\ \/ /\ cache.state = "link" /\ cache.link # {}
          /\ Goes(c, Persisting(Begin("sync", "collect"), [cache EXCEPT !.state = "sync"], "collect"))
       \/ cache.state = "sync" /\ Goes(c, Begin("sync", "collect"))
    /\ UNCHANGED <<cache, disk, tmp, firm, project, bundles, extras>>

\* The company and the project are hard requirements; the same content gives
\* the same bundle with the commit it had, a new one has that of the checkout.
Collect(c) ==
    /\ call[c].at = "collect"
    /\ IF companyCache = "open" /\ regCache.main
       THEN /\ bundle' = {regCache.trees}
            /\ line' = IF line = "left" /\ bundle' # bundle THEN "shared" ELSE line
            /\ Goes(c, [call[c] EXCEPT !.at = "push"])
       ELSE Ends(c) /\ UNCHANGED <<bundle, line>>
    /\ UNCHANGED <<cache, disk, tmp, firm, project, pushed, applied, extras>>

\* Two remotes: a failure may leave the bundle at the first.
Push(c) ==
    /\ call[c].at = "push"
    /\ \/ /\ pushed' = bundle
          /\ Goes(c, Persisting(call[c], [cache EXCEPT !.sync = "pushed"], "confirm"))
          /\ UNCHANGED extras
       \/ /\ Fault("push")
          /\ pushed' \in {pushed, bundle}
          /\ Goes(c, Persisting(call[c], [cache EXCEPT !.sync = "failed"], "none"))
    /\ UNCHANGED <<cache, disk, tmp, firm, project, bundle, applied, line>>

\* TriMC pulls.
Apply ==
    /\ applied # pushed
    /\ applied' = pushed
    /\ UNCHANGED <<chain, firm, project, bundle, pushed, line, extras>>

\* Work outside the daemon: the checkout leaves the line of the bundle, or the
\* fleet that of the checkout ...
Strays ==
    /\ line = "shared" /\ Fault("line")
    /\ \/ bundle # {} /\ line' = "left"
       \/ line' = "foreign"
    /\ UNCHANGED <<chain, firm, project, bundle, pushed, applied>>

\* ... and somebody pulls or merges: no request of the daemon does.
Rejoins ==
    /\ line # "shared" /\ line' = "shared"
    /\ UNCHANGED <<chain, firm, project, bundle, pushed, applied, extras>>

Confirm(c) ==
    /\ MayBegin(c, "confirm")
    /\ cache.state = "confirm"
    /\ Goes(c, Begin("confirm", "check"))
    /\ UNCHANGED <<cache, disk, tmp, firm, project, bundles, extras>>

\* Mutant: nobody asks TriMC.
AgreedHere == bundle # {} /\ bundle = {regCache.trees} /\ line = "shared"

\* L1: registry, bundle and TriMC list the same worktrees; L2: bundle, checkout
\* and fleet are on one line; L3: TriMC runs with this bundle.
Agreed == bundle # {} /\ applied = bundle /\ bundle = {regCache.trees} /\ line = "shared"

\* Without an answer from TriMC there is no confirmation.
Checked(c) ==
    /\ call[c].at = "check"
    /\ \/ /\ IF Agreed
             THEN Goes(c, Persisting(call[c], [cache EXCEPT !.confirmed = TRUE], "ready"))
             ELSE Ends(c)
          /\ UNCHANGED extras
       \/ Fault("status") /\ Ends(c)
    /\ UNCHANGED <<cache, disk, tmp, firm, project, bundles>>

\* Mutant: no end to the first collaboration.
FirstCollabAgain(c) ==
    /\ MayBegin(c, "collab")
    /\ cache.state = "ready"
    /\ Goes(c, Persisting(Begin("collab", "write"), [cache EXCEPT !.collab = @ + 1], "none"))
    /\ UNCHANGED <<cache, disk, tmp, firm, project, bundles, extras>>

\* runFirstCollabUpdate: exactly one step at a time.
FirstCollab(c) ==
    /\ MayBegin(c, "collab")
    /\ cache.state = "ready" /\ cache.collab < 2
    /\ Goes(c, Persisting(Begin("collab", "write"), [cache EXCEPT !.collab = @ + 1], "none"))
    /\ UNCHANGED <<cache, disk, tmp, firm, project, bundles, extras>>

\* POST init/reset, in debug mode: state.json goes first ...
Reset(c, kind) ==
    /\ MayBegin(c, "reset")
    /\ Extra
    /\ company' = "none"
    /\ Goes(c, [Begin("reset", "wipe") EXCEPT !.then = kind])
    /\ UNCHANGED <<cache, disk, tmp, companyCache, files, project, bundles>>

\* ... then the skeleton and, if asked for, the registry and its worktrees; the
\* registry's cache stays. The chain starts anew with eventSeq 1.
Wipe(c) ==
    /\ call[c].at = "wipe"
    /\ files' = files \cap (UserFiles \ {"company-state"})
    /\ IF call[c].then = "plain" THEN UNCHANGED reg ELSE reg' = [trees |-> {}, main |-> FALSE]
    /\ trees' = IF call[c].then = "purge" THEN trees \ reg.trees ELSE trees
    /\ cache' = disk
    /\ Goes(c, [call[c] EXCEPT !.at = "write", !.then = "none",
                   !.frame = [DefaultFrame EXCEPT !.state = "selfcheck", !.seq = 1]])
    /\ UNCHANGED <<disk, tmp, company, companyCache, regCache, cloned, bundles, extras>>

-----------------------------------------------------------------------------

\* The process dies and starts: caches are read again, registrations without
\* a worktree are dropped, and a torn state.json is no company.
Restart ==
    /\ Extra
    /\ call' = [c \in Calls |-> Idle]
    /\ cache' = disk
    /\ company' = IF company = "torn" THEN "none" ELSE company
    /\ companyCache' = company'
    /\ regCache' = [reg EXCEPT !.trees = @ \cap trees]
    /\ reg' = regCache'
    /\ UNCHANGED <<disk, tmp, files, trees, cloned, bundles>>

\* What goes on by itself once a request is accepted.
Step(c) ==
    \/ WriteTmp(c) \/ RenameTmp(c) \/ Verify(c) \/ Boot(c) \/ Enter(c)
    \/ Probed(c) \/ Prewrite(c) \/ Save(c) \/ Saved(c)
    \/ AddTree(c) \/ Register(c) \/ Unlink(c) \/ RollBack(c)
    \/ Collect(c) \/ Push(c) \/ Checked(c) \/ Wipe(c)

Request(c) ==
    \/ SelfcheckRun(c) \/ Assemble(c) \/ Progress(c)
    \/ \E t \in Trees : Claim(c, t) \/ \E source \in {"local", "github"} : Link(c, t, source)
    \/ Sync(c) \/ Confirm(c) \/ FirstCollab(c)
    \/ \E kind \in Resets : Reset(c, kind)

Next ==
    \/ \E c \in Calls : Step(c) \/ Request(c)
    \/ Apply \/ Strays \/ Rejoins
    \/ Restart

Spec == Init /\ [][Next]_vars

\* Accepted requests run on; the user goes on asking for what the stage needs
\* and in time tries every path; TriMC pulls every 15 minutes.
FairSpec ==
    /\ Spec
    /\ \A c \in Calls : WF_vars(Step(c))
    /\ SF_vars(\E c \in Calls : SelfcheckRun(c))
    /\ SF_vars(\E c \in Calls : Assemble(c))
    /\ \A t \in Trees : SF_vars(\E c \in Calls : Link(c, t, "local"))
    /\ SF_vars(\E c \in Calls : Sync(c))
    /\ SF_vars(\E c \in Calls : Confirm(c))
    /\ WF_vars(Apply)

-----------------------------------------------------------------------------
(* Properties.                                                             *)

\* What the daemon has of each stage; a restart reads it from the files.
Evidence ==
    {e \in {"healthy", "company", "linked", "pushed", "confirmed"} :
        CASE e = "healthy" -> cache.check = "pass"
          [] e = "company" -> companyCache = "open"
          [] e = "linked" -> cache.link # {}
          [] e = "pushed" -> cache.sync = "pushed"
          [] e = "confirmed" -> cache.confirmed}

Ladder == INSTANCE InitLadder WITH stage <- cache.state, held <- Evidence

\* init-chain.ts, the table of transitions ("every other one is illegal") and
\* the gates of the handlers: in the daemon, through crashes, restarts from a
\* file that is ahead of it, and failed writes, the chain takes one step at a
\* time and leaves a stage with its evidence.
ImplementsLadder == Ladder!Spec

\* init-assemble.ts, "on any failure ... 500 { rollback }": a company that is
\* open has its whole skeleton, also after a failed or interrupted assembly.
SkeletonInPlace == company = "open" => Targets \subseteq files

\* init-confirm.ts, L3: the chain is ready only with a bundle that TriMC runs
\* with, whatever was pushed, repeated or interrupted on the way.
ReadyIsApplied == disk.state = "ready" => bundle # {} /\ applied = bundle

\* A frame that stands for its stage: the stages before it have left their mark.
Earned(frame) ==
    /\ frame.state \notin {"uninitialized", "selfcheck"} => frame.check # "none"
    /\ frame.state \in {"sync", "confirm", "ready"} => frame.link # {}
    /\ frame.state \in {"confirm", "ready"} => frame.sync # "pending"
    /\ frame.state = "ready" => frame.confirmed
    /\ frame.collab > 0 => frame.state = "ready"

\* init-chain.ts, persist: whoever writes the one tmp file, renames it or finds
\* it gone, and wherever a write stops, the frame that is on the disk and the one
\* the daemon goes by have been earned.
StagesEarned == Earned(disk) /\ Earned(cache)

\* Where the code leaves no request that helps, but the debug reset: a project
\* that was only claimed has no main checkout to write the bundle to; a reset cut
\* short, or a note whose write failed, has taken the company's state away; a
\* registration that never reached the file is in the bundle and, after a
\* restart, no longer in the registry; the checkout has left the commit of the
\* bundle, or the fleet the line of the checkout, and no request pulls.
DeadEnd ==
    \/ cache.state = "sync" /\ ~regCache.main
    \/ cache.state = "sync" /\ companyCache # "open"
    \/ cache.state = "confirm" /\ bundle # {regCache.trees}
    \/ cache.state = "confirm" /\ line # "shared"

\* The user who keeps at it gets the chain to its end, over failed writes,
\* pushes and probes and over crashes at any step, but for these four.
SetupFinishes == []<>(cache.state = "ready" \/ DeadEnd)
=============================================================================
