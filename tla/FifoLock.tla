------------------------------ MODULE FifoLock ------------------------------
(***************************************************************************)
(* What an in-process promise mutex promises: at most one client is inside *)
(* the critical section, a client that finds it taken waits, and the       *)
(* waiters enter in the order in which they asked.                         *)
(*                                                                         *)
(* CronEngine implements this specification with a Boolean and a list of   *)
(* resolvers (src/src/cron/timer.ts, acquireLock and releaseLock).         *)
(***************************************************************************)
EXTENDS Sequences

CONSTANT Clients      \* whoever may ask for the lock

VARIABLES
    holders,          \* the clients inside the critical section
    queue             \* the clients waiting for it, in order of arrival

lockVars == <<holders, queue>>

Waiting == {queue[i] : i \in DOMAIN queue}

Init ==
    /\ holders = {}
    /\ queue = <<>>

Acquire(c) ==
    /\ c \notin holders
    /\ c \notin Waiting
    /\ \/ /\ holders = {}
          /\ holders' = {c}
          /\ UNCHANGED queue
       \/ /\ holders # {}
          /\ queue' = Append(queue, c)
          /\ UNCHANGED holders

Release(c) ==
    /\ holders = {c}
    /\ \/ /\ queue = <<>>
          /\ holders' = {}
          /\ UNCHANGED queue
       \/ /\ queue # <<>>
          /\ holders' = {Head(queue)}
          /\ queue' = Tail(queue)

\* The process dies and takes the lock and its queue with it.
Reset ==
    /\ holders' = {}
    /\ queue' = <<>>

Next ==
    \/ \E c \in Clients : Acquire(c) \/ Release(c)
    \/ Reset

Spec == Init /\ [][Next]_lockVars
=============================================================================
