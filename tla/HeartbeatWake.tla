---------------------------- MODULE HeartbeatWake ----------------------------
(***************************************************************************)
(* The coalescing wake scheduler: one pending wake, one timer and one      *)
(* handler (src/src/heartbeat/heartbeat-wake.ts, createHeartbeatWake).     *)
(*                                                                         *)
(* The module has the wake's state and operations; the components that     *)
(* own a wake (HeartbeatRunner, Connection) extend it and say what the     *)
(* handler does. A run of the handler starts in WakeFires and ends in      *)
(* WakeDone. The delays in use are 0 or 250 ms for a request and 1 s for   *)
(* a retry: a timer that exists is always due before a new one would be,   *)
(* so schedule() keeps it. The generation guards compare two reads with    *)
(* no await between them, and nobody keeps the disposer: both are left     *)
(* out.                                                                    *)
(***************************************************************************)
EXTENDS Naturals

VARIABLES
    enabled,      \* enabled
    handler,      \* handler # null
    pending,      \* pendingWake.reason, or "none"
    timer,        \* wakeTimerKind: "normal", "retry" or "none"
    running,      \* wakeRunning
    again         \* wakeScheduled

wakeVars == <<enabled, handler, pending, timer, running, again>>

Reasons == {"retry", "interval", "default", "action"}

\* WAKE_PRIORITY.
Priority(reason) ==
    CASE reason = "retry" -> 0
      [] reason = "interval" -> 1
      [] reason = "default" -> 2
      [] reason = "action" -> 3

WakeTypeOK ==
    /\ enabled \in BOOLEAN
    /\ handler \in BOOLEAN
    /\ pending \in Reasons \cup {"none"}
    /\ timer \in {"none", "normal", "retry"}
    /\ running \in BOOLEAN
    /\ again \in BOOLEAN

WakeInit ==
    /\ enabled = TRUE
    /\ handler = FALSE
    /\ pending = "none"
    /\ timer = "none"
    /\ running = FALSE
    /\ again = FALSE

\* schedule().
Scheduled(kind) == IF timer = "none" THEN kind ELSE timer

\* A variant in which the latest request wins.
MergedLast(old, reason) == reason

\* The wake that is kept of two that are requested before the timer fires.
Merged(old, reason) ==
    IF old = "none" THEN reason
    ELSE IF Priority(reason) >= Priority(old) THEN reason ELSE old

\* requestHeartbeatNow.
RequestWake(reason) ==
    /\ UNCHANGED <<enabled, handler, running, again>>
    /\ IF enabled
       THEN pending' = Merged(pending, reason) /\ timer' = Scheduled("normal")
       ELSE UNCHANGED <<pending, timer>>

\* The timer fires while the handler runs: the wake is put back.
WakeDeferred ==
    /\ timer # "none"
    /\ running
    /\ timer' = IF pending = "none" THEN "none" ELSE "normal"
    /\ again' = TRUE
    /\ UNCHANGED <<enabled, handler, pending, running>>

\* The timer fires and there is no handler: the wake is gone.
WakeDropped ==
    /\ timer # "none"
    /\ ~running /\ ~handler
    /\ timer' = "none"
    /\ pending' = "none"
    /\ again' = FALSE
    /\ UNCHANGED <<enabled, handler, running>>

\* A variant that starts the handler although it is still running.
WakeFiresAnyway ==
    /\ timer # "none"
    /\ handler
    /\ timer' = "none"
    /\ pending' = "none"
    /\ again' = FALSE
    /\ running' = TRUE
    /\ UNCHANGED <<enabled, handler>>

\* The timer fires and the handler starts.
WakeFires ==
    /\ timer # "none"
    /\ ~running /\ handler
    /\ timer' = "none"
    /\ pending' = "none"
    /\ again' = FALSE
    /\ running' = TRUE
    /\ UNCHANGED <<enabled, handler>>

\* The finally block of executeWake.
WakeDone ==
    /\ running
    /\ running' = FALSE
    /\ UNCHANGED <<enabled, handler, pending>>
    /\ IF pending # "none" \/ again
       THEN again' = FALSE /\ timer' = Scheduled("retry")
       ELSE UNCHANGED <<again, timer>>

\* A variant that leaves the handler in place.
KeepHandler == UNCHANGED wakeVars

\* setWakeHandler(null): the timer and the pending wake stay.
ClearHandler ==
    /\ handler' = FALSE
    /\ UNCHANGED <<enabled, pending, timer, running, again>>

\* setEnabled.
SetEnabled(on) ==
    /\ enabled' = on
    /\ UNCHANGED <<handler, running>>
    /\ IF on THEN UNCHANGED <<pending, timer, again>>
       ELSE pending' = "none" /\ timer' = "none" /\ again' = FALSE
=============================================================================
