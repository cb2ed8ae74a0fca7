----------------------------- MODULE MCHeartbeat -----------------------------
(* Small instances of HeartbeatRunner for TLC. *)
EXTENDS HeartbeatRunner

CONSTANTS a1, a2
=============================================================================
