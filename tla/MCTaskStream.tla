---------------------------- MODULE MCTaskStream ----------------------------
(* Small instances of TaskStream for TLC. *)
EXTENDS TaskStream
=============================================================================
