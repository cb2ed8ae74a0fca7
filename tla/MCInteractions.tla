--------------------------- MODULE MCInteractions ---------------------------
(* Small instances of Interactions for TLC. *)
EXTENDS Interactions
=============================================================================
