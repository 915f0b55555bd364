--------------------------- MODULE MCDelayFilter ---------------------------
(* Instances of DelayFilter for TLC. *)
EXTENDS DelayFilter

CONSTANTS r1, r2
=============================================================================
