------------------------- MODULE MCConfigLifecycle -------------------------
(* An instance of ConfigLifecycle for TLC. *)
EXTENDS ConfigLifecycle

CONSTANTS w1, x1, x2, x3
=============================================================================
