--------------------------- MODULE MCAccessLogger ---------------------------
(* Instances of AccessLogger for TLC. *)
EXTENDS AccessLogger, TLC

CONSTANTS c1, c2, f1, f2, d1, d2

(* One configuration with two workers beside one that has none. *)
TwoAndNone == c1 :> 2 @@ c2 :> 0

OneEach == c1 :> 1 @@ c2 :> 1

OwnDirs   == c1 :> d1 @@ c2 :> d2
SharedDir == c1 :> d1 @@ c2 :> d1
=============================================================================
