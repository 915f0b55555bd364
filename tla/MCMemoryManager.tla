-------------------------- MODULE MCMemoryManager --------------------------
(* An instance of MemoryManager for TLC. *)
EXTENDS MemoryManager, TLC

CONSTANTS t1, t2, x1, x2, x3, s1

(* Three cells that collide in one shard: its longest list has a first, a  *)
(* middle and a last item.                                                 *)
OneShard == x1 :> s1 @@ x2 :> s1 @@ x3 :> s1
=============================================================================
