--------------------------- MODULE PinnedObjects ---------------------------
(***************************************************************************)
(* What the memory manager of the Go SDK promises (go/gosdk/mem.go, lines  *)
(* 15-17: "It is used to pin the objects to the heap to avoid them being   *)
(* garbage collected by the Go runtime"), without lists, shards, mutexes   *)
(* or threads: an object goes through the life cycle                       *)
(*                                                                         *)
(*      free -> fresh -> pinned -> released -> free                        *)
(*                                                                         *)
(* and the garbage collector may take it in the last step only.            *)
(***************************************************************************)
CONSTANT Items      \* the heap cells an object can occupy

VARIABLE status     \* the stage of the life cycle each cell is in

Stages == {"free", "fresh", "pinned", "released"}

TypeOK == status \in [Items -> Stages]

Init == status = [x \in Items |-> "free"]

(* A cell moves from one stage to the next one. *)
Move(x, from, to) ==
  /\ status[x] = from
  /\ status' = [status EXCEPT ![x] = to]

Allocate(x) == Move(x, "free", "fresh")         \* the object is created
Pin(x)      == Move(x, "fresh", "pinned")       \* from here on Envoy may use it
Unpin(x)    == Move(x, "pinned", "released")    \* Envoy gave it up
Collect(x)  == Move(x, "released", "free")      \* the garbage collector takes it

Next == \E x \in Items : Allocate(x) \/ Pin(x) \/ Unpin(x) \/ Collect(x)

(* What is created is pinned, and what is released is collected. Nothing   *)
(* obliges Envoy to create an object or to give one up.                    *)
Fairness == \A x \in Items : WF_status(Pin(x)) /\ WF_status(Collect(x))

SafetySpec == Init /\ [][Next]_status
Spec == SafetySpec /\ Fairness
=============================================================================
