----------------------------- MODULE LogService -----------------------------
(***************************************************************************)
(* What the access logger promises for each message, without channels,     *)
(* locks or threads: a message is accepted at most once, and an accepted   *)
(* message is written once or reported as lost, and then that is final.    *)
(***************************************************************************)
CONSTANT Messages

VARIABLE status

Stages == {"unsent", "accepted", "written", "reported"}

TypeOK == status \in [Messages -> Stages]

Init == status = [m \in Messages |-> "unsent"]

Move(m, from, to) ==
  /\ status[m] \in from
  /\ status' = [status EXCEPT ![m] = to]

Accept(m) == Move(m, {"unsent"}, "accepted")
Write(m)  == Move(m, {"accepted"}, "written")
Report(m) == Move(m, {"unsent", "accepted"}, "reported")

Next == \E m \in Messages : Accept(m) \/ Write(m) \/ Report(m)

(* An accepted message is dealt with. *)
Fairness == \A m \in Messages :
               WF_status(Write(m) \/ (status[m] = "accepted" /\ Report(m)))

SafetySpec == Init /\ [][Next]_status
Spec == SafetySpec /\ Fairness
=============================================================================
