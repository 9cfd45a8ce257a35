------------------------------ MODULE Delivery ------------------------------
(***************************************************************************)
(* What the event loop promises of every external event, whatever          *)
(* goroutine does the work (the package comment of eventloop/event.go):    *)
(* it is admitted, it may be refused before it enters the trajectory, and  *)
(* once committed the only thing left that can happen to it is that one    *)
(* run is handed it.                                                       *)
(***************************************************************************)
CONSTANTS Events, Groups

VARIABLE stage   \* [Events -> "unknown", "admitted", "committed", "acted"]

Stages == {"unknown", "admitted", "committed", "acted"}

Moved == {e \in Events : stage'[e] # stage[e]}

\* Some events move from one stage to another, all others stay.
Move(from, to) ==
  /\ stage' \in [Events -> Stages]
  /\ Moved # {}
  /\ \A e \in Moved : stage[e] = from /\ stage'[e] = to

Init == stage = [e \in Events |-> "unknown"]

\* A submission is admitted whole.
Admit == Move("unknown", "admitted") /\ Moved \in Groups

\* Admitted events the log does not accept are given up.
Refuse == Move("admitted", "unknown")

Commit == Move("admitted", "committed")

\* A run is handed committed events, with a group's members all or none.
Act == /\ Move("committed", "acted")
       /\ \A g \in Groups : g \cap Moved # {} =>
            \A e \in g : stage[e] = "committed" => e \in Moved

Next == Admit \/ Refuse \/ Commit \/ Act

Spec == Init /\ [][Next]_stage
=============================================================================
