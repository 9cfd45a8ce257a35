------------------------------ MODULE Boundary ------------------------------
(***************************************************************************)
(* What the irreversibility ledger promises its callers, with the          *)
(* lifecycle reduced to the one distinction that matters for               *)
(* reversibility: has any part of a decided output reached the world?      *)
(*                                                                         *)
(* A decided output may be withdrawn until it crosses; once it crosses it  *)
(* stays crossed, and the only thing left to do about it is to owe a       *)
(* repair and, later, to discharge it.  action/ledger.go implements this.  *)
(***************************************************************************)
CONSTANT Ids

VARIABLES
  status,   \* [Ids -> Status]
  owed      \* the outputs for which a repair is outstanding

Status == {"undecided", "reversible", "crossed", "withdrawn"}

Init == /\ status = [id \in Ids |-> "undecided"]
        /\ owed = {}

Decide(id) == /\ status[id] = "undecided"
              /\ status' = [status EXCEPT ![id] = "reversible"]
              /\ UNCHANGED owed

Cross(id) == /\ status[id] = "reversible"
             /\ status' = [status EXCEPT ![id] = "crossed"]
             /\ UNCHANGED owed

Withdraw(id) == /\ status[id] = "reversible"
                /\ status' = [status EXCEPT ![id] = "withdrawn"]
                /\ UNCHANGED owed

Owe(id) == /\ status[id] = "crossed"
           /\ id \notin owed
           /\ owed' = owed \cup {id}
           /\ UNCHANGED status

Discharge(id) == /\ id \in owed
                 /\ owed' = owed \ {id}
                 /\ UNCHANGED status

Next == \E id \in Ids : \/ Decide(id) \/ Cross(id) \/ Withdraw(id)
                        \/ Owe(id) \/ Discharge(id)

Spec == Init /\ [][Next]_<<status, owed>>
=============================================================================
