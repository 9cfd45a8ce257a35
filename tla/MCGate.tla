------------------------------- MODULE MCGate -------------------------------
(* The policy of a session with server VAD, under backpressure as well, and *)
(* of one whose client took the floor.                                      *)
EXTENDS Gate

Bound == {[kind |-> "duplex", overUser |-> FALSE, overAgent |-> FALSE, load |-> TRUE],
          [kind |-> "client", overUser |-> FALSE, overAgent |-> FALSE, load |-> FALSE]}
=============================================================================
