------------------------------ MODULE MCDuplex ------------------------------
(* The duplex state with frames of one and two ticks.                      *)
EXTENDS Duplex
=============================================================================
