---------------------------- MODULE MCSupervisor ----------------------------
(* Two nodes with a worker each; the first registers up to one effect, the *)
(* second up to two.                                                       *)
EXTENDS Supervisor, TLC

CONSTANTS w1, w2

Owners == w1 :> 1 @@ w2 :> 2

Effects == <<1, 2>>
=============================================================================
