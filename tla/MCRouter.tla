------------------------------ MODULE MCRouter ------------------------------
(* One sender of two items over two lanes of one slot each, the first of   *)
(* which is lossy, one receiver, one replacement that may be refused, and  *)
(* shutdown.                                                               *)
EXTENDS Router
=============================================================================
