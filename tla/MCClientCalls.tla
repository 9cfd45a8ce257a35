--------------------------- MODULE MCClientCalls ---------------------------
(* Two invocations: one with a local and two remote calls, one with a      *)
(* single remote call.                                                     *)
EXTENDS ClientCalls, TLC

CONSTANTS split, remote, l, m, n, o

Both == split :> {l, m, n} @@ remote :> {o}
=============================================================================
