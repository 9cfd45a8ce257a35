----------------------------- MODULE MCGovernor -----------------------------
(* Four requests against three units of capacity, one of them reserved:    *)
(* background work, speculative, interactive and urgent.                   *)
EXTENDS Governor, TLC

CONSTANTS bg, spec, inter, urgent

Classes == bg :> 1 @@ spec :> 2 @@ inter :> 3 @@ urgent :> 4

Costs == bg :> 1 @@ spec :> 2 @@ inter :> 2 @@ urgent :> 3

\* Speculative and interactive work must start within two ticks.
Deadlines == bg :> 0 @@ spec :> 2 @@ inter :> 2 @@ urgent :> 0
=============================================================================
