---------------------------- MODULE MCCognition -----------------------------
(* The driver and a live goroutine, two invocations, two observations and  *)
(* two things that may have been said, with either phase or both prepared, *)
(* under a number of the recogniser that is also an observation's.         *)
EXTENDS Cognition

\* It does not matter which is said first.
Renamings == Permutations(Texts)
=============================================================================
