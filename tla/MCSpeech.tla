------------------------------ MODULE MCSpeech ------------------------------
(* Small instances of the speech planner: utterances a and c, stop calls *)
(* x and y.                                                                *)
EXTENDS Speech, TLC

CONSTANTS a, c, x, y

\* A barge-in or the end of the session races a supersession.
StopAndMatch == x :> {"all", "close"} @@ y :> {"matching"}

\* A supersession on its own.
MatchOnly == y :> {"matching"}
=============================================================================
