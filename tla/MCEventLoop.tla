---------------------------- MODULE MCEventLoop ----------------------------
(* Small instances of the event coordinator.  Events: r and q are routine, *)
(* u interrupts, p is parallel, n is routine and the log refuses it.       *)
EXTENDS EventLoop, TLC

CONSTANTS r, q, u, p, n, d1, d2

\* Any choice of these events, as MaxPending and Submissions allow.
PriorityOf == [e \in Events |-> CASE e = u -> "interrupt"
                                  [] e = p -> "parallel"
                                  [] OTHER -> "routine"]

OneItemEach == [e \in Events |-> 1]

\* A tool result compiles to two items, a signal to none: an item's position is
\* not its event's.
ItemsOfEach == [e \in Events |-> CASE e = p -> 2
                                   [] e = u -> 0
                                   [] OTHER -> 1]

\* A pair of inseparable events and an interruption.
PairAndInterrupt == {<<r, q>>, <<u>>}

\* An event behind one the log refuses, one that may run beside, an interruption.
WithParallelAndBad == {<<n, r>>, <<p>>, <<u>>}

\* The drivers run the same code.
Interchangeable == Permutations({d1, d2})
=============================================================================
