------------------------------ MODULE MCTools ------------------------------
(* Three calls: l runs here, r at the client, p is only a proposal; l and  *)
(* r are dispatched twice, p once.  s is an utterance in the same ledger.  *)
EXTENDS Tools, TLC

CONSTANTS l, r, p, l1, l2, r1, r2, p1

Targets == [a \in Attempts |-> CASE a \in {l1, l2} -> l
                                 [] a \in {r1, r2} -> r
                                 [] OTHER -> p]
=============================================================================
