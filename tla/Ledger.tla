------------------------------- MODULE Ledger -------------------------------
(***************************************************************************)
(* The irreversibility ledger, action/ledger.go: the single record of what *)
(* has been decided, what has crossed into the world, and what repair is   *)
(* owed.  Every method is one critical section of ledger.mu, so every      *)
(* method is one action.  A call that returns an error changes nothing and *)
(* is the case in which the action is not enabled.                         *)
(*                                                                         *)
(* The map of commitments is a function over every identifier that may     *)
(* ever be used, an absent key being in state "absent"; the fields no      *)
(* decision reads (kind, phase, authority, texts) are left out, and so is  *)
(* the slice "order", which only fixes the order of the query results.     *)
(***************************************************************************)
EXTENDS Naturals, Sequences

CONSTANTS
  Ids,            \* commitment identifiers
  CallIds,        \* idempotency keys of tool calls
  NoCall,         \* the empty CallID
  Revisions,      \* perception revisions that may invalidate content
  MaxMS,          \* bound on a played duration
  MaxObligations  \* bound on the obligations ever recorded

ASSUME LedgerAssumption ==
  /\ MaxMS \in Nat
  /\ MaxObligations \in Nat
  /\ NoCall \notin CallIds

VARIABLES
  state,        \* Commitment.State, or "absent"
  playedMS,     \* Commitment.PlayedMS
  callOf,       \* Commitment.CallID
  callIDs,      \* the keys of Ledger.callIDs: calls already committed
  obligations   \* Ledger.obligations

ledgerVars == <<state, playedMS, callOf, callIDs, obligations>>

States == {"prepared", "queued", "emitting", "played", "cancelled"}

Obligation == [commitment : Ids, playedMS : 0..MaxMS, revision : Revisions,
               resolved : BOOLEAN]

LedgerTypeOK ==
  /\ state \in [Ids -> States \cup {"absent"}]
  /\ playedMS \in [Ids -> 0..MaxMS]
  /\ callOf \in [Ids -> CallIds \cup {NoCall}]
  /\ callIDs \in SUBSET CallIds
  /\ obligations \in Seq(Obligation)

LedgerInit ==
  /\ state = [id \in Ids |-> "absent"]
  /\ playedMS = [id \in Ids |-> 0]
  /\ callOf = [id \in Ids |-> NoCall]
  /\ callIDs = {}
  /\ obligations = << >>

-----------------------------------------------------------------------------
Terminal(s) == s \in {"played", "cancelled"}

Crossed(s) == s \in {"emitting", "played"}

\* An obligation that still stands for commitment id, at position i.
OpenAt(i, id) == /\ obligations[i].commitment = id
                 /\ ~obligations[i].resolved

HasOpen(id) == \E i \in DOMAIN obligations : OpenAt(i, id)

\* A tool commitment also claims its call identity, which nothing ever frees.
Prepare(id, call) ==
  /\ state[id] = "absent"
  /\ call \notin callIDs
  /\ state' = [state EXCEPT ![id] = "prepared"]
  /\ callOf' = [callOf EXCEPT ![id] = call]
  /\ callIDs' = callIDs \cup ({call} \ {NoCall})
  /\ UNCHANGED <<playedMS, obligations>>

\* The shape shared by Queue and Emit: repeating a transition is not an error.
Transition(id, next, allowed) ==
  /\ state[id] \in allowed \cup {next}
  /\ state' = [state EXCEPT ![id] = next]
  /\ UNCHANGED <<playedMS, callOf, callIDs, obligations>>

Queue(id) == Transition(id, "queued", {"prepared"})

\* Mutant of Emit: a cancelled commitment may still be emitted.
EmitCancelled(id) == Transition(id, "emitting", States \ {"played"})

Emit(id) == Transition(id, "emitting", {"prepared", "queued", "emitting"})

Complete(id, ms) ==
  /\ state[id] # "absent"
  /\ ~Terminal(state[id])
  /\ state' = [state EXCEPT ![id] = "played"]
  /\ playedMS' = [playedMS EXCEPT ![id] = ms]
  /\ UNCHANGED <<callOf, callIDs, obligations>>

\* The state Cancel leaves behind: what was heard stays heard.
AfterCancel(s) == CASE Terminal(s) -> s
                    [] Crossed(s) -> "played"
                    [] OTHER -> "cancelled"

Cancel(id) ==
  /\ state[id] # "absent"
  /\ state' = [state EXCEPT ![id] = AfterCancel(@)]
  /\ UNCHANGED <<playedMS, callOf, callIDs, obligations>>

\* Mutant of Invalidate: an obligation already outstanding is not noticed.
InvalidateAgain(id, revision) ==
  /\ Crossed(state[id])
  /\ obligations' = Append(obligations,
       [commitment |-> id, playedMS |-> playedMS[id], revision |-> revision,
        resolved |-> FALSE])
  /\ UNCHANGED <<state, playedMS, callOf, callIDs>>

Invalidate(id, revision) ==
  /\ Crossed(state[id])
  /\ ~HasOpen(id)
  /\ obligations' = Append(obligations,
       [commitment |-> id, playedMS |-> playedMS[id], revision |-> revision,
        resolved |-> FALSE])
  /\ UNCHANGED <<state, playedMS, callOf, callIDs>>

\* Only the earliest open obligation of the commitment is resolved.
ResolveObligation(id) ==
  \E i \in DOMAIN obligations :
    /\ OpenAt(i, id)
    /\ \A j \in 1..(i - 1) : ~OpenAt(j, id)
    /\ obligations' = [obligations EXCEPT ![i].resolved = TRUE]
    /\ UNCHANGED <<state, playedMS, callOf, callIDs>>

Truncated(id, ms) ==
  /\ Crossed(state[id])
  /\ playedMS' = [playedMS EXCEPT ![id] = ms]
  /\ obligations' = [i \in DOMAIN obligations |->
                       IF OpenAt(i, id)
                       THEN [obligations[i] EXCEPT !.playedMS = ms]
                       ELSE obligations[i]]
  /\ UNCHANGED <<state, callOf, callIDs>>

\* Ledger.Crossed, the query the supersession path decides on.
CrossedIds == {id \in Ids : Crossed(state[id])}

LedgerNext ==
  \E id \in Ids :
    \/ \E call \in CallIds \cup {NoCall} : Prepare(id, call)
    \/ Queue(id)
    \/ Emit(id)
    \/ \E ms \in 0..MaxMS : Complete(id, ms)
    \/ Cancel(id)
    \/ Len(obligations) < MaxObligations
       /\ \E revision \in Revisions : Invalidate(id, revision)
    \/ ResolveObligation(id)
    \/ \E ms \in 0..MaxMS : Truncated(id, ms)

LedgerSpec == LedgerInit /\ [][LedgerNext]_ledgerVars

-----------------------------------------------------------------------------
\* The commit boundary is one-way: content that reached the world is never
\* again reported as stoppable or stopped, and content that was stopped never
\* reaches it, whatever races between Emit, Cancel, Complete and Truncated
\* (ledger.go: "From here nothing is reversible").
CrossingIsIrreversible ==
  [][\A id \in Ids : /\ Crossed(state[id]) => Crossed(state'[id])
                     /\ Terminal(state[id]) => state'[id] = state[id]]_ledgerVars

\* A repair is owed only for content somebody heard, and at most one repair is
\* outstanding per commitment, over any history of invalidating, resolving and
\* invalidating again (Invalidate: "Content that never crossed the boundary
\* creates no obligation").
ObligationsSound ==
  /\ \A i \in DOMAIN obligations : Crossed(state[obligations[i].commitment])
  /\ \A i, j \in DOMAIN obligations :
       /\ ~obligations[i].resolved
       /\ ~obligations[j].resolved
       /\ obligations[i].commitment = obligations[j].commitment
       => i = j

\* A call identity is committed at most once for the life of the ledger, so a
\* retry cannot obtain a second commitment to dispatch under (Commitment.CallID:
\* "The same call ID may be dispatched at most once").
CallCommittedOnce ==
  /\ \A a, b \in Ids : callOf[a] = callOf[b] /\ callOf[a] # NoCall => a = b
  /\ \A id \in Ids : callOf[id] # NoCall => callOf[id] \in callIDs

\* The ledger implements the boundary it documents.
BoundaryStatus ==
  [id \in Ids |-> CASE state[id] = "absent" -> "undecided"
                    [] state[id] = "cancelled" -> "withdrawn"
                    [] Crossed(state[id]) -> "crossed"
                    [] OTHER -> "reversible"]

BoundaryOwed == {id \in Ids : HasOpen(id)}

B == INSTANCE Boundary WITH status <- BoundaryStatus, owed <- BoundaryOwed

\* Every ledger operation is a step of the abstract boundary or leaves it alone.
ImplementsBoundary == B!Spec
=============================================================================
