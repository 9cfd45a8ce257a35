---------------------------- MODULE LedgerProofs ----------------------------
(***************************************************************************)
(* Machine-checked facts about the irreversibility ledger, for every set   *)
(* of identifiers, call identities and revisions and every bound.          *)
(***************************************************************************)
EXTENDS Ledger, SequenceTheorems, TLAPS

\* A function over the positions of a sequence is a sequence of that length.
LEMMA Rewritten ==
  ASSUME NEW S, NEW s \in Seq(S), NEW t \in [1..Len(s) -> S]
  PROVE  t \in Seq(S) /\ Len(t) = Len(s) /\ DOMAIN t = DOMAIN s
<1>1. Len(s) \in Nat /\ DOMAIN s = 1..Len(s)
  BY LenProperties
<1>2. t \in Seq(S)
  BY <1>1, SeqDef
<1>3. DOMAIN t = 1..Len(t) /\ Len(t) \in Nat
  BY <1>2, LenProperties
<1> QED
  BY <1>1, <1>2, <1>3

\* What resolving does to the list: one entry, its resolved flag.
LEMMA ResolvedList ==
  ASSUME LedgerTypeOK, NEW i \in DOMAIN obligations,
         obligations' = [obligations EXCEPT ![i].resolved = TRUE]
  PROVE  /\ obligations' \in Seq(Obligation)
         /\ DOMAIN obligations' = DOMAIN obligations
         /\ \A j \in DOMAIN obligations : j # i => obligations'[j] = obligations[j]
         /\ obligations'[i].commitment = obligations[i].commitment
         /\ obligations'[i].resolved
<1>1. /\ Len(obligations) \in Nat
      /\ DOMAIN obligations = 1..Len(obligations)
      /\ obligations \in [1..Len(obligations) -> Obligation]
  BY LenProperties DEF LedgerTypeOK
<1>2. obligations[i] \in Obligation
  BY <1>1
<1>3. [obligations[i] EXCEPT !.resolved = TRUE] \in Obligation
  BY <1>2 DEF Obligation
<1>4. obligations' = [obligations EXCEPT ![i] = [obligations[i] EXCEPT !.resolved = TRUE]]
  BY <1>1
<1>5. obligations' \in [1..Len(obligations) -> Obligation]
  BY <1>1, <1>3, <1>4
<1>6. obligations' \in Seq(Obligation) /\ DOMAIN obligations' = DOMAIN obligations
  BY <1>5, Rewritten DEF LedgerTypeOK
<1>7. \A j \in DOMAIN obligations : j # i => obligations'[j] = obligations[j]
  BY <1>1, <1>4
<1>8. obligations'[i] = [obligations[i] EXCEPT !.resolved = TRUE]
  BY <1>1, <1>4
<1> QED
  BY <1>2, <1>6, <1>7, <1>8 DEF Obligation

\* What a client truncation does to the list: only played durations change.
LEMMA TruncatedList ==
  ASSUME LedgerTypeOK, NEW id \in Ids, NEW ms \in 0..MaxMS, Truncated(id, ms)
  PROVE  /\ obligations' \in Seq(Obligation)
         /\ DOMAIN obligations' = DOMAIN obligations
         /\ \A j \in DOMAIN obligations :
              /\ obligations'[j].commitment = obligations[j].commitment
              /\ obligations'[j].resolved = obligations[j].resolved
<1>1. /\ Len(obligations) \in Nat
      /\ DOMAIN obligations = 1..Len(obligations)
      /\ obligations \in [1..Len(obligations) -> Obligation]
  BY LenProperties DEF LedgerTypeOK
<1>2. \A j \in DOMAIN obligations :
        /\ obligations[j] \in Obligation
        /\ obligations'[j] = IF OpenAt(j, id)
                             THEN [obligations[j] EXCEPT !.playedMS = ms]
                             ELSE obligations[j]
  BY <1>1 DEF Truncated
<1>3. \A j \in DOMAIN obligations :
        /\ obligations'[j] \in Obligation
        /\ obligations'[j].commitment = obligations[j].commitment
        /\ obligations'[j].resolved = obligations[j].resolved
  BY <1>2 DEF Obligation
<1>4. obligations' \in [1..Len(obligations) -> Obligation]
  BY <1>1, <1>3 DEF Truncated
<1> QED
  BY <1>3, <1>4, Rewritten DEF LedgerTypeOK

\* Appending an obligation keeps the earlier ones where they were.
LEMMA AppendedList ==
  ASSUME LedgerTypeOK, NEW o \in Obligation,
         obligations' = Append(obligations, o)
  PROVE  /\ obligations' \in Seq(Obligation)
         /\ DOMAIN obligations' = DOMAIN obligations \cup {Len(obligations) + 1}
         /\ Len(obligations) + 1 \notin DOMAIN obligations
         /\ \A j \in DOMAIN obligations : obligations'[j] = obligations[j]
         /\ obligations'[Len(obligations) + 1] = o
BY LenProperties DEF LedgerTypeOK

-----------------------------------------------------------------------------
\* Each operation keeps the types.
LEMMA TypeStep == LedgerTypeOK /\ [LedgerNext]_ledgerVars => LedgerTypeOK'
<1> SUFFICES ASSUME LedgerTypeOK, [LedgerNext]_ledgerVars
             PROVE  LedgerTypeOK'
  OBVIOUS
<1> USE LedgerAssumption DEF LedgerTypeOK, States
<1>1. ASSUME NEW id \in Ids, NEW call \in CallIds \cup {NoCall}, Prepare(id, call)
      PROVE  LedgerTypeOK'
  BY <1>1 DEF Prepare
<1>2. ASSUME NEW id \in Ids, Queue(id) PROVE LedgerTypeOK'
  BY <1>2 DEF Queue, Transition
<1>3. ASSUME NEW id \in Ids, Emit(id) PROVE LedgerTypeOK'
  BY <1>3 DEF Emit, Transition
<1>4. ASSUME NEW id \in Ids, NEW ms \in 0..MaxMS, Complete(id, ms)
      PROVE  LedgerTypeOK'
  BY <1>4 DEF Complete
<1>5. ASSUME NEW id \in Ids, Cancel(id) PROVE LedgerTypeOK'
  BY <1>5 DEF Cancel, AfterCancel, Terminal, Crossed
<1>6. ASSUME NEW id \in Ids, NEW revision \in Revisions, Invalidate(id, revision)
      PROVE  LedgerTypeOK'
  BY <1>6 DEF Invalidate, Obligation
<1>7. ASSUME NEW id \in Ids, ResolveObligation(id) PROVE LedgerTypeOK'
  BY <1>7, ResolvedList DEF ResolveObligation
<1>8. ASSUME NEW id \in Ids, NEW ms \in 0..MaxMS, Truncated(id, ms)
      PROVE  LedgerTypeOK'
  BY <1>8, TruncatedList DEF Truncated
<1>9. CASE UNCHANGED ledgerVars
  BY <1>9 DEF ledgerVars
<1> QED
  BY <1>1, <1>2, <1>3, <1>4, <1>5, <1>6, <1>7, <1>8, <1>9 DEF LedgerNext

\* The ledger's variables keep their types in every behaviour of LedgerNext.
THEOREM LedgerTypeCorrect == LedgerSpec => []LedgerTypeOK
<1>1. LedgerInit => LedgerTypeOK
  BY LedgerAssumption DEF LedgerInit, LedgerTypeOK
<1> QED
  BY <1>1, TypeStep, PTL DEF LedgerSpec

-----------------------------------------------------------------------------
\* No operation takes content back across the boundary or revives what ended.
LEMMA IrreversibleStep ==
  ASSUME LedgerTypeOK, [LedgerNext]_ledgerVars, NEW id \in Ids
  PROVE  /\ Crossed(state[id]) => Crossed(state'[id])
         /\ Terminal(state[id]) => state'[id] = state[id]
<1> USE DEF LedgerTypeOK, States, Crossed, Terminal
<1>1. ASSUME NEW x \in Ids, NEW call \in CallIds \cup {NoCall}, Prepare(x, call)
      PROVE  /\ Crossed(state[id]) => Crossed(state'[id])
             /\ Terminal(state[id]) => state'[id] = state[id]
  BY <1>1 DEF Prepare
<1>2. ASSUME NEW x \in Ids, Queue(x) \/ Emit(x) \/ Cancel(x)
      PROVE  /\ Crossed(state[id]) => Crossed(state'[id])
             /\ Terminal(state[id]) => state'[id] = state[id]
  BY <1>2 DEF Queue, Emit, Transition, Cancel, AfterCancel
<1>3. ASSUME NEW x \in Ids, NEW ms \in 0..MaxMS, Complete(x, ms)
      PROVE  /\ Crossed(state[id]) => Crossed(state'[id])
             /\ Terminal(state[id]) => state'[id] = state[id]
  BY <1>3 DEF Complete
<1>4. ASSUME UNCHANGED state
      PROVE  /\ Crossed(state[id]) => Crossed(state'[id])
             /\ Terminal(state[id]) => state'[id] = state[id]
  BY <1>4
<1> QED
  BY <1>1, <1>2, <1>3, <1>4
     DEF LedgerNext, ledgerVars, Invalidate, ResolveObligation, Truncated

\* What reached the world stays there, and what ended stays ended, for every
\* interleaving of ledger calls (CrossingIsIrreversible).
THEOREM LedgerIrreversible == LedgerSpec => CrossingIsIrreversible
<1>1. LedgerTypeOK /\ [LedgerNext]_ledgerVars =>
        [\A id \in Ids : /\ Crossed(state[id]) => Crossed(state'[id])
                         /\ Terminal(state[id]) => state'[id] = state[id]]_ledgerVars
  BY IrreversibleStep
<1> QED
  BY <1>1, LedgerTypeCorrect, PTL DEF LedgerSpec, CrossingIsIrreversible

-----------------------------------------------------------------------------
\* Each operation keeps the obligations sound: entries are appended only for
\* crossed content without an open entry, and crossing is irreversible.
LEMMA ObligationsStep ==
  ASSUME LedgerTypeOK, ObligationsSound, [LedgerNext]_ledgerVars
  PROVE  ObligationsSound'
<1>a. \A id \in Ids : Crossed(state[id]) => Crossed(state'[id])
  BY IrreversibleStep
<1>b. \A i \in DOMAIN obligations : obligations[i] \in Obligation
  BY LenProperties DEF LedgerTypeOK
<1>0. /\ \A id \in Ids : Crossed(state[id]) => Crossed(state'[id])
      /\ \A i \in DOMAIN obligations :
           obligations[i].commitment \in Ids /\ obligations[i].resolved \in BOOLEAN
  BY <1>a, <1>b DEF Obligation
<1>1. ASSUME UNCHANGED obligations PROVE ObligationsSound'
  BY <1>0, <1>1 DEF ObligationsSound
<1>2. ASSUME NEW id \in Ids, NEW revision \in Revisions, Invalidate(id, revision)
      PROVE  ObligationsSound'
  <2> DEFINE o == [commitment |-> id, playedMS |-> playedMS[id],
                   revision |-> revision, resolved |-> FALSE]
  <2>1. o \in Obligation /\ obligations' = Append(obligations, o)
    BY <1>2 DEF Obligation, LedgerTypeOK, Invalidate
  <2>2. /\ DOMAIN obligations' = DOMAIN obligations \cup {Len(obligations) + 1}
        /\ \A j \in DOMAIN obligations : obligations'[j] = obligations[j]
        /\ obligations'[Len(obligations) + 1] = o
    BY <2>1, AppendedList
  <2>3. /\ Crossed(state[id])
        /\ \A j \in DOMAIN obligations :
             obligations[j].commitment = id => obligations[j].resolved
    BY <1>2 DEF Invalidate, HasOpen, OpenAt
  <2>4. o.commitment = id
    OBVIOUS
  <2> HIDE DEF o
  <2>5. \A i \in DOMAIN obligations' : Crossed(state'[obligations'[i].commitment])
    BY <1>0, <2>2, <2>3, <2>4 DEF ObligationsSound
  <2>6. ASSUME NEW i \in DOMAIN obligations', NEW j \in DOMAIN obligations',
               ~obligations'[i].resolved, ~obligations'[j].resolved,
               obligations'[i].commitment = obligations'[j].commitment
        PROVE  i = j
    BY <2>2, <2>3, <2>4, <2>6 DEF ObligationsSound
  <2> QED
    BY <2>5, <2>6 DEF ObligationsSound
<1>3. ASSUME NEW id \in Ids, ResolveObligation(id) PROVE ObligationsSound'
  <2>1. PICK i \in DOMAIN obligations :
          obligations' = [obligations EXCEPT ![i].resolved = TRUE]
    BY <1>3 DEF ResolveObligation
  <2>2. /\ DOMAIN obligations' = DOMAIN obligations
        /\ \A j \in DOMAIN obligations : j # i => obligations'[j] = obligations[j]
        /\ obligations'[i].commitment = obligations[i].commitment
        /\ obligations'[i].resolved
    BY <2>1, ResolvedList
  <2> QED
    BY <1>0, <2>2 DEF ObligationsSound
<1>4. ASSUME NEW id \in Ids, NEW ms \in 0..MaxMS, Truncated(id, ms)
      PROVE  ObligationsSound'
  <2>1. /\ DOMAIN obligations' = DOMAIN obligations
        /\ \A j \in DOMAIN obligations :
             /\ obligations'[j].commitment = obligations[j].commitment
             /\ obligations'[j].resolved = obligations[j].resolved
    BY <1>4, TruncatedList
  <2> QED
    BY <1>0, <2>1 DEF ObligationsSound
<1> QED
  BY <1>1, <1>2, <1>3, <1>4
     DEF LedgerNext, ledgerVars, Prepare, Queue, Emit, Transition, Complete, Cancel

\* A repair is owed only for heard content and at most once at a time, over any
\* history of Invalidate, ResolveObligation and Truncated calls.
THEOREM LedgerObligations == LedgerSpec => []ObligationsSound
<1>1. LedgerInit => ObligationsSound
  BY DEF LedgerInit, ObligationsSound
<1>2. LedgerTypeOK /\ ObligationsSound /\ [LedgerNext]_ledgerVars => ObligationsSound'
  BY ObligationsStep
<1> QED
  BY <1>1, <1>2, LedgerTypeCorrect, PTL DEF LedgerSpec

\* Only Prepare touches call identities, and it refuses one already claimed.
LEMMA CallStep ==
  ASSUME LedgerTypeOK, CallCommittedOnce, [LedgerNext]_ledgerVars
  PROVE  CallCommittedOnce'
<1>1. ASSUME UNCHANGED <<callOf, callIDs>> PROVE CallCommittedOnce'
  BY <1>1 DEF CallCommittedOnce
<1>2. ASSUME NEW id \in Ids, NEW call \in CallIds \cup {NoCall}, Prepare(id, call)
      PROVE  CallCommittedOnce'
  <2>1. \A x \in Ids : callOf'[x] = IF x = id THEN call ELSE callOf[x]
    BY <1>2 DEF Prepare, LedgerTypeOK
  <2>2. call \notin callIDs /\ callIDs' = callIDs \cup ({call} \ {NoCall})
    BY <1>2 DEF Prepare
  <2> QED
    BY <2>1, <2>2 DEF CallCommittedOnce
<1> QED
  BY <1>1, <1>2
     DEF LedgerNext, ledgerVars, Queue, Emit, Transition, Complete, Cancel,
         Invalidate, ResolveObligation, Truncated

\* A call identity never obtains a second commitment.
THEOREM LedgerCalls == LedgerSpec => []CallCommittedOnce
<1>1. LedgerInit => CallCommittedOnce
  BY DEF LedgerInit, CallCommittedOnce
<1>2. LedgerTypeOK /\ CallCommittedOnce /\ [LedgerNext]_ledgerVars => CallCommittedOnce'
  BY CallStep
<1> QED
  BY <1>1, <1>2, LedgerTypeCorrect, PTL DEF LedgerSpec

-----------------------------------------------------------------------------
\* A step that leaves an identifier's open obligations alone.
LEMMA SameOwed ==
  ASSUME LedgerTypeOK,
         DOMAIN obligations' = DOMAIN obligations,
         \A j \in DOMAIN obligations :
           /\ obligations'[j].commitment = obligations[j].commitment
           /\ obligations'[j].resolved = obligations[j].resolved
  PROVE  BoundaryOwed' = BoundaryOwed
BY DEF BoundaryOwed, HasOpen, OpenAt

\* Each ledger operation is a step of the abstract boundary, or invisible there.
LEMMA BoundaryStep ==
  ASSUME LedgerTypeOK, ObligationsSound, [LedgerNext]_ledgerVars
  PROVE  [B!Next]_<<BoundaryStatus, BoundaryOwed>>
<1> DEFINE Goal == [B!Next]_<<BoundaryStatus, BoundaryOwed>>
<1> USE DEF States
<1>1. ASSUME UNCHANGED ledgerVars PROVE Goal
  <2>1. BoundaryStatus' = BoundaryStatus
    BY <1>1 DEF BoundaryStatus, ledgerVars
  <2>2. BoundaryOwed' = BoundaryOwed
    BY <1>1 DEF BoundaryOwed, HasOpen, OpenAt, ledgerVars
  <2> QED
    BY <2>1, <2>2
<1>2. ASSUME NEW id \in Ids, UNCHANGED obligations,
             \A x \in Ids \ {id} : state'[x] = state[x],
             state' \in [Ids -> States \cup {"absent"}],
             \/ state[id] = "absent" /\ state'[id] = "prepared"
             \/ state[id] \in {"prepared", "queued"} /\ state'[id] \in States
             \/ Crossed(state[id]) /\ Crossed(state'[id])
             \/ state'[id] = state[id]
      PROVE  Goal
  <2>1. BoundaryOwed' = BoundaryOwed
    BY <1>2 DEF BoundaryOwed, HasOpen, OpenAt
  <2>2. \A x \in Ids \ {id} : BoundaryStatus'[x] = BoundaryStatus[x]
    BY <1>2 DEF BoundaryStatus, Crossed
  <2>3. \/ BoundaryStatus[id] = "undecided" /\ BoundaryStatus'[id] = "reversible"
        \/ BoundaryStatus[id] = "reversible"
           /\ BoundaryStatus'[id] \in {"crossed", "withdrawn"}
        \/ BoundaryStatus'[id] = BoundaryStatus[id]
    BY <1>2 DEF BoundaryStatus, Crossed, LedgerTypeOK
  <2>a. BoundaryStatus = [x \in Ids |-> BoundaryStatus[x]]
    BY DEF BoundaryStatus
  <2>b. BoundaryStatus' = [x \in Ids |-> BoundaryStatus'[x]]
    BY DEF BoundaryStatus
  <2>4. BoundaryStatus' = [BoundaryStatus EXCEPT ![id] = BoundaryStatus'[id]]
    BY <2>2, <2>a, <2>b
  <2>5. CASE BoundaryStatus'[id] = BoundaryStatus[id]
    <3>1. BoundaryStatus' = BoundaryStatus
      BY <2>4, <2>5, ZenonT(30) DEF BoundaryStatus
    <3> QED
      BY <2>1, <3>1
  <2>6. CASE BoundaryStatus[id] = "undecided" /\ BoundaryStatus'[id] = "reversible"
    BY <2>1, <2>4, <2>6 DEF B!Next, B!Decide
  <2>7. CASE BoundaryStatus[id] = "reversible" /\ BoundaryStatus'[id] = "crossed"
    BY <2>1, <2>4, <2>7 DEF B!Next, B!Cross
  <2>8. CASE BoundaryStatus[id] = "reversible" /\ BoundaryStatus'[id] = "withdrawn"
    BY <2>1, <2>4, <2>8 DEF B!Next, B!Withdraw
  <2> QED
    BY <2>3, <2>5, <2>6, <2>7, <2>8
<1>3. ASSUME NEW id \in Ids, NEW call \in CallIds \cup {NoCall}, Prepare(id, call)
      PROVE  Goal
  BY <1>2, <1>3 DEF Prepare, LedgerTypeOK
<1>4. ASSUME NEW id \in Ids, Queue(id) \/ Emit(id) PROVE Goal
  BY <1>2, <1>4 DEF Queue, Emit, Transition, LedgerTypeOK, Crossed
<1>5. ASSUME NEW id \in Ids, NEW ms \in 0..MaxMS, Complete(id, ms) PROVE Goal
  BY <1>2, <1>5 DEF Complete, LedgerTypeOK, Crossed, Terminal
<1>6. ASSUME NEW id \in Ids, Cancel(id) PROVE Goal
  BY <1>2, <1>6 DEF Cancel, AfterCancel, LedgerTypeOK, Crossed, Terminal
<1>7. ASSUME NEW id \in Ids, NEW ms \in 0..MaxMS, Truncated(id, ms) PROVE Goal
  <2>1. BoundaryOwed' = BoundaryOwed
    BY <1>7, TruncatedList, SameOwed
  <2>2. BoundaryStatus' = BoundaryStatus
    BY <1>7 DEF Truncated, BoundaryStatus
  <2> QED
    BY <2>1, <2>2
<1>8. ASSUME NEW id \in Ids, NEW revision \in Revisions, Invalidate(id, revision)
      PROVE  Goal
  <2> DEFINE o == [commitment |-> id, playedMS |-> playedMS[id],
                   revision |-> revision, resolved |-> FALSE]
  <2>1. o \in Obligation /\ obligations' = Append(obligations, o)
    BY <1>8 DEF Obligation, LedgerTypeOK, Invalidate
  <2>2. /\ DOMAIN obligations' = DOMAIN obligations \cup {Len(obligations) + 1}
        /\ \A j \in DOMAIN obligations : obligations'[j] = obligations[j]
        /\ obligations'[Len(obligations) + 1] = o
    BY <2>1, AppendedList
  <2>3. o.commitment = id /\ ~o.resolved
    OBVIOUS
  <2> HIDE DEF o
  <2>4. BoundaryOwed' = BoundaryOwed \cup {id}
    BY <2>2, <2>3 DEF BoundaryOwed, HasOpen, OpenAt
  <2>5. BoundaryStatus' = BoundaryStatus /\ BoundaryStatus[id] = "crossed"
    BY <1>8 DEF Invalidate, BoundaryStatus, Crossed
  <2>6. id \notin BoundaryOwed
    BY <1>8 DEF Invalidate, BoundaryOwed
  <2> QED
    BY <2>4, <2>5, <2>6 DEF B!Next, B!Owe
<1>9. ASSUME NEW id \in Ids, ResolveObligation(id) PROVE Goal
  <2>1. PICK i \in DOMAIN obligations :
          /\ OpenAt(i, id)
          /\ obligations' = [obligations EXCEPT ![i].resolved = TRUE]
    BY <1>9 DEF ResolveObligation
  <2>2. /\ DOMAIN obligations' = DOMAIN obligations
        /\ \A j \in DOMAIN obligations : j # i => obligations'[j] = obligations[j]
        /\ obligations'[i].commitment = obligations[i].commitment
        /\ obligations'[i].resolved
    BY <2>1, ResolvedList
  <2>3. \A j \in DOMAIN obligations : OpenAt(j, id) => j = i
    BY <2>1 DEF ObligationsSound, OpenAt
  <2>4. BoundaryOwed' = BoundaryOwed \ {id}
    BY <2>1, <2>2, <2>3 DEF BoundaryOwed, HasOpen, OpenAt
  <2>5. BoundaryStatus' = BoundaryStatus
    BY <1>9 DEF ResolveObligation, BoundaryStatus
  <2>6. id \in BoundaryOwed
    BY <2>1 DEF BoundaryOwed, HasOpen
  <2> QED
    BY <2>4, <2>5, <2>6 DEF B!Next, B!Discharge
<1> QED
  BY <1>1, <1>3, <1>4, <1>5, <1>6, <1>7, <1>8, <1>9 DEF LedgerNext

\* The ledger implements the commit boundary it documents: every behaviour of
\* ledger.go's operations is one of Boundary, under the mapping that forgets
\* everything but reversibility.
THEOREM LedgerImplementsBoundary == LedgerSpec => ImplementsBoundary
<1>1. LedgerInit => B!Init
  <2> SUFFICES ASSUME LedgerInit PROVE B!Init
    OBVIOUS
  <2>a. \A id \in Ids : state[id] = "absent"
    BY DEF LedgerInit
  <2>b. BoundaryStatus = [id \in Ids |-> BoundaryStatus[id]]
    BY DEF BoundaryStatus
  <2>c. \A id \in Ids : BoundaryStatus[id] = "undecided"
    BY <2>a DEF BoundaryStatus, Crossed
  <2>1. BoundaryStatus = [id \in Ids |-> "undecided"]
    BY <2>b, <2>c
  <2>2. DOMAIN obligations = {}
    BY DEF LedgerInit
  <2>3. BoundaryOwed = {}
    BY <2>2 DEF BoundaryOwed, HasOpen
  <2> QED
    BY <2>1, <2>3 DEF B!Init
<1>2. LedgerTypeOK /\ ObligationsSound /\ [LedgerNext]_ledgerVars
        => [B!Next]_<<BoundaryStatus, BoundaryOwed>>
  BY BoundaryStep
<1> QED
  BY <1>1, <1>2, LedgerTypeCorrect, LedgerObligations, PTL
     DEF LedgerSpec, ImplementsBoundary, B!Spec
=============================================================================
