-------------------------- MODULE CognitionProofs ---------------------------
(***************************************************************************)
(* The canonical log and the turns that write it, for any goroutines that  *)
(* run continuations, any names of calls and any number of observations,   *)
(* invocations and reports.                                                *)
(*                                                                         *)
(* The log is read back through what it admitted: every item was accepted  *)
(* by the log before it (Admitted), and appending makes no earlier item    *)
(* less acceptable, so the history the properties state follows from the   *)
(* rules of one append.  That an answer knew its evidence and that a debt  *)
(* was corrected rests on what the turns remember: the observation they    *)
(* adopt for is in the log, what they prepared was prepared for a          *)
(* sentence, and what they are about to discharge has its correction in    *)
(* the log (TurnSound).  What is owed was heard before the observation     *)
(* that contradicts it, and observations are numbered in order, so that an *)
(* answer which had read one had read every lower one.  Nothing is assumed *)
(* of the recogniser's numbers.                                            *)
(***************************************************************************)
EXTENDS Cognition, FiniteSetTheorems, SequenceTheorems, TLAPS

Invocation == Nat \ {0}

Spoken == [kind : {"assistant"}, phase : {"fast", "slow"}, inv : Invocation, rev : Nat, base : Nat,
           prepared : Texts \cup {NoText}, answers : Nat]

Action == [kind : {"call", "proposal"}, inv : Invocation, call : CallNames, rev : Nat, base : Nat,
           prepared : Texts \cup {NoText}, answers : Nat]

\* What the log holds.  A call and what becomes of it always name the invocation.
Item == Spoken \cup Action
        \cup [kind : {"observation"}, rev : Nat, text : Texts]
        \cup [kind : {"state"}, ref : Nat, vis : {"played", "cancelled"}]
        \cup [kind : {"result", "placeholder", "disposition"}, inv : Invocation, call : CallNames]
        \cup [kind : {"required"}, ref : Nat, rev : Nat]
        \cup [kind : {"resolved"}, ref : Nat, rev : Nat, by : Nat]

\* Every item was acceptable to the log before it.
Admitted == \A i \in DOMAIN log : Accepts(SubSeq(log, 1, i - 1), log[i])

\* No item is reported both played and cancelled.
ReportsAgree ==
  \A i \in DOMAIN log : log[i].kind = "state" =>
    \A j \in 1..(i - 1) : log[j].kind = "state" /\ log[j].ref = log[i].ref => log[j].vis = log[i].vis

\* A repair is required of what the observation it is required for followed.
RequiredAfterEvidence ==
  \A i \in DOMAIN log : log[i].kind = "required" =>
    \E j \in (log[i].ref + 1)..(i - 1) : log[j].kind = "observation" /\ log[j].rev = log[i].rev

\* What the log alone says.
LogSound == log \in Seq(Item) /\ Admitted /\ ReportsAgree /\ RequiredAfterEvidence /\ AnswersTheEvidence

\* What a continuation produces: prose, or an action.
IsOutput(items) == items \in Seq(Spoken \cup Action) /\ Len(items) = 1

Turn == [pc : {"idle", "raise", "take", "think", "adopt", "adopting", "act", "close", "repair", "discharge"},
         phase : {"fast", "slow"}, rev : Nat, base : Nat, inv : Nat, items : Seq(Item)]

\* What a preparation may hold.
PreparationSound(p) ==
  /\ p.text \in Texts /\ p.inv \in Invocation
  /\ IsOutput(p.items) /\ p.items[1].prepared = p.text

\* What the turns have read and what became of it since.
TurnSound(r) ==
  /\ run[r].pc \in {"think", "adopt", "adopting", "act"} => run[r].inv \in Invocation
  /\ run[r].pc \in {"adopt", "adopting"} =>
       /\ IsOutput(run[r].items) /\ run[r].items[1].prepared # NoText
       /\ \E j \in Of(log, "observation") :
            log[j].rev = run[r].rev /\ log[j].text = run[r].items[1].prepared
  /\ run[r].pc = "act" => run[r].items # << >> /\ run[r].items[1].call \in CallNames
  /\ run[r].pc = "discharge" =>
       \A i \in DOMAIN run[r].items : \E k \in Of(log, "resolved") : log[k].ref = run[r].items[i].ref

\* What is owed was heard before the evidence that contradicts it was committed.
OwedSound ==
  /\ IsFiniteSet(owed)
  /\ \A o \in owed : /\ o.target \in Of(log, "assistant") /\ o.rev \in Nat
                     /\ \A j \in Of(log, "observation") : log[j].rev = o.rev => o.target < j
  /\ \A j \in Of(log, "observation") : log[j].rev <= revision

\* Observations are numbered in the order they were committed.
Numbered ==
  \A j \in Of(log, "observation") :
    /\ log[j].rev <= Committed
    /\ \A k \in Of(log, "observation") : j < k => log[j].rev < log[k].rev

\* The inductive invariant of cognition.
CognitionSound ==
  /\ LogSound
  /\ run \in [Runners -> Turn] /\ \A r \in Runners : TurnSound(r)
  /\ revision \in Nat /\ invocations \in Nat
  /\ heard \subseteq Of(log, "assistant")
  /\ sent \subseteq Invocation \X CallNames
  /\ \A p \in byPhase \cup speculating : PreparationSound(p)
  /\ OwedSound /\ Numbered

-----------------------------------------------------------------------------
\* Numbers, sets and sequences.

\* Every set of numbers has a least one.
LEMMA LeastNumber ==
  ASSUME NEW T, T \subseteq Nat, T # {}
  PROVE  \E n \in T : \A m \in T : n <= m
<1>1. PICK n \in T : \A m \in T : ~(<<m, n>> \in OpToRel(<, Nat))
  BY WFMin, NatLessThanWellFounded
<1>2. ASSUME NEW m \in T PROVE n <= m
  <2>1. ~(m < n)
    BY <1>1 DEF OpToRel
  <2> QED
    BY <2>1
<1> QED
  BY <1>2

\* Max is the greatest element of a bounded set of numbers.
LEMMA MaxIsGreatest ==
  ASSUME NEW S, S \subseteq Nat, S # {}, NEW b \in Nat, \A x \in S : x <= b
  PROVE  Max(S) \in S /\ \A x \in S : x <= Max(S)
<1> DEFINE T == {n \in Nat : \A x \in S : x <= n}
<1>1. PICK n \in T : \A m \in T : n <= m
  BY LeastNumber
<1>2. n \in S
  <2> SUFFICES ASSUME n \notin S PROVE FALSE
    OBVIOUS
  <2>1. \A x \in S : x <= n - 1
    BY <1>1
  <2>2. n - 1 \in Nat
    <3>1. PICK x \in S : TRUE
      OBVIOUS
    <3>2. x \in Nat /\ n \in Nat /\ x <= n - 1
      BY <1>1, <2>1, <3>1
    <3> QED
      BY <3>2
  <2>3. n - 1 \in T
    BY <2>1, <2>2
  <2> QED
    BY <1>1, <2>3
<1>3. \E x \in S : \A y \in S : x >= y
  BY <1>1, <1>2
<1>4. Max(S) \in S /\ \A y \in S : Max(S) >= y
  BY <1>3 DEF Max
<1> QED
  BY <1>4

\* SetToSeq lists a finite set.
LEMMA ListsSet ==
  ASSUME NEW S, IsFiniteSet(S)
  PROVE  SetToSeq(S) \in Seq(S) /\ (S # {} => SetToSeq(S) # << >>)
<1>1. Cardinality(S) \in Nat /\ ExistsBijection(1..Cardinality(S), S)
  BY FS_CardinalityType
<1>2. PICK f \in [1..Cardinality(S) -> S] : IsInjective(f) /\ \A t \in S : \E i \in 1..Cardinality(S) : f[i] = t
  BY <1>1 DEF ExistsBijection, Bijection, Injection, Surjection
<1>3. SetToSeq(S) \in [1..Cardinality(S) -> S]
  BY <1>2 DEF SetToSeq
<1> QED
  BY <1>1, <1>2, <1>3

\* The image of a finite set of positions is finite.
LEMMA PositionsFinite ==
  ASSUME NEW l \in Seq(Item)
  PROVE  /\ \A kind : Of(l, kind) \subseteq Nat /\ IsFiniteSet(Of(l, kind))
         /\ \A kind : IsFiniteSet(Identities(l, kind))
<1>1. DOMAIN l = 1..Len(l) /\ Len(l) \in Nat /\ IsFiniteSet(DOMAIN l)
  BY LenProperties, FS_Interval
<1> SUFFICES ASSUME NEW kind
             PROVE  /\ Of(l, kind) \subseteq Nat /\ IsFiniteSet(Of(l, kind))
                    /\ IsFiniteSet(Identities(l, kind))
  OBVIOUS
<1>2. Of(l, kind) \subseteq DOMAIN l
  BY DEF Of
<1>3. IsFiniteSet(Of(l, kind)) /\ Of(l, kind) \subseteq Nat
  BY <1>1, <1>2, FS_Subset
<1> DEFINE f == [i \in Of(l, kind) |-> <<l[i].inv, l[i].call>>]
<1>4. f \in Surjection(Of(l, kind), Identities(l, kind))
  BY DEF Surjection, Identities
<1>5. IsFiniteSet(Identities(l, kind))
  BY <1>3, <1>4, FS_Surjection
<1> QED
  BY <1>3, <1>5

-----------------------------------------------------------------------------
\* A log that grows.

\* The first items of a log.
LEMMA PrefixOf ==
  ASSUME NEW s \in Seq(Item), NEW n \in 0..Len(s)
  PROVE  /\ SubSeq(s, 1, n) \in Seq(Item) /\ Len(SubSeq(s, 1, n)) = n
         /\ DOMAIN SubSeq(s, 1, n) = 1..n /\ 1..n \subseteq DOMAIN s
         /\ \A j \in 1..n : SubSeq(s, 1, n)[j] = s[j]
<1>1. Len(s) \in Nat /\ DOMAIN s = 1..Len(s) /\ n \in Int /\ 1 \in Int /\ n \in Nat
      /\ \A j \in 1..n : j \in DOMAIN s /\ s[j] \in Item
  BY LenProperties
<1>2. /\ SubSeq(s, 1, n) \in Seq(Item) /\ Len(SubSeq(s, 1, n)) = IF 1 <= n THEN n - 1 + 1 ELSE 0
      /\ \A j \in 1..(n - 1 + 1) : SubSeq(s, 1, n)[j] = s[1 + j - 1]
  BY <1>1, SubSeqProperties
<1>3. n - 1 + 1 = n /\ \A j \in 1..n : 1 + j - 1 = j
  BY <1>1
<1>4. Len(SubSeq(s, 1, n)) = n /\ \A j \in 1..n : SubSeq(s, 1, n)[j] = s[j]
  BY <1>1, <1>2, <1>3
<1> QED
  BY <1>1, <1>2, <1>4, LenProperties

\* m is l with items after it.
Extends(m, l, items) ==
  /\ m \in Seq(Item) /\ Len(m) = Len(l) + Len(items)
  /\ Len(l) \in Nat /\ Len(items) \in Nat /\ DOMAIN l = 1..Len(l)
  /\ DOMAIN items = 1..Len(items) /\ DOMAIN m = 1..(Len(l) + Len(items))
  /\ \A i \in DOMAIN l : m[i] = l[i] /\ SubSeq(m, 1, i - 1) = SubSeq(l, 1, i - 1)
  /\ \A k \in DOMAIN items : /\ m[Len(l) + k] = items[k]
                             /\ SubSeq(m, 1, Len(l) + k - 1) = l \o SubSeq(items, 1, k - 1)
  /\ \A i \in DOMAIN m : i \in DOMAIN l \/ \E k \in DOMAIN items : i = Len(l) + k

\* Appending changes nothing before what is appended.
LEMMA Extended ==
  ASSUME NEW l \in Seq(Item), NEW items \in Seq(Item)
  PROVE  Extends(l \o items, l, items)
<1> DEFINE m == l \o items
<1> HIDE DEF m
<1>1. /\ Len(l) \in Nat /\ Len(items) \in Nat /\ DOMAIN l = 1..Len(l) /\ DOMAIN items = 1..Len(items)
      /\ \A i \in DOMAIN l : l[i] \in Item
      /\ \A i \in DOMAIN items : items[i] \in Item
  BY LenProperties
<1>2. /\ m \in Seq(Item) /\ Len(m) = Len(l) + Len(items) /\ DOMAIN m = 1..(Len(l) + Len(items))
      /\ \A i \in 1..(Len(l) + Len(items)) : m[i] = IF i <= Len(l) THEN l[i] ELSE items[i - Len(l)]
  BY ConcatProperties, LenProperties DEF m
<1>3. \A i \in DOMAIN l : m[i] = l[i]
  BY <1>1, <1>2
<1>4. ASSUME NEW k \in DOMAIN items PROVE m[Len(l) + k] = items[k]
  <2>1. Len(l) + k \in 1..(Len(l) + Len(items)) /\ ~(Len(l) + k <= Len(l)) /\ Len(l) + k - Len(l) = k
    BY <1>1
  <2> QED
    BY <1>2, <2>1
<1>5. ASSUME NEW i \in DOMAIN l PROVE SubSeq(m, 1, i - 1) = SubSeq(l, 1, i - 1)
  <2>1. i - 1 \in 0..Len(l) /\ i - 1 \in 0..Len(m) /\ \A j \in 1..(i - 1) : j \in DOMAIN l
    BY <1>1, <1>2
  <2>2. SubSeq(m, 1, i - 1) \in Seq(Item) /\ Len(SubSeq(m, 1, i - 1)) = i - 1
        /\ \A j \in 1..(i - 1) : SubSeq(m, 1, i - 1)[j] = m[j]
    BY <1>2, <2>1, PrefixOf
  <2>3. SubSeq(l, 1, i - 1) \in Seq(Item) /\ Len(SubSeq(l, 1, i - 1)) = i - 1
        /\ \A j \in 1..(i - 1) : SubSeq(l, 1, i - 1)[j] = l[j]
    BY <2>1, PrefixOf
  <2> QED
    BY <1>3, <2>1, <2>2, <2>3, SeqEqual
<1>6. ASSUME NEW k \in DOMAIN items
      PROVE  SubSeq(m, 1, Len(l) + k - 1) = l \o SubSeq(items, 1, k - 1)
  <2> DEFINE n == Len(l) + k - 1
             p == SubSeq(m, 1, n)
             q == SubSeq(items, 1, k - 1)
  <2>1. n \in Nat /\ n \in 0..Len(m) /\ k - 1 \in 0..Len(items) /\ n = Len(l) + (k - 1)
    BY <1>1, <1>2
  <2>2. p \in Seq(Item) /\ Len(p) = n /\ \A j \in 1..n : p[j] = m[j]
    BY <1>2, <2>1, PrefixOf
  <2>3. q \in Seq(Item) /\ Len(q) = k - 1 /\ \A j \in 1..(k - 1) : q[j] = items[j]
    BY <2>1, PrefixOf
  <2> HIDE DEF n, p, q
  <2>4. l \o q \in Seq(Item) /\ Len(l \o q) = n
        /\ \A j \in 1..n : (l \o q)[j] = IF j <= Len(l) THEN l[j] ELSE q[j - Len(l)]
    <3>1. l \o q \in Seq(Item) /\ Len(l \o q) = Len(l) + Len(q)
          /\ \A j \in 1..(Len(l) + Len(q)) : (l \o q)[j] = IF j <= Len(l) THEN l[j] ELSE q[j - Len(l)]
      BY <2>3, ConcatProperties
    <3> QED
      BY <2>1, <2>3, <3>1
  <2>5. ASSUME NEW j \in 1..n PROVE p[j] = (l \o q)[j]
    <3>1. j \in 1..(Len(l) + Len(items)) /\ (j > Len(l) => j - Len(l) \in 1..(k - 1))
      BY <1>1, <1>2, <2>1
    <3> QED
      BY <1>1, <1>2, <2>2, <2>3, <2>4, <3>1
  <2>6. p = l \o q
    BY <2>2, <2>4, <2>5, SeqEqual
  <2> QED
    BY <2>6 DEF n, p, q
<1>7. \A i \in DOMAIN m : i \in DOMAIN l \/ \E k \in DOMAIN items : i = Len(l) + k
  <2> SUFFICES ASSUME NEW i \in DOMAIN m, i \notin DOMAIN l PROVE \E k \in DOMAIN items : i = Len(l) + k
    OBVIOUS
  <2>1. i - Len(l) \in DOMAIN items /\ i = Len(l) + (i - Len(l))
    BY <1>1, <1>2
  <2> QED
    BY <2>1
<1>8. Extends(m, l, items)
  BY <1>1, <1>2, <1>3, <1>4, <1>5, <1>6, <1>7 DEF Extends
<1> QED
  BY <1>8 DEF m

\* What an item of a kind holds.
LEMMA ItemFacts ==
  ASSUME NEW x \in Item
  PROVE  /\ x.kind \in {"assistant", "observation", "state", "required", "resolved",
                        "call", "proposal", "result", "placeholder", "disposition"}
         /\ x.kind \in {"call", "proposal", "result", "placeholder", "disposition"} =>
              x.inv \in Invocation /\ x.call \in CallNames
         /\ x.kind = "assistant" => x.inv \in Invocation
         /\ x.kind \in {"call", "proposal", "assistant"} => x.base \in Nat /\ x.rev \in Nat
         /\ x.kind = "observation" => x.rev \in Nat /\ x.text \in Texts
         /\ x.kind = "state" => x.ref \in Nat /\ x.vis \in {"played", "cancelled"}
         /\ x.kind = "required" => x.ref \in Nat /\ x.rev \in Nat
         /\ x.kind = "resolved" => x.ref \in Nat /\ x.rev \in Nat /\ x.by \in Nat
BY DEF Item, Spoken, Action

\* Items that name their invocation are appended as they are.
LEMMA BatchAppended ==
  ASSUME log \in Seq(Item), NEW items \in Seq(Item), AppendBatch(items)
  PROVE  log' = log \o items /\ AcceptsBatch(log, items)
<1>1. \A i \in DOMAIN items : items[i] \in Item
  BY LenProperties
<1>2. \A i \in DOMAIN items : Normalized(log, items[i]) = items[i]
  BY <1>1, ItemFacts DEF Normalized, Unscoped, Invocation
<1>3. [i \in DOMAIN items |-> Normalized(log, items[i])] = items
  BY <1>2, LenProperties
<1> QED
  BY <1>3 DEF AppendBatch

\* What the log must already hold for an output to answer it.
Answers(x) ==
  x.kind \in {"assistant", "proposal", "call"} =>
    IF x.prepared = NoText THEN Fresh(log, x.base)
    ELSE \E j \in Of(log, "observation") : log[j].rev = x.answers /\ log[j].text = x.prepared

\* Nothing that was in the log leaves it.
Grows == Len(log) <= Len(log') /\ \A i \in DOMAIN log : i \in DOMAIN log' /\ log'[i] = log[i]

\* AnswersTheEvidence, for the item at one position.
AnsweredAt(l, i) ==
  IF l[i].prepared = NoText
  THEN \A j \in (l[i].base + 1)..(i - 1) :
         l[j].kind \notin {"observation", "required", "resolved", "result"}
  ELSE \E j \in DOMAIN l : /\ l[j].kind = "observation" /\ j < i
                           /\ l[j].rev = l[i].answers /\ l[j].text = l[i].prepared

\* The property, position by position.
LEMMA EvidenceByItem ==
  AnswersTheEvidence <=>
    \A i \in DOMAIN log : log[i].kind \in {"assistant", "proposal", "call"} => AnsweredAt(log, i)
BY DEF AnswersTheEvidence, AnsweredAt, Of

\* ... and after a step.
LEMMA EvidenceByItemNext ==
  AnswersTheEvidence' <=>
    \A i \in DOMAIN log' : log'[i].kind \in {"assistant", "proposal", "call"} => AnsweredAt(log', i)
BY DEF AnswersTheEvidence, AnsweredAt, Of

\* An accepted batch keeps the history sound.
LEMMA LogGrows ==
  ASSUME LogSound, NEW items \in Seq(Item), log' = log \o items, AcceptsBatch(log, items),
         \A k \in DOMAIN items :
           /\ Answers(items[k])
           /\ items[k].kind \in {"assistant", "proposal", "call", "state"} => k = 1
           /\ items[k].kind = "required" =>
                \E j \in (items[k].ref + 1)..Len(log) :
                  log[j].kind = "observation" /\ log[j].rev = items[k].rev
  PROVE  LogSound' /\ Grows /\ \A k \in DOMAIN items : Len(log) + k \in DOMAIN log' /\ log'[Len(log) + k] = items[k]
<1>1. log \in Seq(Item) /\ Admitted /\ ReportsAgree /\ RequiredAfterEvidence /\ AnswersTheEvidence
  BY DEF LogSound
<1>2. /\ log' \in Seq(Item) /\ Len(log') = Len(log) + Len(items)
      /\ Len(log) \in Nat /\ Len(items) \in Nat /\ DOMAIN log = 1..Len(log)
      /\ DOMAIN items = 1..Len(items) /\ DOMAIN log' = 1..(Len(log) + Len(items))
      /\ \A i \in DOMAIN log : log'[i] = log[i] /\ SubSeq(log', 1, i - 1) = SubSeq(log, 1, i - 1)
      /\ \A k \in DOMAIN items : /\ log'[Len(log) + k] = items[k]
                                 /\ SubSeq(log', 1, Len(log) + k - 1) = log \o SubSeq(items, 1, k - 1)
      /\ \A i \in DOMAIN log' : i \in DOMAIN log \/ \E k \in DOMAIN items : i = Len(log) + k
  <2>1. Extends(log', log, items)
    BY <1>1, Extended
  <2> QED
    BY <2>1 DEF Extends
<1>3. Grows /\ \A k \in DOMAIN items : Len(log) + k \in DOMAIN log'
  BY <1>2 DEF Grows
<1>4. Admitted'
  <2> SUFFICES ASSUME NEW i \in DOMAIN log' PROVE Accepts(SubSeq(log', 1, i - 1), log'[i])
    BY DEF Admitted
  <2>1. CASE i \in DOMAIN log
    BY <1>1, <1>2, <2>1 DEF Admitted
  <2>2. ASSUME NEW k \in DOMAIN items, i = Len(log) + k PROVE Accepts(SubSeq(log', 1, i - 1), log'[i])
    <3>1. i - 1 = Len(log) + k - 1 /\ log'[i] = items[k]
      BY <1>2, <2>2
    <3>2. SubSeq(log', 1, i - 1) = log \o SubSeq(items, 1, k - 1)
      BY <1>2, <3>1
    <3>3. Accepts(log \o SubSeq(items, 1, k - 1), items[k])
      BY DEF AcceptsBatch
    <3> QED
      BY <3>1, <3>2, <3>3
  <2> QED
    BY <1>2, <2>1, <2>2
<1>5. ReportsAgree'
  <2> SUFFICES ASSUME NEW i \in DOMAIN log', log'[i].kind = "state", NEW j \in 1..(i - 1),
                      log'[j].kind = "state", log'[j].ref = log'[i].ref
               PROVE  log'[j].vis = log'[i].vis
    BY DEF ReportsAgree
  <2>1. CASE i \in DOMAIN log
    <3>1. j \in DOMAIN log
      BY <1>2, <2>1
    <3>2. log'[i] = log[i] /\ log'[j] = log[j]
      BY <1>2, <2>1, <3>1
    <3>3. log[j].vis = log[i].vis
      BY <1>1, <2>1, <3>2 DEF ReportsAgree
    <3> QED
      BY <3>2, <3>3
  <2>2. ASSUME NEW k \in DOMAIN items, i = Len(log) + k PROVE log'[j].vis = log'[i].vis
    <3>1. k = 1 /\ log'[i] = items[k] /\ j \in DOMAIN log /\ log'[j] = log[j]
      BY <1>2, <2>2, SMTT(30)
    <3>2. SubSeq(items, 1, 0) = << >> /\ log \o << >> = log
      BY <1>1, SubSeqEmpty, ConcatEmptySeq
    <3>3. Accepts(log, items[k])
      <4>1. Accepts(log \o SubSeq(items, 1, k - 1), items[k])
        BY DEF AcceptsBatch
      <4>2. k - 1 = 0
        BY <3>1
      <4>3. log \o SubSeq(items, 1, k - 1) = log
        BY <3>2, <4>2, Zenon
      <4> QED
        BY <4>1, <4>3, Zenon
    <3>4. AcceptsState(log, items[k])
      <4>1. items[k].kind = "state"
        BY <3>1
      <4> QED
        BY <3>3, <4>1 DEF Accepts
    <3> DEFINE S == {n \in Of(log, "state") : log[n].ref = items[k].ref}
    <3>5. j \in S /\ S \subseteq Nat /\ S \subseteq DOMAIN log /\ \A n \in S : n <= Len(log)
      BY <1>2, <3>1 DEF Of
    <3>6. Max(S) \in S /\ \A n \in S : n <= Max(S)
      BY <1>2, <3>5, MaxIsGreatest
    <3>7. log[Max(S)] \in Item /\ log[Max(S)].kind = "state"
      BY <1>1, <3>5, <3>6, LenProperties DEF Of
    <3>8. log[Max(S)].vis = items[k].vis
      BY <3>4, <3>5, <3>7, ItemFacts DEF AcceptsState, Visibility
    <3>9. log[j].vis = log[Max(S)].vis
      <4>1. CASE j = Max(S)
        BY <4>1
      <4>2. CASE j # Max(S)
        <5>1. PICK n : n = Max(S)
          OBVIOUS
        <5>2. n \in S /\ j \in S /\ n \in Nat /\ j \in Nat /\ j # 0 /\ j <= n /\ j # n /\ n \in DOMAIN log
          BY <1>2, <3>5, <3>6, <4>2, <5>1
        <5>3. j \in 1..(Max(S) - 1) /\ Max(S) \in DOMAIN log /\ log[j].ref = log[Max(S)].ref
          BY <5>1, <5>2
        <5> QED
          BY <1>1, <3>1, <3>7, <5>3 DEF ReportsAgree
      <4> QED
        BY <4>1, <4>2
    <3> QED
      BY <3>1, <3>8, <3>9
  <2> QED
    BY <1>2, <2>1, <2>2
<1>6. RequiredAfterEvidence'
  <2> SUFFICES ASSUME NEW i \in DOMAIN log', log'[i].kind = "required"
               PROVE  \E j \in (log'[i].ref + 1)..(i - 1) :
                        log'[j].kind = "observation" /\ log'[j].rev = log'[i].rev
    BY DEF RequiredAfterEvidence
  <2>1. log'[i].ref \in Nat
    BY <1>2, ItemFacts, LenProperties
  <2>2. CASE i \in DOMAIN log
    <3>1. PICK j \in (log[i].ref + 1)..(i - 1) : log[j].kind = "observation" /\ log[j].rev = log[i].rev
      BY <1>1, <1>2, <2>2 DEF RequiredAfterEvidence
    <3>2. j \in DOMAIN log
      BY <1>2, <2>1, <2>2
    <3> QED
      BY <1>2, <2>2, <3>1, <3>2
  <2>3. ASSUME NEW k \in DOMAIN items, i = Len(log) + k
        PROVE  \E j \in (log'[i].ref + 1)..(i - 1) :
                 log'[j].kind = "observation" /\ log'[j].rev = log'[i].rev
    <3>1. PICK j \in (items[k].ref + 1)..Len(log) :
            log[j].kind = "observation" /\ log[j].rev = items[k].rev
      BY <1>2, <2>3
    <3>2. j \in DOMAIN log /\ j \in (items[k].ref + 1)..(i - 1) /\ log'[i] = items[k]
      BY <1>2, <2>1, <2>3, SMTT(30)
    <3> QED
      BY <1>2, <3>1, <3>2
  <2> QED
    BY <1>2, <2>2, <2>3
<1>7. AnswersTheEvidence'
  <2> SUFFICES ASSUME NEW i \in DOMAIN log', log'[i].kind \in {"assistant", "proposal", "call"}
               PROVE  AnsweredAt(log', i)
    BY EvidenceByItemNext
  <2>1. log'[i].base \in Nat
    BY <1>2, ItemFacts, LenProperties
  <2>2. CASE i \in DOMAIN log
    <3>1. log'[i] = log[i]
      BY <1>2, <2>2
    <3>0. AnsweredAt(log, i)
      BY <1>1, <2>2, <3>1, EvidenceByItem
    <3>2. CASE log[i].prepared = NoText
      <4>1. \A j \in (log[i].base + 1)..(i - 1) : j \in DOMAIN log /\ log'[j] = log[j]
        BY <1>2, <2>1, <2>2, <3>1
      <4> QED
        BY <3>0, <3>1, <3>2, <4>1 DEF AnsweredAt
    <3>3. CASE log[i].prepared # NoText
      <4>1. PICK j \in DOMAIN log : /\ log[j].kind = "observation" /\ j < i
                                    /\ log[j].rev = log[i].answers /\ log[j].text = log[i].prepared
        BY <3>0, <3>3 DEF AnsweredAt
      <4>2. j \in DOMAIN log' /\ log'[j] = log[j]
        BY <1>3 DEF Grows
      <4> QED
        BY <3>1, <3>3, <4>1, <4>2 DEF AnsweredAt
    <3> QED
      BY <3>2, <3>3
  <2>3. ASSUME NEW k \in DOMAIN items, i = Len(log) + k
        PROVE  AnsweredAt(log', i)
    <3>1. log'[i] = items[k] /\ k = 1 /\ i = Len(log) + 1 /\ Answers(items[k])
      BY <1>2, <2>3
    <3>2. CASE items[k].prepared = NoText
      <4>1. Fresh(log, items[k].base)
        BY <3>1, <3>2 DEF Answers
      <4>2. \A j \in (items[k].base + 1)..(i - 1) : /\ j \in (items[k].base + 1)..Len(log)
                                                    /\ j \in DOMAIN log /\ log'[j] = log[j]
        BY <1>2, <2>1, <3>1
      <4> QED
        BY <3>1, <3>2, <4>1, <4>2 DEF Fresh, Supersedes, AnsweredAt
    <3>3. CASE items[k].prepared # NoText
      <4>1. PICK j \in Of(log, "observation") : log[j].rev = items[k].answers /\ log[j].text = items[k].prepared
        BY <3>1, <3>3 DEF Answers
      <4>2. j \in DOMAIN log /\ j < i /\ j \in DOMAIN log' /\ log'[j] = log[j] /\ log[j].kind = "observation"
        BY <1>2, <3>1, <4>1 DEF Of
      <4> QED
        BY <3>1, <3>3, <4>1, <4>2, SMTT(30) DEF AnsweredAt
    <3> QED
      BY <3>2, <3>3
  <2> QED
    BY <1>2, <2>2, <2>3
<1> QED
  BY <1>2, <1>3, <1>4, <1>5, <1>6, <1>7 DEF LogSound

\* A batch of one is accepted when its item is.
LEMMA BatchOfOne ==
  ASSUME NEW l \in Seq(Item), NEW x
  PROVE  AcceptsBatch(l, <<x>>) <=> Accepts(l, x)
<1>1. DOMAIN <<x>> = {1} /\ <<x>>[1] = x
  OBVIOUS
<1>2. SubSeq(<<x>>, 1, 0) = << >> /\ l \o << >> = l
  BY SubSeqEmpty, ConcatEmptySeq
<1>3. AcceptsBatch(l, <<x>>) <=> Accepts(l \o SubSeq(<<x>>, 1, 1 - 1), x)
  BY <1>1 DEF AcceptsBatch
<1>4. 1 - 1 = 0
  OBVIOUS
<1> QED
  BY <1>2, <1>3, <1>4

\* A result is retained under the invocation of the one call it can mean.
LEMMA ResultAppended ==
  ASSUME log \in Seq(Item), NEW inv \in Nat, NEW call \in CallNames,
         AppendBatch(<<[kind |-> "result", inv |-> inv, call |-> call]>>)
  PROVE  \E y \in Item : y.kind = "result" /\ log' = log \o <<y>> /\ AcceptsBatch(log, <<y>>)
<1> DEFINE x == [kind |-> "result", inv |-> inv, call |-> call]
           z == Normalized(log, x)
<1>1. x.kind = "result" /\ x.inv = inv /\ x.call = call
  OBVIOUS
<1>2. AcceptsBatch(log, <<x>>) /\ log' = log \o [i \in DOMAIN <<x>> |-> Normalized(log, <<x>>[i])]
  BY DEF AppendBatch
<1>3. [i \in DOMAIN <<x>> |-> Normalized(log, <<x>>[i])] = <<z>>
  <2>1. DOMAIN <<x>> = 1..1 /\ <<x>>[1] = x
    OBVIOUS
  <2> QED
    BY <2>1
<1>4. Accepts(log, x)
  BY <1>2, BatchOfOne
<1>5. AcceptsResult(log, x)
  BY <1>1, <1>4 DEF Accepts
<1>6. PICK id \in ResolveCall(log, inv, call) : id \notin Identities(log, "result")
  BY <1>1, <1>5 DEF AcceptsResult
<1>7. \A i \in Of(log, "call") : log[i].inv \in Invocation /\ log[i].call \in CallNames
  BY LenProperties, ItemFacts DEF Of
<1>8. CASE inv # Unscoped
  <2>1. z = x
    BY <1>1, <1>8 DEF Normalized
  <2>2. x \in Item
    BY <1>8 DEF Item, Invocation, Unscoped
  <2> QED
    BY <1>1, <1>2, <1>3, <2>1, <2>2
<1>9. CASE inv = Unscoped
  <2> DEFINE c == CHOOSE d \in ResolveCall(log, inv, call) : TRUE
  <2>1. c \in ResolveCall(log, inv, call)
    BY <1>6
  <2>2. /\ c \in Identities(log, "call") /\ c[2] = call
        /\ \A a, b \in ResolveCall(log, inv, call) : a = b
    BY <1>9, <2>1 DEF ResolveCall
  <2> HIDE DEF c
  <2>3. c = id
    BY <1>6, <2>1, <2>2
  <2>4. c[1] \in Invocation /\ c = <<c[1], call>>
    BY <1>7, <2>2 DEF Identities
  <2>5. z = [kind |-> "result", inv |-> c[1], call |-> call]
    BY <1>1, <1>9 DEF Normalized, c
  <2> HIDE DEF z, x
  <2>6. z \in Item /\ z.kind = "result" /\ z.inv = c[1] /\ z.call = call
    BY <2>4, <2>5 DEF Item
  <2>7. id \in ResolveCall(log, z.inv, z.call)
    BY <2>2, <2>3, <2>4, <2>6 DEF ResolveCall, Invocation, Unscoped
  <2>8. Accepts(log, z)
    BY <1>6, <2>6, <2>7 DEF Accepts, AcceptsResult
  <2> QED
    BY <1>2, <1>3, <2>6, <2>8, BatchOfOne
<1> QED
  BY <1>8, <1>9

-----------------------------------------------------------------------------
\* What the history says, read off the log.

\* Every item was accepted by the rule for its kind.
LEMMA AcceptedByKind ==
  ASSUME NEW l, NEW x, Accepts(l, x)
  PROVE  /\ x.kind = "proposal" => AcceptsProposal(l, x)
         /\ x.kind = "disposition" => AcceptsDisposition(l, x)
         /\ x.kind = "call" => AcceptsCall(l, x)
         /\ x.kind = "result" => AcceptsResult(l, x)
         /\ x.kind = "placeholder" => AcceptsPlaceholder(l, x)
         /\ x.kind = "required" => AcceptsRequired(l, x)
         /\ x.kind = "resolved" => AcceptsResolved(l, x)
BY DEF Accepts

\* The identities an earlier part of the log names.
LEMMA EarlierIdentities ==
  ASSUME log \in Seq(Item), NEW i \in DOMAIN log, NEW kind, NEW id
  PROVE  id \in Identities(SubSeq(log, 1, i - 1), kind)
           <=> \E j \in 1..(i - 1) : log[j].kind = kind /\ id = <<log[j].inv, log[j].call>>
<1>1. i - 1 \in 0..Len(log)
  BY LenProperties
<1>2. /\ DOMAIN SubSeq(log, 1, i - 1) = 1..(i - 1)
      /\ \A j \in 1..(i - 1) : SubSeq(log, 1, i - 1)[j] = log[j]
  BY <1>1, PrefixOf
<1> QED
  BY <1>2 DEF Identities, Of

\* A history in which every item was accepted is a sound tool history.
LEMMA ToolHistory == LogSound => ToolHistorySound
<1> SUFFICES ASSUME LogSound PROVE ToolHistorySound
  OBVIOUS
<1> DEFINE Id(i) == <<log[i].inv, log[i].call>>
           Before(i, kind) == \E j \in 1..(i - 1) : log[j].kind = kind /\ Id(j) = Id(i)
<1>1. log \in Seq(Item) /\ Admitted /\ Len(log) \in Nat /\ DOMAIN log = 1..Len(log)
  BY LenProperties DEF LogSound
<1>2. ASSUME NEW i \in DOMAIN log
      PROVE  /\ log[i].kind = "proposal" => ~Before(i, "proposal") /\ ~Before(i, "call")
             /\ log[i].kind = "disposition" =>
                  Before(i, "proposal") /\ ~Before(i, "call") /\ ~Before(i, "disposition")
             /\ log[i].kind = "call" => ~Before(i, "call") /\ ~Before(i, "disposition")
             /\ log[i].kind = "result" => Before(i, "call") /\ ~Before(i, "result")
             /\ log[i].kind = "placeholder" =>
                  Before(i, "call") /\ ~Before(i, "result") /\ ~Before(i, "placeholder")
  <2> DEFINE l == SubSeq(log, 1, i - 1)
  <2>1. Accepts(l, log[i]) /\ log[i] \in Item
    BY <1>1 DEF Admitted
  <2>2. \A kind : Id(i) \in Identities(l, kind) <=> Before(i, kind)
    <3> SUFFICES ASSUME NEW kind PROVE Id(i) \in Identities(l, kind) <=> Before(i, kind)
      OBVIOUS
    <3>1. Id(i) \in Identities(l, kind)
            <=> \E j \in 1..(i - 1) : log[j].kind = kind /\ Id(i) = Id(j)
      BY <1>1, EarlierIdentities
    <3> QED
      BY <3>1
  <2> HIDE DEF l, Before
  <2>3. log[i].kind \in {"result", "placeholder"} =>
          \A id \in ResolveCall(l, log[i].inv, log[i].call) : id = Id(i) /\ id \in Identities(l, "call")
    BY <2>1, ItemFacts DEF ResolveCall, Unscoped, Invocation
  <2>4. CASE log[i].kind = "proposal"
    BY <2>1, <2>2, <2>4, AcceptedByKind DEF AcceptsProposal
  <2>5. CASE log[i].kind = "disposition"
    BY <2>1, <2>2, <2>5, AcceptedByKind DEF AcceptsDisposition
  <2>6. CASE log[i].kind = "call"
    BY <2>1, <2>2, <2>6, AcceptedByKind DEF AcceptsCall
  <2>7. CASE log[i].kind = "result"
    BY <2>1, <2>2, <2>3, <2>7, AcceptedByKind DEF AcceptsResult
  <2>8. CASE log[i].kind = "placeholder"
    BY <2>1, <2>2, <2>3, <2>8, AcceptedByKind DEF AcceptsPlaceholder
  <2> QED
    BY <2>4, <2>5, <2>6, <2>7, <2>8
<1>3. ASSUME NEW i \in DOMAIN log, log[i].kind \in {"result", "placeholder"}
      PROVE  \E c \in 1..(i - 1) : /\ log[c].kind = "call"
                                   /\ log[c].inv = log[i].inv /\ log[c].call = log[i].call
  BY <1>2, <1>3
<1>4. ASSUME NEW i \in DOMAIN log, NEW j \in DOMAIN log, i < j, Id(i) = Id(j),
             log[i].kind \in {"proposal", "disposition", "call", "result", "placeholder"},
             log[j].kind \in {"proposal", "disposition", "call", "result", "placeholder"}
      PROVE  <<log[i].kind, log[j].kind>> \in
               {<<"proposal", "call">>, <<"proposal", "disposition">>, <<"proposal", "result">>,
                <<"proposal", "placeholder">>, <<"call", "placeholder">>, <<"call", "result">>,
                <<"placeholder", "result">>}
  <2>1. Before(j, log[i].kind)
    BY <1>1, <1>4
  <2>2. \A kind : Before(i, kind) => Before(j, kind)
    BY <1>1, <1>4
  <2>5. log[j].kind \in {"result", "placeholder"} => log[i].kind # "disposition"
    <3> SUFFICES ASSUME log[j].kind \in {"result", "placeholder"}, log[i].kind = "disposition" PROVE FALSE
      OBVIOUS
    <3>1. PICK c \in 1..(j - 1) : log[c].kind = "call" /\ Id(c) = Id(j)
      BY <1>2
    <3>2. c \in DOMAIN log /\ c # i
      BY <1>1, <3>1
    <3>3. CASE c < i
      <4>1. Before(i, "call")
        BY <1>1, <1>4, <3>1, <3>2, <3>3
      <4> QED
        BY <1>2, <4>1
    <3>4. CASE i < c
      <4>1. Before(c, "disposition")
        BY <1>1, <1>4, <3>1, <3>2, <3>4
      <4> QED
        BY <1>2, <3>1, <3>2, <4>1
    <3> QED
      BY <1>1, <3>2, <3>3, <3>4
  <2> HIDE DEF Before, Id
  <2>3. log[i].kind \in {"result", "placeholder"} => Before(j, "call")
    BY <1>2, <2>2
  <2>4. log[i].kind = "disposition" => Before(j, "proposal")
    BY <1>2, <2>2
  <2> QED
    BY <1>2, <1>4, <2>1, <2>3, <2>4, <2>5
<1> QED
  BY <1>3, <1>4 DEF ToolHistorySound

\* An answer had read the observation of a number, or its own is ahead of every
\* observation it had read.
ReadOrAhead(answer, rev) ==
  LET Read == {k \in Of(log, "observation") : k <= answer.base}
  IN  (\E k \in Read : log[k].rev = rev) \/ (\A k \in Read : log[k].rev < answer.rev)

\* Whoever had read an observation had read every lower one there is.
LEMMA ReadOrNumberedAhead ==
  ASSUME LogSound, Numbered,
         NEW a \in DOMAIN log, log[a].kind = "assistant",
         NEW j \in DOMAIN log, log[j].kind = "required", log[a].rev >= log[j].rev
  PROVE  ReadOrAhead(log[a], log[j].rev)
<1>1. log \in Seq(Item) /\ RequiredAfterEvidence /\ Len(log) \in Nat /\ DOMAIN log = 1..Len(log)
  BY LenProperties DEF LogSound
<1>2. log[a] \in Item /\ log[j] \in Item
  BY <1>1
<1>3. log[a].base \in Nat /\ log[a].rev \in Nat /\ log[j].rev \in Nat /\ log[j].ref \in Nat
  BY <1>2, ItemFacts
<1>4. PICK m \in (log[j].ref + 1)..(j - 1) : log[m].kind = "observation" /\ log[m].rev = log[j].rev
  BY <1>1 DEF RequiredAfterEvidence
<1>5. m \in DOMAIN log /\ m \in Nat /\ m \in Of(log, "observation")
  BY <1>1, <1>3, <1>4 DEF Of
<1>6. ASSUME NEW k \in Of(log, "observation"), k <= log[a].base, ~(log[k].rev < log[a].rev)
      PROVE  m <= log[a].base
  <2>1. k \in DOMAIN log /\ k \in Nat /\ log[k] \in Item /\ log[k].kind = "observation"
    BY <1>1 DEF Of
  <2>2. log[k].rev \in Nat
    BY <2>1, ItemFacts
  <2>3. ~(k < m)
    BY <1>3, <1>4, <1>5, <1>6, <2>2 DEF Numbered
  <2> QED
    BY <1>3, <1>5, <1>6, <2>1, <2>3
<1> QED
  BY <1>4, <1>5, <1>6 DEF ReadOrAhead

\* ... and a sound history of what was heard and repaired.
LEMMA RepairHistory == LogSound /\ Numbered => RepairHistorySound
<1> SUFFICES ASSUME LogSound, Numbered PROVE RepairHistorySound
  OBVIOUS
<1>1. /\ log \in Seq(Item) /\ Admitted /\ ReportsAgree /\ RequiredAfterEvidence
      /\ Len(log) \in Nat /\ DOMAIN log = 1..Len(log)
  BY LenProperties DEF LogSound
<1>2. ASSUME NEW i \in DOMAIN log, log[i].kind = "required"
      PROVE  /\ \E j \in 1..(i - 1) : /\ log[j].kind = "state" /\ log[j].ref = log[i].ref
                                      /\ log[j].vis = "played"
             /\ \E j \in (log[i].ref + 1)..(i - 1) :
                  log[j].kind = "observation" /\ log[j].rev = log[i].rev
             /\ PendingOf(SubSeq(log, 1, i - 1), log[i].ref) = {}
  <2> DEFINE l == SubSeq(log, 1, i - 1)
  <2>1. i - 1 \in 0..Len(log) /\ i - 1 \in Nat
    BY <1>1
  <2>2. DOMAIN l = 1..(i - 1) /\ \A j \in 1..(i - 1) : l[j] = log[j]
    BY <1>1, <2>1, PrefixOf
  <2>3. Accepts(l, log[i])
    BY <1>1 DEF Admitted
  <2> HIDE DEF l
  <2>4. Visibility(l, log[i].ref) = "played" /\ PendingOf(l, log[i].ref) = {}
    BY <1>2, <2>3, AcceptedByKind DEF AcceptsRequired
  <2> DEFINE S == {j \in Of(l, "state") : l[j].ref = log[i].ref}
  <2>5. S # {} /\ l[Max(S)].vis = "played"
    BY <2>4 DEF Visibility
  <2>6. S \subseteq Nat /\ \A j \in S : j <= i - 1
    BY <2>1, <2>2 DEF Of
  <2>7. Max(S) \in S
    BY <2>1, <2>5, <2>6, MaxIsGreatest
  <2>8. \E j \in 1..(i - 1) : /\ log[j].kind = "state" /\ log[j].ref = log[i].ref /\ log[j].vis = "played"
    <3>1. PICK j : j = Max(S)
      OBVIOUS
    <3>2. j \in DOMAIN l /\ l[j].kind = "state" /\ l[j].ref = log[i].ref /\ l[j].vis = "played"
      BY <2>5, <2>7, <3>1 DEF Of
    <3> QED
      BY <2>2, <3>2
  <2>9. \E j \in (log[i].ref + 1)..(i - 1) :
          log[j].kind = "observation" /\ log[j].rev = log[i].rev
    BY <1>1, <1>2 DEF RequiredAfterEvidence
  <2> QED
    BY <2>4, <2>8, <2>9 DEF l
<1>3. ASSUME NEW i \in DOMAIN log, log[i].kind = "resolved"
      PROVE  \E j \in PendingOf(SubSeq(log, 1, i - 1), log[i].ref) :
               /\ log[i].by \in 1..(i - 1) /\ log[i].by # log[i].ref
               /\ log[log[i].by].kind = "assistant" /\ log[log[i].by].phase = "slow"
               /\ log[log[i].by].rev >= log[j].rev
               /\ ReadOrAhead(log[log[i].by], log[j].rev)
  <2> DEFINE l == SubSeq(log, 1, i - 1)
             a == log[i].by
  <2>1. i - 1 \in 0..Len(log)
    BY <1>1
  <2>2. DOMAIN l = 1..(i - 1) /\ \A j \in 1..(i - 1) : l[j] = log[j]
    BY <1>1, <2>1, PrefixOf
  <2>3. Accepts(l, log[i])
    BY <1>1 DEF Admitted
  <2> HIDE DEF l
  <2>4. AcceptsResolved(l, log[i])
    BY <1>3, <2>3, AcceptedByKind
  <2>5. PICK j \in PendingOf(l, log[i].ref) : log[i].rev >= l[j].rev
    BY <2>4 DEF AcceptsResolved
  <2>6. j \in DOMAIN l /\ l[j].kind = "required"
    BY <2>5 DEF PendingOf, Of
  <2>7. /\ a \in DOMAIN l /\ a # log[i].ref /\ l[a].kind = "assistant"
        /\ l[a].phase = "slow" /\ l[a].rev = log[i].rev
    BY <2>4 DEF AcceptsResolved, Of
  <2>8. /\ a \in 1..(i - 1) /\ log[a].kind = "assistant" /\ log[a].phase = "slow"
        /\ log[a].rev >= log[j].rev /\ j \in DOMAIN log /\ log[j].kind = "required" /\ a \in DOMAIN log
    BY <1>1, <2>2, <2>5, <2>6, <2>7
  <2>9. ReadOrAhead(log[a], log[j].rev)
    BY <1>1, <2>8, ReadOrNumberedAhead
  <2> QED
    BY <2>5, <2>7, <2>8, <2>9 DEF l
<1> SUFFICES ASSUME NEW i \in DOMAIN log
             PROVE  /\ log[i].kind = "state" =>
                         \A j \in 1..(i - 1) : log[j].kind = "state" /\ log[j].ref = log[i].ref =>
                                                 log[j].vis = log[i].vis
                    /\ log[i].kind = "required" =>
                         /\ \E j \in 1..(i - 1) : /\ log[j].kind = "state" /\ log[j].ref = log[i].ref
                                                  /\ log[j].vis = "played"
                         /\ \E j \in (log[i].ref + 1)..(i - 1) :
                              log[j].kind = "observation" /\ log[j].rev = log[i].rev
                         /\ PendingOf(SubSeq(log, 1, i - 1), log[i].ref) = {}
                    /\ log[i].kind = "resolved" =>
                         \E j \in PendingOf(SubSeq(log, 1, i - 1), log[i].ref) :
                           /\ log[i].by \in 1..(i - 1) /\ log[i].by # log[i].ref
                           /\ log[log[i].by].kind = "assistant" /\ log[log[i].by].phase = "slow"
                           /\ log[log[i].by].rev >= log[j].rev
                           /\ ReadOrAhead(log[log[i].by], log[j].rev)
  BY DEF RepairHistorySound, ReadOrAhead
<1> QED
  BY <1>1, <1>2, <1>3 DEF ReportsAgree

-----------------------------------------------------------------------------
\* Every step keeps the invariant.

\* The log changed at most by what is no observation.
QuietLog ==
  /\ LogSound' /\ Grows
  /\ \A i \in DOMAIN log' : i \in DOMAIN log \/ log'[i].kind # "observation"

\* Where an item was, one of its kind still is.
LEMMA KindsKept ==
  ASSUME Grows
  PROVE  \A kind : \A i \in Of(log, kind) : i \in Of(log', kind) /\ log'[i] = log[i]
BY DEF Grows, Of

\* A turn that did not move is as sound on the log that grew.
LEMMA TurnKept ==
  ASSUME Grows, NEW r \in Runners, run'[r] = run[r], TurnSound(r)
  PROVE  TurnSound(r)'
<1>1. \A i \in Of(log, "observation") : i \in Of(log', "observation") /\ log'[i] = log[i]
  BY KindsKept
<1>2. \A i \in Of(log, "resolved") : i \in Of(log', "resolved") /\ log'[i] = log[i]
  BY KindsKept
<1>3. run'[r].pc \in {"adopt", "adopting"} =>
        \E j \in Of(log', "observation") :
          log'[j].rev = run'[r].rev /\ log'[j].text = run'[r].items[1].prepared
  BY <1>1 DEF TurnSound
<1>4. run'[r].pc = "discharge" =>
        \A i \in DOMAIN run'[r].items : \E k \in Of(log', "resolved") : log'[k].ref = run'[r].items[i].ref
  BY <1>2 DEF TurnSound
<1> QED
  BY <1>3, <1>4 DEF TurnSound

\* What a step must still show when it announces no evidence.
LEMMA Preserved ==
  ASSUME CognitionSound, QuietLog,
         run' \in [Runners -> Turn], \A r \in Runners : run'[r] = run[r] \/ TurnSound(r)',
         revision' = revision, invocations' \in Nat, heard' \subseteq Of(log', "assistant"),
         owed' \subseteq owed, sent' \subseteq Invocation \X CallNames,
         \A p \in byPhase' \cup speculating' : PreparationSound(p)
  PROVE  CognitionSound'
<1>1. /\ \A r \in Runners : TurnSound(r)
      /\ IsFiniteSet(owed)
      /\ \A o \in owed : /\ o.target \in Of(log, "assistant") /\ o.rev \in Nat
                         /\ \A j \in Of(log, "observation") : log[j].rev = o.rev => o.target < j
      /\ \A j \in Of(log, "observation") : log[j].rev <= revision
      /\ revision \in Nat
  BY DEF CognitionSound, OwedSound
<1>2. \A r \in Runners : TurnSound(r)'
  BY <1>1, TurnKept DEF QuietLog
<1>3. /\ \A i \in Of(log, "assistant") : i \in Of(log', "assistant") /\ log'[i] = log[i]
      /\ \A j \in Of(log', "observation") : j \in Of(log, "observation") /\ log'[j] = log[j]
  BY DEF QuietLog, Grows, Of
<1>4. IsFiniteSet(owed')
  BY <1>1, FS_Subset
<1>5. OwedSound'
  BY <1>1, <1>3, <1>4 DEF OwedSound
<1>8. Numbered'
  <2>1. \A j \in Of(log, "observation") : j \in Of(log', "observation")
    BY KindsKept DEF QuietLog
  <2>2. Of(log', "observation") = Of(log, "observation")
    BY <1>3, <2>1
  <2>3. Committed' = Committed
    BY <2>2 DEF Committed
  <2> QED
    BY <1>3, <2>2, <2>3 DEF CognitionSound, Numbered
<1>6. LogSound'
  BY DEF QuietLog
<1>7. \A p \in (byPhase \cup speculating)' : PreparationSound(p)'
  BY DEF PreparationSound
<1> QED
  BY <1>1, <1>2, <1>5, <1>6, <1>7, <1>8 DEF CognitionSound

\* A log left alone.
LEMMA LogLeft ==
  ASSUME LogSound, log' = log
  PROVE  QuietLog
<1>1. Len(log) \in Nat
  BY LenProperties DEF LogSound
<1>2. LogSound'
  <2>1. RequiredAfterEvidence'
    BY DEF LogSound, RequiredAfterEvidence
  <2> QED
    BY <2>1 DEF LogSound, Admitted, ReportsAgree, AnswersTheEvidence, Of
<1> QED
  BY <1>1, <1>2 DEF QuietLog, Grows

\* A batch appended.
LEMMA LogAppended ==
  ASSUME LogSound, NEW items \in Seq(Item), AppendBatch(items),
         \A k \in DOMAIN items :
           /\ items[k].kind # "observation"
           /\ Answers(items[k])
           /\ items[k].kind \in {"assistant", "proposal", "call", "state"} => k = 1
           /\ items[k].kind = "required" =>
                \E j \in (items[k].ref + 1)..Len(log) :
                  log[j].kind = "observation" /\ log[j].rev = items[k].rev
  PROVE  /\ QuietLog
         /\ \A k \in DOMAIN items : Len(log) + k \in DOMAIN log' /\ log'[Len(log) + k] = items[k]
<1>1. log' = log \o items /\ AcceptsBatch(log, items) /\ log \in Seq(Item)
  BY BatchAppended DEF LogSound
<1>2. /\ LogSound' /\ Grows
      /\ \A k \in DOMAIN items : Len(log) + k \in DOMAIN log' /\ log'[Len(log) + k] = items[k]
  BY <1>1, LogGrows
<1>3. \A i \in DOMAIN log' : i \in DOMAIN log \/ \E k \in DOMAIN items : i = Len(log) + k
  BY <1>1, Extended DEF Extends
<1> QED
  BY <1>2, <1>3 DEF QuietLog

\* One item appended.
LEMMA ItemAppended ==
  ASSUME LogSound, NEW x \in Item, AppendBatch(<<x>>) \/ (log' = log \o <<x>> /\ AcceptsBatch(log, <<x>>)),
         Answers(x), x.kind \notin {"observation", "required"}
  PROVE  QuietLog /\ Len(log) + 1 \in DOMAIN log' /\ log'[Len(log) + 1] = x
<1>1. <<x>> \in Seq(Item) /\ DOMAIN <<x>> = {1} /\ <<x>>[1] = x
  OBVIOUS
<1>2. log' = log \o <<x>> /\ AcceptsBatch(log, <<x>>) /\ log \in Seq(Item)
  BY <1>1, BatchAppended DEF LogSound
<1>3. /\ LogSound' /\ Grows
      /\ \A k \in DOMAIN <<x>> : Len(log) + k \in DOMAIN log' /\ log'[Len(log) + k] = <<x>>[k]
  <2>1. PICK items : items = <<x>>
    OBVIOUS
  <2>2. items \in Seq(Item) /\ log' = log \o items /\ AcceptsBatch(log, items)
    BY <1>1, <1>2, <2>1
  <2>3. \A k \in DOMAIN items : k = 1 /\ items[k] = x
    BY <1>1, <2>1
  <2>4. \A k \in DOMAIN items :
          /\ Answers(items[k])
          /\ items[k].kind \in {"assistant", "proposal", "call", "state"} => k = 1
          /\ items[k].kind = "required" =>
               \E j \in (items[k].ref + 1)..Len(log) :
                 log[j].kind = "observation" /\ log[j].rev = items[k].rev
    BY <2>3
  <2>5. /\ LogSound' /\ Grows
        /\ \A k \in DOMAIN items : Len(log) + k \in DOMAIN log' /\ log'[Len(log) + k] = items[k]
    BY <2>2, <2>4, LogGrows
  <2> QED
    BY <2>1, <2>5
<1>4. \A i \in DOMAIN log' : i \in DOMAIN log \/ \E k \in DOMAIN <<x>> : i = Len(log) + k
  BY <1>1, <1>2, Extended DEF Extends
<1> QED
  BY <1>1, <1>3, <1>4 DEF QuietLog

\* The identities of the log name an invocation and a call.
LEMMA NamedIdentities ==
  ASSUME log \in Seq(Item), NEW kind \in {"call", "proposal", "result", "placeholder", "disposition"},
         NEW id \in Identities(log, kind)
  PROVE  id \in Invocation \X CallNames /\ id[1] \in Invocation /\ id[2] \in CallNames /\ id = <<id[1], id[2]>>
<1>1. PICK i \in Of(log, kind) : id = <<log[i].inv, log[i].call>>
  BY DEF Identities
<1>2. log[i] \in Item /\ log[i].kind = kind
  BY <1>1, LenProperties DEF Of
<1> QED
  BY <1>1, <1>2, ItemFacts

\* A runner's turn replaced.
LEMMA TurnReplaced ==
  ASSUME run \in [Runners -> Turn], NEW r \in Runners, NEW t \in Turn, run' = [run EXCEPT ![r] = t]
  PROVE  /\ run' \in [Runners -> Turn] /\ run'[r] = t
         /\ \A s \in Runners : s # r => run'[s] = run[s]
OBVIOUS

\* A turn that is over owes nothing.
LEMMA IdleTurn ==
  ASSUME NEW r \in Runners, run'[r] = Idle
  PROVE  TurnSound(r)'
<1>1. run'[r].pc = "idle"
  BY DEF Idle
<1> QED
  BY <1>1 DEF TurnSound

\* ... and is one.
LEMMA IdleTyped == Idle \in Turn
<1>1. << >> \in Seq(Item)
  BY EmptySeq
<1> QED
  BY <1>1 DEF Idle, Turn

\* A runner moves on with what it has.
LEMMA Stepped ==
  ASSUME run \in [Runners -> Turn], NEW r \in Runners, NEW pc, Step(r, pc),
         pc \in {"idle", "raise", "take", "think", "adopt", "adopting", "act", "close", "repair", "discharge"}
  PROVE  /\ run' \in [Runners -> Turn] /\ \A s \in Runners : s # r => run'[s] = run[s]
         /\ pc = "idle" => run'[r] = Idle
         /\ pc # "idle" => /\ run'[r].pc = pc /\ run'[r].items = run[r].items /\ run'[r].inv = run[r].inv
                           /\ run'[r].rev = run[r].rev
<1> DEFINE t == IF pc = "idle" THEN Idle ELSE [run[r] EXCEPT !.pc = pc]
<1>1. run[r] \in Turn
  OBVIOUS
<1>2. t \in Turn /\ (pc = "idle" => t = Idle)
      /\ (pc # "idle" => t.pc = pc /\ t.items = run[r].items /\ t.inv = run[r].inv /\ t.rev = run[r].rev)
  BY <1>1, IdleTyped DEF Turn
<1>3. run' = [run EXCEPT ![r] = t]
  BY DEF Step
<1> HIDE DEF t
<1> QED
  BY <1>2, <1>3, TurnReplaced

\* Where a turn neither adopts nor acts nor discharges there is nothing to keep.
LEMMA FreeTurn ==
  ASSUME NEW r \in Runners, run'[r].pc \in {"idle", "raise", "take", "close", "repair"}
  PROVE  TurnSound(r)'
BY DEF TurnSound

\* What does not concern the log or a turn.
LEMMA HearKeeps ==
  ASSUME CognitionSound, NEW a, Hear(a)
  PROVE  CognitionSound'
<1>1. QuietLog
  BY LogLeft DEF CognitionSound, Hear
<1> QED
  BY <1>1, Preserved DEF CognitionSound, Hear

\* A report of playback names an item by its position.
LEMMA ReportKeeps ==
  ASSUME CognitionSound, NEW a, NEW vis \in {"played", "cancelled"}, Report(a, vis)
  PROVE  CognitionSound'
<1>1. LogSound /\ log \in Seq(Item) /\ run \in [Runners -> Turn]
  BY DEF CognitionSound, LogSound
<1>2. a \in Nat
  BY <1>1, PositionsFinite DEF Report
<1> DEFINE x == [kind |-> "state", ref |-> a, vis |-> vis]
<1>3. x \in Item /\ x.kind = "state" /\ AppendBatch(<<x>>)
  BY <1>2 DEF Item, Report
<1>4. Answers(x)
  BY <1>3 DEF Answers
<1> HIDE DEF x
<1>5. QuietLog
  BY <1>1, <1>3, <1>4, ItemAppended
<1>6. heard' \subseteq Of(log', "assistant")
  BY <1>5, KindsKept DEF CognitionSound, Report, QuietLog
<1> QED
  BY <1>1, <1>5, <1>6, Preserved DEF CognitionSound, Report

\* A result is retained under the invocation that made the call.
LEMMA AnswerKeeps ==
  ASSUME CognitionSound, NEW id, NEW inv \in {id[1], Unscoped}, Answer(id, inv)
  PROVE  CognitionSound'
<1>1. LogSound /\ log \in Seq(Item) /\ run \in [Runners -> Turn] /\ id \in Invocation \X CallNames
  BY DEF CognitionSound, LogSound, Answer
<1>2. inv \in Nat /\ id[2] \in CallNames
  BY <1>1 DEF Invocation, Unscoped
<1>3. PICK y \in Item : y.kind = "result" /\ log' = log \o <<y>> /\ AcceptsBatch(log, <<y>>)
  BY <1>1, <1>2, ResultAppended DEF Answer
<1>4. Answers(y)
  BY <1>3 DEF Answers
<1>5. QuietLog
  BY <1>1, <1>3, <1>4, ItemAppended
<1>6. heard' \subseteq Of(log', "assistant")
  BY <1>5, KindsKept DEF CognitionSound, Answer, QuietLog
<1> QED
  BY <1>1, <1>5, <1>6, Preserved DEF CognitionSound, Answer

\* A promotion is derived from the log it is appended to.
LEMMA PromoteKeeps ==
  ASSUME CognitionSound, NEW id, Promote(id)
  PROVE  CognitionSound'
<1>1. LogSound /\ log \in Seq(Item) /\ run \in [Runners -> Turn] /\ Len(log) \in Nat
  BY LenProperties DEF CognitionSound, LogSound
<1>2. id \in Invocation \X CallNames /\ id[1] \in Invocation /\ id[2] \in CallNames
  BY <1>1, NamedIdentities DEF Promote
<1>8. PICK i \in Of(log, "proposal") :
        AppendBatch(<<[kind |-> "call", inv |-> id[1], call |-> id[2], rev |-> log[i].rev,
                       base |-> Len(log), prepared |-> NoText, answers |-> 0]>>)
  BY DEF Promote
<1>9. log[i].rev \in Nat
  <2>1. log[i] \in Item /\ log[i].kind = "proposal"
    BY <1>1, LenProperties DEF Of
  <2> QED
    BY <2>1, ItemFacts
<1> DEFINE x == [kind |-> "call", inv |-> id[1], call |-> id[2], rev |-> log[i].rev,
                 base |-> Len(log), prepared |-> NoText, answers |-> 0]
<1>3. x \in Item /\ x.kind = "call" /\ x.base = Len(log) /\ x.prepared = NoText /\ AppendBatch(<<x>>)
  BY <1>1, <1>2, <1>8, <1>9 DEF Item, Action
<1> HIDE DEF x
<1>4. Answers(x)
  BY <1>1, <1>3 DEF Answers, Fresh
<1>5. QuietLog
  BY <1>1, <1>3, <1>4, ItemAppended
<1>6. heard' \subseteq Of(log', "assistant")
  BY <1>5, KindsKept DEF CognitionSound, Promote, QuietLog
<1>7. sent' \subseteq Invocation \X CallNames
  BY <1>2 DEF CognitionSound, Promote
<1> QED
  BY <1>1, <1>5, <1>6, <1>7, Preserved DEF CognitionSound, Promote

\* A disposition names the proposal it suppresses.
LEMMA DisposeKeeps ==
  ASSUME CognitionSound, NEW id, Dispose(id)
  PROVE  CognitionSound'
<1>1. LogSound /\ log \in Seq(Item) /\ run \in [Runners -> Turn]
  BY DEF CognitionSound, LogSound
<1>2. id[1] \in Invocation /\ id[2] \in CallNames
  BY <1>1, NamedIdentities DEF Dispose
<1> DEFINE x == [kind |-> "disposition", inv |-> id[1], call |-> id[2]]
<1>3. x \in Item /\ x.kind = "disposition" /\ AppendBatch(<<x>>)
  BY <1>2 DEF Item, Dispose
<1> HIDE DEF x
<1>4. Answers(x)
  BY <1>3 DEF Answers
<1>5. QuietLog
  BY <1>1, <1>3, <1>4, ItemAppended
<1>6. heard' \subseteq Of(log', "assistant")
  BY <1>5, KindsKept DEF CognitionSound, Dispose, QuietLog
<1> QED
  BY <1>1, <1>5, <1>6, Preserved DEF CognitionSound, Dispose

\* What a revision newly supersedes has not been observed yet.
LEMMA SubmitKeeps ==
  ASSUME CognitionSound, Submit
  PROVE  CognitionSound'
<1>1. /\ LogSound /\ log \in Seq(Item) /\ run \in [Runners -> Turn] /\ revision \in Nat
      /\ heard \subseteq Of(log, "assistant") /\ OwedSound
      /\ \A r \in Runners : TurnSound(r)
  BY DEF CognitionSound, LogSound
<1>2. log' = log /\ run' = run /\ revision' = revision + 1 /\ owed' = Owe(revision + 1)
  BY DEF Submit
<1>3. QuietLog
  BY <1>1, <1>2, LogLeft
<1>4. \A r \in Runners : TurnSound(r)'
  BY <1>1, <1>2, <1>3, TurnKept DEF QuietLog
<1> DEFINE B == {b \in heard : /\ log[b].rev \in 1..((revision + 1) - 1)
                                /\ \A o \in owed : o.target # b}
           N == {[target |-> a, rev |-> revision + 1] : a \in B}
<1>5. owed' = owed \cup N
  BY <1>2 DEF Owe
<1>6. IsFiniteSet(N)
  <2>1. IsFiniteSet(B)
    <3>1. IsFiniteSet(Of(log, "assistant"))
      BY <1>1, PositionsFinite
    <3>2. B \subseteq Of(log, "assistant")
      BY <1>1
    <3> HIDE DEF B
    <3> QED
      BY <3>1, <3>2, FS_Subset
  <2> HIDE DEF B
  <2> DEFINE f == [a \in B |-> [target |-> a, rev |-> revision + 1]]
  <2>2. f \in Surjection(B, N)
    BY DEF Surjection
  <2> QED
    BY <2>1, <2>2, FS_Surjection
<1>7. \A o \in N : o.target \in Of(log, "assistant") /\ o.rev = revision + 1
  BY <1>1
<1> HIDE DEF N
<1>8. IsFiniteSet(owed')
  BY <1>1, <1>5, <1>6, FS_Union DEF OwedSound
<1>9. \A j \in Of(log, "observation") : log[j].rev <= revision /\ log[j].rev \in Nat
  <2> SUFFICES ASSUME NEW j \in Of(log, "observation") PROVE log[j].rev <= revision /\ log[j].rev \in Nat
    OBVIOUS
  <2>1. log[j] \in Item /\ log[j].kind = "observation"
    BY <1>1, LenProperties DEF Of
  <2> QED
    BY <1>1, <2>1, ItemFacts DEF OwedSound
<1>10. OwedSound'
  <2>1. \A o \in owed' : /\ o.target \in Of(log, "assistant") /\ o.rev \in Nat
                         /\ \A j \in Of(log, "observation") : log[j].rev = o.rev => o.target < j
    BY <1>1, <1>5, <1>7, <1>9 DEF OwedSound
  <2>2. \A j \in Of(log, "observation") : log[j].rev <= revision + 1
    BY <1>1, <1>9
  <2> QED
    BY <1>2, <1>8, <2>1, <2>2 DEF OwedSound
<1>11. Numbered'
  BY <1>2 DEF CognitionSound, Numbered, Committed
<1> QED
  BY <1>1, <1>2, <1>3, <1>4, <1>10, <1>11 DEF CognitionSound, Submit, QuietLog, PreparationSound

\* An observation is committed after everything that was heard before it.
LEMMA ObserveKeeps ==
  ASSUME CognitionSound, NEW t \in Texts, Observe(t)
  PROVE  CognitionSound'
<1>1. /\ LogSound /\ log \in Seq(Item) /\ run \in [Runners -> Turn] /\ revision \in Nat
      /\ heard \subseteq Of(log, "assistant") /\ OwedSound
      /\ \A r \in Runners : TurnSound(r)
      /\ Len(log) \in Nat /\ DOMAIN log = 1..Len(log)
  BY LenProperties DEF CognitionSound, LogSound
<1>2. Committed \in Nat
  BY <1>1, PositionsFinite, FS_CardinalityType DEF Committed
<1> DEFINE x == [kind |-> "observation", rev |-> Committed + 1, text |-> t]
<1>3. x \in Item /\ x.kind = "observation" /\ x.rev \in Nat /\ x.rev <= revision /\ AppendBatch(<<x>>)
  <2>1. Committed + 1 \in Nat /\ Committed + 1 <= revision
    BY <1>1, <1>2 DEF Observe
  <2> QED
    BY <2>1 DEF Item, Observe
<1> HIDE DEF x
<1>4. <<x>> \in Seq(Item) /\ DOMAIN <<x>> = {1} /\ <<x>>[1] = x
  BY <1>3
<1>5. log' = log \o <<x>> /\ AcceptsBatch(log, <<x>>)
  BY <1>1, <1>3, <1>4, BatchAppended
<1>6. Answers(x)
  BY <1>3 DEF Answers
<1>7. LogSound' /\ Grows
  BY <1>1, <1>3, <1>4, <1>5, <1>6, LogGrows
<1>8. /\ \A i \in DOMAIN log : log'[i] = log[i]
      /\ log'[Len(log) + 1] = x
      /\ \A i \in DOMAIN log' : i \in DOMAIN log \/ i = Len(log) + 1
  <2>1. Extends(log', log, <<x>>)
    BY <1>1, <1>4, <1>5, Extended
  <2> QED
    BY <1>4, <2>1 DEF Extends
<1>9. \A r \in Runners : TurnSound(r)'
  BY <1>1, <1>7, TurnKept DEF Observe
<1>10. /\ \A i \in Of(log, "assistant") : i \in Of(log', "assistant") /\ i <= Len(log) /\ i \in Nat
       /\ \A j \in Of(log', "observation") :
            (j \in Of(log, "observation") /\ log'[j] = log[j]) \/ (j = Len(log) + 1 /\ log'[j] = x)
  BY <1>1, <1>7, <1>8 DEF Of, Grows
<1>11. OwedSound'
  <2>1. \A o \in owed : /\ o.target \in Of(log', "assistant") /\ o.rev \in Nat
                        /\ \A j \in Of(log', "observation") : log'[j].rev = o.rev => o.target < j
    <3> SUFFICES ASSUME NEW o \in owed
                 PROVE  /\ o.target \in Of(log', "assistant") /\ o.rev \in Nat
                        /\ \A j \in Of(log', "observation") : log'[j].rev = o.rev => o.target < j
      OBVIOUS
    <3>1. /\ o.target \in Of(log, "assistant") /\ o.rev \in Nat
          /\ \A j \in Of(log, "observation") : log[j].rev = o.rev => o.target < j
      BY <1>1 DEF OwedSound
    <3>2. o.target \in Nat /\ o.target <= Len(log) /\ o.target < Len(log) + 1
      BY <1>1, <1>10, <3>1
    <3> QED
      BY <1>10, <3>1, <3>2
  <2>2. \A j \in Of(log', "observation") : log'[j].rev <= revision
    BY <1>1, <1>3, <1>10 DEF OwedSound
  <2> QED
    BY <1>1, <2>1, <2>2 DEF OwedSound, Observe
<1>12. Numbered'
  <2> DEFINE O == Of(log, "observation")
             n == Len(log) + 1
  <2>1. n \in DOMAIN log' /\ log'[n].kind = "observation" /\ n \notin DOMAIN log
    BY <1>1, <1>3, <1>4, <1>5, <1>8, Extended DEF Extends
  <2>2. /\ O \subseteq DOMAIN log /\ IsFiniteSet(O)
        /\ \A j \in O : j \in Of(log', "observation") /\ log'[j] = log[j] /\ j \in Nat /\ j < n
    <3>1. IsFiniteSet(Of(log, "observation"))
      BY <1>1, PositionsFinite
    <3>2. \A j \in Of(log, "observation") : j \in Of(log', "observation") /\ log'[j] = log[j]
      BY <1>7, KindsKept
    <3>3. Of(log, "observation") \subseteq DOMAIN log
      BY DEF Of
    <3>4. \A j \in Of(log, "observation") : j \in Nat /\ j < n
      BY <1>1, <3>3
    <3> QED
      BY <3>1, <3>2, <3>3, <3>4
  <2>3. Of(log', "observation") = O \cup {n}
    BY <1>10, <2>1, <2>2 DEF Of
  <2>4. Cardinality(O \cup {n}) = Cardinality(O) + 1
    BY <2>1, <2>2, FS_AddElement
  <2>5. Committed' = Committed + 1
    BY <2>3, <2>4 DEF Committed
  <2>6. log'[n] = x /\ x.rev = Committed + 1
    BY <1>8 DEF x
  <2>7. \A j \in O : log[j].rev \in Nat /\ log[j].rev <= Committed
                    /\ \A k \in O : j < k => log[j].rev < log[k].rev
    <3> SUFFICES ASSUME NEW j \in O
                 PROVE  log[j].rev \in Nat /\ log[j].rev <= Committed
                        /\ \A k \in O : j < k => log[j].rev < log[k].rev
      OBVIOUS
    <3>1. log[j] \in Item /\ log[j].kind = "observation"
      BY <1>1, LenProperties DEF Of
    <3> QED
      BY <3>1, ItemFacts DEF CognitionSound, Numbered
  <2> HIDE DEF O, n
  <2>8. ASSUME NEW j \in O \cup {n}
        PROVE  /\ log'[j].rev <= Committed + 1
               /\ \A k \in O \cup {n} : j < k => log'[j].rev < log'[k].rev
    <3>1. CASE j \in O
      BY <1>2, <2>2, <2>6, <2>7, <3>1
    <3>2. CASE j = n
      <4>1. \A k \in O \cup {n} : ~(j < k)
        BY <1>1, <2>2, <3>2 DEF n
      <4> QED
        BY <1>2, <2>6, <3>2, <4>1
    <3> QED
      BY <3>1, <3>2
  <2> QED
    BY <2>3, <2>5, <2>8 DEF Numbered
<1> QED
  BY <1>1, <1>7, <1>9, <1>10, <1>11, <1>12 DEF CognitionSound, Observe, PreparationSound

\* A turn opens.
LEMMA OpenKeeps ==
  ASSUME CognitionSound, NEW r \in Runners, NEW phase \in {"fast", "slow"}, NEW rev \in Nat,
         Open(r, phase, rev)
  PROVE  CognitionSound'
<1>1. LogSound /\ run \in [Runners -> Turn]
  BY DEF CognitionSound
<1> DEFINE t == [Idle EXCEPT !.pc = IF r = Driver /\ owed # {} THEN "raise" ELSE "take",
                             !.phase = phase, !.rev = rev]
<1>3. t \in Turn /\ t.pc \in {"raise", "take"}
  BY IdleTyped DEF Turn
<1>4. run' = [run EXCEPT ![r] = t]
  BY DEF Open
<1> HIDE DEF t
<1>5. run' \in [Runners -> Turn] /\ run'[r] = t /\ \A s \in Runners : s # r => run'[s] = run[s]
  BY <1>1, <1>3, <1>4, TurnReplaced
<1>6. TurnSound(r)'
  BY <1>3, <1>5, FreeTurn
<1>7. QuietLog
  BY <1>1, LogLeft DEF Open
<1> QED
  BY <1>5, <1>6, <1>7, Preserved DEF CognitionSound, Open

\* The driver's opens under a number of the log's.
LEMMA ProcessKeeps ==
  ASSUME CognitionSound, NEW phase \in {"fast", "slow"}, Process(phase)
  PROVE  CognitionSound'
<1>1. log \in Seq(Item)
  BY DEF CognitionSound, LogSound
<1>2. Committed \in Nat
  BY <1>1, PositionsFinite, FS_CardinalityType DEF Committed
<1>3. PICK n \in {0} \cup {log[c].rev : c \in AnsweredCalls(log)} : Open(Driver, phase, Max({Committed, n}))
  BY DEF Process
<1>4. n \in Nat
  <2> SUFFICES ASSUME NEW c \in AnsweredCalls(log) PROVE log[c].rev \in Nat
    BY <1>3
  <2>1. log[c] \in Item /\ log[c].kind = "call"
    BY <1>1, LenProperties DEF AnsweredCalls, Of
  <2> QED
    BY <2>1, ItemFacts
<1>5. Max({Committed, n}) \in Nat
  <2>1. Committed + n \in Nat /\ \A x \in {Committed, n} : x \in Nat /\ x <= Committed + n
    BY <1>2, <1>4
  <2>2. Max({Committed, n}) \in {Committed, n}
    BY <2>1, MaxIsGreatest
  <2> QED
    BY <2>1, <2>2
<1> QED
  BY <1>3, <1>5, OpenKeeps, CognitionAssumption

\* A live one under the recogniser's.
LEMMA InterjectKeeps ==
  ASSUME CognitionSound, NEW r \in Runners, NEW phase \in {"fast", "slow"}, Interject(r, phase)
  PROVE  CognitionSound'
<1>1. PICK rev \in Partials : Open(r, phase, rev)
  BY DEF Interject
<1>2. rev \in Nat
  BY CognitionAssumption
<1> QED
  BY <1>1, <1>2, OpenKeeps

\* The one that fills a silence under the driver's.
LEMMA HoldKeeps ==
  ASSUME CognitionSound, NEW r \in Runners, Hold(r)
  PROVE  CognitionSound'
<1>1. run[Driver].rev \in Nat
  BY CognitionAssumption DEF CognitionSound, Turn
<1> QED
  BY <1>1, OpenKeeps DEF Hold

\* A preparation taken up still answers what was said.
LEMMA AdoptKeeps ==
  ASSUME CognitionSound, NEW r \in Runners, Adopt(r)
  PROVE  CognitionSound'
<1>1. /\ LogSound /\ log \in Seq(Item) /\ run \in [Runners -> Turn] /\ run[r] \in Turn /\ TurnSound(r)
      /\ Len(log) \in Nat
  BY LenProperties DEF CognitionSound, LogSound
<1> DEFINE t == [run[r] EXCEPT !.pc = "adopting", !.base = Len(log)]
<1>2. t \in Turn /\ t.pc = "adopting" /\ t.items = run[r].items /\ t.inv = run[r].inv /\ t.rev = run[r].rev
  BY <1>1 DEF Turn
<1>3. run' = [run EXCEPT ![r] = t] /\ log' = log /\ run[r].pc = "adopt"
  BY DEF Adopt
<1> HIDE DEF t
<1>4. run' \in [Runners -> Turn] /\ run'[r] = t /\ \A s \in Runners : s # r => run'[s] = run[s]
  BY <1>1, <1>2, <1>3, TurnReplaced
<1>5. TurnSound(r)'
  <2>1. TurnSound(r)
    BY <1>1
  <2> QED
    BY <1>2, <1>3, <1>4, <2>1 DEF TurnSound
<1>6. QuietLog
  BY <1>1, LogLeft DEF Adopt
<1> QED
  BY <1>4, <1>5, <1>6, Preserved DEF CognitionSound, Adopt

\* What is dispatched names a call.
LEMMA DispatchKeeps ==
  ASSUME CognitionSound, NEW r \in Runners, Dispatch(r)
  PROVE  CognitionSound'
<1>1. LogSound /\ run \in [Runners -> Turn] /\ TurnSound(r) /\ run[r].pc = "act"
  BY DEF CognitionSound, Dispatch
<1>2. PICK pc \in {"idle", "close"} : Step(r, pc)
  BY DEF Dispatch
<1>3. run' \in [Runners -> Turn] /\ (\A s \in Runners : s # r => run'[s] = run[s])
      /\ run'[r].pc \in {"idle", "close"}
  <2>1. /\ run' \in [Runners -> Turn] /\ (\A s \in Runners : s # r => run'[s] = run[s])
        /\ (pc = "idle" => run'[r] = Idle) /\ (pc # "idle" => run'[r].pc = pc)
    BY <1>1, <1>2, Stepped
  <2> QED
    BY <2>1 DEF Idle
<1>4. TurnSound(r)'
  BY <1>3, FreeTurn
<1>5. QuietLog
  BY <1>1, LogLeft DEF Dispatch
<1>6. sent' \subseteq Invocation \X CallNames
  BY <1>1 DEF CognitionSound, Dispatch, TurnSound
<1> QED
  BY <1>3, <1>4, <1>5, <1>6, Preserved DEF CognitionSound, Dispatch

\* Discharging shrinks what is owed.
LEMMA DischargeKeeps ==
  ASSUME CognitionSound, NEW r \in Runners, Discharge(r)
  PROVE  CognitionSound'
<1>1. LogSound /\ run \in [Runners -> Turn] /\ Step(r, "idle")
  BY DEF CognitionSound, Discharge
<1>2. run' \in [Runners -> Turn] /\ run'[r] = Idle /\ \A s \in Runners : s # r => run'[s] = run[s]
  BY <1>1, Stepped
<1>3. TurnSound(r)'
  BY <1>2, IdleTurn
<1>4. QuietLog
  BY <1>1, LogLeft DEF Discharge
<1> QED
  BY <1>2, <1>3, <1>4, Preserved DEF CognitionSound, Discharge

\* A speculation that returns is one that was sound.
LEMMA PreparedKeeps ==
  ASSUME CognitionSound, NEW p, Prepared(p)
  PROVE  CognitionSound'
<1>1. LogSound
  BY DEF CognitionSound
<1>2. QuietLog
  BY <1>1, LogLeft DEF Prepared
<1>3. \A q \in byPhase' \cup speculating' : PreparationSound(q)
  BY DEF CognitionSound, Prepared
<1> QED
  BY <1>2, <1>3, Preserved DEF CognitionSound, Prepared

\* Discarding leaves fewer.
LEMMA DiscardKeeps ==
  ASSUME CognitionSound, DiscardPreparations
  PROVE  CognitionSound'
<1>1. LogSound
  BY DEF CognitionSound
<1>2. QuietLog
  BY <1>1, LogLeft DEF DiscardPreparations
<1> QED
  BY <1>2, Preserved DEF CognitionSound, DiscardPreparations

\* What a continuation produces is one item that says what it was derived from.
LEMMA OutputTyped ==
  ASSUME NEW phase \in {"fast", "slow"}, NEW inv \in Invocation, NEW rev \in Nat, NEW base \in Nat,
         NEW text \in Texts \cup {NoText}, NEW items \in Outputs(phase, inv, rev, base, text)
  PROVE  \E x \in Spoken \cup Action :
           /\ items = <<x>> /\ x.base = base /\ x.prepared = text /\ x.answers = rev
           /\ x.kind \in {"assistant", "call", "proposal"} /\ x.inv = inv
<1> DEFINE s == [kind |-> "assistant", phase |-> phase, inv |-> inv, rev |-> rev,
                 base |-> base, prepared |-> text, answers |-> rev]
           a(c) == [kind |-> IF phase = "slow" THEN "call" ELSE "proposal",
                    inv |-> inv, call |-> c, rev |-> rev, base |-> base, prepared |-> text,
                    answers |-> rev]
<1>1. s \in Spoken /\ s.base = base /\ s.prepared = text /\ s.answers = rev /\ s.kind = "assistant" /\ s.inv = inv
  BY DEF Spoken
<1>2. ASSUME NEW c \in CallNames
      PROVE  /\ a(c) \in Action /\ a(c).base = base /\ a(c).prepared = text /\ a(c).answers = rev
             /\ a(c).kind \in {"call", "proposal"} /\ a(c).inv = inv
  BY DEF Action
<1>3. items = <<s>> \/ \E c \in CallNames : items = <<a(c)>>
  BY DEF Outputs
<1> HIDE DEF s, a
<1> QED
  BY <1>1, <1>2, <1>3

\* An output is one item of the log's.
LEMMA OutputIsOne ==
  ASSUME NEW items, IsOutput(items)
  PROVE  /\ items[1] \in Spoken \cup Action /\ items[1] \in Item /\ items = <<items[1]>>
         /\ items \in Seq(Item) /\ items # << >>
<1>1. items \in Seq(Spoken \cup Action) /\ Len(items) = 1
  BY DEF IsOutput
<1>2. items[1] \in Spoken \cup Action /\ DOMAIN items = 1..1
  BY <1>1, LenProperties
<1>3. items[1] \in Item
  BY <1>2 DEF Item
<1>4. items = <<items[1]>>
  BY <1>1, <1>2
<1>5. <<items[1]>> \in Seq(Item) /\ <<items[1]>> # << >>
  BY <1>3
<1> QED
  BY <1>2, <1>3, <1>4, <1>5

\* ... and one such item is an output.
LEMMA OneIsOutput ==
  ASSUME NEW x \in Spoken \cup Action
  PROVE  IsOutput(<<x>>) /\ <<x>>[1] = x
BY DEF IsOutput

\* Each phase prepares under an invocation of its own.
LEMMA PrepareKeeps ==
  ASSUME CognitionSound, NEW t \in Texts, Prepare(t)
  PROVE  CognitionSound'
<1>1. LogSound /\ log \in Seq(Item) /\ Len(log) \in Nat /\ invocations \in Nat
  BY LenProperties DEF CognitionSound, LogSound
<1> DEFINE Inv(phases, phase) == IF phase = "fast" THEN invocations + 1 ELSE invocations + Cardinality(phases)
           Candidates(phases, rev, phase) ==
             {[phase |-> phase, text |-> t, rev |-> rev, inv |-> Inv(phases, phase), items |-> items] :
                items \in Outputs(phase, Inv(phases, phase), rev, Len(log), t)}
<1>2. PICK phases \in (SUBSET Phases) \ {{}}, rev \in Partials \ {0} :
        /\ invocations' = invocations + Cardinality(phases)
        /\ \E started \in SUBSET UNION {Candidates(phases, rev, phase) : phase \in phases} :
             speculating' = speculating \cup started
  BY DEF Prepare
<1>3. Cardinality(phases) \in Nat \ {0} /\ phases \subseteq {"fast", "slow"} /\ rev \in Nat
  <2>1. IsFiniteSet({"fast", "slow"})
    <3>1. IsFiniteSet({"fast"})
      BY FS_Singleton
    <3>2. {"fast", "slow"} = {"fast"} \cup {"slow"}
      OBVIOUS
    <3> QED
      BY <3>1, <3>2, FS_AddElement
  <2>2. phases \subseteq {"fast", "slow"} /\ phases # {} /\ rev \in Nat
    BY CognitionAssumption
  <2>3. IsFiniteSet(phases)
    BY <2>1, <2>2, FS_Subset
  <2> QED
    BY <2>2, <2>3, FS_CardinalityType, FS_EmptySet
<1>4. PICK started \in SUBSET UNION {Candidates(phases, rev, phase) : phase \in phases} :
        speculating' = speculating \cup started
  BY <1>2
<1>5. ASSUME NEW phase \in phases PROVE \A p \in Candidates(phases, rev, phase) : PreparationSound(p)
  <2>1. Inv(phases, phase) \in Invocation /\ phase \in {"fast", "slow"}
    BY <1>1, <1>3 DEF Invocation
  <2> HIDE DEF Inv
  <2> SUFFICES ASSUME NEW items \in Outputs(phase, Inv(phases, phase), rev, Len(log), t)
               PROVE  PreparationSound([phase |-> phase, text |-> t, rev |-> rev,
                                        inv |-> Inv(phases, phase), items |-> items])
    OBVIOUS
  <2>2. PICK x \in Spoken \cup Action : items = <<x>> /\ x.prepared = t
    BY <1>1, <1>3, <2>1, OutputTyped
  <2> QED
    BY <2>1, <2>2, OneIsOutput DEF PreparationSound
<1> HIDE DEF Candidates
<1>6. \A p \in byPhase' \cup speculating' : PreparationSound(p)
  BY <1>4, <1>5 DEF CognitionSound, Prepare
<1>7. QuietLog
  BY <1>1, LogLeft DEF Prepare
<1>8. invocations' \in Nat
  BY <1>1, <1>2, <1>3
<1> QED
  BY <1>6, <1>7, <1>8, Preserved DEF CognitionSound, Prepare

\* Adopting or thinking, the runner knows what it answers.
LEMMA TakeKeeps ==
  ASSUME CognitionSound, NEW r \in Runners, TakePrepared(r)
  PROVE  CognitionSound'
<1>1. /\ LogSound /\ log \in Seq(Item) /\ Len(log) \in Nat /\ run \in [Runners -> Turn] /\ run[r] \in Turn
      /\ invocations \in Nat /\ \A p \in byPhase : PreparationSound(p)
  BY LenProperties DEF CognitionSound, LogSound
<1>2. QuietLog /\ log' = log
  BY <1>1, LogLeft DEF TakePrepared
<1>3. ASSUME NEW p \in byPhase, Confirms(p, run[r].rev), invocations' = invocations,
             run' = [run EXCEPT ![r].pc = "adopt", ![r].inv = p.inv, ![r].items = p.items]
      PROVE  /\ run' \in [Runners -> Turn] /\ (\A s \in Runners : s # r => run'[s] = run[s])
             /\ TurnSound(r)' /\ invocations' \in Nat
  <2>1. /\ p.text \in Texts /\ p.inv \in Invocation /\ IsOutput(p.items) /\ p.items[1].prepared = p.text
        /\ p.items \in Seq(Item)
    BY <1>1, OutputIsOne DEF PreparationSound
  <2>2. p.items[1].prepared # NoText
    BY <2>1, CognitionAssumption
  <2>3. PICK j \in Of(log, "observation") : log[j].rev = run[r].rev /\ log[j].text = p.text
    BY <1>3 DEF Confirms, CanonicalText
  <2> DEFINE t == [run[r] EXCEPT !.pc = "adopt", !.inv = p.inv, !.items = p.items]
  <2>4. t \in Turn /\ t.pc = "adopt" /\ t.inv = p.inv /\ t.items = p.items /\ t.rev = run[r].rev
    BY <1>1, <2>1 DEF Turn, Invocation
  <2>5. run' = [run EXCEPT ![r] = t]
    BY <1>3
  <2> HIDE DEF t
  <2>6. run' \in [Runners -> Turn] /\ run'[r] = t /\ \A s \in Runners : s # r => run'[s] = run[s]
    BY <1>1, <2>4, <2>5, TurnReplaced
  <2>7. TurnSound(r)'
    BY <1>2, <2>1, <2>2, <2>3, <2>4, <2>6 DEF TurnSound
  <2> QED
    BY <1>1, <1>3, <2>6, <2>7
<1>4. ASSUME invocations' = invocations + 1,
             run' = [run EXCEPT ![r].pc = "think", ![r].inv = invocations + 1, ![r].base = Len(log)]
      PROVE  /\ run' \in [Runners -> Turn] /\ (\A s \in Runners : s # r => run'[s] = run[s])
             /\ TurnSound(r)' /\ invocations' \in Nat
  <2> DEFINE t == [run[r] EXCEPT !.pc = "think", !.inv = invocations + 1, !.base = Len(log)]
  <2>1. invocations + 1 \in Nat /\ invocations + 1 \in Invocation
    BY <1>1 DEF Invocation
  <2>2. t \in Turn /\ t.pc = "think" /\ t.inv = invocations + 1
    BY <1>1, <2>1 DEF Turn
  <2>3. run' = [run EXCEPT ![r] = t]
    BY <1>4
  <2> HIDE DEF t
  <2>4. run' \in [Runners -> Turn] /\ run'[r] = t /\ \A s \in Runners : s # r => run'[s] = run[s]
    BY <1>1, <2>2, <2>3, TurnReplaced
  <2>5. TurnSound(r)'
    BY <2>1, <2>2, <2>4 DEF TurnSound
  <2> QED
    BY <1>4, <2>1, <2>4, <2>5
<1>5. /\ run' \in [Runners -> Turn] /\ (\A s \in Runners : s # r => run'[s] = run[s])
      /\ TurnSound(r)' /\ invocations' \in Nat
  BY <1>3, <1>4 DEF TakePrepared
<1> QED
  BY <1>2, <1>5, Preserved DEF CognitionSound, TakePrepared

\* Where a committed output leads, and that it is a call where it leads to one.
LEMMA AfterOutput ==
  ASSUME NEW x \in Spoken \cup Action
  PROVE  /\ After(<<x>>) \in {"act", "repair", "idle"}
         /\ After(<<x>>) = "act" => x.call \in CallNames
         /\ x.kind \in {"assistant", "call", "proposal"} /\ x \in Item
<1>1. <<x>>[1] = x
  OBVIOUS
<1>2. x.kind \in {"assistant", "call", "proposal"} /\ x \in Item /\ (x.kind = "call" => x.call \in CallNames)
  BY DEF Spoken, Action, Item
<1> QED
  BY <1>1, <1>2 DEF After

\* A turn after its commit.
LEMMA CommittedTurn ==
  ASSUME NEW r \in Runners, NEW x \in Spoken \cup Action,
         After(<<x>>) = "idle" => run'[r] = Idle,
         After(<<x>>) # "idle" => /\ run'[r].pc = After(<<x>>) /\ run'[r].items = <<x>>
                                  /\ run'[r].inv \in Invocation
  PROVE  TurnSound(r)'
<1>1. After(<<x>>) \in {"act", "repair", "idle"} /\ (After(<<x>>) = "act" => x.call \in CallNames)
  BY AfterOutput
<1>2. CASE After(<<x>>) = "idle"
  BY <1>2, IdleTurn
<1>3. CASE After(<<x>>) = "repair"
  BY <1>3, FreeTurn
<1>4. CASE After(<<x>>) = "act"
  <2>1. <<x>>[1] = x /\ <<x>> # << >>
    OBVIOUS
  <2>2. /\ run'[r].pc = "act" /\ run'[r].inv \in Invocation
        /\ run'[r].items # << >> /\ run'[r].items[1].call \in CallNames
    BY <1>1, <1>4, <2>1
  <2> QED
    BY <2>2 DEF TurnSound
<1> QED
  BY <1>1, <1>2, <1>3, <1>4

\* An answer is committed only on the evidence it was derived from.
LEMMA ThinkKeeps ==
  ASSUME CognitionSound, NEW r \in Runners, Think(r)
  PROVE  CognitionSound'
<1>1. /\ LogSound /\ run \in [Runners -> Turn] /\ run[r] \in Turn /\ TurnSound(r) /\ run[r].pc = "think"
      /\ heard \subseteq Of(log, "assistant")
  BY DEF CognitionSound, Think
<1>2. run[r].inv \in Invocation /\ run[r].phase \in {"fast", "slow"} /\ run[r].rev \in Nat /\ run[r].base \in Nat
  BY <1>1 DEF TurnSound, Turn
<1>3. PICK items \in Outputs(run[r].phase, run[r].inv, run[r].rev, run[r].base, NoText) :
        Commit(r, items, run[r].base)
  BY DEF Think
<1>4. PICK x \in Spoken \cup Action : items = <<x>> /\ x.base = run[r].base /\ x.prepared = NoText
  BY <1>2, <1>3, OutputTyped
<1>5. After(<<x>>) \in {"act", "repair", "idle"} /\ x.kind \in {"assistant", "call", "proposal"} /\ x \in Item
  BY AfterOutput
<1>6. CASE /\ Fresh(log, run[r].base) /\ AppendBatch(<<x>>)
           /\ run' = [run EXCEPT ![r] = IF After(<<x>>) = "idle" THEN Idle
                                        ELSE [@ EXCEPT !.pc = After(<<x>>), !.items = <<x>>]]
  <2>1. Answers(x)
    BY <1>4, <1>6 DEF Answers
  <2>2. QuietLog
    BY <1>1, <1>5, <1>6, <2>1, ItemAppended
  <2> DEFINE t == IF After(<<x>>) = "idle" THEN Idle
                  ELSE [run[r] EXCEPT !.pc = After(<<x>>), !.items = <<x>>]
  <2>3. <<x>> \in Seq(Item)
    BY <1>5
  <2>4. /\ t \in Turn /\ (After(<<x>>) = "idle" => t = Idle)
        /\ (After(<<x>>) # "idle" => t.pc = After(<<x>>) /\ t.items = <<x>> /\ t.inv = run[r].inv)
    BY <1>1, <1>5, <2>3, IdleTyped DEF Turn
  <2>5. run' = [run EXCEPT ![r] = t]
    BY <1>6
  <2> HIDE DEF t
  <2>6. run' \in [Runners -> Turn] /\ run'[r] = t /\ \A s \in Runners : s # r => run'[s] = run[s]
    BY <1>1, <2>4, <2>5, TurnReplaced
  <2>7. TurnSound(r)'
    BY <1>2, <2>4, <2>6, CommittedTurn
  <2>8. heard' \subseteq Of(log', "assistant")
    BY <1>1, <2>2, KindsKept DEF Think, QuietLog
  <2> QED
    BY <2>2, <2>6, <2>7, <2>8, Preserved DEF CognitionSound, Think
<1>7. CASE run' = [run EXCEPT ![r] = Idle] /\ UNCHANGED log
  <2>1. run' \in [Runners -> Turn] /\ run'[r] = Idle /\ \A s \in Runners : s # r => run'[s] = run[s]
    BY <1>1, <1>7, IdleTyped, TurnReplaced
  <2>2. TurnSound(r)'
    BY <2>1, IdleTurn
  <2>3. QuietLog
    BY <1>1, <1>7, LogLeft
  <2> QED
    BY <1>7, <2>1, <2>2, <2>3, Preserved DEF CognitionSound, Think
<1> QED
  BY <1>3, <1>4, <1>6, <1>7 DEF Commit

\* An interrupted answer is retained on the same terms.
LEMMA InterruptKeeps ==
  ASSUME CognitionSound, NEW r \in Runners, Interrupt(r)
  PROVE  CognitionSound'
<1>1. /\ LogSound /\ run \in [Runners -> Turn] /\ run[r] \in Turn /\ TurnSound(r) /\ run[r].pc = "think"
      /\ heard \subseteq Of(log, "assistant")
  BY DEF CognitionSound, Interrupt
<1>2. run[r].inv \in Invocation /\ run[r].phase \in {"fast", "slow"} /\ run[r].rev \in Nat /\ run[r].base \in Nat
  BY <1>1 DEF TurnSound, Turn
<1> DEFINE said == [kind |-> "assistant", phase |-> run[r].phase, inv |-> run[r].inv,
                    rev |-> run[r].rev, base |-> run[r].base, prepared |-> NoText, answers |-> run[r].rev]
<1>3. said \in Spoken /\ said.kind = "assistant" /\ said.base = run[r].base /\ said.prepared = NoText
  BY <1>2 DEF Spoken
<1>4. log' = log \/ (Fresh(log, run[r].base) /\ AppendBatch(<<said>>))
  BY DEF Interrupt
<1> HIDE DEF said
<1>5. said \in Item /\ (Fresh(log, run[r].base) => Answers(said))
  BY <1>3 DEF Item, Answers
<1>6. QuietLog
  BY <1>1, <1>3, <1>4, <1>5, LogLeft, ItemAppended
<1>7. PICK pc \in {"idle", "close"} : Step(r, pc)
  BY DEF Interrupt
<1>8. /\ run' \in [Runners -> Turn] /\ (\A s \in Runners : s # r => run'[s] = run[s])
      /\ (pc = "idle" => run'[r] = Idle) /\ (pc # "idle" => run'[r].pc = pc)
  BY <1>1, <1>7, Stepped
<1>9. run'[r].pc \in {"idle", "close"}
  BY <1>8 DEF Idle
<1>10. TurnSound(r)'
  BY <1>9, FreeTurn
<1>11. heard' \subseteq Of(log', "assistant")
  BY <1>1, <1>6, KindsKept DEF Interrupt, QuietLog
<1> QED
  BY <1>6, <1>8, <1>10, <1>11, Preserved DEF CognitionSound, Interrupt

\* A preparation is committed for the sentence it was prepared for.
LEMMA AdoptCommitKeeps ==
  ASSUME CognitionSound, NEW r \in Runners, AdoptCommit(r)
  PROVE  CognitionSound'
<1>1. /\ LogSound /\ run \in [Runners -> Turn] /\ run[r] \in Turn /\ TurnSound(r) /\ run[r].pc = "adopting"
      /\ heard \subseteq Of(log, "assistant")
  BY DEF CognitionSound, AdoptCommit
<1>2. /\ run[r].inv \in Invocation /\ run[r].rev \in Nat /\ IsOutput(run[r].items)
      /\ run[r].items[1].prepared # NoText
      /\ \E j \in Of(log, "observation") : log[j].rev = run[r].rev /\ log[j].text = run[r].items[1].prepared
  BY <1>1 DEF TurnSound, Turn
<1> DEFINE x == run[r].items[1]
           y == [x EXCEPT !.answers = run[r].rev]
<1>3. x \in Spoken \cup Action /\ run[r].items = <<x>> /\ DOMAIN run[r].items = {1}
  <2>1. x \in Spoken \cup Action /\ run[r].items = <<x>>
    BY <1>2, OutputIsOne
  <2>2. DOMAIN <<x>> = {1}
    OBVIOUS
  <2> QED
    BY <2>1, <2>2
<1>4. y \in Spoken \cup Action /\ y.kind = x.kind /\ y.prepared = x.prepared /\ y.answers = run[r].rev
  BY <1>2, <1>3 DEF Spoken, Action
<1>5. [i \in DOMAIN run[r].items |-> [run[r].items[i] EXCEPT !.answers = run[r].rev]] = <<y>>
  BY <1>3
<1>6. y \in Item /\ y.kind \in {"assistant", "call", "proposal"}
  BY <1>4, AfterOutput
<1>7. Answers(y)
  BY <1>2, <1>4 DEF Answers
<1> HIDE DEF x, y
<1>8. CASE AppendBatch(<<y>>) /\ Step(r, After(<<x>>))
  <2>1. QuietLog
    BY <1>1, <1>6, <1>7, <1>8, ItemAppended
  <2>2. After(<<x>>) \in {"act", "repair", "idle"}
    BY <1>3, AfterOutput
  <2>3. /\ run' \in [Runners -> Turn] /\ \A s \in Runners : s # r => run'[s] = run[s]
        /\ After(<<x>>) = "idle" => run'[r] = Idle
        /\ After(<<x>>) # "idle" => /\ run'[r].pc = After(<<x>>) /\ run'[r].items = run[r].items
                                    /\ run'[r].inv = run[r].inv
    BY <1>1, <1>8, <2>2, Stepped
  <2>4. TurnSound(r)'
    BY <1>2, <1>3, <2>3, CommittedTurn
  <2>5. heard' \subseteq Of(log', "assistant")
    BY <1>1, <2>1, KindsKept DEF AdoptCommit, QuietLog
  <2> QED
    BY <2>1, <2>3, <2>4, <2>5, Preserved DEF CognitionSound, AdoptCommit
<1>9. CASE Step(r, "take") /\ UNCHANGED log
  <2>1. run' \in [Runners -> Turn] /\ run'[r].pc = "take" /\ \A s \in Runners : s # r => run'[s] = run[s]
    BY <1>1, <1>9, Stepped
  <2>2. TurnSound(r)'
    BY <2>1, FreeTurn
  <2>3. QuietLog
    BY <1>1, <1>9, LogLeft
  <2> QED
    BY <1>9, <2>1, <2>2, <2>3, Preserved DEF CognitionSound, AdoptCommit
<1> QED
  BY <1>3, <1>5, <1>8, <1>9 DEF AdoptCommit

\* A batch made of a set of items.
LEMMA SetAppended ==
  ASSUME LogSound, NEW S \in SUBSET Item, IsFiniteSet(S), AppendBatch(SetToSeq(S)),
         \A x \in S : /\ x.kind \in {"required", "placeholder", "resolved"}
                      /\ x.kind = "required" =>
                           \E j \in (x.ref + 1)..Len(log) :
                             log[j].kind = "observation" /\ log[j].rev = x.rev
  PROVE  /\ QuietLog /\ SetToSeq(S) \in Seq(Item)
         /\ \A k \in DOMAIN SetToSeq(S) :
              \E i \in DOMAIN log' : log'[i] = SetToSeq(S)[k] /\ log'[i] \in S
<1>1. PICK q : q = SetToSeq(S)
  OBVIOUS
<1>2. q \in Seq(S) /\ q \in Seq(Item) /\ \A k \in DOMAIN q : q[k] \in S
  BY <1>1, ListsSet, LenProperties
<1>3. ASSUME NEW k \in DOMAIN q
      PROVE  /\ q[k].kind # "observation" /\ Answers(q[k])
             /\ q[k].kind \in {"assistant", "proposal", "call", "state"} => k = 1
             /\ q[k].kind = "required" =>
                  \E j \in (q[k].ref + 1)..Len(log) :
                    log[j].kind = "observation" /\ log[j].rev = q[k].rev
  BY <1>2 DEF Answers
<1>4. /\ QuietLog
      /\ \A k \in DOMAIN q : Len(log) + k \in DOMAIN log' /\ log'[Len(log) + k] = q[k]
  BY <1>1, <1>2, <1>3, LogAppended
<1> QED
  BY <1>1, <1>2, <1>4

\* A repair is raised of what was heard before the evidence it is raised for.
LEMMA RaiseKeeps ==
  ASSUME CognitionSound, NEW r \in Runners, NEW declined, RaiseRepairs(r, declined)
  PROVE  CognitionSound'
<1>1. /\ LogSound /\ log \in Seq(Item) /\ Len(log) \in Nat /\ DOMAIN log = 1..Len(log)
      /\ run \in [Runners -> Turn] /\ OwedSound /\ heard \subseteq Of(log, "assistant")
  BY LenProperties DEF CognitionSound, LogSound
<1> DEFINE R == Raisable(log) \ declined
           S == {[kind |-> "required", ref |-> o.target, rev |-> o.rev] : o \in R}
<1>2. R \subseteq owed /\ \A o \in R : o.rev \in ObservedRevisions(log)
  BY DEF Raisable
<1>3. log' = log \/ AppendBatch(SetToSeq(S))
  BY DEF RaiseRepairs
<1> HIDE DEF R
<1>4. IsFiniteSet(S)
  <2>1. IsFiniteSet(R)
    BY <1>1, <1>2, FS_Subset DEF OwedSound
  <2> DEFINE f == [o \in R |-> [kind |-> "required", ref |-> o.target, rev |-> o.rev]]
  <2>2. f \in Surjection(R, S)
    BY DEF Surjection
  <2> QED
    BY <2>1, <2>2, FS_Surjection
<1>5. ASSUME NEW x \in S
      PROVE  /\ x \in Item /\ x.kind = "required"
             /\ \E j \in (x.ref + 1)..Len(log) : log[j].kind = "observation" /\ log[j].rev = x.rev
  <2>1. PICK o \in R : x = [kind |-> "required", ref |-> o.target, rev |-> o.rev]
    OBVIOUS
  <2>2. o.target \in Of(log, "assistant") /\ o.rev \in Nat
        /\ \A j \in Of(log, "observation") : log[j].rev = o.rev => o.target < j
    BY <1>1, <1>2 DEF OwedSound
  <2>3. PICK j \in Of(log, "observation") : o.rev = log[j].rev
    BY <1>2 DEF ObservedRevisions
  <2>4. o.target \in Nat /\ j \in 1..Len(log) /\ log[j].kind = "observation" /\ o.target < j
    BY <1>1, <2>2, <2>3 DEF Of
  <2>5. x \in Item /\ x.kind = "required" /\ x.ref = o.target /\ x.rev = o.rev
    BY <2>1, <2>2, <2>4 DEF Item
  <2>6. j \in (x.ref + 1)..Len(log)
    BY <1>1, <2>4, <2>5
  <2> QED
    BY <2>3, <2>4, <2>5, <2>6
<1> HIDE DEF S
<1>6. QuietLog
  BY <1>1, <1>3, <1>4, <1>5, LogLeft, SetAppended
<1>7. run' \in [Runners -> Turn] /\ run'[r].pc = "take" /\ \A s \in Runners : s # r => run'[s] = run[s]
  BY <1>1, Stepped DEF RaiseRepairs
<1>8. TurnSound(r)'
  BY <1>7, FreeTurn
<1>9. heard' \subseteq Of(log', "assistant")
  BY <1>1, <1>6, KindsKept DEF RaiseRepairs, QuietLog
<1> QED
  BY <1>6, <1>7, <1>8, <1>9, Preserved DEF CognitionSound, RaiseRepairs

\* A placeholder names the call it stands for.
LEMMA PlaceholderKeeps ==
  ASSUME CognitionSound, NEW r \in Runners, PlaceholderForInterrupted(r)
  PROVE  CognitionSound'
<1>1. /\ LogSound /\ log \in Seq(Item) /\ run \in [Runners -> Turn] /\ heard \subseteq Of(log, "assistant")
  BY DEF CognitionSound, LogSound
<1> DEFINE U == UnresolvedToolCalls(log)
           S == {[kind |-> "placeholder", inv |-> id[1], call |-> id[2]] : id \in U}
<1>2. U \subseteq Identities(log, "call")
  BY DEF UnresolvedToolCalls
<1>3. log' = log \/ AppendBatch(SetToSeq(S))
  BY DEF PlaceholderForInterrupted
<1> HIDE DEF U
<1>4. IsFiniteSet(S)
  <2>1. IsFiniteSet(Identities(log, "call"))
    BY <1>1, PositionsFinite
  <2>2. IsFiniteSet(U)
    BY <1>2, <2>1, FS_Subset
  <2> DEFINE f == [id \in U |-> [kind |-> "placeholder", inv |-> id[1], call |-> id[2]]]
  <2>3. f \in Surjection(U, S)
    BY DEF Surjection
  <2> QED
    BY <2>2, <2>3, FS_Surjection
<1>5. ASSUME NEW x \in S PROVE x \in Item /\ x.kind = "placeholder"
  <2>1. PICK id \in U : x = [kind |-> "placeholder", inv |-> id[1], call |-> id[2]]
    OBVIOUS
  <2>2. id[1] \in Invocation /\ id[2] \in CallNames
    BY <1>1, <1>2, NamedIdentities
  <2> QED
    BY <2>1, <2>2 DEF Item
<1> HIDE DEF S
<1>6. QuietLog
  BY <1>1, <1>3, <1>4, <1>5, LogLeft, SetAppended
<1>7. run' \in [Runners -> Turn] /\ run'[r] = Idle /\ \A s \in Runners : s # r => run'[s] = run[s]
  BY <1>1, Stepped DEF PlaceholderForInterrupted
<1>8. TurnSound(r)'
  BY <1>7, IdleTurn
<1>9. heard' \subseteq Of(log', "assistant")
  BY <1>1, <1>6, KindsKept DEF PlaceholderForInterrupted, QuietLog
<1> QED
  BY <1>6, <1>7, <1>8, <1>9, Preserved DEF CognitionSound, PlaceholderForInterrupted

\* What the ledger is about to be told is resolved in the log.
LEMMA ResolveKeeps ==
  ASSUME CognitionSound, NEW r \in Runners, ResolveRepairs(r)
  PROVE  CognitionSound'
<1>1. /\ LogSound /\ log \in Seq(Item) /\ run \in [Runners -> Turn] /\ run[r] \in Turn
      /\ heard \subseteq Of(log, "assistant")
  BY DEF CognitionSound, LogSound
<1> DEFINE A == Settled(log, r)
           c == Max(Correction(log, r))
           S == {[kind |-> "resolved", ref |-> a, rev |-> log[c].rev, by |-> c] : a \in A}
<1>2. A \subseteq Of(log, "assistant")
  BY DEF Settled, PendingTargets
<1>3. \/ /\ S # {} /\ AppendBatch(SetToSeq(S))
         /\ run' = [run EXCEPT ![r].pc = "discharge", ![r].items = SetToSeq(S)]
      \/ log' = log /\ Step(r, "idle")
  BY DEF ResolveRepairs, Resolutions
<1> HIDE DEF A, c
<1>4. IsFiniteSet(S)
  <2>1. IsFiniteSet(A)
    BY <1>1, <1>2, PositionsFinite, FS_Subset
  <2> DEFINE f == [a \in A |-> [kind |-> "resolved", ref |-> a, rev |-> log[c].rev, by |-> c]]
  <2>2. f \in Surjection(A, S)
    BY DEF Surjection
  <2> QED
    BY <2>1, <2>2, FS_Surjection
<1>5. \A x \in S : x.kind = "resolved" /\ x.by = c
  OBVIOUS
<1>6. CASE /\ S # {} /\ AppendBatch(SetToSeq(S))
           /\ run' = [run EXCEPT ![r].pc = "discharge", ![r].items = SetToSeq(S)]
  <2>1. c \in Nat /\ log[c].rev \in Nat
    <3>1. PICK q : q = SetToSeq(S)
      OBVIOUS
    <3> HIDE DEF S
    <3>2. q \in Seq(S) /\ q # << >>
      BY <1>4, <1>6, <3>1, ListsSet
    <3>3. 1 \in DOMAIN q /\ q[1] \in S
      BY <3>2
    <3>4. Accepts(log \o SubSeq(q, 1, 1 - 1), q[1])
      BY <1>6, <3>1, <3>3 DEF AppendBatch, AcceptsBatch
    <3>5. SubSeq(q, 1, 1 - 1) = << >> /\ log \o << >> = log
      BY <1>1, <3>2, SubSeqEmpty, ConcatEmptySeq
    <3>6. Accepts(log, q[1]) /\ q[1].kind = "resolved" /\ q[1].by = c
      BY <1>5, <3>3, <3>4, <3>5
    <3>7. c \in Of(log, "assistant")
      BY <3>6, AcceptedByKind DEF AcceptsResolved
    <3>8. log[c] \in Item /\ log[c].kind = "assistant"
      BY <1>1, <3>7, LenProperties DEF Of
    <3> QED
      BY <1>1, <3>7, <3>8, PositionsFinite, ItemFacts
  <2>2. S \in SUBSET Item
    <3> SUFFICES ASSUME NEW a \in A
                 PROVE  [kind |-> "resolved", ref |-> a, rev |-> log[c].rev, by |-> c] \in Item
      OBVIOUS
    <3>1. a \in Nat
      BY <1>1, <1>2, PositionsFinite
    <3> QED
      BY <2>1, <3>1 DEF Item
  <2> HIDE DEF S
  <2>3. PICK q : q = SetToSeq(S)
    OBVIOUS
  <2>4. /\ QuietLog /\ q \in Seq(Item)
        /\ \A k \in DOMAIN q : \E i \in DOMAIN log' : log'[i] = q[k] /\ log'[i] \in S
    BY <1>1, <1>4, <1>5, <1>6, <2>2, <2>3, SetAppended
  <2> DEFINE t == [run[r] EXCEPT !.pc = "discharge", !.items = q]
  <2>5. t \in Turn /\ t.pc = "discharge" /\ t.items = q
    BY <1>1, <2>4 DEF Turn
  <2>6. run' = [run EXCEPT ![r] = t]
    BY <1>6, <2>3
  <2> HIDE DEF t
  <2>7. run' \in [Runners -> Turn] /\ run'[r] = t /\ \A s \in Runners : s # r => run'[s] = run[s]
    BY <1>1, <2>5, <2>6, TurnReplaced
  <2>8. \A k \in DOMAIN q : \E i \in Of(log', "resolved") : log'[i].ref = q[k].ref
    BY <1>5, <2>4 DEF Of
  <2>9. TurnSound(r)'
    BY <2>5, <2>7, <2>8 DEF TurnSound
  <2>10. heard' \subseteq Of(log', "assistant")
    BY <1>1, <2>4, KindsKept DEF ResolveRepairs, QuietLog
  <2> QED
    BY <2>4, <2>7, <2>9, <2>10, Preserved DEF CognitionSound, ResolveRepairs
<1>7. CASE log' = log /\ Step(r, "idle")
  <2>1. run' \in [Runners -> Turn] /\ run'[r] = Idle /\ \A s \in Runners : s # r => run'[s] = run[s]
    BY <1>1, <1>7, Stepped
  <2>2. TurnSound(r)'
    BY <2>1, IdleTurn
  <2>3. QuietLog
    BY <1>1, <1>7, LogLeft
  <2> QED
    BY <1>7, <2>1, <2>2, <2>3, Preserved DEF CognitionSound, ResolveRepairs
<1> QED
  BY <1>3, <1>6, <1>7

-----------------------------------------------------------------------------
\* What holds of every behaviour.

\* Nothing has happened and nothing is owed.
LEMMA CognitionStarts == CognitionInit => CognitionSound
<1> SUFFICES ASSUME CognitionInit PROVE CognitionSound
  OBVIOUS
<1>1. log = << >> /\ << >> \in Seq(Item) /\ DOMAIN log = {}
  BY EmptySeq DEF CognitionInit
<1>2. \A kind : Of(log, kind) = {}
  BY <1>1 DEF Of
<1>3. LogSound
  BY <1>1, <1>2 DEF LogSound, Admitted, ReportsAgree, RequiredAfterEvidence, AnswersTheEvidence
<1>4. run \in [Runners -> Turn] /\ \A r \in Runners : run[r].pc = "idle"
  BY IdleTyped DEF CognitionInit, Idle
<1>5. \A r \in Runners : TurnSound(r)
  BY <1>4 DEF TurnSound
<1>6. OwedSound
  BY <1>2, FS_EmptySet DEF OwedSound, CognitionInit
<1>7. Numbered
  BY <1>2 DEF Numbered
<1> QED
  BY <1>3, <1>4, <1>5, <1>6, <1>7 DEF CognitionSound, CognitionInit

\* Every step of every goroutine keeps the invariant.
LEMMA CognitionStep == CognitionSound /\ [CognitionNext]_vars => CognitionSound'
<1> SUFFICES ASSUME CognitionSound, [CognitionNext]_vars PROVE CognitionSound'
  OBVIOUS
<1>1. CASE UNCHANGED vars
  <2>1. LogSound
    BY DEF CognitionSound
  <2>2. QuietLog
    BY <1>1, <2>1, LogLeft DEF vars
  <2> QED
    BY <1>1, <2>2, Preserved DEF CognitionSound, vars
<1>2. CASE Submit
  BY <1>2, SubmitKeeps
<1>3. CASE \E t \in Texts : Observe(t) \/ Prepare(t)
  BY <1>3, ObserveKeeps, PrepareKeeps
<1>4. CASE \E a \in Of(log, "assistant") : Hear(a) \/ \E vis \in {"played", "cancelled"} : Report(a, vis)
  BY <1>4, HearKeeps, ReportKeeps
<1>5. CASE \E id \in sent : \E inv \in {id[1], Unscoped} : Answer(id, inv)
  BY <1>5, AnswerKeeps
<1>6. CASE \E id \in Identities(log, "proposal") : Promote(id) \/ Dispose(id)
  BY <1>6, PromoteKeeps, DisposeKeeps
<1>10. CASE \E phase \in {"fast", "slow"} : Process(phase) \/ \E r \in Runners : Interject(r, phase)
  BY <1>10, ProcessKeeps, InterjectKeeps
<1>7. ASSUME NEW r \in Runners,
             \/ Hold(r)
             \/ \E declined \in SUBSET owed : RaiseRepairs(r, declined)
             \/ TakePrepared(r) \/ Think(r) \/ Interrupt(r) \/ Adopt(r) \/ AdoptCommit(r)
             \/ Dispatch(r) \/ PlaceholderForInterrupted(r) \/ ResolveRepairs(r) \/ Discharge(r)
      PROVE  CognitionSound'
  BY <1>7, HoldKeeps, RaiseKeeps, TakeKeeps, ThinkKeeps, InterruptKeeps, AdoptKeeps, AdoptCommitKeeps,
     DispatchKeeps, PlaceholderKeeps, ResolveKeeps, DischargeKeeps
<1>8. CASE \E p \in speculating : Prepared(p)
  BY <1>8, PreparedKeeps
<1>9. CASE DiscardPreparations
  BY <1>9, DiscardKeeps
<1> QED
  BY <1>1, <1>2, <1>3, <1>4, <1>5, <1>6, <1>7, <1>8, <1>9, <1>10 DEF CognitionNext

\* The invariant holds throughout.
LEMMA AlwaysCognitionSound == CognitionSpec => []CognitionSound
BY CognitionStarts, CognitionStep, PTL DEF CognitionSpec

\* The tool history of the log is sound (trajectory.go: appendLocked), whoever
\* appends in which order: the driver, the live goroutine, the graph's action
\* path, results under a name alone, placeholders raced by results.
THEOREM CognitionToolHistory == CognitionSpec => []ToolHistorySound
<1>1. CognitionSound => ToolHistorySound
  BY ToolHistory DEF CognitionSound
<1> QED
  BY <1>1, AlwaysCognitionSound, PTL

\* No item is both played and cancelled; a repair is required only of what was
\* heard, before the very observation it is required for; it is resolved once, by
\* another slow answer under a number no lower, which had read that observation
\* unless its number is ahead of all it had read (trajectory.go:
\* transitionAssistantLocked, transitionRepairLocked; repair.go: raiseRepairs,
\* resolveRepairs).  Nothing relates the recogniser's numbers to the log's.
THEOREM CognitionRepairHistory == CognitionSpec => []RepairHistorySound
<1>1. CognitionSound => RepairHistorySound
  BY RepairHistory DEF CognitionSound
<1> QED
  BY <1>1, AlwaysCognitionSound, PTL

\* What any turn commits, the driver's or a live one's of either phase, answers the
\* evidence the log held when it was committed, if thought out (runner.go:
\* supersedesContinuation), and if adopted the sentence the log held under the
\* turn's number (prepare.go: adopt).
THEOREM CognitionAnswers == CognitionSpec => []AnswersTheEvidence
<1>1. CognitionSound => AnswersTheEvidence
  BY DEF CognitionSound, LogSound
<1> QED
  BY <1>1, AlwaysCognitionSound, PTL

\* A step takes an obligation away by declining it or with its correction in the
\* log.
LEMMA DischargeStep ==
  ASSUME CognitionSound, [CognitionNext]_vars, NEW o \in owed \ owed'
  PROVE  \/ \E r \in Runners : run[r].pc = "raise" /\ run'[r].pc = "take"
         \/ \E i \in Of(log, "resolved") : log[i].ref = o.target
<1>1. run \in [Runners -> Turn] /\ \A r \in Runners : TurnSound(r)
  BY DEF CognitionSound
<1>2. ASSUME NEW r \in Runners, NEW declined, RaiseRepairs(r, declined)
      PROVE  run[r].pc = "raise" /\ run'[r].pc = "take"
  BY <1>1, <1>2, Stepped DEF RaiseRepairs
<1>3. ASSUME NEW r \in Runners, Discharge(r)
      PROVE  \E i \in Of(log, "resolved") : log[i].ref = o.target
  <2>1. PICK i \in DOMAIN run[r].items : run[r].items[i].ref = o.target
    BY <1>3 DEF Discharge
  <2> QED
    BY <1>1, <1>3, <2>1 DEF TurnSound, Discharge
<1>4. ASSUME Submit PROVE owed \subseteq owed'
  BY <1>4 DEF Submit, Owe
<1>5. \/ owed' = owed \/ Submit
      \/ \E r \in Runners : Discharge(r) \/ \E declined \in SUBSET owed : RaiseRepairs(r, declined)
  BY DEF CognitionNext, vars, Observe, Prepare, Hear, Report, Answer, Promote, Dispose, TakePrepared,
         Process, Interject, Hold, Open,
         Think, Interrupt, Adopt, AdoptCommit, Dispatch, PlaceholderForInterrupted, ResolveRepairs,
         Prepared, DiscardPreparations
<1> QED
  BY <1>2, <1>3, <1>4, <1>5

\* An obligation leaves the ledger only once the log holds a correction of what
\* was heard, unless the policy declined it, whatever commits between the append
\* and the discharge (repair.go: resolveRepairs).
THEOREM CognitionDischarges == CognitionSpec => DischargedIsCorrected
<1>1. CognitionSound /\ [CognitionNext]_vars =>
        [\A o \in owed \ owed' :
           \/ \E r \in Runners : run[r].pc = "raise" /\ run'[r].pc = "take"
           \/ \E i \in Of(log, "resolved") : log[i].ref = o.target]_vars
  BY DischargeStep
<1> QED
  BY <1>1, AlwaysCognitionSound, PTL DEF CognitionSpec, DischargedIsCorrected
=============================================================================
