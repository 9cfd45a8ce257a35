--------------------------- MODULE SequenceFacts ----------------------------
(***************************************************************************)
(* Facts about numbers and sequences that the proofs about queues and logs *)
(* keep needing.  Induction is stated of a set, of numbers or of           *)
(* sequences, which the provers can instantiate; the rest follows from the *)
(* recursion by which FlattenSeq of the community modules is defined.      *)
(***************************************************************************)
EXTENDS Integers, Sequences, SequencesExt, SequenceTheorems, NaturalsInduction,
        WellFoundedInduction, TLAPS

LEMMA FirstNumber ==
  ASSUME NEW N, N \subseteq Nat, N # {}
  PROVE  \E n \in N : \A m \in N : n <= m
<1>1. PICK n \in N : \A m \in N : ~(<<m, n>> \in OpToRel(<, Nat))
  BY WFMin, NatLessThanWellFounded
<1>2. ASSUME NEW m \in N PROVE n <= m
  <2>1. ~(m < n)
    BY <1>1 DEF OpToRel
  <2> QED
    BY <2>1
<1> QED
  BY <1>2

\* Induction up to n over the numbers that are in G.
LEMMA UpTo ==
  ASSUME NEW G, NEW n \in Nat, 0 \in G, \A m \in 0..(n - 1) : m \in G => m + 1 \in G
  PROVE  \A m \in 0..n : m \in G
<1> DEFINE Bad == {m \in 0..n : m \notin G}
<1>1. SUFFICES ASSUME Bad # {} PROVE FALSE
  OBVIOUS
<1>2. PICK m \in Bad : \A k \in Bad : m <= k
  <2>1. Bad \subseteq Nat
    OBVIOUS
  <2> QED
    BY <1>1, <2>1, FirstNumber
<1>3. m \in 1..n /\ m - 1 \in 0..(n - 1) /\ m - 1 \notin Bad
  BY <1>2
<1> QED
  BY <1>3

LEMMA SequenceInduction ==
  ASSUME NEW T, NEW P, << >> \in P, \A s \in Seq(T), x \in T : s \in P => Append(s, x) \in P
  PROVE  \A s \in Seq(T) : s \in P
<1> SUFFICES ASSUME NEW s \in Seq(T) PROVE s \in P
  OBVIOUS
<1> DEFINE G == {n \in 0..Len(s) : SubSeq(s, 1, n) \in P}
<1>1. Len(s) \in Nat /\ \A i \in 1..Len(s) : s[i] \in T
  OBVIOUS
<1>2. 0 \in G
  <2>1. SubSeq(s, 1, 0) = << >> /\ 0 \in 0..Len(s)
    BY <1>1, SubSeqEmpty
  <2> QED
    BY <2>1
<1>3. ASSUME NEW m \in 0..(Len(s) - 1), m \in G PROVE m + 1 \in G
  <2>1. m + 1 \in 1..Len(s) /\ m + 1 \in 0..Len(s) /\ 1 \in 1..Len(s) /\ m + 1 \in 1..Len(s)
        /\ (m + 1) - 1 = m /\ m \in Nat
    BY <1>1
  <2>2. s[m + 1] \in T
    BY <1>1, <2>1
  <2>3. SubSeq(s, 1, m) \in Seq(T) /\ SubSeq(s, 1, m) \in P
    <3>1. \A i \in 1..m : s[i] \in T
      BY <1>1, <2>1
    <3> QED
      BY <1>3, <2>1, <3>1, SubSeqProperties
  <2>4. SubSeq(s, 1, m + 1) = SubSeq(s, 1, m) \o <<s[m + 1]>>
    BY <2>1, SubSeqRecursiveSecond
  <2>5. SubSeq(s, 1, m) \o <<s[m + 1]>> = Append(SubSeq(s, 1, m), s[m + 1])
    BY <2>2, <2>3, AppendIsConcat
  <2> QED
    BY <2>1, <2>2, <2>3, <2>4, <2>5
<1>4. Len(s) \in G
  <2> HIDE DEF G
  <2>1. \A m \in 0..Len(s) : m \in G
    BY <1>1, <1>2, <1>3, UpTo, Zenon
  <2> QED
    BY <1>1, <2>1
<1>5. SubSeq(s, 1, Len(s)) = s
  BY SubSeqFull
<1> QED
  BY <1>4, <1>5

LEMMA ConcatAppend ==
  ASSUME NEW T, NEW s \in Seq(T), NEW t \in Seq(T), NEW x \in T
  PROVE  s \o Append(t, x) = Append(s \o t, x) /\ s \o t \in Seq(T) /\ Append(t, x) \in Seq(T)
<1>1. /\ s \o t \in Seq(T) /\ Append(t, x) \in Seq(T) /\ <<x>> \in Seq(T)
  BY ConcatProperties
<1>2. Append(t, x) = t \o <<x>> /\ Append(s \o t, x) = (s \o t) \o <<x>>
  BY <1>1, AppendIsConcat
<1>3. (s \o t) \o <<x>> = s \o (t \o <<x>>)
  BY <1>1, ConcatAssociative
<1> QED
  BY <1>1, <1>2, <1>3

LEMMA Associates ==
  ASSUME NEW T
  PROVE  \A s, t, u \in Seq(T) : (s \o t) \o u = s \o (t \o u)
<1> SUFFICES ASSUME NEW s \in Seq(T), NEW t \in Seq(T), NEW u \in Seq(T)
             PROVE  (s \o t) \o u = s \o (t \o u)
  OBVIOUS
<1> QED
  BY ConcatAssociative

LEMMA HeadFirst ==
  ASSUME NEW T, NEW s \in Seq(T), s # << >>
  PROVE  s = <<Head(s)>> \o Tail(s) /\ Head(s) \in T /\ Tail(s) \in Seq(T)
<1>1. /\ Head(s) \in T /\ Tail(s) \in Seq(T) /\ Len(Tail(s)) = Len(s) - 1 /\ Head(s) = s[1]
      /\ Len(s) \in Nat \ {0} /\ \A i \in 1..Len(Tail(s)) : Tail(s)[i] = s[i + 1]
  BY HeadTailProperties
<1>2. PICK h, t, u : h = <<Head(s)>> /\ t = Tail(s) /\ u = h \o t
  OBVIOUS
<1>3. /\ u \in Seq(T) /\ h \in Seq(T) /\ t \in Seq(T)
      /\ Len(h) = 1 /\ h[1] = s[1] /\ Len(u) = 1 + Len(t) /\ Len(u) = Len(s)
  <2>1. Len(h) = 1 /\ h[1] = s[1]
    BY <1>1, <1>2
  <2>2. h \in Seq(T) /\ t \in Seq(T)
    BY <1>1, <1>2
  <2>3. u \in Seq(T) /\ Len(u) = Len(h) + Len(t)
    BY <1>2, <2>2, ConcatProperties
  <2> QED
    BY <1>1, <1>2, <2>1, <2>2, <2>3
<1>4. ASSUME NEW i \in 1..Len(s) PROVE s[i] = u[i]
  <2>1. i \in 1..(Len(h) + Len(t)) /\ (i # 1 => i - 1 \in 1..Len(t) /\ (i - 1) + 1 = i) /\ (i <= 1 <=> i = 1)
    BY <1>1, <1>2, <1>3
  <2>2. u[i] = IF i <= Len(h) THEN h[i] ELSE t[i - Len(h)]
    BY <1>2, <1>3, <2>1, ConcatProperties
  <2> QED
    BY <1>1, <1>2, <1>3, <2>1, <2>2
<1>5. s = u
  BY <1>3, <1>4, SeqEqual
<1> QED
  BY <1>1, <1>2, <1>5

LEMMA MembersOf ==
  ASSUME NEW T, NEW s \in Seq(T)
  PROVE  Range(s) \subseteq T
BY DEF Range

LEMMA RangeNone == Range(<< >>) = {} /\ \A T : << >> \in Seq(T)
BY DEF Range

LEMMA RangeAppend ==
  ASSUME NEW T, NEW s \in Seq(T), NEW e \in T
  PROVE  Range(Append(s, e)) = Range(s) \cup {e}
<1>1. \A x : x \in Range(Append(s, e)) => x \in Range(s) \cup {e}
  BY DEF Range
<1>2. ASSUME NEW x \in Range(s) \cup {e} PROVE x \in Range(Append(s, e))
  <2>1. CASE x = e
    <3>1. Append(s, e)[Len(s) + 1] = e /\ Len(s) + 1 \in DOMAIN Append(s, e)
      OBVIOUS
    <3> QED
      BY <2>1, <3>1 DEF Range
  <2>2. CASE x \in Range(s)
    <3>1. PICK i \in DOMAIN s : s[i] = x
      BY <2>2 DEF Range
    <3>2. i \in DOMAIN Append(s, e) /\ Append(s, e)[i] = x
      BY <3>1
    <3> QED
      BY <3>2 DEF Range
  <2> QED
    BY <2>1, <2>2
<1> QED
  BY <1>1, <1>2

LEMMA RangeConcat ==
  ASSUME NEW T, NEW s \in Seq(T), NEW t \in Seq(T)
  PROVE  Range(s \o t) = Range(s) \cup Range(t)
<1>1. /\ Len(s) \in Nat /\ Len(t) \in Nat /\ DOMAIN s = 1..Len(s) /\ DOMAIN t = 1..Len(t)
      /\ DOMAIN (s \o t) = 1..(Len(s) + Len(t))
      /\ \A i \in 1..Len(s) : (s \o t)[i] = s[i]
      /\ \A i \in 1..Len(t) : (s \o t)[Len(s) + i] = t[i]
  OBVIOUS
<1>2. PICK u : u = s \o t
  OBVIOUS
<1>3. ASSUME NEW x \in Range(u) PROVE x \in Range(s) \cup Range(t)
  <2>1. PICK i \in 1..(Len(s) + Len(t)) : u[i] = x
    BY <1>1, <1>2, <1>3 DEF Range
  <2>2. CASE i <= Len(s)
    BY <1>1, <1>2, <2>1, <2>2 DEF Range
  <2>3. CASE i > Len(s)
    <3>1. i - Len(s) \in 1..Len(t) /\ Len(s) + (i - Len(s)) = i
      BY <1>1, <2>1, <2>3
    <3>2. u[i] = t[i - Len(s)]
      BY <1>1, <1>2, <3>1
    <3> QED
      BY <1>1, <2>1, <3>1, <3>2 DEF Range
  <2> QED
    BY <1>1, <2>1, <2>2, <2>3
<1>4. ASSUME NEW x \in Range(s) PROVE x \in Range(u)
  <2>1. PICK i \in 1..Len(s) : s[i] = x
    BY <1>1, <1>4 DEF Range
  <2>2. i \in DOMAIN u /\ u[i] = x
    BY <1>1, <1>2, <2>1
  <2> QED
    BY <2>2 DEF Range
<1>5. ASSUME NEW x \in Range(t) PROVE x \in Range(u)
  <2>1. PICK i \in 1..Len(t) : t[i] = x
    BY <1>1, <1>5 DEF Range
  <2>2. Len(s) + i \in DOMAIN u /\ u[Len(s) + i] = x
    BY <1>1, <1>2, <2>1
  <2> QED
    BY <2>2 DEF Range
<1> QED
  BY <1>2, <1>3, <1>4, <1>5

-----------------------------------------------------------------------------
\* What FlattenSeq returns.

Joins(f, d, n) == f = [i \in 1..n |-> IF i = 1 THEN d[i] ELSE f[i - 1] \o d[i]]

LEMMA JoinedValues ==
  ASSUME NEW f, NEW d, NEW n, Joins(f, d, n)
  PROVE  \A i \in 1..n : f[i] = IF i = 1 THEN d[i] ELSE f[i - 1] \o d[i]
<1>1. PICK h : h = f /\ f = [i \in 1..n |-> IF i = 1 THEN d[i] ELSE h[i - 1] \o d[i]]
  BY DEF Joins
<1>2. \A i \in 1..n : f[i] = IF i = 1 THEN d[i] ELSE h[i - 1] \o d[i]
  BY <1>1
<1> QED
  BY <1>1, <1>2

LEMMA JoinsExist ==
  ASSUME NEW d, NEW l \in Nat, NEW n \in 0..l
  PROVE  \E f : Joins(f, d, n)
<1> DEFINE Good == {m \in 0..l : \E f : Joins(f, d, m)}
<1>1. 0 \in Good
  <2>1. Joins([i \in 1..0 |-> 0], d, 0)
    BY DEF Joins
  <2> QED
    BY <2>1
<1>2. ASSUME NEW m \in 0..(l - 1), m \in Good PROVE m + 1 \in Good
  <2>1. PICK f : Joins(f, d, m)
    BY <1>2
  <2>2. \A i \in 1..m : f[i] = IF i = 1 THEN d[i] ELSE f[i - 1] \o d[i]
    BY <2>1, JoinedValues
  <2>3. m \in Nat /\ m + 1 \in 0..l
    OBVIOUS
  <2>4. PICK z : z = IF m + 1 = 1 THEN d[m + 1] ELSE f[m] \o d[m + 1]
    OBVIOUS
  <2>5. PICK g : g = [i \in 1..(m + 1) |-> IF i = m + 1 THEN z ELSE f[i]]
    OBVIOUS
  <2>6. \A i \in 1..m : g[i] = f[i]
    BY <2>3, <2>5
  <2>7. g[m + 1] = z
    BY <2>3, <2>5
  <2>8. ASSUME NEW i \in 1..(m + 1) PROVE g[i] = IF i = 1 THEN d[i] ELSE g[i - 1] \o d[i]
    <3>1. CASE i = m + 1
      <4>1. i # 1 => i - 1 \in 1..m /\ i - 1 = m
        BY <2>3, <3>1
      <4>2. i # 1 => g[i - 1] = f[m]
        BY <2>6, <4>1
      <4> QED
        BY <2>4, <2>7, <3>1, <4>2
    <3>2. CASE i # m + 1
      <4>1. i \in 1..m /\ (i # 1 => i - 1 \in 1..m)
        BY <2>3, <3>2
      <4> QED
        BY <2>2, <2>6, <4>1
    <3> QED
      BY <3>1, <3>2
  <2>9. g = [i \in 1..(m + 1) |-> g[i]]
    BY <2>5
  <2>10. Joins(g, d, m + 1)
    BY <2>8, <2>9 DEF Joins
  <2> QED
    BY <2>3, <2>10
<1>3. \A m \in 0..l : m \in Good
  <2> HIDE DEF Good
  <2> QED
    BY <1>1, <1>2, UpTo, Zenon
<1> QED
  BY <1>3

LEMMA FlattenSteps ==
  ASSUME NEW d, Len(d) \in Nat, Len(d) # 0
  PROVE  \E f : FlattenSeq(d) = f[Len(d)] /\ \A i \in 1..Len(d) : f[i] = IF i = 1 THEN d[i] ELSE f[i - 1] \o d[i]
<1>1. PICK k : k = CHOOSE f : Joins(f, d, Len(d))
  OBVIOUS
<1>2. FlattenSeq(d) = k[Len(d)]
  BY <1>1 DEF FlattenSeq, Joins
<1>3. Joins(k, d, Len(d))
  <2>1. \E f : Joins(f, d, Len(d))
    BY JoinsExist
  <2> QED
    BY <1>1, <2>1
<1> QED
  BY <1>2, <1>3, JoinedValues

LEMMA FlattenEmpty == FlattenSeq(<< >>) = << >>
<1>1. Len(<< >>) = 0
  OBVIOUS
<1> QED
  BY <1>1 DEF FlattenSeq

LEMMA FlattenAppend ==
  ASSUME NEW T, NEW d \in Seq(Seq(T)), NEW g \in Seq(T)
  PROVE  FlattenSeq(Append(d, g)) = FlattenSeq(d) \o g
<1>1. PICK t : t = Append(d, g)
  OBVIOUS
<1>2. /\ Len(t) = Len(d) + 1 /\ Len(d) \in Nat /\ Len(t) \in Nat /\ Len(t) # 0 /\ t[Len(d) + 1] = g
      /\ \A i \in 1..Len(d) : t[i] = d[i]
  BY <1>1
<1>3. PICK h : /\ FlattenSeq(t) = h[Len(t)]
               /\ \A i \in 1..Len(t) : h[i] = IF i = 1 THEN t[i] ELSE h[i - 1] \o t[i]
  BY <1>2, FlattenSteps
<1>4. CASE Len(d) = 0
  <2>1. d = << >>
    BY <1>4
  <2>2. FlattenSeq(t) = g
    BY <1>2, <1>3, <1>4
  <2>3. << >> \o g = g
    BY ConcatEmptySeq
  <2> QED
    BY <1>1, <2>1, <2>2, <2>3, FlattenEmpty
<1>5. CASE Len(d) # 0
  <2>1. PICK k : /\ FlattenSeq(d) = k[Len(d)]
                 /\ \A i \in 1..Len(d) : k[i] = IF i = 1 THEN d[i] ELSE k[i - 1] \o d[i]
    BY <1>2, <1>5, FlattenSteps
  <2> DEFINE G == {n \in 0..Len(d) : n = 0 \/ h[n] = k[n]}
  <2>2. 0 \in G
    BY <1>2
  <2>3. ASSUME NEW m \in 0..(Len(d) - 1), m \in G PROVE m + 1 \in G
    <3>1. m + 1 \in 1..Len(d) /\ m + 1 \in 1..Len(t) /\ (m + 1) - 1 = m /\ m + 1 \in 0..Len(d) /\ m \in Nat
      <4>1. PICK l \in Nat : l = Len(d)
        BY <1>2
      <4>2. m \in 0..(l - 1) /\ Len(t) = l + 1
        BY <1>2, <4>1
      <4>3. m + 1 \in 1..l /\ m + 1 \in 1..(l + 1) /\ (m + 1) - 1 = m /\ m + 1 \in 0..l /\ m \in Nat
        BY <4>2
      <4> QED
        BY <4>1, <4>2, <4>3, Zenon
    <3>2. (m = 0 \/ h[m] = k[m]) /\ t[m + 1] = d[m + 1]
      BY <1>2, <2>3, <3>1
    <3>3. k[m + 1] = IF m + 1 = 1 THEN d[m + 1] ELSE k[m] \o d[m + 1]
      BY <2>1, <3>1
    <3>4. h[m + 1] = IF m + 1 = 1 THEN t[m + 1] ELSE h[m] \o t[m + 1]
      BY <1>3, <3>1
    <3> QED
      BY <3>1, <3>2, <3>3, <3>4
  <2>4. Len(d) \in G => h[Len(d)] = k[Len(d)]
    BY <1>5
  <2>5. h[Len(d)] = k[Len(d)]
    <3> HIDE DEF G
    <3>1. \A m \in 0..Len(d) : m \in G
      BY <1>2, <2>2, <2>3, UpTo, Zenon
    <3> QED
      BY <1>2, <2>4, <3>1
  <2>6. Len(t) \in 1..Len(t) /\ Len(t) - 1 = Len(d) /\ Len(t) # 1
    BY <1>2, <1>5
  <2>7. h[Len(t)] = h[Len(d)] \o t[Len(t)]
    BY <1>3, <2>6
  <2> QED
    BY <1>1, <1>2, <1>3, <2>1, <2>5, <2>7
<1> QED
  BY <1>4, <1>5

ValuesIn(S) == UNION {Range(s) : s \in S}

LEMMA FlattenValues ==
  ASSUME NEW T, NEW d \in Seq(Seq(T))
  PROVE  FlattenSeq(d) \in Seq(T) /\ Range(FlattenSeq(d)) = ValuesIn(Range(d))
<1> DEFINE P == {c \in Seq(Seq(T)) : FlattenSeq(c) \in Seq(T) /\ Range(FlattenSeq(c)) = ValuesIn(Range(c))}
<1>1. << >> \in P
  <2>1. << >> \in Seq(T) /\ << >> \in Seq(Seq(T)) /\ Range(<< >>) = {} /\ ValuesIn({}) = {}
    BY DEF Range, ValuesIn
  <2>2. FlattenSeq(<< >>) \in Seq(T) /\ Range(FlattenSeq(<< >>)) = ValuesIn(Range(<< >>))
    BY <2>1, FlattenEmpty, Zenon
  <2> QED
    BY <2>1, <2>2, Zenon
<1>2. ASSUME NEW c \in Seq(Seq(T)), NEW g \in Seq(T), c \in P PROVE Append(c, g) \in P
  <2>1. FlattenSeq(Append(c, g)) = FlattenSeq(c) \o g /\ Append(c, g) \in Seq(Seq(T))
    BY FlattenAppend
  <2>2. FlattenSeq(c) \in Seq(T) /\ Range(FlattenSeq(c)) = ValuesIn(Range(c))
    BY <1>2
  <2>3. FlattenSeq(c) \o g \in Seq(T) /\ Range(FlattenSeq(c) \o g) = Range(FlattenSeq(c)) \cup Range(g)
    BY <2>2, RangeConcat, ConcatProperties
  <2>4. Range(Append(c, g)) = Range(c) \cup {g}
    BY RangeAppend
  <2>5. ValuesIn(Range(c) \cup {g}) = ValuesIn(Range(c)) \cup Range(g)
    BY DEF ValuesIn
  <2>6. Range(FlattenSeq(Append(c, g))) = ValuesIn(Range(Append(c, g)))
    BY <2>1, <2>2, <2>3, <2>4, <2>5, Zenon
  <2> QED
    BY <2>1, <2>3, <2>6
<1>3. \A c \in Seq(Seq(T)) : c \in P
  <2> HIDE DEF P
  <2> QED
    BY <1>1, <1>2, SequenceInduction
<1> QED
  BY <1>3

LEMMA FlattenConcat ==
  ASSUME NEW T, NEW d \in Seq(Seq(T)), NEW e \in Seq(Seq(T))
  PROVE  FlattenSeq(d \o e) = FlattenSeq(d) \o FlattenSeq(e)
<1> DEFINE P == {c \in Seq(Seq(T)) : FlattenSeq(d \o c) = FlattenSeq(d) \o FlattenSeq(c)}
<1>1. FlattenSeq(d) \in Seq(T)
  BY FlattenValues
<1>2. << >> \in P
  <2>1. d \o << >> = d /\ FlattenSeq(d) \o << >> = FlattenSeq(d) /\ << >> \in Seq(Seq(T))
    BY <1>1, ConcatEmptySeq
  <2> QED
    BY <2>1, FlattenEmpty
<1>3. ASSUME NEW c \in Seq(Seq(T)), NEW g \in Seq(T), c \in P PROVE Append(c, g) \in P
  <2>1. d \o Append(c, g) = Append(d \o c, g) /\ d \o c \in Seq(Seq(T)) /\ Append(c, g) \in Seq(Seq(T))
    BY ConcatAppend
  <2>2. FlattenSeq(c) \in Seq(T) /\ FlattenSeq(d \o c) = FlattenSeq(d) \o FlattenSeq(c)
    BY <1>3, FlattenValues
  <2>3. /\ FlattenSeq(Append(c, g)) = FlattenSeq(c) \o g
        /\ FlattenSeq(Append(d \o c, g)) = FlattenSeq(d \o c) \o g
    BY <2>1, FlattenAppend
  <2>4. (FlattenSeq(d) \o FlattenSeq(c)) \o g = FlattenSeq(d) \o (FlattenSeq(c) \o g)
    <3>1. PICK y \in Seq(T), z \in Seq(T) : y = FlattenSeq(d) /\ z = FlattenSeq(c)
      BY <1>1, <2>2
    <3>2. (y \o z) \o g = y \o (z \o g)
      BY ConcatAssociative, SMTT(30)
    <3> QED
      BY <3>1, <3>2, Zenon
  <2> QED
    BY <2>1, <2>2, <2>3, <2>4
<1>4. \A c \in Seq(Seq(T)) : c \in P
  <2> HIDE DEF P
  <2> QED
    BY <1>2, <1>3, SequenceInduction
<1> QED
  BY <1>4

\* The same of a sequence of runs known run by run.
LEMMA FlattenRuns ==
  ASSUME NEW T, NEW d \in Seq(Seq(T)), NEW e \in Seq(Seq(T)), NEW r \in Seq(Seq(T)),
         Len(r) = Len(d) + Len(e),
         \A i \in 1..Len(r) : r[i] = IF i <= Len(d) THEN d[i] ELSE e[i - Len(d)]
  PROVE  FlattenSeq(r) = FlattenSeq(d) \o FlattenSeq(e)
<1>1. PICK c : c = d \o e
  OBVIOUS
<1>2. /\ c \in Seq(Seq(T)) /\ Len(c) = Len(d) + Len(e)
      /\ \A i \in 1..(Len(d) + Len(e)) : c[i] = IF i <= Len(d) THEN d[i] ELSE e[i - Len(d)]
  BY <1>1, ConcatProperties
<1>3. r = c
  <2>1. \A i \in 1..Len(r) : r[i] = c[i]
    BY <1>2
  <2> QED
    BY <1>2, <2>1, SeqEqual
<1> QED
  BY <1>1, <1>3, FlattenConcat

\* All runs but one are empty.
LEMMA FlattenOne ==
  ASSUME NEW T, NEW d \in Seq(Seq(T)), NEW c \in 1..Len(d), \A i \in 1..Len(d) : i # c => d[i] = << >>
  PROVE  FlattenSeq(d) = d[c]
<1>1. PICK n \in Nat : n = Len(d) /\ n # 0 /\ c \in 1..n
  OBVIOUS
<1>2. PICK f : FlattenSeq(d) = f[n] /\ \A i \in 1..n : f[i] = IF i = 1 THEN d[i] ELSE f[i - 1] \o d[i]
  BY <1>1, FlattenSteps
<1>3. PICK x : x = d[c]
  OBVIOUS
<1>4. x \in Seq(T) /\ x \o << >> = x /\ << >> \o x = x /\ << >> \o << >> = << >>
  <2>1. x \in Seq(T) /\ << >> \in Seq(T)
    BY <1>3
  <2> QED
    BY <2>1, ConcatEmptySeq
<1> DEFINE G == {m \in 0..n : m = 0 \/ f[m] = IF m < c THEN << >> ELSE x}
<1>5. 0 \in G
  BY <1>1
<1>6. ASSUME NEW m \in 0..(n - 1), m \in G PROVE m + 1 \in G
  <2>1. m + 1 \in 1..n /\ (m + 1) - 1 = m /\ m + 1 \in 0..n /\ m \in Nat
    OBVIOUS
  <2>2. f[m + 1] = IF m = 0 THEN d[m + 1] ELSE f[m] \o d[m + 1]
    BY <1>2, <2>1
  <2>3. d[m + 1] = IF m + 1 = c THEN x ELSE << >>
    BY <1>1, <1>3, <2>1
  <2>4. m # 0 => f[m] = IF m < c THEN << >> ELSE x
    BY <1>6
  <2>5. f[m + 1] = IF m + 1 < c THEN << >> ELSE x
    <3>1. CASE m + 1 = c
      <4>1. ~(m + 1 < c) /\ m < c
        BY <1>1, <2>1, <3>1
      <4> QED
        BY <1>4, <2>2, <2>3, <2>4, <3>1, <4>1, Zenon
    <3>2. CASE m + 1 # c
      <4>1. (m < c <=> m + 1 < c) /\ (m = 0 => m + 1 < c)
        BY <1>1, <2>1, <3>2
      <4> QED
        BY <1>4, <2>2, <2>3, <2>4, <3>2, <4>1, Zenon
    <3> QED
      BY <3>1, <3>2
  <2> QED
    BY <2>1, <2>5
<1>7. \A m \in 0..n : m \in G
  <2> HIDE DEF G
  <2> QED
    BY <1>5, <1>6, UpTo, Zenon
<1>8. f[n] = x
  <2>1. n \in G /\ n # 0 /\ ~(n < c)
    BY <1>1, <1>7
  <2> QED
    BY <2>1
<1> QED
  BY <1>2, <1>3, <1>8
=============================================================================
