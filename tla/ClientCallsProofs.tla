------------------------- MODULE ClientCallsProofs -------------------------
(***************************************************************************)
(* The tracker's batches, for any invocations, any calls and any number of *)
(* failing commits.                                                        *)
(*                                                                         *)
(* Neither of the first two is inductive.  BatchesAccounted says what a    *)
(* claim stands for: the flag is up while anyone holds it, the batch       *)
(* copied with it is complete, and a claimant that has yet to commit does  *)
(* so for the first time.  That an answer once given is the one committed  *)
(* rests on AnswersInHand: the copy a claimant commits has every answer of *)
(* the client's that local execution has not overwritten.                  *)
(*                                                                         *)
(* A batch whose flag is up has a claimant that holds it still             *)
(* (MarkIsHeld), to whom a deadline that finds the flag may leave it.      *)
(***************************************************************************)
EXTENDS ClientCalls, TLAPS

Pending(i) == claim[i] # "nobody"

\* Whoever holds a claim has the flag, and a complete copy of the batch.
ClaimIsMarked ==
  \A i \in Invocations :
    Pending(i) => dispatched[i] /\ \A c \in Calls[i] : ordered[c] # "none"

\* A claimant that has yet to commit is the first to.
ClaimIsFresh ==
  \A i \in Invocations : Pending(i) /\ phase[i] = "commit" => committed[i] = 0

\* What has been committed is committed once, and cannot be claimed again.
CommitIsFinal ==
  \A i \in Invocations :
    /\ committed[i] \in {0, 1}
    /\ committed[i] = 1 => dispatched[i]

\* The inductive invariant of the tracker.
BatchesAccounted ==
  /\ ClientCallsTypeOK
  /\ ClaimIsMarked
  /\ ClaimIsFresh
  /\ CommitIsFinal
  /\ BatchIsComplete

-----------------------------------------------------------------------------
\* A call belongs to one invocation: the one Owner names.
LEMMA OwnerIsOwner ==
  ASSUME NEW c \in CallSet
  PROVE  Owner(c) \in Invocations /\ c \in Calls[Owner(c)]
  BY DEF CallSet, Owner

\* A call belongs to one invocation only.
LEMMA CallsDisjoint ==
  ASSUME NEW i \in Invocations, NEW j \in Invocations, i # j, NEW c \in Calls[i]
  PROVE  c \notin Calls[j]
  BY ClientCallsAssumption DEF ClientCallsAssumption

\* The calls of an invocation are calls.
LEMMA CallsAreCalls ==
  ASSUME NEW i \in Invocations, NEW c \in Calls[i]
  PROVE  c \in CallSet
  BY DEF CallSet

\* Nothing is tracked, claimed or committed at first.
LEMMA InitAccounted == ClientCallsInit => BatchesAccounted
<1> SUFFICES ASSUME ClientCallsInit PROVE BatchesAccounted
  OBVIOUS
<1>1. 0 \in 0..MaxFailures
  BY ClientCallsAssumption DEF ClientCallsAssumption
<1>2. ClientCallsTypeOK
  BY <1>1 DEF ClientCallsInit, ClientCallsTypeOK, Sources
<1>3. ClaimIsMarked /\ ClaimIsFresh
  BY DEF ClientCallsInit, ClaimIsMarked, ClaimIsFresh, Pending
<1>4. CommitIsFinal /\ BatchIsComplete
  BY DEF ClientCallsInit, CommitIsFinal, BatchIsComplete
<1> QED
  BY <1>2, <1>3, <1>4 DEF BatchesAccounted

\* Claiming a batch: res is the results the step leaves behind.
LEMMA ClaimAccounted ==
  ASSUME BatchesAccounted, NEW i \in Invocations, NEW who \in {"result", "expire"},
         NEW res \in [CallSet -> Sources],
         Claim(res, i, who), UNCHANGED <<committed, batch>>
  PROVE  /\ ClaimIsMarked' /\ ClaimIsFresh' /\ CommitIsFinal' /\ BatchIsComplete'
         /\ results' \in [CallSet -> Sources]
         /\ dispatched' \in [Invocations -> BOOLEAN]
         /\ claim' \in [Invocations -> {"nobody", "result", "expire"}]
         /\ phase' \in [Invocations -> {"commit", "forget"}]
         /\ ordered' \in [CallSet -> Sources]
<1> USE DEF BatchesAccounted, ClientCallsTypeOK
<1>1. CASE ~Ready(res, i)
  <2>1. UNCHANGED <<dispatched, claim, phase, ordered>> /\ results' = res
    BY <1>1 DEF Claim
  <2> QED
    BY <2>1 DEF ClaimIsMarked, ClaimIsFresh, CommitIsFinal, BatchIsComplete, Pending
<1>2. CASE Ready(res, i)
  <2>1. /\ results' = res
        /\ dispatched' = Put(dispatched, i, TRUE)
        /\ claim' = Put(claim, i, who)
        /\ phase' = Put(phase, i, "commit")
        /\ ordered' = [c \in CallSet |-> IF c \in Calls[i] THEN res[c] ELSE ordered[c]]
    BY <1>2 DEF Claim
  <2>2. ~dispatched[i] /\ \A c \in Calls[i] : res[c] # "none"
    BY <1>2 DEF Ready, Answered
  <2>3. ASSUME NEW j \in Invocations, Pending(j)', NEW c \in Calls[j]
        PROVE  ordered'[c] # "none"
    <3>1. CASE j = i
      BY <2>1, <2>2, <2>3, <3>1, CallsAreCalls
    <3>2. CASE j # i
      BY <2>1, <2>3, <3>2, CallsAreCalls, CallsDisjoint DEF ClaimIsMarked, Pending, Put
    <3> QED BY <3>1, <3>2
  <2>4. ASSUME NEW j \in Invocations, Pending(j)'
        PROVE  dispatched'[j]
    BY <2>1, <2>4 DEF ClaimIsMarked, Pending, Put
  <2>5. ClaimIsMarked'
    BY <2>3, <2>4 DEF ClaimIsMarked, Pending
  <2>6. committed[i] = 0
    BY <2>2 DEF CommitIsFinal
  <2>7. ClaimIsFresh'
    BY <2>1, <2>6 DEF ClaimIsFresh, Pending, Put
  <2>8. CommitIsFinal' /\ BatchIsComplete'
    BY <2>1 DEF CommitIsFinal, BatchIsComplete, Put
  <2> QED
    BY <2>1, <2>5, <2>7, <2>8 DEF Put
<1> QED
  BY <1>1, <1>2

\* Every step keeps the books: one case per action.
LEMMA StepAccounted ==
  ASSUME BatchesAccounted, [ClientCallsNext]_vars
  PROVE  BatchesAccounted'
<1> USE DEF BatchesAccounted
<1>1. ASSUME NEW i \in Invocations, Track(i)
      PROVE  BatchesAccounted'
  <2>1. ClientCallsTypeOK'
    BY <1>1 DEF Track, ClientCallsTypeOK, Put
  <2>2. UNCHANGED <<dispatched, claim, phase, ordered, committed, batch>>
    BY <1>1 DEF Track
  <2> QED
    BY <2>1, <2>2 DEF ClaimIsMarked, ClaimIsFresh, CommitIsFinal, BatchIsComplete, Pending
<1>2. ASSUME NEW i \in Invocations, Hold(i)
      PROVE  BatchesAccounted'
  <2>1. ClientCallsTypeOK'
    BY <1>2 DEF Hold, ClientCallsTypeOK, Put, Sources
  <2>2. UNCHANGED <<dispatched, claim, phase, ordered, committed, batch>>
    BY <1>2 DEF Hold
  <2> QED
    BY <2>1, <2>2 DEF ClaimIsMarked, ClaimIsFresh, CommitIsFinal, BatchIsComplete, Pending
<1>3. ASSUME NEW i \in Invocations, DeadlineFires(i)
      PROVE  BatchesAccounted'
  <2>1. ClientCallsTypeOK'
    BY <1>3 DEF DeadlineFires, ClientCallsTypeOK, Put
  <2>2. UNCHANGED <<dispatched, claim, phase, ordered, committed, batch>>
    BY <1>3 DEF DeadlineFires
  <2> QED
    BY <2>1, <2>2 DEF ClaimIsMarked, ClaimIsFresh, CommitIsFinal, BatchIsComplete, Pending
<1>4. ASSUME NEW i \in Invocations, Expire(i)
      PROVE  BatchesAccounted'
  <2>1. UNCHANGED <<tracked, local, committed, batch, failures, closed>>
        /\ deadline' = Put(deadline, i, "done")
    BY <1>4 DEF Expire
  <2>2. CASE tracked[i] = "pending" /\ ~dispatched[i]
    <3> DEFINE res == [c \in CallSet |-> IF c \in Calls[i] /\ results[c] = "none"
                                         THEN "expired" ELSE results[c]]
    <3>1. Claim(res, i, "expire")
      BY <1>4, <2>2 DEF Expire
    <3>2. res \in [CallSet -> Sources]
      BY DEF ClientCallsTypeOK, Sources
    <3> HIDE DEF res
    <3>3. /\ ClaimIsMarked' /\ ClaimIsFresh' /\ CommitIsFinal' /\ BatchIsComplete'
          /\ results' \in [CallSet -> Sources]
          /\ dispatched' \in [Invocations -> BOOLEAN]
          /\ claim' \in [Invocations -> {"nobody", "result", "expire"}]
          /\ phase' \in [Invocations -> {"commit", "forget"}]
          /\ ordered' \in [CallSet -> Sources]
      BY <2>1, <3>1, <3>2, ClaimAccounted
    <3> QED
      BY <2>1, <3>3 DEF ClientCallsTypeOK, Put
  <2>3. CASE ~(tracked[i] = "pending" /\ ~dispatched[i])
    <3>1. UNCHANGED <<dispatched, results, claim, phase, ordered>>
      BY <1>4, <2>3 DEF Expire
    <3> QED
      BY <2>1, <3>1 DEF ClaimIsMarked, ClaimIsFresh, CommitIsFinal, BatchIsComplete,
                        Pending, ClientCallsTypeOK, Put
  <2> QED
    BY <2>2, <2>3
<1>5. ASSUME NEW c \in CallSet, Result(c)
      PROVE  BatchesAccounted'
  <2>1. Owner(c) \in Invocations
    BY OwnerIsOwner
  <2>2. Claim(Put(results, c, "client"), Owner(c), "result")
        /\ UNCHANGED <<tracked, deadline, local, committed, batch, failures, closed>>
    BY <1>5 DEF Result
  <2>3. Put(results, c, "client") \in [CallSet -> Sources]
    BY DEF Put, ClientCallsTypeOK, Sources
  <2>4. /\ ClaimIsMarked' /\ ClaimIsFresh' /\ CommitIsFinal' /\ BatchIsComplete'
        /\ results' \in [CallSet -> Sources]
        /\ dispatched' \in [Invocations -> BOOLEAN]
        /\ claim' \in [Invocations -> {"nobody", "result", "expire"}]
        /\ phase' \in [Invocations -> {"commit", "forget"}]
        /\ ordered' \in [CallSet -> Sources]
    BY <2>1, <2>2, <2>3, ClaimAccounted
  <2> QED
    BY <2>2, <2>4 DEF ClientCallsTypeOK
<1>6. ASSUME NEW i \in Invocations, CommitLands(i)
      PROVE  BatchesAccounted'
  <2>1. committed[i] = 0 /\ dispatched[i] /\ \A c \in Calls[i] : ordered[c] # "none"
    BY <1>6 DEF CommitLands, ClaimIsFresh, ClaimIsMarked, Pending
  <2>2. /\ committed' = Put(committed, i, 1)
        /\ batch' = [c \in CallSet |-> IF c \in Calls[i] THEN ordered[c] ELSE batch[c]]
        /\ phase' = Put(phase, i, "forget")
        /\ UNCHANGED <<tracked, dispatched, results, deadline, local, claim, ordered,
                       failures, closed>>
    BY <1>6, <2>1 DEF CommitLands
  <2>3. ClientCallsTypeOK'
    BY <2>2 DEF ClientCallsTypeOK, Put
  <2>4. ClaimIsMarked' /\ ClaimIsFresh'
    BY <2>2 DEF ClaimIsMarked, ClaimIsFresh, Pending, Put, ClientCallsTypeOK
  <2>5. CommitIsFinal'
    BY <2>1, <2>2 DEF CommitIsFinal, Put, ClientCallsTypeOK
  <2>6. ASSUME NEW j \in Invocations, committed'[j] > 0, NEW c \in Calls[j]
        PROVE  batch'[c] # "none"
    <3>1. CASE j = i
      BY <2>1, <2>2, <2>6, <3>1, CallsAreCalls
    <3>2. CASE j # i
      BY <2>2, <2>6, <3>2, CallsAreCalls, CallsDisjoint
      DEF BatchIsComplete, Put, ClientCallsTypeOK
    <3> QED BY <3>1, <3>2
  <2> QED
    BY <2>3, <2>4, <2>5, <2>6 DEF BatchIsComplete
<1>7. ASSUME NEW i \in Invocations, CommitFails(i)
      PROVE  BatchesAccounted'
  <2>1. committed[i] = 0
    BY <1>7 DEF CommitFails, ClaimIsFresh, Pending
  <2>2. failures[i] + 1 \in 0..MaxFailures
    BY <1>7, ClientCallsAssumption DEF CommitFails, ClientCallsTypeOK, ClientCallsAssumption
  <2>3. ClientCallsTypeOK'
    BY <1>7, <2>2 DEF CommitFails, ClientCallsTypeOK, Put
  <2>4. ClaimIsMarked' /\ ClaimIsFresh'
    BY <1>7 DEF CommitFails, ClaimIsMarked, ClaimIsFresh, Pending, Put, ClientCallsTypeOK
  <2>5. CommitIsFinal' /\ BatchIsComplete'
    BY <1>7, <2>1 DEF CommitFails, CommitIsFinal, BatchIsComplete, Put, ClientCallsTypeOK
  <2> QED
    BY <2>3, <2>4, <2>5
<1>8. ASSUME NEW i \in Invocations, Forget(i)
      PROVE  BatchesAccounted'
  <2>1. ClientCallsTypeOK'
    BY <1>8 DEF Forget, ClientCallsTypeOK, Put
  <2>2. ClaimIsMarked' /\ ClaimIsFresh' /\ CommitIsFinal' /\ BatchIsComplete'
    BY <1>8 DEF Forget, ClaimIsMarked, ClaimIsFresh, CommitIsFinal, BatchIsComplete,
                Pending, Put, ClientCallsTypeOK
  <2> QED
    BY <2>1, <2>2
<1>9. ASSUME Close
      PROVE  BatchesAccounted'
  <2>1. ClientCallsTypeOK'
    BY <1>9 DEF Close, ClientCallsTypeOK
  <2>2. UNCHANGED <<dispatched, claim, phase, ordered, committed, batch>>
    BY <1>9 DEF Close
  <2> QED
    BY <2>1, <2>2 DEF ClaimIsMarked, ClaimIsFresh, CommitIsFinal, BatchIsComplete, Pending
<1>10. CASE UNCHANGED vars
  BY <1>10 DEF vars, ClientCallsTypeOK, ClaimIsMarked, ClaimIsFresh, CommitIsFinal,
               BatchIsComplete, Pending
<1> QED
  BY <1>1, <1>2, <1>3, <1>4, <1>5, <1>6, <1>7, <1>8, <1>9, <1>10
  DEF ClientCallsNext, Settle

\* The books are kept for ever.
LEMMA AlwaysAccounted == ClientCallsSpec => []BatchesAccounted
  BY InitAccounted, StepAccounted, PTL DEF ClientCallsSpec

\* The tracker's state keeps its type, and a deadline is armed only while its
\* invocation is tracked (forget and Close stop it).
THEOREM ClientCallsTypeCorrect == ClientCallsSpec => []ClientCallsTypeOK
<1>1. BatchesAccounted => ClientCallsTypeOK
  BY DEF BatchesAccounted
<1> QED
  BY <1>1, AlwaysAccounted, PTL

\* Result, expire, a failed commit and its retry commit a batch at most once
\* between them, for any number of invocations and calls.
THEOREM ClientCallsOnce == ClientCallsSpec => []BatchCommittedOnce
<1>1. BatchesAccounted => BatchCommittedOnce
  BY DEF BatchesAccounted, CommitIsFinal, BatchCommittedOnce
<1> QED
  BY <1>1, AlwaysAccounted, PTL

\* A committed batch has a result for every call of its invocation: readyLocked
\* copies it only when none is missing.
THEOREM ClientCallsComplete == ClientCallsSpec => []BatchIsComplete
<1>1. BatchesAccounted => BatchIsComplete
  BY DEF BatchesAccounted
<1> QED
  BY <1>1, AlwaysAccounted, PTL

-----------------------------------------------------------------------------
\* The copy a claimant holds is complete and has every answer of the client's
\* that stands.
AnswersInHand ==
  \A i \in Invocations : Pending(i) =>
    \A c \in Calls[i] : /\ results[c] # "none"
                        /\ results[c] = "client" => ordered[c] = "client"

\* What a step does to the answer of a call.
AnswerKept(c) ==
  /\ results[c] = "local" => /\ results'[c] = "local"
                             /\ ordered'[c] \in {ordered[c], "local"}
  /\ results[c] = "client" => /\ \/ results'[c] = "client"
                                 \/ c \in Local /\ results'[c] = "local"
                              /\ batch'[c] \in {batch[c], "client"}

\* What a claim copies has every answer; the other invocations' copies stay.
LEMMA ClaimKeeps ==
  ASSUME BatchesAccounted, AnswersInHand, NEW i \in Invocations,
         NEW who \in {"result", "expire"}, NEW res \in [CallSet -> Sources],
         \A c \in CallSet : results[c] # "none" => res[c] = results[c],
         \A c \in CallSet \ Calls[i] : res[c] = results[c],
         Claim(res, i, who), UNCHANGED batch
  PROVE  AnswersInHand' /\ \A c \in CallSet : AnswerKept(c)
<1> USE DEF BatchesAccounted, ClientCallsTypeOK
<1>1. results' = res
  BY DEF Claim
<1>2. ASSUME NEW j \in Invocations, Pending(j)', NEW c \in Calls[j]
      PROVE  results'[c] # "none" /\ (results'[c] = "client" => ordered'[c] = "client")
  <2>1. c \in CallSet
    BY CallsAreCalls
  <2>2. CASE Ready(res, i) /\ j = i
    <3>1. ordered' = [d \in CallSet |-> IF d \in Calls[i] THEN res[d] ELSE ordered[d]]
      BY <2>2 DEF Claim
    <3>2. c \in Calls[i] /\ res[c] # "none"
      BY <2>2 DEF Ready, Answered
    <3> QED
      BY <1>1, <2>1, <3>1, <3>2
  <2>3. CASE Ready(res, i) /\ j # i
    <3>1. c \notin Calls[i]
      BY <2>3, CallsDisjoint
    <3> QED
      BY <1>1, <1>2, <2>1, <2>3, <3>1 DEF Claim, Put, Pending, AnswersInHand
  <2>4. CASE ~Ready(res, i)
    BY <1>1, <1>2, <2>1, <2>4 DEF Claim, Pending, AnswersInHand
  <2> QED
    BY <2>2, <2>3, <2>4
<1>3. ASSUME NEW c \in CallSet PROVE AnswerKept(c)
  <2>1. ordered'[c] \in {ordered[c], res[c]}
    <3>1. CASE Ready(res, i)
      BY <3>1 DEF Claim
    <3>2. CASE ~Ready(res, i)
      BY <3>2 DEF Claim
    <3> QED
      BY <3>1, <3>2
  <2>2. results[c] \in {"client", "local"} => results'[c] = results[c] /\ res[c] = results[c]
    BY <1>1
  <2> QED
    BY <2>1, <2>2 DEF AnswerKept
<1> QED
  BY <1>1, <1>2, <1>3 DEF AnswersInHand

\* A step of the tracker, seen by the answers it holds: they stay in the results
\* and in the copies, and reach the batch as they are.
LEMMA StepKeeps ==
  ASSUME BatchesAccounted, AnswersInHand, [ClientCallsNext]_vars
  PROVE  AnswersInHand' /\ \A c \in CallSet : AnswerKept(c)
<1> DEFINE Kept == \A c \in CallSet : AnswerKept(c)
<1> USE DEF BatchesAccounted, ClientCallsTypeOK
<1>1. ASSUME NEW i \in Invocations, Hold(i)
      PROVE  AnswersInHand' /\ Kept
  <2>1. UNCHANGED <<claim, ordered, batch>> /\ results' \in [CallSet -> Sources]
    BY <1>1 DEF Hold, Sources
  <2>2. \A c \in CallSet : results'[c] = results[c] \/ (c \in Local /\ results'[c] = "local")
    BY <1>1 DEF Hold
  <2> QED
    BY <2>1, <2>2, CallsAreCalls DEF AnswersInHand, AnswerKept, Pending
<1>2. ASSUME NEW i \in Invocations, Expire(i)
      PROVE  AnswersInHand' /\ Kept
  <2>1. CASE tracked[i] = "pending" /\ ~dispatched[i]
    <3> DEFINE res == [c \in CallSet |-> IF c \in Calls[i] /\ results[c] = "none"
                                         THEN "expired" ELSE results[c]]
    <3>1. Claim(res, i, "expire") /\ UNCHANGED batch
      BY <1>2, <2>1 DEF Expire
    <3>2. res \in [CallSet -> Sources]
      BY DEF Sources
    <3>3. /\ \A c \in CallSet : results[c] # "none" => res[c] = results[c]
          /\ \A c \in CallSet \ Calls[i] : res[c] = results[c]
      OBVIOUS
    <3> HIDE DEF res
    <3> QED
      BY <3>1, <3>2, <3>3, ClaimKeeps
  <2>2. CASE ~(tracked[i] = "pending" /\ ~dispatched[i])
    BY <1>2, <2>2 DEF Expire, AnswersInHand, AnswerKept, Pending
  <2> QED
    BY <2>1, <2>2
<1>3. ASSUME NEW d \in CallSet, Result(d)
      PROVE  AnswersInHand' /\ Kept
  <2> DEFINE res == Put(results, d, "client")
  <2>1. /\ Owner(d) \in Invocations /\ d \in Calls[Owner(d)]
        /\ Claim(res, Owner(d), "result") /\ UNCHANGED batch
        /\ results[d] = "none"
    BY <1>3, OwnerIsOwner DEF Result
  <2>2. res \in [CallSet -> Sources]
    BY DEF Put, Sources
  <2>3. /\ \A c \in CallSet : results[c] # "none" => res[c] = results[c]
        /\ \A c \in CallSet \ Calls[Owner(d)] : res[c] = results[c]
    BY <2>1 DEF Put
  <2> HIDE DEF res
  <2> QED
    BY <2>1, <2>2, <2>3, ClaimKeeps
<1>4. ASSUME NEW i \in Invocations, CommitLands(i)
      PROVE  AnswersInHand' /\ Kept
  <2>1. UNCHANGED <<results, claim, ordered>> /\ Pending(i)
        /\ batch' = [c \in CallSet |-> IF c \in Calls[i] THEN ordered[c] ELSE batch[c]]
    BY <1>4 DEF CommitLands, Pending
  <2> QED
    BY <2>1 DEF AnswersInHand, AnswerKept, Pending
<1>5. ASSUME NEW i \in Invocations, CommitFails(i) \/ Forget(i)
      PROVE  AnswersInHand' /\ Kept
  <2>1. UNCHANGED <<results, ordered, batch>> /\ claim' = Put(claim, i, "nobody")
    BY <1>5 DEF CommitFails, Forget
  <2>2. AnswersInHand'
    BY <2>1 DEF AnswersInHand, Pending, Put
  <2>3. Kept
    BY <2>1 DEF AnswerKept
  <2> QED
    BY <2>2, <2>3
<1>6. ASSUME NEW i \in Invocations, Track(i) \/ DeadlineFires(i)
      PROVE  AnswersInHand' /\ Kept
  BY <1>6 DEF Track, DeadlineFires, AnswersInHand, AnswerKept, Pending
<1>7. CASE Close \/ UNCHANGED vars
  BY <1>7 DEF Close, vars, AnswersInHand, AnswerKept, Pending
<1> QED
  BY <1>1, <1>2, <1>3, <1>4, <1>5, <1>6, <1>7 DEF ClientCallsNext, Settle

\* An answer once in the tracker is never lost, neither to the deadline nor to a
\* batch that was copied before a failed commit: local execution's stays and is
\* in every batch claimed later, the client's yields only to local execution's
\* own result and reaches the trajectory as it was given.
THEOREM ClientCallsAnswersKept == ClientCallsSpec => AnswersAreKept
<1>1. ClientCallsInit => AnswersInHand
  BY DEF ClientCallsInit, AnswersInHand, Pending
<1>2. BatchesAccounted /\ AnswersInHand /\ [ClientCallsNext]_vars => AnswersInHand'
  BY StepKeeps
<1>3. BatchesAccounted /\ AnswersInHand /\ [ClientCallsNext]_vars =>
        [\A c \in CallSet : AnswerKept(c)]_vars
  BY StepKeeps
<1>4. [\A c \in CallSet : AnswerKept(c)]_vars <=>
        [\A c \in CallSet :
           /\ results[c] = "local" => /\ results'[c] = "local"
                                      /\ ordered'[c] \in {ordered[c], "local"}
           /\ results[c] = "client" => /\ \/ results'[c] = "client"
                                          \/ c \in Local /\ results'[c] = "local"
                                       /\ batch'[c] \in {batch[c], "client"}]_vars
  BY DEF AnswerKept
<1> QED
  BY <1>1, <1>2, <1>3, <1>4, AlwaysAccounted, PTL DEF ClientCallsSpec, AnswersAreKept

-----------------------------------------------------------------------------
\* The flag of a tracked invocation is up only while someone holds the claim: a
\* commit that fails takes it down again.
MarkIsHeld ==
  \A i \in Invocations :
    /\ tracked[i] = "new" => ~dispatched[i]
    /\ tracked[i] = "pending" /\ dispatched[i] => Pending(i)

DueSound == MarkIsHeld /\ SettlementIsDue

\* Claiming leaves the flag held, and loses nobody who was to settle.
LEMMA ClaimHolds ==
  ASSUME BatchesAccounted, DueSound, NEW i \in Invocations, NEW who \in {"result", "expire"},
         NEW res, Claim(res, i, who), tracked[i] = "pending", UNCHANGED <<tracked, failures>>
  PROVE  /\ MarkIsHeld'
         /\ \A j \in Invocations : Pending(j) => Pending(j)'
         /\ Ready(res, i) => Pending(i)'
<1>1. /\ dispatched \in [Invocations -> BOOLEAN]
      /\ claim \in [Invocations -> {"nobody", "result", "expire"}]
  BY DEF BatchesAccounted, ClientCallsTypeOK
<1>2. CASE ~Ready(res, i)
  BY <1>1, <1>2 DEF Claim, DueSound, MarkIsHeld, Pending
<1>3. CASE Ready(res, i)
  <2>1. dispatched' = Put(dispatched, i, TRUE) /\ claim' = Put(claim, i, who)
    BY <1>3 DEF Claim
  <2>2. Pending(i)' /\ \A j \in Invocations : j # i => dispatched'[j] = dispatched[j] /\ claim'[j] = claim[j]
    BY <1>1, <2>1 DEF Put, Pending
  <2> QED
    BY <2>2 DEF DueSound, MarkIsHeld, Pending
<1> QED
  BY <1>2, <1>3

\* No step leaves a tracked invocation to nobody: one case per action.
LEMMA StepDue ==
  ASSUME BatchesAccounted, DueSound, [ClientCallsNext]_vars
  PROVE  DueSound'
<1>1. /\ tracked \in [Invocations -> {"new", "pending", "gone"}]
      /\ dispatched \in [Invocations -> BOOLEAN]
      /\ results \in [CallSet -> Sources]
      /\ deadline \in [Invocations -> {"off", "armed", "fired", "done"}]
      /\ claim \in [Invocations -> {"nobody", "result", "expire"}]
      /\ failures \in [Invocations -> Nat]
  BY ClientCallsAssumption DEF BatchesAccounted, ClientCallsTypeOK
<1> USE DEF DueSound, MarkIsHeld, SettlementIsDue, Pending, Put
<1>2. ASSUME NEW i \in Invocations, Track(i) PROVE DueSound'
  BY <1>1, <1>2 DEF Track
<1>3. ASSUME NEW i \in Invocations, Hold(i) PROVE DueSound'
  BY <1>3 DEF Hold
<1>4. ASSUME NEW i \in Invocations, DeadlineFires(i) PROVE DueSound'
  BY <1>1, <1>4 DEF DeadlineFires
<1>5. ASSUME NEW c \in CallSet, Result(c) PROVE DueSound'
  <2>1. PICK i \in Invocations : i = Owner(c)
    BY OwnerIsOwner
  <2>2. /\ tracked[i] = "pending" /\ UNCHANGED <<tracked, deadline, failures>>
        /\ Claim(Put(results, c, "client"), i, "result")
    BY <2>1, <1>5 DEF Result
  <2>3. MarkIsHeld' /\ \A j \in Invocations : Pending(j) => Pending(j)'
    BY <2>2, ClaimHolds
  <2> QED
    BY <2>2, <2>3
<1>6. ASSUME NEW i \in Invocations, Expire(i) PROVE DueSound'
  <2>1. UNCHANGED <<tracked, failures>> /\ deadline[i] = "fired" /\ deadline' = Put(deadline, i, "done")
    BY <1>6 DEF Expire
  <2>2. CASE tracked[i] = "pending" /\ ~dispatched[i]
    <3>1. PICK res : /\ res = [c \in CallSet |-> IF c \in Calls[i] /\ results[c] = "none" THEN "expired"
                                                ELSE results[c]]
                     /\ Claim(res, i, "expire")
      BY <1>6, <2>2 DEF Expire
    <3>2. Ready(res, i)
      BY <2>2, <3>1, CallsAreCalls DEF Ready, Answered
    <3>3. /\ MarkIsHeld' /\ Pending(i)'
          /\ \A j \in Invocations : Pending(j) => Pending(j)'
      BY <2>1, <2>2, <3>1, <3>2, ClaimHolds
    <3> QED
      BY <1>1, <2>1, <3>3
  <2>3. CASE ~(tracked[i] = "pending" /\ ~dispatched[i])
    <3>1. UNCHANGED <<dispatched, claim>>
      BY <1>6, <2>3 DEF Expire
    <3> QED
      BY <1>1, <2>1, <2>3, <3>1
  <2> QED
    BY <2>2, <2>3
<1>7. ASSUME NEW i \in Invocations, CommitLands(i) PROVE DueSound'
  BY <1>7 DEF CommitLands
<1>8. ASSUME NEW i \in Invocations, CommitFails(i) PROVE DueSound'
  BY <1>1, <1>8 DEF CommitFails
<1>9. ASSUME NEW i \in Invocations, Forget(i) PROVE DueSound'
  BY <1>1, <1>9 DEF Forget
<1>10. CASE Close
  BY <1>1, <1>10 DEF Close
<1>11. CASE UNCHANGED vars
  BY <1>11 DEF vars
<1> QED
  BY <1>2, <1>3, <1>4, <1>5, <1>6, <1>7, <1>8, <1>9, <1>10, <1>11 DEF ClientCallsNext, Settle

\* A tracked invocation is never left to nobody: until its commit fails, its
\* deadline has yet to run or a claimant has yet to commit or to forget
\* (clientcalls.go: Track arms the deadline, expire answers for every call that
\* is missing and so completes the batch itself).
THEOREM ClientCallsDue == ClientCallsSpec => []SettlementIsDue
<1>1. ClientCallsInit => DueSound
  BY DEF ClientCallsInit, DueSound, MarkIsHeld, SettlementIsDue
<1>2. BatchesAccounted /\ DueSound /\ [ClientCallsNext]_vars => DueSound'
  BY StepDue
<1>3. DueSound => SettlementIsDue
  BY DEF DueSound
<1> QED
  BY <1>1, <1>2, <1>3, AlwaysAccounted, PTL DEF ClientCallsSpec
=============================================================================
