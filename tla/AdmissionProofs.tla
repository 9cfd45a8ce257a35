--------------------------- MODULE AdmissionProofs --------------------------
(***************************************************************************)
(* Where work waits before it may run: the deferral gate and the admission *)
(* governor, under any policy and for any requests.                        *)
(*                                                                         *)
(* The gate decides on a snapshot it took earlier.  What makes that safe   *)
(* is that whatever has ended since is still to be published, and will     *)
(* wake the driver, or was published and has left a token in its channel   *)
(* (SnapshotIsWatched).                                                    *)
(*                                                                         *)
(* The governor's books are right because a lease is counted once, when it *)
(* is granted, and given back once: a call that holds one is in running,   *)
(* and one that gives up is in running or in waiters and never in both     *)
(* (GovernorSound).  The capacity is kept because the last of the waiters  *)
(* granted in a pass fitted beside all the others.                         *)
(*                                                                         *)
(* Preemption makes room because the lease that would be asked first of    *)
(* those that were not is left alone only when the ones before it suffice, *)
(* and they have all been asked (RoomIsMade).                              *)
(***************************************************************************)
EXTENDS Gate, Governor, FiniteSetTheorems, TLAPS

StopUnpublished(kind) == \E t \in unpublished : t.kind = kind

\* While the driver decides there is work; the batch it offered is the work there
\* is, and a condition that ended since its snapshot is still to be published,
\* unless the driver will be back anyway.
SnapshotIsWatched ==
  /\ driver.pc \in {"ask", "read"} => work # {}
  /\ driver.pc = "read" =>
       \/ signal
       \/ /\ driver.offered = work
          /\ "userStopped" \in Conditions /\ driver.user /\ ~userSpeaking => StopUnpublished("userStopped")
          /\ "agentStopped" \in Conditions /\ driver.agent /\ ~agentSpeaking => StopUnpublished("agentStopped")

DeferralInv == GateTypeOK /\ SnapshotIsWatched /\ DeferralIsOwedAWake

\* The driver consumes a request that is there.
RequestInv ==
  /\ asked \in Nat /\ released \in Nat
  /\ driver.pc = "clear" => requested
  /\ RequestReleasesOneRun

-----------------------------------------------------------------------------
\* A request is counted once when it is made and once when it is consumed.
LEMMA RequestInvStep ==
  ASSUME RequestInv, [GateNext]_gvars
  PROVE  RequestInv'
<1> USE DEF RequestInv, RequestReleasesOneRun
<1>1. CASE UNCHANGED gateVars
  BY <1>1 DEF gateVars
<1>2. CASE \E t \in unpublished : Observe(t)
  BY <1>2 DEF Observe
<1>3. CASE SetBackpressure
  BY <1>3 DEF SetBackpressure
<1>4. CASE RequestResponse
  BY <1>4 DEF RequestResponse
<1>5. CASE \E who \in waking : GateWake(who)
  BY <1>5 DEF GateWake
<1>6. CASE \E k \in Kinds : Submit(k)
  BY <1>6 DEF Submit
<1>7. CASE Drive
  BY <1>7 DEF Drive, Waiting
<1>8. CASE AdmitSnapshot
  BY <1>8 DEF AdmitSnapshot
<1>9. CASE AdmitDecide
  BY <1>9 DEF AdmitDecide, Waiting
<1>10. CASE AdmitConsume
  BY <1>10 DEF AdmitConsume, Waiting
<1> QED
  BY <1>1, <1>2, <1>3, <1>4, <1>5, <1>6, <1>7, <1>8, <1>9, <1>10 DEF GateNext, DriverStep, gvars

\* One response.create releases at most one run (RequestReleasesOneRun).
THEOREM GateRequests == GateSpec => []RequestReleasesOneRun
<1>1. GateInit => RequestInv
  BY DEF GateInit, RequestInv, RequestReleasesOneRun, Waiting
<1> QED
  BY <1>1, RequestInvStep, PTL DEF GateSpec, RequestInv

-----------------------------------------------------------------------------
\* What makes the policy admit what it refused: a condition it named has ended,
\* or it is told something else about load, requests or the batch.
LEMMA AdmitChanges ==
  ASSUME NEW batch, NEW u1 \in BOOLEAN, NEW u2 \in BOOLEAN, NEW a1 \in BOOLEAN, NEW a2 \in BOOLEAN,
         NEW load \in BOOLEAN, NEW request \in BOOLEAN,
         policy \in Policies,
         ~Admit(batch, u1, a1, load, request), Admit(batch, u2, a2, load, request)
  PROVE  \/ "userStopped" \in Conditions /\ u1 /\ ~u2
         \/ "agentStopped" \in Conditions /\ a1 /\ ~a2
  BY GateAssumption DEF Admit, Conditions

\* The gate, the driver and the duplex state they read keep their types.
LEMMA GateTypeStep ==
  ASSUME GateTypeOK, [GateNext]_gvars
  PROVE  GateTypeOK'
<1> DEFINE Drivers == [pc : {"wait", "ask", "read", "clear"}, offered : SUBSET Kinds,
                       user : BOOLEAN, agent : BOOLEAN]
<1>a. Waiting \in Drivers
  BY DEF Waiting
<1>b. [driver EXCEPT !.pc = "clear"] \in Drivers
  BY Zenon DEF GateTypeOK
<1> USE GateAssumption DEF GateTypeOK, FloorTypeOK
<1>1. CASE UNCHANGED gvars
  BY <1>1 DEF gvars, gateVars, floorVars
<1>2. CASE FloorMoves /\ UNCHANGED gateVars
  <2>1. ASSUME NEW who \in Playback \cup {User}, NEW kind \in TransitionKinds, Transition(who, kind)
        PROVE  unpublished' \subseteq [who : Playback \cup {User}, kind : TransitionKinds]
    BY <2>1 DEF Transition
  <2>2. CASE UserTurns
    BY <1>2, <2>1, <2>2 DEF UserTurns, TransitionKinds, gateVars
  <2>3. CASE \E who \in Playback : AgentStarts(who) \/ AgentStops(who)
    BY <1>2, <2>1, <2>3 DEF AgentStarts, AgentStops, TransitionKinds, gateVars
  <2> QED
    BY <1>2, <2>2, <2>3 DEF FloorMoves
<1>3. CASE \E t \in unpublished : Observe(t)
  BY <1>3 DEF Observe, Published, Wake
<1>4. CASE SetBackpressure
  BY <1>4 DEF SetBackpressure, floorVars
<1>5. CASE RequestResponse
  BY <1>5 DEF RequestResponse, floorVars
<1>6. CASE \E who \in waking : GateWake(who)
  BY <1>6 DEF GateWake, Wake, floorVars
<1>7. CASE \E k \in Kinds : Submit(k)
  BY <1>7 DEF Submit, floorVars
<1>8. CASE Drive
  BY <1>8 DEF Drive, Waiting, floorVars
<1>9. CASE AdmitSnapshot
  <2>1. driver' \in Drivers
    BY <1>9 DEF AdmitSnapshot
  <2> QED
    BY <1>9, <2>1 DEF AdmitSnapshot, floorVars
<1>10. CASE AdmitDecide
  <2>1. /\ driver' \in {Waiting, [driver EXCEPT !.pc = "clear"]}
        /\ work' \in {work, {}}
    BY <1>10 DEF AdmitDecide
  <2>2. driver' \in Drivers
    BY <1>a, <1>b, <2>1
  <2> QED
    BY <1>10, <2>1, <2>2 DEF AdmitDecide, floorVars
<1>11. CASE AdmitConsume
  <2>1. driver' \in Drivers
    BY <1>a, <1>11 DEF AdmitConsume
  <2>2. released' \in Nat /\ work' \subseteq Kinds
    BY <1>11 DEF AdmitConsume
  <2>3. requested' \in BOOLEAN
    BY <1>11 DEF AdmitConsume
  <2>4. UNCHANGED <<userSpeaking, agentSpeaking, unpublished, policy, backpressure, waking, signal, asked>>
    BY <1>11 DEF AdmitConsume, floorVars
  <2> QED
    BY <2>1, <2>2, <2>3, <2>4
<1> QED
  BY <1>1, <1>2, <1>3, <1>4, <1>5, <1>6, <1>7, <1>8, <1>9, <1>10, <1>11 DEF GateNext, DriverStep

-----------------------------------------------------------------------------
\* A condition that ends leaves its stop to be published.
LEMMA FloorStops ==
  ASSUME GateTypeOK, FloorMoves
  PROVE  /\ unpublished \subseteq unpublished'
         /\ userSpeaking /\ ~userSpeaking' => StopUnpublished("userStopped")'
         /\ agentSpeaking /\ ~agentSpeaking' => StopUnpublished("agentStopped")'
<1>a. ASSUME NEW who, NEW kind, Transition(who, kind)
      PROVE  unpublished \subseteq unpublished' /\ StopUnpublished(kind)'
  <2>1. [who |-> who, kind |-> kind] \in unpublished' /\ [who |-> who, kind |-> kind].kind = kind
    BY <1>a DEF Transition
  <2> QED
    BY <1>a, <2>1 DEF Transition, StopUnpublished
<1> USE DEF GateTypeOK, FloorTypeOK
<1>1. CASE UserTurns
  BY <1>1, <1>a DEF UserTurns
<1>2. CASE \E who \in Playback : AgentStarts(who) \/ AgentStops(who)
  <2> PICK who \in Playback : AgentStarts(who) \/ AgentStops(who)
    BY <1>2
  <2>1. CASE AgentStarts(who)
    BY <2>1, <1>a DEF AgentStarts
  <2>2. CASE AgentStops(who)
    BY <2>2, <1>a DEF AgentStops
  <2> QED
    BY <2>1, <2>2
<1> QED
  BY <1>1, <1>2 DEF FloorMoves

\* Every step leaves the driver's snapshot watched and the deferred work owed a
\* wake-up.
LEMMA DeferralStep ==
  ASSUME DeferralInv, [GateNext]_gvars
  PROVE  (SnapshotIsWatched /\ DeferralIsOwedAWake)'
<1> DEFINE Now == Admit(work, userSpeaking, agentSpeaking, backpressure, requested)
<1>t. GateTypeOK /\ SnapshotIsWatched /\ DeferralIsOwedAWake
  BY DEF DeferralInv
<1>1. CASE UNCHANGED gvars
  BY <1>1, <1>t DEF gvars, gateVars, floorVars, SnapshotIsWatched, DeferralIsOwedAWake, StopUnpublished,
     Admit, Conditions, Autonomous
<1>2. CASE FloorMoves /\ UNCHANGED gateVars
  <2>1. /\ unpublished \subseteq unpublished'
        /\ userSpeaking /\ ~userSpeaking' => StopUnpublished("userStopped")'
        /\ agentSpeaking /\ ~agentSpeaking' => StopUnpublished("agentStopped")'
    BY <1>2, <1>t, FloorStops
  <2>2. SnapshotIsWatched'
    BY <1>2, <1>t, <2>1 DEF SnapshotIsWatched, StopUnpublished, Conditions, gateVars
  <2>3. userSpeaking' \in BOOLEAN /\ agentSpeaking' \in BOOLEAN
    BY <1>t, <1>2, GateTypeStep DEF GateTypeOK, FloorTypeOK, GateNext
  <2>4. ASSUME work # {}, driver.pc = "wait", ~signal, Now'
        PROVE  (\E t \in unpublished' : t.kind \in Conditions) \/ waking # {}
    <3>1. Admit(work, userSpeaking', agentSpeaking', backpressure, requested)
      BY <1>2, <2>4 DEF Admit, Autonomous, gateVars
    <3>2. CASE Now
      BY <1>t, <2>1, <2>4, <3>2 DEF DeferralIsOwedAWake
    <3>3. CASE ~Now
      <4>1. \/ "userStopped" \in Conditions /\ userSpeaking /\ ~userSpeaking'
            \/ "agentStopped" \in Conditions /\ agentSpeaking /\ ~agentSpeaking'
        BY <1>t, <2>3, <3>1, <3>3, AdmitChanges DEF GateTypeOK, FloorTypeOK
      <4> QED
        BY <2>1, <4>1 DEF StopUnpublished
    <3> QED
      BY <3>2, <3>3
  <2>5. DeferralIsOwedAWake'
    BY <1>2, <2>4 DEF DeferralIsOwedAWake, Conditions, gateVars
  <2> QED
    BY <2>2, <2>5
<1>3. CASE \E t \in unpublished : Observe(t)
  <2> PICK t \in unpublished : Observe(t)
    BY <1>3
  <2>1. CASE t.kind \in Conditions
    BY <1>t, <2>1 DEF Observe, Wake, SnapshotIsWatched, DeferralIsOwedAWake
  <2>2. CASE t.kind \notin Conditions
    <3>1. Conditions' = Conditions /\ (Now' <=> Now)
      BY DEF Observe, Published, Conditions, Admit, Autonomous
    <3>2. \A kind \in Conditions : StopUnpublished(kind) => StopUnpublished(kind)'
      BY <2>2 DEF Observe, Published, StopUnpublished
    <3>3. (\E u \in unpublished : u.kind \in Conditions) => \E u \in unpublished' : u.kind \in Conditions
      BY <2>2 DEF Observe, Published
    <3>4. UNCHANGED <<signal, driver, work, waking, userSpeaking, agentSpeaking>>
      BY <2>2 DEF Observe, Published
    <3> QED
      BY <1>t, <3>1, <3>2, <3>3, <3>4 DEF SnapshotIsWatched, DeferralIsOwedAWake
  <2> QED
    BY <2>1, <2>2
<1>4. CASE SetBackpressure
  <2>1. SnapshotIsWatched'
    BY <1>4, <1>t DEF SetBackpressure, SnapshotIsWatched, StopUnpublished, Conditions, floorVars
  <2>2. CASE backpressure
    BY <1>4, <2>1, <2>2 DEF SetBackpressure, DeferralIsOwedAWake
  <2>3. CASE ~backpressure
    <3>1. Now' => Now
      BY <1>4, <2>3 DEF SetBackpressure, Admit, Autonomous, floorVars
    <3>2. Conditions' = Conditions /\ UNCHANGED <<work, driver, signal, unpublished, waking>>
      BY <1>4, <2>3 DEF SetBackpressure, Conditions, floorVars
    <3> QED
      BY <1>t, <2>1, <3>1, <3>2 DEF DeferralIsOwedAWake
  <2> QED
    BY <2>2, <2>3
<1>5. CASE RequestResponse
  <2>1. SnapshotIsWatched'
    BY <1>5, <1>t DEF RequestResponse, SnapshotIsWatched, StopUnpublished, Conditions, floorVars
  <2> QED
    BY <1>5, <2>1 DEF RequestResponse, DeferralIsOwedAWake
<1>6. CASE \E who \in waking : GateWake(who)
  BY <1>6, <1>t DEF GateWake, Wake, SnapshotIsWatched, DeferralIsOwedAWake, StopUnpublished, Conditions, floorVars
<1>7. CASE \E k \in Kinds : Submit(k)
  BY <1>7, <1>t DEF Submit, SnapshotIsWatched, DeferralIsOwedAWake
<1>8. CASE Drive
  BY <1>8, <1>t DEF Drive, Waiting, SnapshotIsWatched, DeferralIsOwedAWake
<1>9. CASE AdmitSnapshot
  BY <1>9, <1>t DEF AdmitSnapshot, SnapshotIsWatched, DeferralIsOwedAWake, StopUnpublished, floorVars
<1>10. CASE AdmitDecide
  <2>1. SnapshotIsWatched'
    <3>1. driver'.pc \in {"wait", "clear"}
      BY <1>10, <1>t DEF AdmitDecide, Waiting, GateTypeOK
    <3> QED
      BY <3>1 DEF SnapshotIsWatched
  <2>2. ASSUME work' # {}, driver'.pc = "wait", ~signal', Now'
        PROVE  \E t \in unpublished : t.kind \in Conditions
    <3>1. /\ ~Admit(driver.offered, driver.user, driver.agent, backpressure, requested)
          /\ work' = work
      BY <1>10, <1>t, <2>2 DEF AdmitDecide, Waiting, GateTypeOK
    <3>2. driver.pc = "read" /\ ~signal
      BY <1>10, <2>2 DEF AdmitDecide
    <3>3. driver.offered = work /\ driver.user \in BOOLEAN /\ driver.agent \in BOOLEAN
      BY <1>t, <3>2 DEF SnapshotIsWatched, GateTypeOK
    <3>4. Now
      BY <1>10, <2>2, <3>1 DEF AdmitDecide, Admit, Autonomous, floorVars
    <3>5. \/ "userStopped" \in Conditions /\ driver.user /\ ~userSpeaking
          \/ "agentStopped" \in Conditions /\ driver.agent /\ ~agentSpeaking
      BY <1>t, <3>1, <3>3, <3>4, AdmitChanges DEF GateTypeOK, FloorTypeOK
    <3> QED
      BY <1>t, <3>2, <3>5 DEF SnapshotIsWatched, StopUnpublished
  <2>3. DeferralIsOwedAWake'
    BY <1>10, <2>2 DEF AdmitDecide, DeferralIsOwedAWake, Conditions, floorVars
  <2> QED
    BY <2>1, <2>3
<1>11. CASE AdmitConsume
  BY <1>11, <1>t DEF AdmitConsume, Waiting, SnapshotIsWatched, DeferralIsOwedAWake
<1> QED
  BY <1>1, <1>2, <1>3, <1>4, <1>5, <1>6, <1>7, <1>8, <1>9, <1>10, <1>11 DEF GateNext, DriverStep

\* The invariant holds when the session starts, and every step keeps it.
LEMMA AlwaysDeferral == GateSpec => []DeferralInv
<1>1. GateInit => DeferralInv
  <2> SUFFICES ASSUME GateInit PROVE DeferralInv
    OBVIOUS
  <2>1. FloorTypeOK
    BY DEF GateInit, FloorInit, FloorTypeOK
  <2>2. driver = Waiting /\ driver \in [pc : {"wait", "ask", "read", "clear"}, offered : SUBSET Kinds,
                                        user : BOOLEAN, agent : BOOLEAN]
    BY DEF GateInit, Waiting
  <2>3. /\ policy \in Policies
        /\ backpressure \in BOOLEAN /\ requested \in BOOLEAN /\ signal \in BOOLEAN
        /\ waking \subseteq {"load", "client"} /\ work = {}
    BY DEF GateInit
  <2>4. asked \in 0..MaxRequests /\ released \in Nat
    BY GateAssumption DEF GateInit
  <2>5. GateTypeOK
    BY <2>1, <2>2, <2>3, <2>4 DEF GateTypeOK
  <2> QED
    BY <2>2, <2>3, <2>5 DEF DeferralInv, SnapshotIsWatched, DeferralIsOwedAWake, Waiting
<1>2. DeferralInv /\ [GateNext]_gvars => DeferralInv'
  BY GateTypeStep, DeferralStep DEF DeferralInv
<1> QED
  BY <1>1, <1>2, PTL DEF GateSpec

\* Type correctness of the deferral gate: an ask carries the bits it read, a wake-up
\* on its way is a load or a client signal, and requests stay within their bound.
THEOREM GateTypeCorrect == GateSpec => []GateTypeOK
<1>1. DeferralInv => GateTypeOK
  BY DEF DeferralInv
<1> QED
  BY <1>1, AlwaysDeferral, PTL

\* Work the policy would admit is never left asleep without a wake-up on its way
\* (DeferralIsOwedAWake), for any policies, requests and playback goroutines.
THEOREM GateDeferrals == GateSpec => []DeferralIsOwedAWake
<1>1. DeferralInv => DeferralIsOwedAWake
  BY DEF DeferralInv
<1> QED
  BY <1>1, AlwaysDeferral, PTL

-----------------------------------------------------------------------------
\* The governor.

\* The requests that have joined the queue.
Numbered == {r \in Requests : sequence[r] # 0}

\* Arrivals are numbered in order, and never alike.
ArrivalsSound ==
  /\ sequence \in [Requests -> Nat] /\ IsFiniteSet(Numbered)
  /\ \A r \in Numbered : sequence[r] <= Cardinality(Numbered)
  /\ \A q, r \in Numbered : sequence[q] = sequence[r] => q = r

\* Where a call stands, the queue and the leases agree.
CallersSound ==
  /\ caller \in [Requests -> Callers] /\ now \in Nat
  /\ waiters \subseteq Numbered /\ running \subseteq Numbered /\ waiters \cap running = {}
  /\ \A r \in Requests : /\ caller[r] = "new" => r \notin Numbered
                         /\ caller[r] = "holding" => r \in running
  /\ \A r \in waiters : caller[r] = "selecting"

\* The inductive invariant of the governor.
GovernorSound == ArrivalsSound /\ CallersSound /\ LeaseIsOwned /\ CapacityRespected /\ WorkConserving

\* Every set of numbers has a least one.
LEMMA LeastNumber ==
  ASSUME NEW T, T \subseteq Nat, T # {}
  PROVE  \E n \in T : \A m \in T : n <= m
<1>1. PICK n \in T : \A m \in T : ~(<<m, n>> \in OpToRel(<, Nat))
  BY WFMin, NatLessThanWellFounded
<1>2. ASSUME NEW m \in T PROVE n <= m
  <2>1. ~(m < n)
    BY <1>1 DEF OpToRel
  <2> QED
    BY <2>1
<1> QED
  BY <1>2

\* What finitely many requests take is a number of units.
LEMMA UnitsFinite ==
  ASSUME NEW S \in SUBSET Requests, IsFiniteSet(S)
  PROVE  IsFiniteSet(Units(S)) /\ TotalCost(S) \in Nat
<1>1. IsFiniteSet(S \X (1..Capacity))
  <2>1. IsFiniteSet(1..Capacity)
    BY FS_Interval, GovernorAssumption
  <2> QED
    BY <2>1, FS_Product, Zenon
<1>2. Units(S) \subseteq S \X (1..Capacity)
  BY GovernorAssumption DEF Units
<1>3. IsFiniteSet(Units(S))
  BY <1>1, <1>2, FS_Subset
<1> QED
  BY <1>3, FS_CardinalityType DEF TotalCost

\* One request takes its cost.
LEMMA CostOfOne ==
  ASSUME NEW r \in Requests
  PROVE  TotalCost({r}) = Cost[r]
<1>1. Units({r}) = {r} \X (1..Cost[r])
  BY DEF Units
<1>2. Cost[r] \in Nat \ {0}
  BY GovernorAssumption
<1>3. IsFiniteSet({r}) /\ Cardinality({r}) = 1
  BY FS_Singleton
<1>4. IsFiniteSet(1..Cost[r]) /\ Cardinality(1..Cost[r]) = Cost[r]
  BY <1>2, FS_Interval, SMTT(30)
<1>5. Cardinality({r} \X (1..Cost[r])) = 1 * Cost[r]
  <2>1. Cardinality({r} \X (1..Cost[r])) = Cardinality({r}) * Cardinality(1..Cost[r])
    BY <1>3, <1>4, FS_Product, Zenon
  <2> QED
    BY <1>3, <1>4, <2>1, Zenon
<1>6. TotalCost({r}) = 1 * Cost[r]
  BY <1>1, <1>5, Zenon DEF TotalCost
<1> QED
  BY <1>2, <1>6

\* Costs of different requests add up.
LEMMA CostsAdd ==
  ASSUME NEW S \in SUBSET Requests, NEW T \in SUBSET Requests, IsFiniteSet(S), IsFiniteSet(T), S \cap T = {}
  PROVE  TotalCost(S \cup T) = TotalCost(S) + TotalCost(T)
<1>1. IsFiniteSet(Units(S)) /\ IsFiniteSet(Units(T)) /\ TotalCost(S) \in Nat /\ TotalCost(T) \in Nat
  BY UnitsFinite
<1>2. Units(S \cup T) = Units(S) \cup Units(T)
  BY DEF Units
<1>3. Units(S) \cap Units(T) = {}
  BY DEF Units
<1>4. Cardinality(Units(S) \cup Units(T)) = Cardinality(Units(S)) + Cardinality(Units(T)) - 0
  BY <1>1, <1>3, FS_Union, FS_EmptySet
<1>5. TotalCost(S \cup T) = Cardinality(Units(S) \cup Units(T))
  BY <1>2, Zenon DEF TotalCost
<1> QED
  BY <1>1, <1>4, <1>5 DEF TotalCost

\* ... those of the lower classes too.
LEMMA LowerAdds ==
  ASSUME NEW S \in SUBSET Requests, NEW T \in SUBSET Requests, IsFiniteSet(S), IsFiniteSet(T), S \cap T = {}
  PROVE  /\ TotalLower(S \cup T) = TotalLower(S) + TotalLower(T)
         /\ TotalLower(S) \in Nat /\ TotalLower(T) \in Nat
<1> DEFINE L(U) == {r \in U : Lower(r)}
<1>1. L(S) \in SUBSET Requests /\ L(T) \in SUBSET Requests /\ IsFiniteSet(L(S)) /\ IsFiniteSet(L(T))
      /\ L(S) \cap L(T) = {} /\ L(S \cup T) = L(S) \cup L(T)
  BY FS_Subset
<1>2. TotalLower(S) = TotalCost(L(S)) /\ TotalLower(T) = TotalCost(L(T)) /\ TotalLower(S \cup T) = TotalCost(L(S \cup T))
  BY DEF TotalLower
<1> HIDE DEF L
<1> QED
  BY <1>1, <1>2, CostsAdd, UnitsFinite

\* What one request takes from the lower classes' share.
LEMMA LowerOfOne ==
  ASSUME NEW r \in Requests
  PROVE  TotalLower({r}) = LowerCost(r) /\ LowerCost(r) \in Nat /\ Cost[r] \in Nat
<1>1. Cost[r] \in Nat
  BY GovernorAssumption
<1>2. CASE Lower(r)
  <2>1. {q \in {r} : Lower(q)} = {r}
    BY <1>2
  <2> QED
    BY <1>1, <1>2, <2>1, CostOfOne DEF TotalLower, LowerCost
<1>3. CASE ~Lower(r)
  <2>1. {q \in {r} : Lower(q)} = {}
    BY <1>3
  <2>2. Units({}) = {}
    BY DEF Units
  <2> QED
    BY <1>1, <1>3, <2>1, <2>2, FS_EmptySet DEF TotalLower, TotalCost, LowerCost
<1> QED
  BY <1>2, <1>3

\* compareWaiters orders waiters that arrived one after the other.
LEMMA PrecedesOrders ==
  ASSUME NEW seq \in [Requests -> Nat], NEW q \in Requests, NEW r \in Requests, NEW s \in Requests
  PROVE  /\ ~Precedes(q, q, seq)
         /\ Precedes(q, r, seq) /\ Precedes(r, s, seq) => Precedes(q, s, seq)
         /\ q # r /\ seq[q] # seq[r] => Precedes(q, r, seq) \/ Precedes(r, q, seq)
<1>1. \A x \in Requests : Class[x] \in Nat /\ Deadline[x] \in Nat /\ seq[x] \in Nat
  BY GovernorAssumption
<1> QED
  BY <1>1 DEF Precedes

\* Of finitely many, one comes last.
LEMMA LastOf ==
  ASSUME NEW seq \in [Requests -> Nat], NEW G \in SUBSET Requests, IsFiniteSet(G), G # {},
         \A q, r \in G : seq[q] = seq[r] => q = r
  PROVE  \E r \in G : \A q \in G \ {r} : Precedes(q, r, seq)
<1> DEFINE Behind(r) == {q \in G : Precedes(r, q, seq)}
           T == {Cardinality(Behind(r)) : r \in G}
<1>1. ASSUME NEW r \in G PROVE IsFiniteSet(Behind(r)) /\ Cardinality(Behind(r)) \in Nat
  BY FS_Subset, FS_CardinalityType
<1>2. T \subseteq Nat /\ T # {}
  <2> HIDE DEF Behind
  <2> QED
    BY <1>1
<1>3. PICK n \in T : \A m \in T : n <= m
  <2> HIDE DEF T
  <2> QED
    BY <1>2, LeastNumber
<1>4. PICK r \in G : n = Cardinality(Behind(r))
  BY <1>3
<1>5. Behind(r) = {}
  <2> SUFFICES ASSUME Behind(r) # {} PROVE FALSE
    OBVIOUS
  <2>1. PICK q \in G : Precedes(r, q, seq)
    OBVIOUS
  <2>2. Behind(q) \subseteq Behind(r) /\ q \in Behind(r) /\ q \notin Behind(q)
    BY <2>1, PrecedesOrders
  <2>3. Cardinality(Behind(q)) \in T /\ Cardinality(Behind(q)) \in Nat /\ Cardinality(Behind(r)) \in Nat
    BY <1>1
  <2> HIDE DEF Behind, T
  <2>4. Cardinality(Behind(q)) <= Cardinality(Behind(r)) /\ Cardinality(Behind(q)) # Cardinality(Behind(r))
    BY <1>1, <2>2, FS_Subset
  <2> QED
    BY <1>3, <1>4, <2>3, <2>4
<1>6. ASSUME NEW q \in G \ {r} PROVE Precedes(q, r, seq)
  <2>1. ~Precedes(r, q, seq)
    BY <1>5
  <2>2. q # r /\ seq[q] # seq[r]
    OBVIOUS
  <2> QED
    BY <2>1, <2>2, PrecedesOrders
<1> QED
  BY <1>6

\* What part of a set takes is no more than what the set takes.
LEMMA PartCosts ==
  ASSUME NEW G \in SUBSET Requests, IsFiniteSet(G), NEW B \in SUBSET G
  PROVE  /\ TotalCost(G) = TotalCost(B) + TotalCost(G \ B) /\ TotalLower(G) = TotalLower(B) + TotalLower(G \ B)
         /\ TotalCost(G) \in Nat /\ TotalCost(B) \in Nat /\ TotalCost(G \ B) \in Nat
         /\ TotalLower(G) \in Nat /\ TotalLower(B) \in Nat /\ TotalLower(G \ B) \in Nat
<1>1. PICK C : C = G \ B
  OBVIOUS
<1>2. /\ B \in SUBSET Requests /\ C \in SUBSET Requests /\ B \cap C = {} /\ G = B \cup C
      /\ IsFiniteSet(B) /\ IsFiniteSet(C)
  BY <1>1, FS_Subset
<1>3. TotalCost(B \cup C) = TotalCost(B) + TotalCost(C) /\ TotalCost(B) \in Nat /\ TotalCost(C) \in Nat
  BY <1>2, CostsAdd, UnitsFinite
<1>4. TotalLower(B \cup C) = TotalLower(B) + TotalLower(C) /\ TotalLower(B) \in Nat /\ TotalLower(C) \in Nat
  BY <1>2, LowerAdds
<1>5. TotalCost(G) = TotalCost(B \cup C) /\ TotalLower(G) = TotalLower(B \cup C)
  BY <1>2, Zenon
<1> QED
  BY <1>1, <1>3, <1>4, <1>5

\* A pass of scheduleLocked keeps the books and the capacity, and leaves nobody
\* waiting whom the rest would serve.
LEMMA Scheduled ==
  ASSUME NEW seq \in [Requests -> Nat], NEW w \in SUBSET Requests, NEW run \in SUBSET Requests,
         IsFiniteSet(w), IsFiniteSet(run), w \cap run = {},
         \A q, r \in w : seq[q] = seq[r] => q = r,
         NEW p, NEW u, NEW l, u = TotalCost(run), l = TotalLower(run),
         u <= Capacity, l <= Capacity - ReservedInteractive,
         Schedule(w, run, p, u, l, seq)
  PROVE  /\ waiters' \subseteq w /\ run \subseteq running' /\ running' \subseteq run \cup w
         /\ waiters' \cap running' = {}
         /\ CapacityRespected' /\ WorkConserving'
<1>1. PICK G \in SUBSET w :
        /\ Grants(G, w, u, l, seq)
        /\ waiters' = {r \in w \ G : ~Expired(r)}
        /\ running' = run \cup G
        /\ used' = u + TotalCost(G) /\ lowerPriorityUsed' = l + TotalLower(G)
  BY DEF Schedule
<1>2. G \in SUBSET Requests /\ IsFiniteSet(G) /\ run \cap G = {}
  BY FS_Subset
<1>3. /\ TotalCost(run \cup G) = u + TotalCost(G) /\ u \in Nat /\ TotalCost(G) \in Nat
      /\ TotalLower(run \cup G) = l + TotalLower(G) /\ l \in Nat /\ TotalLower(G) \in Nat
  BY <1>2, CostsAdd, LowerAdds, UnitsFinite
<1> DEFINE before(r) == {q \in G : Precedes(q, r, seq)}
<1>4. ASSUME NEW r \in w
      PROVE  r \in G <=> ~Expired(r) /\ Fits(r, u + TotalCost(before(r)), l + TotalLower(before(r)))
  BY <1>1 DEF Grants
<1>5. ASSUME NEW r \in w
      PROVE  /\ TotalCost(before(r)) \in Nat /\ TotalCost(before(r)) <= TotalCost(G)
             /\ TotalLower(before(r)) \in Nat /\ TotalLower(before(r)) <= TotalLower(G)
  <2>1. PICK B \in SUBSET G : B = before(r)
    OBVIOUS
  <2> HIDE DEF before
  <2>2. /\ TotalCost(G) = TotalCost(B) + TotalCost(G \ B) /\ TotalLower(G) = TotalLower(B) + TotalLower(G \ B)
        /\ TotalCost(B) \in Nat /\ TotalCost(G \ B) \in Nat
        /\ TotalLower(B) \in Nat /\ TotalLower(G \ B) \in Nat
    BY <1>2, PartCosts
  <2> QED
    BY <2>1, <2>2
<1>6. Capacity \in Nat /\ ReservedInteractive \in Nat /\ \A r \in Requests : Cost[r] \in Nat
  BY GovernorAssumption
<1>7. used' <= Capacity
  <2>1. CASE G = {}
    <3>1. TotalCost({}) = 0
      BY FS_EmptySet DEF TotalCost, Units
    <3> QED
      BY <1>1, <1>3, <2>1, <3>1
  <2>2. CASE G # {}
    <3>1. PICK r \in G : \A q \in G \ {r} : Precedes(q, r, seq)
      BY <1>2, <2>2, LastOf
    <3>2. PICK B : B = G \ {r}
      OBVIOUS
    <3>3. before(r) = B
      BY <1>2, <3>1, <3>2, PrecedesOrders
    <3> HIDE DEF before
    <3>4. B \in SUBSET G /\ G \ B = {r} /\ r \in w /\ r \in Requests
      BY <1>2, <3>2
    <3>5. TotalCost(G) = TotalCost(B) + Cost[r] /\ TotalCost(B) \in Nat
      <4>1. TotalCost(G) = TotalCost(B) + TotalCost(G \ B) /\ TotalCost(B) \in Nat
        BY <1>2, <3>4, PartCosts
      <4>2. TotalCost(G \ B) = TotalCost({r})
        BY <3>4, Zenon
      <4> QED
        BY <3>4, <4>1, <4>2, CostOfOne
    <3>6. Fits(r, u + TotalCost(B), l + TotalLower(B))
      <4>1. Fits(r, u + TotalCost(before(r)), l + TotalLower(before(r)))
        BY <1>4, <3>4
      <4> QED
        BY <3>3, <4>1, Zenon
    <3>7. u + TotalCost(B) + Cost[r] <= Capacity
      BY <3>6 DEF Fits
    <3> QED
      BY <1>1, <1>3, <1>6, <3>4, <3>5, <3>7
  <2> QED
    BY <2>1, <2>2
<1>8. lowerPriorityUsed' <= Capacity - ReservedInteractive
  <2> DEFINE L == {r \in G : Lower(r)}
  <2>1. TotalLower(G) = TotalCost(L)
    BY DEF TotalLower
  <2>2. CASE L = {}
    <3>1. TotalCost({}) = 0
      BY FS_EmptySet DEF TotalCost, Units
    <3>2. TotalCost(L) = 0
      BY <2>2, <3>1, Zenon
    <3> QED
      BY <1>1, <1>3, <2>1, <3>2
  <2>3. CASE L # {}
    <3>1. L \in SUBSET Requests /\ IsFiniteSet(L) /\ L \subseteq w
      BY <1>2, FS_Subset
    <3>2. PICK r \in L : \A q \in L \ {r} : Precedes(q, r, seq)
      <4> HIDE DEF L
      <4> QED
        BY <2>3, <3>1, LastOf
    <3>3. PICK B : B = L \ {r}
      OBVIOUS
    <3>4. {q \in before(r) : Lower(q)} = B
      BY <1>2, <3>2, <3>3, PrecedesOrders
    <3>5. Lower(r) /\ r \in G /\ r \in w /\ r \in Requests
      BY <1>2, <3>2
    <3> HIDE DEF before, L
    <3>6. TotalLower(before(r)) = TotalCost(B)
      BY <3>4, Zenon DEF TotalLower
    <3>7. B \in SUBSET L /\ L \ B = {r}
      BY <3>2, <3>3
    <3>8. TotalCost(L) = TotalCost(B) + Cost[r] /\ TotalCost(B) \in Nat
      <4>1. TotalCost(L) = TotalCost(B) + TotalCost(L \ B) /\ TotalCost(B) \in Nat
        BY <3>1, <3>7, PartCosts
      <4>2. TotalCost(L \ B) = TotalCost({r})
        BY <3>7, Zenon
      <4> QED
        BY <3>5, <4>1, <4>2, CostOfOne
    <3>9. Fits(r, u + TotalCost(before(r)), l + TotalLower(before(r)))
      BY <1>4, <3>5
    <3>10. l + TotalLower(before(r)) + Cost[r] <= Capacity - ReservedInteractive
      BY <3>5, <3>9 DEF Fits
    <3> QED
      BY <1>1, <1>3, <1>6, <2>1, <3>5, <3>6, <3>8, <3>10
  <2> QED
    BY <2>2, <2>3
<1>9. CapacityRespected'
  <2>1. TotalCost(running') = TotalCost(run \cup G) /\ TotalLower(running') = TotalLower(run \cup G)
    BY <1>1, Zenon
  <2>2. used' = TotalCost(running') /\ lowerPriorityUsed' = TotalLower(running')
    BY <1>1, <1>3, <2>1
  <2> QED
    BY <1>7, <1>8, <2>2 DEF CapacityRespected, TotalCost, TotalLower, Units
<1>10. WorkConserving'
  <2> SUFFICES ASSUME NEW r \in waiters' PROVE ~Fits(r, used', lowerPriorityUsed')
    BY DEF WorkConserving, Fits
  <2>1. r \in w /\ r \in Requests /\ r \notin G /\ ~Expired(r)
    BY <1>1
  <2>2. ~Fits(r, u + TotalCost(before(r)), l + TotalLower(before(r)))
    BY <1>4, <2>1
  <2> HIDE DEF before
  <2> QED
    BY <1>1, <1>3, <1>5, <1>6, <2>1, <2>2 DEF Fits
<1> QED
  BY <1>1, <1>9, <1>10

\* Granting leases to calls that are selecting keeps the callers in order.
LEMMA BooksKept ==
  ASSUME GovernorSound, ArrivalsSound', caller' \in [Requests -> Callers], now' = now,
         NEW w \in SUBSET Numbered', NEW run \in SUBSET Numbered',
         w \cap run = {}, NEW p, NEW u, NEW l, u = TotalCost(run), l = TotalLower(run),
         u <= Capacity, l <= Capacity - ReservedInteractive,
         Schedule(w, run, p, u, l, sequence'),
         \A r \in w : caller'[r] = "selecting",
         \A r \in run : caller'[r] \in {"selecting", "holding"},
         \A r \in Requests : /\ caller'[r] = "new" => r \notin Numbered'
                             /\ caller'[r] = "holding" => r \in run
  PROVE  GovernorSound'
<1>1. /\ sequence' \in [Requests -> Nat] /\ IsFiniteSet(Numbered')
      /\ \A q, r \in Numbered' : sequence'[q] = sequence'[r] => q = r
  BY DEF ArrivalsSound
<1>2. Numbered' \subseteq Requests
  BY DEF Numbered
<1> DEFINE N == Numbered'
<1> HIDE DEF N
<1>3. w \in SUBSET Requests /\ run \in SUBSET Requests /\ IsFiniteSet(w) /\ IsFiniteSet(run)
  BY <1>1, <1>2, FS_Subset
<1>4. \A q, r \in w : sequence'[q] = sequence'[r] => q = r
  BY <1>1
<1>5. /\ waiters' \subseteq w /\ run \subseteq running' /\ running' \subseteq run \cup w
      /\ waiters' \cap running' = {}
      /\ CapacityRespected' /\ WorkConserving'
  BY <1>1, <1>3, <1>4, Scheduled
<1>6. /\ waiters' \subseteq Numbered' /\ running' \subseteq Numbered'
      /\ \A r \in Requests : caller'[r] = "holding" => r \in running'
      /\ \A r \in waiters' : caller'[r] = "selecting"
      /\ \A r \in running' : caller'[r] \in {"selecting", "holding"}
  BY <1>5
<1>7. CallersSound'
  BY <1>5, <1>6 DEF CallersSound, GovernorSound
<1>8. LeaseIsOwned'
  BY <1>6 DEF LeaseIsOwned
<1> QED
  BY <1>5, <1>7, <1>8 DEF GovernorSound

\* The queue, the leases and the books are as they were.
LEMMA BooksUnchanged ==
  ASSUME GovernorSound, UNCHANGED <<sequence, waiters, running, used, lowerPriorityUsed>>, now' \in Nat,
         caller' \in [Requests -> Callers],
         \A r \in Requests : \/ caller'[r] = caller[r]
                             \/ caller'[r] = "holding" /\ r \in running
                             \/ caller'[r] = "returned" /\ r \notin waiters \cup running
  PROVE  GovernorSound'
<1>1. Numbered' = Numbered
  BY DEF Numbered
<1>2. ArrivalsSound'
  BY <1>1 DEF GovernorSound, ArrivalsSound
<1>3. /\ waiters \subseteq Numbered /\ running \subseteq Numbered /\ waiters \cap running = {}
      /\ caller \in [Requests -> Callers] /\ Numbered \subseteq Requests
      /\ \A r \in waiters : caller[r] = "selecting"
      /\ \A r \in running : caller[r] \in {"selecting", "holding"}
      /\ \A r \in Requests : (caller[r] = "new" => r \notin Numbered) /\ (caller[r] = "holding" => r \in running)
  BY DEF GovernorSound, CallersSound, LeaseIsOwned, Numbered
<1>4. CallersSound' /\ LeaseIsOwned'
  BY <1>1, <1>3 DEF CallersSound, LeaseIsOwned
<1>5. CapacityRespected' /\ WorkConserving'
  BY DEF GovernorSound, CapacityRespected, WorkConserving, TotalCost, TotalLower, Units, Fits
<1> QED
  BY <1>2, <1>4, <1>5 DEF GovernorSound

\* A call joins the queue under the next number.
LEMMA AcquireKeeps ==
  ASSUME GovernorSound, NEW r \in Requests, Acquire(r)
  PROVE  GovernorSound'
<1>1. /\ sequence \in [Requests -> Nat] /\ IsFiniteSet(Numbered) /\ Cardinality(Numbered) \in Nat
      /\ \A q \in Numbered : sequence[q] <= Cardinality(Numbered)
      /\ \A q, s \in Numbered : sequence[q] = sequence[s] => q = s
  BY FS_CardinalityType DEF GovernorSound, ArrivalsSound
<1>2. /\ waiters \subseteq Numbered /\ running \subseteq Numbered /\ waiters \cap running = {}
      /\ caller \in [Requests -> Callers] /\ Numbered \subseteq Requests
      /\ \A q \in waiters : caller[q] = "selecting"
      /\ \A q \in running : caller[q] \in {"selecting", "holding"}
      /\ \A q \in Requests : (caller[q] = "new" => q \notin Numbered) /\ (caller[q] = "holding" => q \in running)
  BY DEF GovernorSound, CallersSound, LeaseIsOwned, Numbered
<1>3. /\ caller[r] = "new" /\ caller' = [caller EXCEPT ![r] = "selecting"] /\ now' = now
      /\ sequence' = [sequence EXCEPT ![r] = Cardinality(Numbered) + 1]
      /\ Schedule(waiters \cup {r}, running, preempting, used, lowerPriorityUsed, sequence')
  BY DEF Acquire, CallerTo, Numbered
<1>4. r \notin Numbered /\ sequence[r] = 0
  BY <1>2, <1>3 DEF Numbered
<1>5. Numbered' = Numbered \cup {r}
  BY <1>1, <1>3 DEF Numbered
<1>6. IsFiniteSet(Numbered') /\ Cardinality(Numbered') = Cardinality(Numbered) + 1
  <2>1. IsFiniteSet(Numbered \cup {r}) /\ Cardinality(Numbered \cup {r}) = Cardinality(Numbered) + 1
    BY <1>1, <1>4, FS_AddElement
  <2> QED
    BY <1>5, <2>1, Zenon
<1>7. ArrivalsSound'
  <2>1. sequence' \in [Requests -> Nat] /\ sequence'[r] = Cardinality(Numbered) + 1
        /\ \A q \in Numbered : sequence'[q] = sequence[q]
    BY <1>1, <1>2, <1>3, <1>4
  <2>2. \A q \in Numbered' : sequence'[q] <= Cardinality(Numbered')
    BY <1>1, <1>2, <1>5, <1>6, <2>1
  <2>3. \A q, s \in Numbered' : sequence'[q] = sequence'[s] => q = s
    <3> SUFFICES ASSUME NEW q \in Numbered', NEW s \in Numbered', sequence'[q] = sequence'[s] PROVE q = s
      OBVIOUS
    <3>1. \A x \in Numbered : sequence'[x] \in Nat /\ sequence'[x] <= Cardinality(Numbered)
      BY <1>1, <1>2, <2>1
    <3> QED
      BY <1>1, <1>5, <2>1, <3>1
  <2> QED
    BY <1>6, <2>1, <2>2, <2>3 DEF ArrivalsSound
<1>8. waiters \cup {r} \in SUBSET Numbered' /\ running \in SUBSET Numbered' /\ (waiters \cup {r}) \cap running = {}
  BY <1>2, <1>4, <1>5
<1>9. /\ caller' \in [Requests -> Callers]
      /\ \A q \in waiters \cup {r} : caller'[q] = "selecting"
      /\ \A q \in running : caller'[q] \in {"selecting", "holding"}
      /\ \A q \in Requests : (caller'[q] = "new" => q \notin Numbered') /\ (caller'[q] = "holding" => q \in running)
  BY <1>2, <1>3, <1>5 DEF Callers
<1>10. /\ used = TotalCost(running) /\ lowerPriorityUsed = TotalLower(running)
       /\ used <= Capacity /\ lowerPriorityUsed <= Capacity - ReservedInteractive
  BY DEF GovernorSound, CapacityRespected
<1> DEFINE w == waiters \cup {r}
<1> HIDE DEF w
<1>11. /\ w \in SUBSET Numbered' /\ w \cap running = {} /\ \A q \in w : caller'[q] = "selecting"
       /\ Schedule(w, running, preempting, used, lowerPriorityUsed, sequence')
  BY <1>3, <1>8, <1>9 DEF w
<1> QED
  BY <1>3, <1>7, <1>8, <1>9, <1>10, <1>11, BooksKept

\* A lease is given back once, by the call it belongs to.
LEMMA ReleaseKeeps ==
  ASSUME GovernorSound, NEW r \in running, ReleaseLease(r), CallerTo(r, "returned"),
         UNCHANGED <<now, sequence>>
  PROVE  GovernorSound'
<1>1. /\ waiters \subseteq Numbered /\ running \subseteq Numbered /\ waiters \cap running = {}
      /\ caller \in [Requests -> Callers] /\ Numbered \subseteq Requests /\ IsFiniteSet(Numbered)
      /\ \A q \in waiters : caller[q] = "selecting"
      /\ \A q \in running : caller[q] \in {"selecting", "holding"}
      /\ \A q \in Requests : (caller[q] = "new" => q \notin Numbered) /\ (caller[q] = "holding" => q \in running)
      /\ used = TotalCost(running) /\ lowerPriorityUsed = TotalLower(running)
      /\ used <= Capacity /\ lowerPriorityUsed <= Capacity - ReservedInteractive
  BY DEF GovernorSound, ArrivalsSound, CallersSound, LeaseIsOwned, CapacityRespected, Numbered
<1>2. Numbered' = Numbered
  BY DEF Numbered
<1>3. ArrivalsSound'
  BY <1>2 DEF GovernorSound, ArrivalsSound
<1>4. PICK run : run = running \ {r}
  OBVIOUS
<1>5. /\ TotalCost(run) = used - Cost[r] /\ TotalLower(run) = lowerPriorityUsed - LowerCost(r)
      /\ Cost[r] \in Nat /\ LowerCost(r) \in Nat /\ used \in Nat /\ lowerPriorityUsed \in Nat
  <2>1. running \in SUBSET Requests /\ IsFiniteSet(running) /\ run \in SUBSET running /\ running \ run = {r}
        /\ r \in Requests
    BY <1>1, <1>4, FS_Subset
  <2>2. /\ TotalCost(running) = TotalCost(run) + TotalCost(running \ run)
        /\ TotalLower(running) = TotalLower(run) + TotalLower(running \ run)
        /\ TotalCost(run) \in Nat /\ TotalLower(run) \in Nat
    BY <2>1, PartCosts
  <2>3. TotalCost(running \ run) = TotalCost({r}) /\ TotalLower(running \ run) = TotalLower({r})
    BY <2>1, Zenon
  <2>4. TotalCost({r}) = Cost[r] /\ TotalLower({r}) = LowerCost(r) /\ Cost[r] \in Nat /\ LowerCost(r) \in Nat
    BY <2>1, CostOfOne, LowerOfOne
  <2>5. used = TotalCost(run) + Cost[r] /\ lowerPriorityUsed = TotalLower(run) + LowerCost(r)
    BY <1>1, <2>2, <2>3, <2>4
  <2> QED
    BY <2>2, <2>4, <2>5
<1>6. Schedule(waiters, run, preempting \ {r}, used - Cost[r], lowerPriorityUsed - LowerCost(r), sequence')
  <2>1. Schedule(waiters, running \ {r}, preempting \ {r}, used - Cost[r], lowerPriorityUsed - LowerCost(r), sequence)
    BY DEF ReleaseLease
  <2> QED
    BY <1>4, <2>1, Zenon
<1>7. used - Cost[r] <= Capacity /\ lowerPriorityUsed - LowerCost(r) <= Capacity - ReservedInteractive
  <2>1. Capacity \in Nat /\ ReservedInteractive \in Nat
    BY GovernorAssumption
  <2> QED
    BY <1>1, <1>5, <2>1
<1>8. /\ caller' \in [Requests -> Callers]
      /\ \A q \in waiters : caller'[q] = "selecting"
      /\ \A q \in run : caller'[q] \in {"selecting", "holding"}
      /\ \A q \in Requests : (caller'[q] = "new" => q \notin Numbered') /\ (caller'[q] = "holding" => q \in run)
  BY <1>1, <1>2, <1>4 DEF CallerTo, Callers
<1>9. waiters \in SUBSET Numbered' /\ run \in SUBSET Numbered' /\ waiters \cap run = {}
  BY <1>1, <1>2, <1>4
<1>10. PICK u, l : u = used - Cost[r] /\ l = lowerPriorityUsed - LowerCost(r)
  OBVIOUS
<1> QED
  BY <1>3, <1>5, <1>6, <1>7, <1>8, <1>9, <1>10, BooksKept

\* A caller that gives up leaves the queue, or gives back the lease it was granted
\* in the meantime.
LEMMA GiveUpKeeps ==
  ASSUME GovernorSound, NEW r \in Requests, GiveUp(r)
  PROVE  GovernorSound'
<1>1. /\ waiters \subseteq Numbered /\ running \subseteq Numbered /\ waiters \cap running = {}
      /\ caller \in [Requests -> Callers] /\ Numbered \subseteq Requests
      /\ \A q \in waiters : caller[q] = "selecting"
      /\ \A q \in running : caller[q] \in {"selecting", "holding"}
      /\ \A q \in Requests : (caller[q] = "new" => q \notin Numbered) /\ (caller[q] = "holding" => q \in running)
      /\ used = TotalCost(running) /\ lowerPriorityUsed = TotalLower(running)
      /\ used <= Capacity /\ lowerPriorityUsed <= Capacity - ReservedInteractive
  BY DEF GovernorSound, CallersSound, LeaseIsOwned, CapacityRespected, Numbered
<1>2. caller[r] = "selecting" /\ CallerTo(r, "returned") /\ UNCHANGED <<now, sequence>>
  BY DEF GiveUp
<1>3. CASE r \in running
  <2>1. ReleaseLease(r)
    <3>1. r \notin waiters
      BY <1>1, <1>3
    <3> QED
      BY <1>3, <3>1 DEF GiveUp
  <2> QED
    BY <1>2, <1>3, <2>1, ReleaseKeeps
<1>4. CASE r \in waiters
  <2>1. r \notin running
    BY <1>1, <1>4
  <2>2. Schedule(waiters \ {r}, running, preempting, used, lowerPriorityUsed, sequence)
    BY <1>4, <2>1 DEF GiveUp
  <2>3. Numbered' = Numbered
    BY <1>2 DEF Numbered
  <2>4. ArrivalsSound'
    BY <1>2, <2>3 DEF GovernorSound, ArrivalsSound
  <2>5. PICK w : w = waiters \ {r}
    OBVIOUS
  <2>6. Schedule(w, running, preempting, used, lowerPriorityUsed, sequence')
    BY <1>2, <2>2, <2>5, Zenon
  <2>7. w \in SUBSET Numbered' /\ running \in SUBSET Numbered' /\ w \cap running = {}
    BY <1>1, <2>3, <2>5
  <2>8. /\ caller' \in [Requests -> Callers]
        /\ \A q \in w : caller'[q] = "selecting"
        /\ \A q \in running : caller'[q] \in {"selecting", "holding"}
        /\ \A q \in Requests : (caller'[q] = "new" => q \notin Numbered') /\ (caller'[q] = "holding" => q \in running)
    BY <1>1, <1>2, <2>1, <2>3, <2>5 DEF CallerTo, Callers
  <2> QED
    BY <1>1, <1>2, <2>4, <2>6, <2>7, <2>8, BooksKept
<1>5. CASE r \notin running \cup waiters
  <2>1. UNCHANGED <<waiters, running, used, lowerPriorityUsed>>
    BY <1>5 DEF GiveUp
  <2>2. now' \in Nat /\ caller' \in [Requests -> Callers] /\ caller'[r] = "returned"
        /\ \A q \in Requests : q # r => caller'[q] = caller[q]
    BY <1>1, <1>2 DEF GovernorSound, CallersSound, CallerTo, Callers
  <2> QED
    BY <1>2, <1>5, <2>1, <2>2, BooksUnchanged
<1> QED
  BY <1>3, <1>4, <1>5

\* A call that moves on without touching the queue.
LEMMA CallerKeeps ==
  ASSUME GovernorSound, NEW r \in Requests, AcquireTooLate(r) \/ Receive(r)
  PROVE  GovernorSound'
<1>1. /\ waiters \subseteq Numbered /\ running \subseteq Numbered
      /\ caller \in [Requests -> Callers] /\ now \in Nat
      /\ (caller[r] = "new" => r \notin Numbered)
  BY DEF GovernorSound, CallersSound
<1>2. UNCHANGED <<now, sequence, waiters, running, used, lowerPriorityUsed>>
  BY DEF AcquireTooLate, Receive
<1>3. PICK pc : /\ CallerTo(r, pc)
                /\ \/ pc = "returned" /\ caller[r] = "new"
                   \/ pc = "holding" /\ r \in running
  BY DEF AcquireTooLate, Receive
<1>4. caller' \in [Requests -> Callers] /\ caller'[r] = pc /\ \A q \in Requests : q # r => caller'[q] = caller[q]
  BY <1>1, <1>3 DEF CallerTo, Callers
<1> QED
  BY <1>1, <1>2, <1>3, <1>4, BooksUnchanged

\* Every call of the governor keeps the invariant.
LEMMA GovernorStep == GovernorSound /\ [GovernorNext]_vars => GovernorSound'
<1> SUFFICES ASSUME GovernorSound, [GovernorNext]_vars PROVE GovernorSound'
  OBVIOUS
<1>1. now \in Nat /\ caller \in [Requests -> Callers]
  BY DEF GovernorSound, CallersSound
<1>2. CASE UNCHANGED vars
  BY <1>1, <1>2, BooksUnchanged DEF vars
<1>3. ASSUME NEW r \in Requests, Acquire(r) PROVE GovernorSound'
  BY <1>3, AcquireKeeps
<1>4. ASSUME NEW r \in Requests, AcquireTooLate(r) \/ Receive(r) PROVE GovernorSound'
  BY <1>4, CallerKeeps
<1>5. ASSUME NEW r \in Requests, GiveUp(r) PROVE GovernorSound'
  BY <1>5, GiveUpKeeps
<1>6. ASSUME NEW r \in Requests, Release(r) PROVE GovernorSound'
  <2>1. r \in running
    BY <1>6 DEF GovernorSound, CallersSound, Release
  <2> QED
    BY <1>6, <2>1, ReleaseKeeps DEF Release
<1>7. ASSUME NEW r \in Requests, EndContext(r) PROVE GovernorSound'
  BY <1>1, <1>7, BooksUnchanged DEF EndContext
<1>8. CASE Tick
  BY <1>1, <1>8, BooksUnchanged DEF Tick
<1> QED
  BY <1>2, <1>3, <1>4, <1>5, <1>6, <1>7, <1>8 DEF GovernorNext

\* The invariant holds throughout.
LEMMA AlwaysGovernorSound == GovernorSpec => []GovernorSound
<1>1. GovernorInit => GovernorSound
  <2> SUFFICES ASSUME GovernorInit PROVE GovernorSound
    OBVIOUS
  <2>1. Numbered = {}
    BY DEF GovernorInit, Numbered
  <2>2. ArrivalsSound
    <3>1. sequence \in [Requests -> Nat]
      BY DEF GovernorInit
    <3> QED
      BY <2>1, <3>1, FS_EmptySet DEF ArrivalsSound
  <2>3. CallersSound /\ LeaseIsOwned /\ WorkConserving
    BY <2>1 DEF GovernorInit, CallersSound, LeaseIsOwned, WorkConserving, Callers
  <2>4. CapacityRespected
    <3>1. running = {} /\ used = 0 /\ lowerPriorityUsed = 0
      BY DEF GovernorInit
    <3>2. Units({}) = {} /\ {r \in {} : Lower(r)} = {}
      BY DEF Units
    <3>3. TotalCost({}) = 0 /\ TotalLower({}) = 0
      BY <3>2, FS_EmptySet DEF TotalCost, TotalLower
    <3>4. TotalCost(running) = 0 /\ TotalLower(running) = 0
      BY <3>1, <3>3, Zenon
    <3> QED
      BY <3>1, <3>4, GovernorAssumption DEF CapacityRespected
  <2> QED
    BY <2>2, <2>3, <2>4 DEF GovernorSound
<1> QED
  BY <1>1, GovernorStep, PTL DEF GovernorSpec

\* The books agree with the leases, the domain is never over-committed and the
\* lower classes never hold the interactive reservation, for any requests,
\* costs and deadlines (governor.go: scheduleLocked, release).
THEOREM GovernorCapacity == GovernorSpec => []CapacityRespected
<1>1. GovernorSound => CapacityRespected
  BY DEF GovernorSound
<1> QED
  BY <1>1, AlwaysGovernorSound, PTL

\* No lease is leaked, also when a grant races the caller's cancellation
\* (governor.go: cancelWaiter).
THEOREM GovernorLeases == GovernorSpec => []LeaseIsOwned
<1>1. GovernorSound => LeaseIsOwned
  BY DEF GovernorSound
<1> QED
  BY <1>1, AlwaysGovernorSound, PTL

\* No capacity lies idle beside a waiter it would serve (governor.go:
\* firstAdmissibleLocked, whose pass every release and cancellation repeats).
THEOREM GovernorConserves == GovernorSpec => []WorkConserving
<1>1. GovernorSound => WorkConserving
  BY DEF GovernorSound
<1> QED
  BY <1>1, AlwaysGovernorSound, PTL

\* What is asked to stop runs, and stays within its bounds with the clock.
AskedSound == now <= MaxTime /\ preempting \subseteq running /\ ended \subseteq Requests

\* A pass asks only for leases that run, and stops none of them itself.
LEMMA ScheduleAsks ==
  ASSUME NEW w, NEW run, NEW p \in SUBSET run, NEW u, NEW l, NEW seq, Schedule(w, run, p, u, l, seq)
  PROVE  preempting' \subseteq running'
<1>1. PICK P : /\ preempting' = p \cup P /\ run \subseteq running'
               /\ P = Preempted(waiters', running', p, used', lowerPriorityUsed', seq)
  BY DEF Schedule
<1>2. P \subseteq running'
  BY <1>1 DEF Preempted
<1> QED
  BY <1>1, <1>2

LEMMA AskedStep ==
  ASSUME GovernorSound, AskedSound, [GovernorNext]_vars
  PROVE  AskedSound'
<1> USE GovernorAssumption DEF AskedSound
<1>0. waiters \cap running = {} /\ now \in Nat
  BY DEF GovernorSound, CallersSound
<1>1. CASE UNCHANGED vars
  BY <1>1 DEF vars
<1>2. ASSUME NEW r \in Requests, ReleaseLease(r) PROVE preempting' \subseteq running'
  <2>1. preempting \ {r} \in SUBSET (running \ {r})
    OBVIOUS
  <2>2. Schedule(waiters, running \ {r}, preempting \ {r}, used - Cost[r],
                 lowerPriorityUsed - LowerCost(r), sequence)
    BY <1>2, Zenon DEF ReleaseLease
  <2> QED
    BY <2>1, <2>2, ScheduleAsks
<1>3. ASSUME NEW r \in Requests, Acquire(r) PROVE AskedSound'
  <2>1. preempting' \subseteq running'
    <3>1. Schedule(waiters \cup {r}, running, preempting, used, lowerPriorityUsed, sequence')
      BY <1>3 DEF Acquire
    <3> QED
      BY <3>1, ScheduleAsks
  <2> QED
    BY <1>3, <2>1 DEF Acquire
<1>4. ASSUME NEW r \in Requests, GiveUp(r) PROVE AskedSound'
  <2>1. UNCHANGED <<now, ended>>
    BY <1>4 DEF GiveUp
  <2>2. CASE r \in running
    <3>1. ReleaseLease(r)
      BY <1>0, <1>4, <2>2 DEF GiveUp
    <3> QED
      BY <1>2, <2>1, <3>1
  <2>3. CASE r \in waiters
    <3>1. Schedule(waiters \ {r}, running, preempting, used, lowerPriorityUsed, sequence)
      BY <1>0, <1>4, <2>3 DEF GiveUp
    <3> QED
      BY <2>1, <3>1, ScheduleAsks
  <2>4. CASE r \notin running \cup waiters
    BY <1>4, <2>1, <2>4 DEF GiveUp
  <2> QED
    BY <2>2, <2>3, <2>4
<1>5. ASSUME NEW r \in Requests, Release(r) PROVE AskedSound'
  BY <1>2, <1>5 DEF Release
<1>6. ASSUME NEW r \in Requests, AcquireTooLate(r) \/ Receive(r) \/ EndContext(r) PROVE AskedSound'
  BY <1>6 DEF AcquireTooLate, Receive, EndContext
<1>7. CASE Tick
  BY <1>0, <1>7 DEF Tick
<1> QED
  BY <1>1, <1>3, <1>4, <1>5, <1>6, <1>7 DEF GovernorNext

\* Type correctness of the governor, for finitely many requests: arrivals are
\* numbered no further than there are requests, and only a running lease is ever
\* asked to stop (governor.go: requestPreemptionLocked, release).
THEOREM GovernorTypeCorrect ==
  ASSUME IsFiniteSet(Requests)
  PROVE  GovernorSpec => []GovernorTypeOK
<1>1. GovernorInit => AskedSound
  BY GovernorAssumption DEF GovernorInit, AskedSound
<1>2. GovernorSound /\ AskedSound => GovernorTypeOK
  <2> SUFFICES ASSUME GovernorSound, AskedSound PROVE GovernorTypeOK
    OBVIOUS
  <2>1. IsFiniteSet(Numbered) /\ Numbered \subseteq Requests
    BY DEF GovernorSound, ArrivalsSound, Numbered
  <2>2. /\ Cardinality(Numbered) \in Nat /\ Cardinality(Requests) \in Nat
        /\ Cardinality(Numbered) <= Cardinality(Requests)
    BY <2>1, FS_Subset, FS_CardinalityType
  <2>3. sequence \in [Requests -> 0..Cardinality(Requests)]
    <3>1. ASSUME NEW r \in Requests PROVE sequence[r] \in 0..Cardinality(Requests)
      <4>1. sequence[r] \in Nat
        BY DEF GovernorSound, ArrivalsSound
      <4>2. r \in Numbered => sequence[r] <= Cardinality(Numbered)
        BY DEF GovernorSound, ArrivalsSound
      <4>3. r \notin Numbered => sequence[r] = 0
        BY DEF Numbered
      <4> QED
        BY <2>2, <4>1, <4>2, <4>3
    <3>2. sequence \in [Requests -> Nat]
      BY DEF GovernorSound, ArrivalsSound
    <3> QED
      BY <3>1, <3>2
  <2>4. waiters \subseteq Requests /\ running \subseteq Requests /\ now \in Nat /\ caller \in [Requests -> Callers]
    BY <2>1 DEF GovernorSound, CallersSound
  <2>5. used \in Int /\ lowerPriorityUsed \in Int
    <3>1. IsFiniteSet(running) /\ {r \in running : Lower(r)} \in SUBSET Requests
          /\ IsFiniteSet({r \in running : Lower(r)})
      BY <2>4, FS_Subset
    <3>2. TotalCost(running) \in Nat /\ TotalLower(running) \in Nat
      BY <2>4, <3>1, UnitsFinite DEF TotalLower
    <3> QED
      BY <3>2 DEF GovernorSound, CapacityRespected
  <2>6. now \in 0..MaxTime
    BY <2>4, GovernorAssumption DEF AskedSound
  <2> QED
    BY <2>3, <2>4, <2>5, <2>6 DEF GovernorTypeOK, AskedSound
<1> QED
  BY <1>1, <1>2, AlwaysGovernorSound, AskedStep, PTL DEF GovernorSpec

-----------------------------------------------------------------------------
\* Preemption makes the room that the first waiter needs.

\* requestPreemptionLocked orders the leases it asks.
LEMMA SoonerOrders ==
  ASSUME NEW seq \in [Requests -> Nat], NEW q \in Requests, NEW r \in Requests, NEW s \in Requests
  PROVE  /\ ~Sooner(q, q, seq)
         /\ Sooner(q, r, seq) /\ Sooner(r, s, seq) => Sooner(q, s, seq)
<1>1. \A x \in Requests : Class[x] \in Nat /\ Cost[x] \in Nat /\ seq[x] \in Nat
  BY GovernorAssumption
<1> QED
  BY <1>1 DEF Sooner

\* Of finitely many, none is asked sooner than some one.
LEMMA SoonestOf ==
  ASSUME NEW seq \in [Requests -> Nat], NEW G \in SUBSET Requests, IsFiniteSet(G), G # {}
  PROVE  \E r \in G : \A q \in G : ~Sooner(q, r, seq)
<1> DEFINE Ahead(r) == {q \in G : Sooner(q, r, seq)}
           T == {Cardinality(Ahead(r)) : r \in G}
<1>1. ASSUME NEW r \in G PROVE IsFiniteSet(Ahead(r)) /\ Cardinality(Ahead(r)) \in Nat
  BY FS_Subset, FS_CardinalityType
<1>2. T \subseteq Nat /\ T # {}
  <2> HIDE DEF Ahead
  <2> QED
    BY <1>1
<1>3. PICK n \in T : \A m \in T : n <= m
  <2> HIDE DEF T
  <2> QED
    BY <1>2, LeastNumber
<1>4. PICK r \in G : n = Cardinality(Ahead(r))
  BY <1>3
<1>5. ASSUME NEW q \in G, Sooner(q, r, seq) PROVE FALSE
  <2>1. Ahead(q) \subseteq Ahead(r) /\ q \in Ahead(r) /\ q \notin Ahead(q)
    BY <1>5, SoonerOrders
  <2>2. Cardinality(Ahead(q)) \in T /\ Cardinality(Ahead(q)) \in Nat /\ Cardinality(Ahead(r)) \in Nat
    BY <1>1
  <2> HIDE DEF Ahead, T
  <2>3. Cardinality(Ahead(q)) <= Cardinality(Ahead(r)) /\ Cardinality(Ahead(q)) # Cardinality(Ahead(r))
    BY <1>1, <2>1, FS_Subset
  <2> QED
    BY <1>3, <1>4, <2>2, <2>3
<1> QED
  BY <1>5

\* The leases asked before one that need not be asked make room enough, and so
\* does any set that includes them.
LEMMA AskedSuffices ==
  ASSUME NEW r \in Requests, NEW A \in SUBSET Requests, IsFiniteSet(A), NEW B \in SUBSET A,
         \A v \in A : Class[v] < Class[r],
         NEW u \in Int, NEW l \in Int, Fits(r, u - TotalCost(B), l - TotalCost(B))
  PROVE  Fits(r, u - TotalCost(A), l - TotalLower(A))
<1>1. TotalCost(A) = TotalCost(B) + TotalCost(A \ B) /\ TotalCost(B) \in Nat /\ TotalCost(A \ B) \in Nat
  BY PartCosts
<1>2. PICK a, b, c \in Nat : a = TotalCost(A) /\ b = TotalCost(B) /\ c = TotalCost(A \ B) /\ a = b + c
  BY <1>1
<1>3. Cost[r] \in Nat /\ Capacity \in Nat /\ ReservedInteractive \in Nat /\ \A q \in Requests : Class[q] \in Nat
  BY GovernorAssumption
<1>4. Lower(r) => TotalLower(A) = TotalCost(A)
  <2> SUFFICES ASSUME Lower(r) PROVE TotalLower(A) = TotalCost(A)
    OBVIOUS
  <2>1. {q \in A : Lower(q)} = A
    BY <1>3 DEF Lower, ClassSpeculative
  <2> QED
    BY <2>1, Zenon DEF TotalLower
<1>5. u - b + Cost[r] <= Capacity /\ (Lower(r) => l - b + Cost[r] <= Capacity - ReservedInteractive)
  BY <1>2 DEF Fits
<1>6. u - a + Cost[r] <= Capacity /\ (Lower(r) => l - a + Cost[r] <= Capacity - ReservedInteractive)
  BY <1>2, <1>3, <1>5
<1> QED
  BY <1>2, <1>4, <1>6 DEF Fits

\* The leases among C whose turn comes before enough is freed for r.
Needed(C, r, u, l, seq) ==
  {c \in C : LET freed == TotalCost({q \in C : Sooner(q, c, seq)}) IN ~Fits(r, u - freed, l - freed)}

\* Among leases asked in that order, those whose turn comes before enough is
\* freed either are all of them, or make the room.
LEMMA PreemptionSuffices ==
  ASSUME NEW seq \in [Requests -> Nat], NEW r \in Requests, NEW C \in SUBSET Requests, IsFiniteSet(C),
         NEW u \in Int, NEW l \in Int
  PROVE  \/ C \subseteq Needed(C, r, u, l, seq)
         \/ \E B \in SUBSET Needed(C, r, u, l, seq) : Fits(r, u - TotalCost(B), l - TotalCost(B))
<1> DEFINE N == Needed(C, r, u, l, seq)
<1> SUFFICES ASSUME ~(C \subseteq N)
             PROVE  \E B \in SUBSET N : Fits(r, u - TotalCost(B), l - TotalCost(B))
  OBVIOUS
<1>1. PICK c \in C \ N : \A q \in C \ N : ~Sooner(q, c, seq)
  <2>1. C \ N \in SUBSET Requests /\ C \ N # {} /\ IsFiniteSet(C \ N)
    BY FS_Subset
  <2>2. PICK G : G = C \ N
    OBVIOUS
  <2> QED
    BY <2>1, <2>2, SoonestOf
<1>2. PICK B : B = {q \in C : Sooner(q, c, seq)}
  OBVIOUS
<1>3. B \in SUBSET N
  BY <1>1, <1>2
<1>4. Fits(r, u - TotalCost(B), l - TotalCost(B))
  BY <1>1, <1>2 DEF Needed
<1> QED
  BY <1>3, <1>4

\* A pass of scheduleLocked asks enough leases to stop.
LEMMA ScheduleMakesRoom ==
  ASSUME GovernorSound', NEW w, NEW run, NEW p, NEW u, NEW l, Schedule(w, run, p, u, l, sequence')
  PROVE  RoomIsMade'
<1>1. preempting' = p \cup Preempted(waiters', running', p, used', lowerPriorityUsed', sequence')
  BY DEF Schedule
<1>2. /\ sequence' \in [Requests -> Nat] /\ IsFiniteSet(Numbered') /\ Numbered' \subseteq Requests
      /\ \A q, r \in Numbered' : sequence'[q] = sequence'[r] => q = r
      /\ waiters' \subseteq Numbered' /\ running' \subseteq Numbered'
  BY DEF GovernorSound, ArrivalsSound, CallersSound, Numbered
<1>3. IsFiniteSet(running')
  <2> DEFINE N == Numbered'
  <2> HIDE DEF N
  <2>1. IsFiniteSet(N) /\ running' \subseteq N
    BY <1>2 DEF N
  <2> QED
    BY <2>1, FS_Subset
<1>4. used' \in Int /\ lowerPriorityUsed' \in Int
  <2>1. used' = TotalCost(running') /\ lowerPriorityUsed' = TotalLower(running')
    BY DEF GovernorSound, CapacityRespected, TotalCost, TotalLower, Units
  <2>2. PICK R \in SUBSET Requests : R = running' /\ IsFiniteSet(R)
    BY <1>2, <1>3
  <2>3. TotalCost(R) \in Nat /\ TotalLower(R) \in Nat
    BY <2>2, PartCosts
  <2>4. TotalCost(running') = TotalCost(R) /\ TotalLower(running') = TotalLower(R)
    BY <2>2, Zenon
  <2> QED
    BY <2>1, <2>3, <2>4
<1> SUFFICES ASSUME NEW r \in waiters', \A q \in waiters' \ {r} : Precedes(r, q, sequence'),
                    NEW V, V = {v \in running' \cap Preemptible : Class[v] < Class[r]},
                    NEW A, A = V \cap preempting', ~(V \subseteq preempting')
             PROVE  Fits(r, used' - TotalCost(A), lowerPriorityUsed' - TotalLower(A))
  BY DEF RoomIsMade, Fits, TotalCost, TotalLower, Units, Precedes
<1>5. (CHOOSE x \in waiters' : \A q \in waiters' \ {x} : Precedes(x, q, sequence')) = r
  <2>1. ASSUME NEW x \in waiters', \A q \in waiters' \ {x} : Precedes(x, q, sequence') PROVE x = r
    <3> SUFFICES ASSUME x # r PROVE FALSE
      OBVIOUS
    <3>1. Precedes(x, r, sequence') /\ Precedes(r, x, sequence') /\ x \in Requests /\ r \in Requests
      BY <1>2, <2>1
    <3> QED
      BY <1>2, <3>1, PrecedesOrders
  <2> QED
    BY <2>1
<1>6. PICK C : C = {v \in (running' \ p) \cap Preemptible : Class[v] < Class[r]}
  OBVIOUS
<1>7. PICK N : N = Needed(C, r, used', lowerPriorityUsed', sequence')
  OBVIOUS
<1>8. Preempted(waiters', running', p, used', lowerPriorityUsed', sequence') = N
  BY <1>5, <1>6, <1>7 DEF Preempted, Needed
<1>9. preempting' = p \cup N /\ N \subseteq C /\ C \subseteq V /\ V \subseteq C \cup p /\ V \subseteq running'
  BY <1>1, <1>6, <1>7, <1>8 DEF Needed
<1>10. r \in Requests /\ C \in SUBSET Requests /\ IsFiniteSet(C) /\ A \in SUBSET Requests /\ IsFiniteSet(A)
       /\ \A v \in A : Class[v] < Class[r]
  <2>1. C \subseteq running' /\ A \subseteq running'
    BY <1>9
  <2>2. IsFiniteSet(C) /\ IsFiniteSet(A)
    BY <1>3, <2>1, FS_Subset
  <2> QED
    BY <1>2, <2>1, <2>2
<1>11. ~(C \subseteq N)
  BY <1>9
<1>12. PICK B \in SUBSET N : Fits(r, used' - TotalCost(B), lowerPriorityUsed' - TotalCost(B))
  BY <1>2, <1>4, <1>7, <1>10, <1>11, PreemptionSuffices
<1>13. B \in SUBSET A
  BY <1>9, <1>12
<1> QED
  BY <1>4, <1>10, <1>12, <1>13, AskedSuffices

\* Nothing the room depends on changes.
LEMMA RoomUnchanged ==
  ASSUME RoomIsMade, UNCHANGED <<sequence, waiters, running, preempting, used, lowerPriorityUsed>>
  PROVE  RoomIsMade'
BY DEF RoomIsMade, Precedes, Fits, TotalCost, TotalLower, Units

\* The first of the waiters has the room made for it by the leases of lower
\* classes that are asked to stop, or every such lease that agreed to be
\* preempted has been asked, whatever was granted, released or given up, and
\* whoever came first, since (governor.go: requestPreemptionLocked, called at the
\* end of every scheduleLocked).
THEOREM GovernorMakesRoom == GovernorSpec => []RoomIsMade
<1>1. GovernorInit => RoomIsMade
  BY DEF GovernorInit, RoomIsMade
<1>2. GovernorSound /\ GovernorSound' /\ RoomIsMade /\ [GovernorNext]_vars => RoomIsMade'
  <2> SUFFICES ASSUME GovernorSound, GovernorSound', RoomIsMade, [GovernorNext]_vars PROVE RoomIsMade'
    OBVIOUS
  <2>1. CASE UNCHANGED vars
    BY <2>1, RoomUnchanged DEF vars
  <2>2. ASSUME NEW r \in Requests, Acquire(r) PROVE RoomIsMade'
    <3>1. Schedule(waiters \cup {r}, running, preempting, used, lowerPriorityUsed, sequence')
      BY <2>2 DEF Acquire
    <3> QED
      BY <3>1, ScheduleMakesRoom
  <2>3. ASSUME NEW r \in Requests, ReleaseLease(r), sequence' = sequence PROVE RoomIsMade'
    <3>1. Schedule(waiters, running \ {r}, preempting \ {r}, used - Cost[r],
                   lowerPriorityUsed - LowerCost(r), sequence')
      BY <2>3, Zenon DEF ReleaseLease
    <3> QED
      BY <3>1, ScheduleMakesRoom
  <2>4. ASSUME NEW r \in Requests, GiveUp(r) PROVE RoomIsMade'
    <3>1. sequence' = sequence
      BY <2>4 DEF GiveUp
    <3>2. CASE r \in running
      <4>1. r \notin waiters
        BY <3>2 DEF GovernorSound, CallersSound
      <4>2. ReleaseLease(r)
        BY <2>4, <3>2, <4>1 DEF GiveUp
      <4> QED
        BY <2>3, <3>1, <4>2
    <3>3. CASE r \in waiters /\ r \notin running
      <4>1. Schedule(waiters \ {r}, running, preempting, used, lowerPriorityUsed, sequence)
        BY <2>4, <3>3 DEF GiveUp
      <4>2. Schedule(waiters \ {r}, running, preempting, used, lowerPriorityUsed, sequence')
        BY <3>1, <4>1, Zenon
      <4> QED
        BY <4>2, ScheduleMakesRoom
    <3>4. CASE r \notin running \cup waiters
      <4>1. UNCHANGED <<waiters, running, preempting, used, lowerPriorityUsed>>
        BY <2>4, <3>4 DEF GiveUp
      <4> QED
        BY <3>1, <4>1, RoomUnchanged
    <3> QED
      BY <3>2, <3>3, <3>4
  <2>5. ASSUME NEW r \in Requests, Release(r) PROVE RoomIsMade'
    BY <2>3, <2>5 DEF Release
  <2>6. ASSUME NEW r \in Requests, AcquireTooLate(r) \/ Receive(r) \/ EndContext(r) PROVE RoomIsMade'
    BY <2>6, RoomUnchanged DEF AcquireTooLate, Receive, EndContext
  <2>7. CASE Tick
    BY <2>7, RoomUnchanged DEF Tick
  <2> QED
    BY <2>1, <2>2, <2>4, <2>5, <2>6, <2>7 DEF GovernorNext
<1> QED
  BY <1>1, <1>2, AlwaysGovernorSound, PTL DEF GovernorSpec
=============================================================================
