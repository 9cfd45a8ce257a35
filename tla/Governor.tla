------------------------------ MODULE Governor ------------------------------
(***************************************************************************)
(* The admission governor, admission/governor.go: one resource domain of   *)
(* integer capacity shared by classes of work, with a reservation that     *)
(* keeps the lower classes from using everything, and cooperative          *)
(* preemption.                                                             *)
(*                                                                         *)
(* A request is one call of Acquire and, once admitted, its lease.  Every  *)
(* action is one critical section of governor.mu, scheduleLocked included. *)
(* Its loop restarts from the head after each grant; since a grant only    *)
(* takes capacity away, one pass in order grants the same leases.  Time is *)
(* counted in ticks; telemetry (timings, counters) is left out.            *)
(***************************************************************************)
EXTENDS Integers, FiniteSets

CONSTANTS
  Requests,             \* calls of Acquire, each made once
  Class,                \* [Requests -> 1..4], background to urgent
  Cost,                 \* [Requests -> capacity units]
  Preemptible,          \* requests that agree to be preempted
  Deadline,             \* [Requests -> admission deadline, 0 for none]
  Capacity,
  ReservedInteractive,
  MaxTime               \* bound on the clock

ClassSpeculative == 2

Lower(r) == Class[r] <= ClassSpeculative

\* validateRequest and NewGovernor refuse anything else.
ASSUME GovernorAssumption ==
  /\ Capacity \in Nat \ {0} /\ ReservedInteractive \in 0..Capacity /\ MaxTime \in Nat
  /\ Class \in [Requests -> 1..4]
  /\ Cost \in [Requests -> 1..Capacity]
  /\ Preemptible \subseteq Requests
  /\ Deadline \in [Requests -> Nat]
  /\ \A r \in Requests : Lower(r) => Cost[r] <= Capacity - ReservedInteractive

VARIABLES
  now,           \* the clock
  sequence,      \* [Requests -> waiter.sequence, 0 before Acquire]
  waiters,       \* Governor.waiters, which compareWaiters orders totally
  running,       \* Governor.running: leases granted and not released
  preempting,    \* leases whose context was cancelled by preemption
  used, lowerPriorityUsed,
  caller,        \* [Requests -> where the call of Acquire stands]
  ended          \* callers whose own context has ended

vars == <<now, sequence, waiters, running, preempting, used, lowerPriorityUsed,
          caller, ended>>

Callers == {"new", "selecting", "holding", "returned"}

GovernorTypeOK ==
  /\ now \in 0..MaxTime
  /\ sequence \in [Requests -> 0..Cardinality(Requests)]
  /\ waiters \subseteq Requests /\ running \subseteq Requests
  /\ preempting \subseteq running
  /\ used \in Int /\ lowerPriorityUsed \in Int
  /\ caller \in [Requests -> Callers]
  /\ ended \subseteq Requests

GovernorInit ==
  /\ now = 0 /\ sequence = [r \in Requests |-> 0]
  /\ waiters = {} /\ running = {} /\ preempting = {}
  /\ used = 0 /\ lowerPriorityUsed = 0
  /\ caller = [r \in Requests |-> "new"] /\ ended = {}

-----------------------------------------------------------------------------
Expired(r) == Deadline[r] # 0 /\ now >= Deadline[r]

\* compareWaiters: class, then deadline with none last, then arrival.
Precedes(q, r, seq) ==
  IF Class[q] # Class[r] THEN Class[q] > Class[r]
  ELSE IF (Deadline[q] = 0) # (Deadline[r] = 0) THEN Deadline[q] # 0
  ELSE IF Deadline[q] # Deadline[r] THEN Deadline[q] < Deadline[r]
  ELSE seq[q] < seq[r]

LowerCost(r) == IF Lower(r) THEN Cost[r] ELSE 0

\* The units of capacity that requests take.
Units(S) == UNION {{r} \X (1..Cost[r]) : r \in S}

TotalCost(S) == Cardinality(Units(S))

TotalLower(S) == TotalCost({r \in S : Lower(r)})

\* Mutant of Fits: the interactive reservation is not kept.
FitsUnreserved(r, u, l) == u + Cost[r] <= Capacity

\* Capacity for r beside u units in use, l of them by lower classes.
Fits(r, u, l) == /\ u + Cost[r] <= Capacity
                 /\ Lower(r) => l + Cost[r] <= Capacity - ReservedInteractive

\* firstAdmissibleLocked, one waiter after the other: granted are those not
\* expired that fit beside what was granted before them.
Grants(granted, w, u, l, seq) ==
  \A r \in w :
    LET before == {q \in granted : Precedes(q, r, seq)}
    IN  r \in granted <=> ~Expired(r) /\ Fits(r, u + TotalCost(before), l + TotalLower(before))

\* The order in which requestPreemptionLocked asks leases to stop.
Sooner(q, r, seq) ==
  IF Class[q] # Class[r] THEN Class[q] < Class[r]
  ELSE IF Cost[q] # Cost[r] THEN Cost[q] > Cost[r]
  ELSE seq[q] > seq[r]

\* The leases newly asked to stop for the first waiter: candidates in order
\* until their cost covers what is missing.
Preempted(left, run, p, u, l, seq) ==
  IF left = {} THEN {}
  ELSE LET wanted == CHOOSE r \in left : \A q \in left \ {r} : Precedes(r, q, seq)
           candidates == {r \in (run \ p) \cap Preemptible : Class[r] < Class[wanted]}
           FitsWithout(freed) == Fits(wanted, u - freed, l - freed)
       IN  {r \in candidates : ~FitsWithout(TotalCost({q \in candidates : Sooner(q, r, seq)}))}

\* Mutant of Schedule: capacity is handed out and nobody is asked to make room.
ScheduleNoPreemption(w, run, p, u, l, seq) ==
  \E granted \in SUBSET w :
    /\ Grants(granted, w, u, l, seq)
    /\ waiters' = {r \in w \ granted : ~Expired(r)}
    /\ running' = run \cup granted
    /\ used' = u + TotalCost(granted) /\ lowerPriorityUsed' = l + TotalLower(granted)
    /\ preempting' = p

\* scheduleLocked, on the waiters and leases the caller leaves behind.
Schedule(w, run, p, u, l, seq) ==
  \E granted \in SUBSET w :
    /\ Grants(granted, w, u, l, seq)
    /\ waiters' = {r \in w \ granted : ~Expired(r)}
    /\ running' = run \cup granted
    /\ used' = u + TotalCost(granted) /\ lowerPriorityUsed' = l + TotalLower(granted)
    /\ preempting' = p \cup Preempted(waiters', running', p, used', lowerPriorityUsed', seq)

CallerTo(r, pc) == caller' = [caller EXCEPT ![r] = pc]

-----------------------------------------------------------------------------
\* Acquire joins the queue, unless its deadline has already passed.
Acquire(r) ==
  /\ caller[r] = "new"
  /\ ~Expired(r)
  /\ LET seq == [sequence EXCEPT ![r] = Cardinality({q \in Requests : sequence[q] # 0}) + 1]
     IN  /\ sequence' = seq
         /\ Schedule(waiters \cup {r}, running, preempting, used, lowerPriorityUsed, seq)
  /\ CallerTo(r, "selecting")
  /\ UNCHANGED <<now, ended>>

AcquireTooLate(r) ==
  /\ caller[r] = "new"
  /\ Expired(r)
  /\ CallerTo(r, "returned")
  /\ UNCHANGED <<now, sequence, waiters, running, preempting, used, lowerPriorityUsed, ended>>

\* The select of Acquire may take any of its ready cases.
Receive(r) ==
  /\ caller[r] = "selecting"
  /\ r \in running
  /\ CallerTo(r, "holding")
  /\ UNCHANGED <<now, sequence, waiters, running, preempting, used, lowerPriorityUsed, ended>>

\* Mutant of ReleaseLease: the queue is not scheduled after the release.
ReleaseLeaseSilently(r) ==
  /\ running' = running \ {r} /\ preempting' = preempting \ {r}
  /\ used' = used - Cost[r] /\ lowerPriorityUsed' = lowerPriorityUsed - LowerCost(r)
  /\ UNCHANGED waiters

\* release: the lease gives its capacity back and the queue is scheduled.
ReleaseLease(r) ==
  Schedule(waiters, running \ {r}, preempting \ {r}, used - Cost[r],
           lowerPriorityUsed - LowerCost(r), sequence)

\* Mutant of GiveUp: a lease granted while the caller gave up is forgotten.
GiveUpLeaks(r) ==
  /\ caller[r] = "selecting"
  /\ r \in ended \/ Expired(r)
  /\ IF r \in waiters
     THEN Schedule(waiters \ {r}, running, preempting, used, lowerPriorityUsed, sequence)
     ELSE UNCHANGED <<waiters, running, preempting, used, lowerPriorityUsed>>
  /\ CallerTo(r, "returned")
  /\ UNCHANGED <<now, sequence, ended>>

\* cancelWaiter, on the caller's context or its deadline: a lease granted in
\* the meantime is released, a waiter already expired is left alone.
GiveUp(r) ==
  /\ caller[r] = "selecting"
  /\ r \in ended \/ Expired(r)
  /\ CASE r \in running -> ReleaseLease(r)
       [] r \in waiters -> Schedule(waiters \ {r}, running, preempting, used,
                                    lowerPriorityUsed, sequence)
       [] OTHER -> UNCHANGED <<waiters, running, preempting, used, lowerPriorityUsed>>
  /\ CallerTo(r, "returned")
  /\ UNCHANGED <<now, sequence, ended>>

Release(r) ==
  /\ caller[r] = "holding"
  /\ ReleaseLease(r)
  /\ CallerTo(r, "returned")
  /\ UNCHANGED <<now, sequence, ended>>

EndContext(r) ==
  /\ r \notin ended /\ caller[r] = "selecting"
  /\ ended' = ended \cup {r}
  /\ UNCHANGED <<now, sequence, waiters, running, preempting, used, lowerPriorityUsed, caller>>

Tick ==
  /\ now < MaxTime
  /\ now' = now + 1
  /\ UNCHANGED <<sequence, waiters, running, preempting, used, lowerPriorityUsed, caller, ended>>

GovernorNext ==
  \/ \E r \in Requests : \/ Acquire(r) \/ AcquireTooLate(r) \/ Receive(r)
                         \/ GiveUp(r) \/ Release(r) \/ EndContext(r)
  \/ Tick

GovernorSpec == GovernorInit /\ [][GovernorNext]_vars

\* A caller takes its lease, and a holder that is asked to stop releases it.
\* Nothing obliges any other holder to stop.
GovernorFairness ==
  \A r \in Requests : /\ WF_vars(Receive(r) \/ GiveUp(r))
                      /\ WF_vars(r \in preempting /\ Release(r))

FairGovernorSpec == GovernorSpec /\ GovernorFairness

-----------------------------------------------------------------------------
\* Whatever is acquired, given up, preempted and released in whatever order, the
\* books agree with the leases, the domain is never over-committed and the
\* lower classes never hold the interactive reservation.
CapacityRespected ==
  /\ used = TotalCost(running)
  /\ lowerPriorityUsed = TotalLower(running)
  /\ used <= Capacity
  /\ lowerPriorityUsed <= Capacity - ReservedInteractive

\* Capacity is never leaked: every lease belongs to a call that holds it or can
\* still receive it, also when the grant races the caller's cancellation.
LeaseIsOwned ==
  \A r \in running : caller[r] \in {"selecting", "holding"}

\* No capacity lies idle beside a waiter it would serve.
WorkConserving ==
  \A r \in waiters : ~Fits(r, used, lowerPriorityUsed)

\* Enough is asked to stop: the first of the waiters would fit once the leases of
\* lower classes that are asked to stop are released, or every lease that may be
\* asked has been, also when earlier leases were asked for another waiter.
RoomIsMade ==
  \A r \in waiters :
    (\A q \in waiters \ {r} : Precedes(r, q, sequence)) =>
      LET victims == {v \in running \cap Preemptible : Class[v] < Class[r]}
          asked == victims \cap preempting
      IN  \/ victims \subseteq preempting
          \/ Fits(r, used - TotalCost(asked), lowerPriorityUsed - TotalLower(asked))

\* Work of the top class is admitted, or gives up, even if no holder of a lease
\* ever stops of its own accord: preemption makes the room.
UrgentIsServed ==
  \A r \in Requests :
    Class[r] = 4 => (r \in waiters) ~> (r \notin waiters)
=============================================================================
