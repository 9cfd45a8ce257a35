---------------------------- MODULE ClientCalls ----------------------------
(***************************************************************************)
(* The tracker of client-executed tool calls,                              *)
(* binding/clientcalls/clientcalls.go, as the dispatch path of             *)
(* binding/cascade/process.go uses it: an invocation is tracked, its       *)
(* remote calls are sent to the client, its local calls run here and are   *)
(* handed over with Hold, the client answers in any order or not at all,   *)
(* and a deadline answers for it.                                          *)
(*                                                                         *)
(* A step is one critical section of tracker.mu or one call of             *)
(* Config.Commit, which is made without the lock.  A result is where it    *)
(* came from.  Calls that answer several times, late or for a finished     *)
(* invocation get an error and change nothing.                             *)
(***************************************************************************)
EXTENDS Naturals, FiniteSets

CONSTANTS
  Invocations,
  Calls,        \* [Invocations -> its set of calls]
  Local,        \* calls this process executes itself
  Timed,        \* Config.Timeout is positive
  MaxFailures   \* bound on the commits of an invocation that fail

CallSet == UNION {Calls[i] : i \in Invocations}

ASSUME ClientCallsAssumption ==
  /\ \A i \in Invocations : Calls[i] # {}
  /\ \A i, j \in Invocations : i # j => Calls[i] \cap Calls[j] = {}
  /\ Local \subseteq CallSet
  /\ Timed \in BOOLEAN /\ MaxFailures \in Nat

Owner(c) == CHOOSE i \in Invocations : c \in Calls[i]

VARIABLES
  tracked,     \* [Invocations -> "new", "pending" or "gone"]: Tracker.pending
  dispatched,  \* invocation.dispatched: someone has claimed the batch
  results,     \* [CallSet -> "none", "client", "local" or "expired"]
  deadline,    \* [Invocations -> "off", "armed", "fired" or "done"]: the timer
  local,       \* [Invocations -> "running" or "held"]: this process's half
  claim,       \* [Invocations -> who is committing: a call, "expire", or "nobody"]
  phase,       \* [Invocations -> "commit" or "forget": how far the claimant is]
  ordered,     \* [CallSet -> its result in the batch that was claimed]
  committed,   \* [Invocations -> how many times its batch was committed]
  batch,       \* [CallSet -> its result in the committed batch]
  failures,    \* [Invocations -> its commits that failed so far]
  closed       \* Tracker.closed

vars == <<tracked, dispatched, results, deadline, local, claim, phase, ordered,
          committed, batch, failures, closed>>

Sources == {"none", "client", "local", "expired"}

ClientCallsTypeOK ==
  /\ tracked \in [Invocations -> {"new", "pending", "gone"}]
  /\ dispatched \in [Invocations -> BOOLEAN]
  /\ results \in [CallSet -> Sources]
  /\ deadline \in [Invocations -> {"off", "armed", "fired", "done"}]
  /\ local \in [Invocations -> {"running", "held"}]
  /\ claim \in [Invocations -> {"nobody", "result", "expire"}]
  /\ phase \in [Invocations -> {"commit", "forget"}]
  /\ ordered \in [CallSet -> Sources]
  /\ committed \in [Invocations -> Nat]
  /\ batch \in [CallSet -> Sources]
  /\ failures \in [Invocations -> 0..MaxFailures]
  /\ closed \in BOOLEAN
  /\ \A i \in Invocations : deadline[i] = "armed" => tracked[i] = "pending"

ClientCallsInit ==
  /\ tracked = [i \in Invocations |-> "new"]
  /\ dispatched = [i \in Invocations |-> FALSE]
  /\ results = [c \in CallSet |-> "none"]
  /\ deadline = [i \in Invocations |-> "off"]
  /\ local = [i \in Invocations |-> "running"]
  /\ claim = [i \in Invocations |-> "nobody"]
  /\ phase = [i \in Invocations |-> "commit"]
  /\ ordered = [c \in CallSet |-> "none"]
  /\ committed = [i \in Invocations |-> 0]
  /\ batch = [c \in CallSet |-> "none"]
  /\ failures = [i \in Invocations |-> 0]
  /\ closed = FALSE

Put(f, i, v) == [f EXCEPT ![i] = v]

-----------------------------------------------------------------------------
\* Mutant of Track: the deadline is never armed.
TrackUntimed(i) ==
  /\ tracked[i] = "new"
  /\ ~closed
  /\ tracked' = Put(tracked, i, "pending")
  /\ UNCHANGED <<dispatched, results, deadline, local, claim, phase, ordered, committed,
                 batch, failures, closed>>

\* Track, before the calls are sent; a closed tracker refuses it.
Track(i) ==
  /\ tracked[i] = "new"
  /\ ~closed
  /\ tracked' = Put(tracked, i, "pending")
  /\ deadline' = Put(deadline, i, IF Timed THEN "armed" ELSE "off")
  /\ UNCHANGED <<dispatched, results, local, claim, phase, ordered, committed, batch,
                 failures, closed>>

\* Hold: it records, and leaves completing the batch to whoever comes later.
Hold(i) ==
  /\ tracked[i] # "new" /\ local[i] = "running"
  /\ local' = Put(local, i, "held")
  /\ results' = IF tracked[i] = "pending"
                THEN [c \in CallSet |-> IF c \in Calls[i] \cap Local THEN "local" ELSE results[c]]
                ELSE results
  /\ UNCHANGED <<tracked, dispatched, deadline, claim, phase, ordered, committed, batch,
                 failures, closed>>

\* Mutant of Answered: one result is taken for all of them.
AnsweredOnce(res, i) == \E c \in Calls[i] : res[c] # "none"

\* len(results) = len(calls): every call of the invocation has a result.
Answered(res, i) == \A c \in Calls[i] : res[c] # "none"

\* readyLocked: the batch is complete and nobody has claimed it.
Ready(res, i) == ~dispatched[i] /\ Answered(res, i)

\* Mutant of Claim: the batch is not marked as claimed.
ClaimUnmarked(res, i, who) ==
  /\ results' = res
  /\ IF Ready(res, i)
     THEN /\ claim' = Put(claim, i, who)
          /\ phase' = Put(phase, i, "commit")
          /\ ordered' = [c \in CallSet |-> IF c \in Calls[i] THEN res[c] ELSE ordered[c]]
     ELSE UNCHANGED <<claim, phase, ordered>>
  /\ UNCHANGED dispatched

\* The claim goes to whoever completed the batch.
Claim(res, i, who) ==
  /\ results' = res
  /\ IF Ready(res, i)
     THEN /\ dispatched' = Put(dispatched, i, TRUE)
          /\ claim' = Put(claim, i, who)
          /\ phase' = Put(phase, i, "commit")
          /\ ordered' = [c \in CallSet |-> IF c \in Calls[i] THEN res[c] ELSE ordered[c]]
     ELSE UNCHANGED <<dispatched, claim, phase, ordered>>

\* Result, up to the end of its first critical section.  The client is sent the
\* remote calls only (sendToClient), but an answer to any tracked call is taken.
Result(c) ==
  LET i == Owner(c)
  IN  /\ tracked[i] = "pending"
      /\ results[c] = "none"
      /\ Claim(Put(results, c, "client"), i, "result")
      /\ UNCHANGED <<tracked, deadline, local, committed, batch, failures, closed>>

\* The timer's goroutine starts; from here Stop comes too late.
DeadlineFires(i) ==
  /\ deadline[i] = "armed"
  /\ deadline' = Put(deadline, i, "fired")
  /\ UNCHANGED <<tracked, dispatched, results, local, claim, phase, ordered,
                 committed, batch, failures, closed>>

\* Mutant of Expire: every call gets the timeout, answered or not.
ExpireAll(i) ==
  /\ deadline[i] = "fired"
  /\ deadline' = Put(deadline, i, "done")
  /\ IF tracked[i] = "pending" /\ ~dispatched[i]
     THEN Claim([c \in CallSet |-> IF c \in Calls[i] THEN "expired" ELSE results[c]], i, "expire")
     ELSE UNCHANGED <<dispatched, results, claim, phase, ordered>>
  /\ UNCHANGED <<tracked, local, committed, batch, failures, closed>>

\* expire, up to the end of its first critical section.
Expire(i) ==
  /\ deadline[i] = "fired"
  /\ deadline' = Put(deadline, i, "done")
  /\ IF tracked[i] = "pending" /\ ~dispatched[i]
     THEN Claim([c \in CallSet |-> IF c \in Calls[i] /\ results[c] = "none" THEN "expired"
                                   ELSE results[c]], i, "expire")
     ELSE UNCHANGED <<dispatched, results, claim, phase, ordered>>
  /\ UNCHANGED <<tracked, local, committed, batch, failures, closed>>

\* Config.Commit takes the batch that was copied when it was claimed.
CommitLands(i) ==
  /\ claim[i] # "nobody" /\ phase[i] = "commit"
  /\ committed' = Put(committed, i, committed[i] + 1)
  /\ batch' = [c \in CallSet |-> IF c \in Calls[i] THEN ordered[c] ELSE batch[c]]
  /\ phase' = Put(phase, i, "forget")
  /\ UNCHANGED <<tracked, dispatched, results, deadline, local, claim, ordered, failures, closed>>

\* Config.Commit fails (the event loop's queue is full): the claim is undone.
CommitFails(i) ==
  /\ claim[i] # "nobody" /\ phase[i] = "commit"
  /\ failures[i] < MaxFailures
  /\ failures' = Put(failures, i, failures[i] + 1)
  /\ dispatched' = Put(dispatched, i, IF tracked[i] = "pending" THEN FALSE ELSE dispatched[i])
  /\ claim' = Put(claim, i, "nobody")
  /\ UNCHANGED <<tracked, results, deadline, local, phase, ordered, committed, batch, closed>>

\* forget, unless Close has emptied the tracker meanwhile.
Forget(i) ==
  /\ claim[i] # "nobody" /\ phase[i] = "forget"
  /\ claim' = Put(claim, i, "nobody")
  /\ tracked' = Put(tracked, i, "gone")
  /\ deadline' = Put(deadline, i, IF tracked[i] = "pending" /\ deadline[i] = "armed"
                                  THEN "off" ELSE deadline[i])
  /\ UNCHANGED <<dispatched, results, local, phase, ordered, committed, batch, failures, closed>>

Close ==
  /\ ~closed
  /\ closed' = TRUE
  /\ deadline' = [i \in Invocations |-> IF deadline[i] = "armed" THEN "off" ELSE deadline[i]]
  /\ tracked' = [i \in Invocations |-> IF tracked[i] = "pending" THEN "gone" ELSE tracked[i]]
  /\ UNCHANGED <<dispatched, results, local, claim, phase, ordered, committed, batch, failures>>

Settle(i) == CommitLands(i) \/ CommitFails(i) \/ Forget(i)

ClientCallsNext ==
  \/ \E i \in Invocations : Track(i) \/ Hold(i) \/ DeadlineFires(i) \/ Expire(i) \/ Settle(i)
  \/ \E c \in CallSet : Result(c)
  \/ Close

ClientCallsSpec == ClientCallsInit /\ [][ClientCallsNext]_vars

\* Timers fire, and a claimant commits and forgets.  Nothing obliges the client
\* to answer or local execution to end.
ClientCallsFairness ==
  \A i \in Invocations : /\ WF_vars(DeadlineFires(i) \/ Expire(i))
                         /\ WF_vars(Settle(i))

FairClientCallsSpec == ClientCallsSpec /\ ClientCallsFairness

-----------------------------------------------------------------------------
\* The batch of an invocation reaches the trajectory at most once, however the
\* last answer, the deadline, a failed commit and its retry race
\* (readyLocked: "two callers cannot commit the same invocation").
BatchCommittedOnce ==
  \A i \in Invocations : committed[i] <= 1

\* A committed batch answers every call of the invocation ("A batch is
\* committed only when every call in it has a result").
BatchIsComplete ==
  \A i \in Invocations : committed[i] > 0 => \A c \in Calls[i] : batch[c] # "none"

\* An answer given is never lost on its way into the batch.  The deadline answers
\* for what is missing only; what local execution held stays, and is in every
\* batch claimed from then on; the client's answer gives way to nothing but local
\* execution's result for the same call (Hold overwrites), and is in the batch
\* committed: one claimed before a failed commit is not committed in its stale form.
AnswersAreKept ==
  [][\A c \in CallSet :
       /\ results[c] = "local" => /\ results'[c] = "local"
                                  /\ ordered'[c] \in {ordered[c], "local"}
       /\ results[c] = "client" => /\ \/ results'[c] = "client"
                                      \/ c \in Local /\ results'[c] = "local"
                                   /\ batch'[c] \in {batch[c], "client"}]_vars

\* Somebody is always left to settle a tracked invocation, whichever of the last
\* answer, the deadline and the local half came when: its deadline has yet to
\* run, or someone holds the claim and has yet to commit or to forget.
SettlementIsDue ==
  \A i \in Invocations :
    Timed /\ tracked[i] = "pending" /\ failures[i] = 0 =>
      deadline[i] \in {"armed", "fired"} \/ claim[i] # "nobody"

\* Every tracked invocation is committed, although neither the client nor local
\* execution need ever answer ("a stuck invocation is not" an outcome), unless
\* the session ends or its commit has failed, after which nothing retries.
InvocationSettles ==
  \A i \in Invocations :
    (tracked[i] = "pending") ~> (committed[i] > 0 \/ closed \/ failures[i] > 0)
=============================================================================
