-------------------------------- MODULE Gate --------------------------------
(***************************************************************************)
(* The deferral gate, interaction/deferral.go, on what the duplex state    *)
(* promises (Floor): the policies, the wake-ups Bind subscribes to,        *)
(* provider backpressure and the client's response.create, with the driver *)
(* of the event loop that asks the gate and waits to be woken.             *)
(*                                                                         *)
(* Committed work is the set of the kinds it contains: "user" evidence,    *)
(* "observer" evidence, and "thought" for a parallel batch, an escalation  *)
(* or a tool result.  A step is one critical section of gate.mu, one       *)
(* snapshot of the duplex state or one Wake; the loop's own steps, which   *)
(* EventLoop tells apart, are taken as one where the gate is not asked.    *)
(***************************************************************************)
EXTENDS Floor, Naturals

CONSTANTS
  Policies,     \* the bound Deferral: kind "duplex" with its options, or "client"
  MaxRequests   \* bound on the calls of RequestResponse

Kinds == {"user", "observer", "thought"}

ASSUME GateAssumption ==
  /\ Policies \subseteq [kind : {"duplex", "client"},
                         overUser : BOOLEAN, overAgent : BOOLEAN, load : BOOLEAN]
  /\ MaxRequests \in Nat

VARIABLES
  policy,
  backpressure, requested,   \* Gate.backpressure and Gate.requested
  waking,    \* calls of the gate that have left gate.mu and owe a Wake
  work,      \* kinds in the committed work that waits for a run
  signal,    \* the loop's signal channel holds a token
  driver,    \* AdmitRun: where it stands, the batch offered, the snapshot
  asked,     \* ghost: calls of RequestResponse
  released   \* ghost: runs released by a request

gateVars == <<policy, backpressure, requested, waking, work, signal, driver, asked, released>>
gvars == <<floorVars, gateVars>>

Waiting == [pc |-> "wait", offered |-> {}, user |-> FALSE, agent |-> FALSE]

GateTypeOK ==
  /\ FloorTypeOK
  /\ policy \in Policies
  /\ backpressure \in BOOLEAN /\ requested \in BOOLEAN /\ signal \in BOOLEAN
  /\ waking \subseteq {"load", "client"}
  /\ work \subseteq Kinds
  /\ driver \in [pc : {"wait", "ask", "read", "clear"}, offered : SUBSET Kinds,
                 user : BOOLEAN, agent : BOOLEAN]
  /\ asked \in 0..MaxRequests /\ released \in Nat

GateInit ==
  /\ FloorInit
  /\ policy \in Policies
  /\ backpressure = FALSE /\ requested = FALSE /\ waking = {}
  /\ work = {} /\ signal = FALSE /\ driver = Waiting
  /\ asked = 0 /\ released = 0

-----------------------------------------------------------------------------
\* The policies.

\* AutonomousObservation: observers' observations and nothing else.
Autonomous(batch) == batch = {"observer"}

\* duplexDeferral.Admit and clientDriven.Admit.
Admit(batch, user, agent, load, request) ==
  IF policy.kind = "client" THEN request
  ELSE \/ "thought" \in batch
       \/ /\ ~(policy.load /\ load)
          /\ ~(user /\ ~policy.overUser)
          /\ ~(agent /\ ~Autonomous(batch) /\ ~policy.overAgent)

\* Mutant of Conditions: the policy names the user's condition only.
ConditionsOfUser ==
  IF policy.kind # "client" /\ ~policy.overUser THEN {"userStopped"} ELSE {}

\* Conditions: the transitions that may end a deferral.
Conditions ==
  IF policy.kind = "client" THEN {}
  ELSE (IF policy.overUser THEN {} ELSE {"userStopped"})
       \cup (IF policy.overAgent THEN {} ELSE {"agentStopped"})

\* Coordinator.Wake; with nothing waiting there is nothing to tell.
Wake == signal' = (signal \/ work # {})

-----------------------------------------------------------------------------
\* The observer Bind registers, called by the goroutine that publishes.
Observe(t) ==
  /\ Published(t)
  /\ IF t.kind \in Conditions THEN Wake ELSE UNCHANGED signal
  /\ UNCHANGED <<policy, backpressure, requested, waking, work, driver, asked, released>>

\* SetBackpressure of what it is not already; relief owes a wake-up.
SetBackpressure ==
  /\ policy.load /\ "load" \notin waking
  /\ backpressure' = ~backpressure
  /\ waking' = IF backpressure THEN waking \cup {"load"} ELSE waking
  /\ UNCHANGED <<floorVars, policy, requested, work, signal, driver, asked, released>>

RequestResponse ==
  /\ asked < MaxRequests /\ "client" \notin waking
  /\ requested' = TRUE /\ asked' = asked + 1
  /\ waking' = waking \cup {"client"}
  /\ UNCHANGED <<floorVars, policy, backpressure, work, signal, driver, released>>

GateWake(who) ==
  /\ who \in waking
  /\ waking' = waking \ {who}
  /\ Wake
  /\ UNCHANGED <<floorVars, policy, backpressure, requested, work, driver, asked, released>>

-----------------------------------------------------------------------------
\* The event loop: evidence is committed and waits, merged with what waits.
Submit(k) ==
  /\ k \notin work
  /\ work' = work \cup {k} /\ signal' = TRUE
  /\ UNCHANGED <<floorVars, policy, backpressure, requested, waking, driver, asked, released>>

Drive ==
  /\ driver.pc = "wait" /\ signal
  /\ signal' = FALSE
  /\ driver' = IF work # {} THEN [Waiting EXCEPT !.pc = "ask"] ELSE Waiting
  /\ UNCHANGED <<floorVars, policy, backpressure, requested, waking, work, asked, released>>

\* AdmitRun, on the batch selected: the duplex snapshot.
AdmitSnapshot ==
  /\ driver.pc = "ask"
  /\ driver' = [pc |-> "read", offered |-> work, user |-> userSpeaking, agent |-> agentSpeaking]
  /\ UNCHANGED <<floorVars, policy, backpressure, requested, waking, work, signal, asked, released>>

\* Mutant of AdmitDecide: the request stays after the run it released.
AdmitDecideKept ==
  /\ driver.pc = "read"
  /\ LET admitted == Admit(driver.offered, driver.user, driver.agent, backpressure, requested)
     IN  /\ work' = IF admitted THEN {} ELSE work
         /\ released' = IF admitted /\ requested THEN released + 1 ELSE released
  /\ driver' = Waiting
  /\ UNCHANGED <<floorVars, policy, backpressure, requested, waking, signal, asked>>

\* The decision, on what is read under gate.mu.  A run, which takes all the work
\* there is by then, follows unless a request must be consumed first; a batch
\* that is refused waits.
AdmitDecide ==
  /\ driver.pc = "read"
  /\ LET admitted == Admit(driver.offered, driver.user, driver.agent, backpressure, requested)
     IN  IF admitted /\ requested
         THEN driver' = [driver EXCEPT !.pc = "clear"] /\ UNCHANGED work
         ELSE driver' = Waiting /\ work' = IF admitted THEN {} ELSE work
  /\ UNCHANGED <<floorVars, policy, backpressure, requested, waking, signal, asked, released>>

\* The request is consumed under a second lock, whoever made it, and the run
\* starts.
AdmitConsume ==
  /\ driver.pc = "clear"
  /\ requested' = FALSE /\ released' = released + 1
  /\ work' = {} /\ driver' = Waiting
  /\ UNCHANGED <<floorVars, policy, backpressure, waking, signal, asked>>

DriverStep == Drive \/ AdmitSnapshot \/ AdmitDecide \/ AdmitConsume

GateNext ==
  \/ FloorMoves /\ UNCHANGED gateVars
  \/ \E t \in unpublished : Observe(t)
  \/ SetBackpressure \/ RequestResponse
  \/ \E who \in waking : GateWake(who)
  \/ \E k \in Kinds : Submit(k)
  \/ DriverStep

GateSpec == GateInit /\ [][GateNext]_gvars

\* A call that has begun ends, a transition is published, and the driver's
\* goroutine runs; nobody need ever fall silent or ask.
FairGateSpec ==
  /\ GateSpec
  /\ \A who \in Playback \cup {User} : WF_gvars(\E t \in unpublished : t.who = who /\ Observe(t))
  /\ \A who \in {"load", "client"} : WF_gvars(GateWake(who))
  /\ WF_gvars(DriverStep)

-----------------------------------------------------------------------------
\* No deferral is stranded: work that waits, with the loop asleep, while the
\* policy would admit it, has a wake-up on its way: a transition the policy
\* named that is still to be published, in whatever order, a relief or a
\* request ("a policy that defers on a condition it never named would deadlock").
DeferralIsOwedAWake ==
  /\ work # {} /\ driver.pc = "wait" /\ ~signal
  /\ Admit(work, userSpeaking, agentSpeaking, backpressure, requested)
  => \/ \E t \in unpublished : t.kind \in Conditions
     \/ waking # {}

\* One response.create is no standing permission: the runs that requests
\* released, and the one a pending request may release, are never more than
\* the requests made, although AdmitRun reads and clears it in two sections.
RequestReleasesOneRun ==
  released + (IF requested THEN 1 ELSE 0) <= asked

\* Work the policy goes on admitting does not wait for ever.
DeferredIsReleased ==
  []<>(work = {} \/ ~Admit(work, userSpeaking, agentSpeaking, backpressure, requested))
=============================================================================
