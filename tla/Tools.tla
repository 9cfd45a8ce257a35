-------------------------------- MODULE Tools --------------------------------
(***************************************************************************)
(* The tool dispatch path, action/tools.go, over the irreversibility       *)
(* ledger.  An attempt is one call of Dispatch (for a tool this process    *)
(* executes) or of EmitRemote (for one the client executes); several       *)
(* attempts may be made for one call, in sequence or side by side.  A step *)
(* is one critical section of tools.mu or of the ledger, one question to   *)
(* the confirmer, or one execution of the dispatcher.                      *)
(*                                                                         *)
(* The commitment of a call is "action_" + CallID, so a call and its       *)
(* commitment are the same identifier, and the duplicate-identity error    *)
(* that authorize tolerates is always preceded by the duplicate-commitment *)
(* error that it does not.  The callers split a batch by its dispatchers   *)
(* (dispatch in binding/cascade/process.go), so Dispatch is not            *)
(* called for a tool without one nor EmitRemote for a tool with one.       *)
(***************************************************************************)
EXTENDS Ledger, FiniteSets

CONSTANTS
  Attempts,        \* calls of Dispatch and EmitRemote
  CallOf,          \* [Attempts -> CallIds]
  Remote,          \* calls whose tool has no dispatcher: the client executes them
  Authoritative,   \* calls the trajectory holds as executable
  NeedsConfirm     \* calls whose tool declares a confirmation

ASSUME ToolsAssumption ==
  /\ CallIds \subseteq Ids
  /\ CallOf \in [Attempts -> CallIds]
  /\ Remote \subseteq CallIds /\ Authoritative \subseteq CallIds
  /\ NeedsConfirm \subseteq CallIds

VARIABLES
  results,    \* the keys of Tools.results
  inFlight,   \* Tools.inFlight
  att,        \* [Attempts -> where the attempt stands, and what it returned]
  effects,    \* [CallIds -> how often the effect was set off]
  approved    \* calls some confirmer, or their own declaration, approved

toolsVars == <<results, inFlight, att, effects, approved>>

dispatchVars == <<ledgerVars, toolsVars>>

Pcs == {"new", "claim", "prepare", "confirm", "deny", "queue", "emit", "effect",
        "complete", "store", "leave", "returned"}

ToolsTypeOK ==
  /\ LedgerTypeOK
  /\ results \subseteq CallIds
  /\ att \in [Attempts -> [pc : Pcs, out : {"none", "result", "error"}]]
  /\ effects \in [CallIds -> Nat]
  /\ approved \subseteq CallIds
  /\ inFlight = {CallOf[a] : a \in {b \in Attempts : CallOf[b] \notin Remote
                                     /\ att[b].pc \notin {"new", "claim", "returned"}}}

ToolsInit ==
  /\ LedgerInit
  /\ results = {} /\ inFlight = {} /\ approved = {}
  /\ att = [a \in Attempts |-> [pc |-> "new", out |-> "none"]]
  /\ effects = [c \in CallIds |-> 0]

IsRemote(a) == CallOf[a] \in Remote

To(a, pc) == att' = [att EXCEPT ![a].pc = pc]

\* The attempt ends with an error; Dispatch still has its inFlight entry to drop.
Fail(a) == att' = [att EXCEPT ![a] = [pc |-> IF IsRemote(a) THEN "returned" ELSE "leave",
                                      out |-> "error"]]

-----------------------------------------------------------------------------
\* authoritative: the trajectory decides, whoever calls.
CheckAuthority(a) ==
  /\ att[a].pc = "new"
  /\ IF CallOf[a] \in Authoritative
     THEN To(a, IF IsRemote(a) THEN "prepare" ELSE "claim")
     ELSE att' = [att EXCEPT ![a] = [pc |-> "returned", out |-> "error"]]
  /\ UNCHANGED <<ledgerVars, results, inFlight, effects, approved>>

\* Dispatch: a finished call returns its result, a running one is refused.
ClaimCall(a) ==
  /\ att[a].pc = "claim"
  /\ \/ /\ CallOf[a] \in results
        /\ att' = [att EXCEPT ![a] = [pc |-> "returned", out |-> "result"]]
        /\ UNCHANGED inFlight
     \/ /\ CallOf[a] \notin results /\ CallOf[a] \in inFlight
        /\ att' = [att EXCEPT ![a] = [pc |-> "returned", out |-> "error"]]
        /\ UNCHANGED inFlight
     \/ /\ CallOf[a] \notin results \cup inFlight
        /\ inFlight' = inFlight \cup {CallOf[a]}
        /\ To(a, "prepare")
  /\ UNCHANGED <<ledgerVars, results, effects, approved>>

\* Mutant of Authorize: every error of Prepare is tolerated.
AuthorizeTolerant(a) ==
  /\ att[a].pc = "prepare"
  /\ IF state[CallOf[a]] = "absent" THEN Prepare(CallOf[a], CallOf[a]) ELSE UNCHANGED ledgerVars
  /\ To(a, "confirm")
  /\ UNCHANGED <<results, inFlight, effects, approved>>

\* authorize prepares the commitment; a call that has one is refused.
Authorize(a) ==
  /\ att[a].pc = "prepare"
  /\ IF state[CallOf[a]] = "absent"
     THEN Prepare(CallOf[a], CallOf[a]) /\ To(a, "confirm")
     ELSE Fail(a) /\ UNCHANGED ledgerVars
  /\ UNCHANGED <<results, inFlight, effects, approved>>

\* confirm: declared unnecessary, or approved, refused or failed.
Confirm(a) ==
  /\ att[a].pc = "confirm"
  /\ \E yes \in BOOLEAN :
       /\ CallOf[a] \notin NeedsConfirm => yes
       /\ approved' = IF yes THEN approved \cup {CallOf[a]} ELSE approved
       /\ To(a, IF yes THEN "queue" ELSE "deny")
  /\ UNCHANGED <<ledgerVars, results, inFlight, effects>>

Deny(a) ==
  /\ att[a].pc = "deny"
  /\ Cancel(CallOf[a])
  /\ Fail(a)
  /\ UNCHANGED <<results, inFlight, effects, approved>>

\* A lifecycle step that does not exist is tolerated here; Emit decides.
QueueCall(a) ==
  /\ att[a].pc = "queue"
  /\ IF state[CallOf[a]] \in {"prepared", "queued"} THEN Queue(CallOf[a])
                                                    ELSE UNCHANGED ledgerVars
  /\ To(a, "emit")
  /\ UNCHANGED <<results, inFlight, effects, approved>>

\* Mutant of EmitCall: the crossing is left to be recorded with the outcome.
EmitCallLater(a) ==
  /\ att[a].pc = "emit"
  /\ To(a, "effect")
  /\ UNCHANGED <<ledgerVars, results, inFlight, effects, approved>>

\* The crossing is recorded before the call runs, or leaves for the client.
EmitCall(a) ==
  /\ att[a].pc = "emit"
  /\ IF Terminal(state[CallOf[a]])
     THEN Fail(a) /\ UNCHANGED ledgerVars
     ELSE Emit(CallOf[a]) /\ To(a, "effect")
  /\ UNCHANGED <<results, inFlight, effects, approved>>

\* The dispatcher runs, or EmitRemote returns and the call is sent.
Effect(a) ==
  /\ att[a].pc = "effect"
  /\ effects' = [effects EXCEPT ![CallOf[a]] = @ + 1]
  /\ IF IsRemote(a) THEN att' = [att EXCEPT ![a] = [pc |-> "returned", out |-> "result"]]
                    ELSE To(a, "complete")
  /\ UNCHANGED <<ledgerVars, results, inFlight, approved>>

\* The commitment is complete, whatever the dispatcher returned; a result
\* under another identity is refused and not kept.
CompleteCall(a) ==
  /\ att[a].pc = "complete"
  /\ IF Terminal(state[CallOf[a]]) THEN UNCHANGED ledgerVars ELSE Complete(CallOf[a], 0)
  /\ \/ To(a, "store")
     \/ Fail(a)
  /\ UNCHANGED <<results, inFlight, effects, approved>>

StoreResult(a) ==
  /\ att[a].pc = "store"
  /\ results' = results \cup {CallOf[a]}
  /\ att' = [att EXCEPT ![a] = [pc |-> "leave", out |-> "result"]]
  /\ UNCHANGED <<ledgerVars, inFlight, effects, approved>>

\* The deferred function of Dispatch.
LeaveDispatch(a) ==
  /\ att[a].pc = "leave"
  /\ inFlight' = inFlight \ {CallOf[a]}
  /\ To(a, "returned")
  /\ UNCHANGED <<ledgerVars, results, effects, approved>>

\* Complete, when the client's or a synthesised result joins the trajectory.
CompleteRemote(c) ==
  /\ c \in Remote /\ effects[c] > 0
  /\ Complete(c, 0)
  /\ UNCHANGED toolsVars

Attempt(a) == \/ CheckAuthority(a) \/ ClaimCall(a) \/ Authorize(a) \/ Confirm(a) \/ Deny(a)
              \/ QueueCall(a) \/ EmitCall(a) \/ Effect(a) \/ CompleteCall(a)
              \/ StoreResult(a) \/ LeaveDispatch(a)

\* The ledger's other callers move commitments to speech, which carry no call:
\* the planner, the supersession that owes a repair for what was heard, and the
\* repairs and truncations that settle it.
SpeechOperation(id) ==
  /\ \/ Prepare(id, NoCall) \/ Queue(id) \/ Emit(id) \/ Cancel(id)
     \/ \E ms \in 0..MaxMS : Complete(id, ms) \/ Truncated(id, ms)
     \/ /\ Len(obligations) < MaxObligations
        /\ \E revision \in Revisions : Invalidate(id, revision)
     \/ ResolveObligation(id)
  /\ UNCHANGED toolsVars

ToolsNext == \/ \E a \in Attempts : Attempt(a)
             \/ \E c \in CallIds : CompleteRemote(c)
             \/ \E id \in Ids \ CallIds : SpeechOperation(id)

ToolsSpec == ToolsInit /\ [][ToolsNext]_dispatchVars

-----------------------------------------------------------------------------
\* A call takes effect at most once, over retries after success, after refusal
\* and after a mismatched result, and over attempts made side by side
\* ("Idempotency is enforced here rather than hoped for").
EffectAtMostOnce ==
  \A c \in CallIds : effects[c] <= 1

\* An effect was authoritative and approved, and the ledger says it crossed,
\* from before the dispatcher runs ("The crossing is recorded before the call
\* runs").
EffectIsAuthorized ==
  \A c \in CallIds : effects[c] > 0 =>
    /\ c \in Authoritative \cap approved
    /\ Crossed(state[c])

=============================================================================
