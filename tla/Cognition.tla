----------------------------- MODULE Cognition ------------------------------
(***************************************************************************)
(* The turns that write the canonical log, and what they write there:      *)
(* continuation/runner.go (run, commit, Prepare, Adopt) and the cascade    *)
(* binding's use of it, binding/cascade/process.go (Process, runFast,      *)
(* runSlow), repair.go and prepare.go.                                     *)
(*                                                                         *)
(* The event loop's driver runs continuations, raising the repairs the     *)
(* ledger owes before it thinks, and so do live goroutines of either       *)
(* phase: interjections, silent acts and speech into silence while         *)
(* somebody is still speaking, and the line that fills the silence of a    *)
(* deliberation.  Beside them observations, playback reports and tool      *)
(* results commit, and speculations on a sentence still being spoken end   *)
(* whenever they like.  A lock or a store call is one step; what is read   *)
(* in one and used in another is kept in run.                              *)
(*                                                                         *)
(* Two counters number what was said, and nothing relates them: the        *)
(* runtime numbers the observations it submits (revision), and the         *)
(* recogniser its partial revisions (Partials), whose numbers label what   *)
(* is prepared, interjected and done before the sentence is observed.      *)
(*                                                                         *)
(* What a provider says is a choice of items.  An item produced by a       *)
(* continuation carries base, the length of the log it was derived from,   *)
(* prepared, the text it was prepared for if it was, and answers, the      *)
(* revision of the turn that committed it; they exist for the properties   *)
(* and no action reads them.                                               *)
(***************************************************************************)
EXTENDS Trajectory, FiniteSets

CONSTANTS
  Runners,    \* the goroutines that run continuations
  Driver,     \* the event loop's one
  CallNames,  \* the names providers give their calls
  Texts,      \* what may be said
  NoText,     \* of no preparation
  Phases,     \* the phases a preparation policy may prepare
  Partials,   \* the numbers the recogniser gives its partial revisions, 0 for none
  MaxRev,     \* bound: observations
  MaxInv,     \* bound: invocations
  MaxReports  \* bound: playback reports

VARIABLES
  run,          \* run[r]: where a runner is in its turn and what it has read
  revision,     \* runtime.revision: the latest revision submitted
  owed,         \* the ledger's outstanding obligations, of speech
  heard,        \* assistant items whose audio crossed the boundary
  sent,         \* calls that were dispatched
  byPhase,      \* preparations.byPhase, as a set of preparations
  speculating,  \* preparations still in flight, cancelled ones included
  invocations   \* invocations so far

vars == <<log, run, revision, owed, heard, sent, byPhase, speculating, invocations>>

ASSUME CognitionAssumption ==
  /\ Driver \in Runners
  /\ NoText \notin Texts
  /\ Phases \subseteq {"fast", "slow"}
  /\ Partials \subseteq Nat
  /\ MaxRev \in Nat /\ MaxInv \in Nat /\ MaxReports \in Nat

Idle == [pc |-> "idle", phase |-> "fast", rev |-> 0, base |-> 0, inv |-> 0, items |-> <<>>]

CognitionInit ==
  /\ log = <<>>
  /\ run = [r \in Runners |-> Idle]
  /\ revision = 0
  /\ owed = {} /\ heard = {} /\ sent = {}
  /\ byPhase = {} /\ speculating = {}
  /\ invocations = 0

Committed == Cardinality(Of(log, "observation"))

\* canonicalText: what the log says was said at a revision.
CanonicalText(l, rev) == {l[i].text : i \in {j \in Of(l, "observation") : l[j].rev = rev}}

Step(r, pc) == run' = [run EXCEPT ![r] = IF pc = "idle" THEN Idle ELSE [@ EXCEPT !.pc = pc]]

-----------------------------------------------------------------------------
\* What arrives while turns run.

\* owe: everything heard that answered an earlier revision, as the numbers go, is
\* owed a repair, once while the first is outstanding.
Owe(byRevision) ==
  owed \cup {[target |-> a, rev |-> byRevision] :
               a \in {b \in heard : /\ log[b].rev \in 1..(byRevision - 1)
                                    /\ \A o \in owed : o.target # b}}

\* submitObservation: the revision is announced, what it supersedes is owed, and
\* the event waits for the loop.
Submit ==
  /\ revision < MaxRev
  /\ revision' = revision + 1
  /\ owed' = Owe(revision + 1)
  /\ UNCHANGED <<log, run, heard, sent, byPhase, speculating, invocations>>

\* The loop commits the observation; what was really said is known now.
Observe(t) ==
  /\ Committed < revision
  /\ AppendBatch(<<[kind |-> "observation", rev |-> Committed + 1, text |-> t]>>)
  /\ UNCHANGED <<run, revision, owed, heard, sent, byPhase, speculating, invocations>>

\* The first frame of a spoken item: only the voice's items are spoken.
Hear(a) ==
  /\ a \in Of(log, "assistant") \ heard
  /\ log[a].phase = "fast" /\ Visibility(log, a) = "prepared"
  /\ heard' = heard \cup {a}
  /\ UNCHANGED <<log, run, revision, owed, sent, byPhase, speculating, invocations>>

\* speechSink.End and runtime.Truncate: played where something was heard, and
\* cancelled where nothing was or the client says it played nothing.
Report(a, vis) ==
  /\ Cardinality(Of(log, "state")) < MaxReports
  /\ a \in Of(log, "assistant") /\ log[a].phase = "fast"
  /\ vis = "played" => a \in heard
  /\ AppendBatch(<<[kind |-> "state", ref |-> a, vis |-> vis]>>)
  /\ UNCHANGED <<run, revision, owed, heard, sent, byPhase, speculating, invocations>>

\* A result comes back for a call that was dispatched; the client names the
\* call and not always its invocation.
Answer(id, inv) ==
  /\ id \in sent
  /\ AppendBatch(<<[kind |-> "result", inv |-> inv, call |-> id[2]]>>)
  /\ UNCHANGED <<run, revision, owed, heard, sent, byPhase, speculating, invocations>>

\* authorizedCallCommitRunner.tryStart: the graph's action path makes a proposal
\* an executable call under its own identity and revision, which is then executed.
Promote(id) ==
  /\ id \in Identities(log, "proposal")
  /\ \E i \in Of(log, "proposal") :
       /\ id = <<log[i].inv, log[i].call>>
       /\ AppendBatch(<<[kind |-> "call", inv |-> id[1], call |-> id[2], rev |-> log[i].rev,
                         base |-> Len(log), prepared |-> NoText, answers |-> 0]>>)
  /\ sent' = sent \cup {id}
  /\ UNCHANGED <<run, revision, owed, heard, byPhase, speculating, invocations>>

\* activationRunner.tryStartDisposition: or it is suppressed, for good.
Dispose(id) ==
  /\ id \in Identities(log, "proposal")
  /\ AppendBatch(<<[kind |-> "disposition", inv |-> id[1], call |-> id[2]]>>)
  /\ UNCHANGED <<run, revision, owed, heard, sent, byPhase, speculating, invocations>>

-----------------------------------------------------------------------------
\* Continuations.

\* buildItems: prose or an action, never both; the voice only proposes.
Outputs(phase, inv, rev, base, text) ==
  LET Item(kind) == [kind |-> kind, phase |-> phase, inv |-> inv, rev |-> rev,
                     base |-> base, prepared |-> text, answers |-> rev]
      Action(c) == [kind |-> IF phase = "slow" THEN "call" ELSE "proposal",
                    inv |-> inv, call |-> c, rev |-> rev, base |-> base, prepared |-> text,
                    answers |-> rev]
  IN  {<<Item("assistant")>>} \cup {<<Action(c)>> : c \in CallNames}

\* Mutant of Supersedes: only what the person said is new evidence.
SupersedesSpoken(item) == item.kind = "observation"

\* supersedesContinuation.
Supersedes(item) == item.kind \in {"observation", "required", "resolved", "result"}

\* AppendBatchAfter's test of what arrived after the base.
Fresh(l, base) == \A i \in (base + 1)..Len(l) : ~Supersedes(l[i])

\* A turn opens under a revision: the driver's with the obligations the ledger
\* still holds.
Open(r, phase, rev) ==
  /\ run[r].pc = "idle"
  /\ invocations < MaxInv
  /\ run' = [run EXCEPT ![r] = [Idle EXCEPT !.pc = IF r = Driver /\ owed # {} THEN "raise" ELSE "take",
                                            !.phase = phase, !.rev = rev]]
  /\ UNCHANGED <<log, revision, owed, heard, sent, byPhase, speculating, invocations>>

\* The calls that have a result.
AnsweredCalls(l) ==
  {c \in Of(l, "call") : <<l[c].inv, l[c].call>> \in Identities(l, "result")}

\* Process: what the batch brought is answered under the newest observation, or
\* under the number of a call whose result it brought, whichever is higher
\* (latestRevision).
Process(phase) ==
  /\ Committed > 0 \/ AnsweredCalls(log) # {}
  /\ \E n \in {0} \cup {log[c].rev : c \in AnsweredCalls(log)} :
       Open(Driver, phase, Max({Committed, n}))

\* An interjection, a silent act or speech into silence: beside the driver, under
\* the recogniser's number of what is being said.
Interject(r, phase) ==
  /\ r # Driver
  /\ \E rev \in Partials : Open(r, phase, rev)

\* breakSilenceWhileDeliberating: the voice speaks for a driver that still thinks,
\* under the driver's revision.
Hold(r) ==
  /\ r # Driver
  /\ run[Driver].pc = "think" /\ run[Driver].phase = "slow"
  /\ Open(r, "fast", run[Driver].rev)

\* The obligations raiseRepairs turns into items.
Raisable(l) ==
  {o \in owed : /\ o.rev \in ObservedRevisions(l)
                /\ Visibility(l, o.target) = "played"
                /\ PendingOf(l, o.target) = {}
                /\ o.rev > l[o.target].rev}

\* raiseRepairs: the policy declines some, for good, and the rest are raised in
\* one batch at the version that was read; a conflict raises none.
RaiseRepairs(r, declined) ==
  /\ run[r].pc = "raise"
  /\ declined \subseteq {o \in owed : o.rev \in ObservedRevisions(log)}
  /\ owed' = owed \ declined
  /\ LET items == {[kind |-> "required", ref |-> o.target, rev |-> o.rev] :
                     o \in Raisable(log) \ declined}
     IN  IF items = {} THEN UNCHANGED log ELSE AppendBatch(SetToSeq(items)) \/ UNCHANGED log
  /\ Step(r, "take")
  /\ UNCHANGED <<revision, heard, sent, byPhase, speculating, invocations>>

\* Mutant of Confirms: the revision that was prepared for is the one answered.
ConfirmsRevision(p, rev) == p.rev = rev

\* adopt compares what the preparation assumed with what was said.
Confirms(p, rev) == p.text \in CanonicalText(log, rev)

\* adopt takes the phase's preparation out of the map, whatever comes of it, if
\* the log holds anything under the turn's number; with none that answers it the
\* runner reads the log and thinks.
TakePrepared(r) ==
  /\ run[r].pc = "take"
  /\ byPhase' = {p \in byPhase : \/ p.phase # run[r].phase
                                  \/ CanonicalText(log, run[r].rev) = {}}
  /\ \/ \E p \in byPhase :
          /\ p.phase = run[r].phase /\ Confirms(p, run[r].rev)
          /\ run' = [run EXCEPT ![r].pc = "adopt", ![r].inv = p.inv, ![r].items = p.items]
          /\ UNCHANGED invocations
     \/ /\ \A p \in byPhase : p.phase = run[r].phase => ~Confirms(p, run[r].rev)
        /\ invocations < MaxInv
        /\ invocations' = invocations + 1
        /\ run' = [run EXCEPT ![r].pc = "think", ![r].inv = invocations + 1, ![r].base = Len(log)]
  /\ UNCHANGED <<log, revision, owed, heard, sent, speculating>>

\* Where a committed turn goes next: a call is dispatched or held, a slow answer
\* settles what was owed, and a fast one is spoken.
After(items) ==
  CASE items[1].kind = "call" -> "act"
    [] items[1].kind = "assistant" /\ items[1].phase = "slow" -> "repair"
    [] OTHER -> "idle"

\* commit: on the log the output was derived from, but for what does not concern
\* it; otherwise nothing is appended and the turn ends.
Commit(r, items, base) ==
  \/ /\ Fresh(log, base) /\ AppendBatch(items)
     /\ run' = [run EXCEPT ![r] = IF After(items) = "idle" THEN Idle
                                  ELSE [@ EXCEPT !.pc = After(items), !.items = items]]
  \/ /\ ~(Fresh(log, base) /\ AcceptsBatch(log, items))
     /\ run' = [run EXCEPT ![r] = Idle]
     /\ UNCHANGED log

\* run: the provider completes with some output.
Think(r) ==
  /\ run[r].pc = "think"
  /\ \E items \in Outputs(run[r].phase, run[r].inv, run[r].rev, run[r].base, NoText) :
       Commit(r, items, run[r].base)
  /\ UNCHANGED <<revision, owed, heard, sent, byPhase, speculating, invocations>>

\* run, interrupted: the prose so far, if any, is retained and no action escapes;
\* calls left open by whomever are closed by runSlow.
Interrupt(r) ==
  /\ run[r].pc = "think"
  /\ LET said == [kind |-> "assistant", phase |-> run[r].phase, inv |-> run[r].inv,
                  rev |-> run[r].rev, base |-> run[r].base, prepared |-> NoText, answers |-> run[r].rev]
     IN  UNCHANGED log \/ (Fresh(log, run[r].base) /\ AppendBatch(<<said>>))
  /\ Step(r, IF run[r].phase = "slow" THEN "close" ELSE "idle")
  /\ UNCHANGED <<revision, owed, heard, sent, byPhase, speculating, invocations>>

\* Adopt: the preparation is committed against the log as it is read there.
Adopt(r) ==
  /\ run[r].pc = "adopt"
  /\ run' = [run EXCEPT ![r].pc = "adopting", ![r].base = Len(log)]
  /\ UNCHANGED <<log, revision, owed, heard, sent, byPhase, speculating, invocations>>

\* A refused adoption is thought out instead.
AdoptCommit(r) ==
  /\ run[r].pc = "adopting"
  /\ \/ /\ Fresh(log, run[r].base)
        /\ AppendBatch([i \in DOMAIN run[r].items |-> [run[r].items[i] EXCEPT !.answers = run[r].rev]])
        /\ Step(r, After(run[r].items))
     \/ /\ ~(Fresh(log, run[r].base) /\ AcceptsBatch(log, run[r].items))
        /\ Step(r, "take")
        /\ UNCHANGED log
  /\ UNCHANGED <<revision, owed, heard, sent, byPhase, speculating, invocations>>

-----------------------------------------------------------------------------
\* After the commit.

\* dispatch, or the prefix was overtaken and the calls are closed.
Dispatch(r) ==
  /\ run[r].pc = "act"
  /\ \/ /\ sent' = sent \cup {<<run[r].inv, run[r].items[1].call>>} /\ Step(r, "idle")
     \/ Step(r, "close") /\ UNCHANGED sent
  /\ UNCHANGED <<log, revision, owed, heard, byPhase, speculating, invocations>>

\* PlaceholderForInterrupted: every call left open, whoever made it, in one
\* batch at the version that was read; a conflict closes none.
PlaceholderForInterrupted(r) ==
  /\ run[r].pc = "close"
  /\ LET items == {[kind |-> "placeholder", inv |-> id[1], call |-> id[2]] :
                     id \in UnresolvedToolCalls(log)}
     IN  IF items = {} THEN UNCHANGED log ELSE AppendBatch(SetToSeq(items)) \/ UNCHANGED log
  /\ Step(r, "idle")
  /\ UNCHANGED <<revision, owed, heard, sent, byPhase, speculating, invocations>>

\* The position of the answer a runner committed.
Correction(l, r) == {i \in Of(l, "assistant") : l[i].inv = run[r].inv}

\* The pending repairs a runner's answer settles, by the number it was produced
\* under.
Settled(l, r) ==
  {a \in PendingTargets(l) \ Correction(l, r) :
     \A i \in PendingOf(l, a) : l[Max(Correction(l, r))].rev >= l[i].rev}

\* What is recorded of them.
Resolutions(l, r) ==
  LET correction == Max(Correction(l, r))
  IN  {[kind |-> "resolved", ref |-> a, rev |-> l[correction].rev, by |-> correction] :
         a \in Settled(l, r)}

\* Mutant of ResolveRepairs: a refused append is discharged like an accepted one.
ResolveRepairsUnchecked(r) ==
  /\ run[r].pc = "repair"
  /\ LET items == Resolutions(log, r)
     IN  /\ UNCHANGED log \/ (items # {} /\ AppendBatch(SetToSeq(items)))
         /\ run' = [run EXCEPT ![r].pc = "discharge", ![r].items = SetToSeq(items)]
  /\ UNCHANGED <<revision, owed, heard, sent, byPhase, speculating, invocations>>

\* resolveRepairs, the store: one batch at the version that was read.
ResolveRepairs(r) ==
  /\ run[r].pc = "repair"
  /\ LET items == Resolutions(log, r)
     IN  \/ /\ items # {} /\ AppendBatch(SetToSeq(items))
            /\ run' = [run EXCEPT ![r].pc = "discharge", ![r].items = SetToSeq(items)]
         \/ UNCHANGED log /\ Step(r, "idle")
  /\ UNCHANGED <<revision, owed, heard, sent, byPhase, speculating, invocations>>

\* resolveRepairs, the ledger: whatever is outstanding for the items resolved.
Discharge(r) ==
  /\ run[r].pc = "discharge"
  /\ owed' = {o \in owed : \A i \in DOMAIN run[r].items : run[r].items[i].ref # o.target}
  /\ Step(r, "idle")
  /\ UNCHANGED <<log, revision, heard, sent, byPhase, speculating, invocations>>

-----------------------------------------------------------------------------
\* Speculation.

\* prepare: the latest revision wins; the map is new and the previous
\* preparation, cancelled, may still be on its way.  Each phase the policy asked
\* for is an invocation of its own, under the recogniser's number.  Bound: none is
\* prepared once the last sentence is observed.
Prepare(t) ==
  \E phases \in (SUBSET Phases) \ {{}}, rev \in Partials \ {0} :
    LET Invocation(phase) == IF phase = "fast" THEN invocations + 1 ELSE invocations + Cardinality(phases)
        Candidates(phase) ==
          {[phase |-> phase, text |-> t, rev |-> rev, inv |-> Invocation(phase), items |-> items] :
             items \in Outputs(phase, Invocation(phase), rev, Len(log), t)}
    IN  /\ Committed < MaxRev
        /\ invocations' = invocations + Cardinality(phases) /\ invocations' <= MaxInv
        /\ byPhase' = {}
        /\ \E started \in SUBSET UNION {Candidates(phase) : phase \in phases} :
             /\ \A phase \in phases : Cardinality({p \in started : p.phase = phase}) = 1
             /\ speculating' = speculating \cup started
        /\ UNCHANGED <<log, run, revision, owed, heard, sent>>

\* The speculation returns: into whatever map there is by then, or not at all.
Prepared(p) ==
  /\ p \in speculating
  /\ speculating' = speculating \ {p}
  /\ byPhase' \in {byPhase, {q \in byPhase : q.phase # p.phase} \cup {p}}
  /\ UNCHANGED <<log, run, revision, owed, heard, sent, invocations>>

\* discardPreparations, at the start of a turn of the user.
DiscardPreparations ==
  /\ byPhase # {}
  /\ byPhase' = {}
  /\ UNCHANGED <<log, run, revision, owed, heard, sent, speculating, invocations>>

CognitionNext ==
  \/ Submit
  \/ \E t \in Texts : Observe(t) \/ Prepare(t)
  \/ \E a \in Of(log, "assistant") : Hear(a) \/ \E vis \in {"played", "cancelled"} : Report(a, vis)
  \/ \E id \in sent : \E inv \in {id[1], Unscoped} : Answer(id, inv)
  \/ \E id \in Identities(log, "proposal") : Promote(id) \/ Dispose(id)
  \/ \E phase \in {"fast", "slow"} : Process(phase) \/ \E r \in Runners : Interject(r, phase)
  \/ \E r \in Runners :
       \/ Hold(r)
       \/ \E declined \in SUBSET owed : RaiseRepairs(r, declined)
       \/ TakePrepared(r) \/ Think(r) \/ Interrupt(r) \/ Adopt(r) \/ AdoptCommit(r)
       \/ Dispatch(r) \/ PlaceholderForInterrupted(r) \/ ResolveRepairs(r) \/ Discharge(r)
  \/ \E p \in speculating : Prepared(p)
  \/ DiscardPreparations

CognitionSpec == CognitionInit /\ [][CognitionNext]_vars

-----------------------------------------------------------------------------
\* The conversation's history of what was heard, whichever turn, report and
\* observation came when (trajectory.go: transitionAssistantLocked,
\* transitionRepairLocked; repair.go).  No item is both played and cancelled.  A
\* repair is required only of what was heard, before the very observation it is
\* required for, and not again before it is resolved.  It is resolved by a later
\* slow answer under a number no lower than that observation's; and such an
\* answer had read that observation, unless its number is the recogniser's and
\* ahead of every observation it had read: the two are compared as numbers.
RepairHistorySound ==
  \A i \in DOMAIN log :
    /\ log[i].kind = "state" =>
         \A j \in 1..(i - 1) : log[j].kind = "state" /\ log[j].ref = log[i].ref =>
                                 log[j].vis = log[i].vis
    /\ log[i].kind = "required" =>
         /\ \E j \in 1..(i - 1) : /\ log[j].kind = "state" /\ log[j].ref = log[i].ref
                                  /\ log[j].vis = "played"
         /\ \E j \in (log[i].ref + 1)..(i - 1) : log[j].kind = "observation" /\ log[j].rev = log[i].rev
         /\ PendingOf(SubSeq(log, 1, i - 1), log[i].ref) = {}
    /\ log[i].kind = "resolved" =>
         LET answer == log[log[i].by]
             Read == {k \in Of(log, "observation") : k <= answer.base}
         IN  \E j \in PendingOf(SubSeq(log, 1, i - 1), log[i].ref) :
               /\ log[i].by \in 1..(i - 1) /\ log[i].by # log[i].ref
               /\ answer.kind = "assistant" /\ answer.phase = "slow" /\ answer.rev >= log[j].rev
               /\ \/ \E k \in Read : log[k].rev = log[j].rev
                  \/ \A k \in Read : log[k].rev < answer.rev

\* An answer or an action in the log answers the evidence the log held when it
\* was committed, whoever's turn it is of.  Thought out in its turn, the driver's
\* or a live one's, it knew every observation, repair and tool result before it,
\* although speech, its reports, placeholders and the other turns' output may
\* have come meanwhile (runner.go: supersedesContinuation).  Adopted, it was
\* prepared for exactly the sentence the log holds under the number of the turn
\* that adopted it, however late it came back and whichever revisions of the
\* sentence were prepared for before and after it (prepare.go: adopt); the number
\* of a live turn is the recogniser's, and the sentence the one it happens to
\* name.
AnswersTheEvidence ==
  \A i \in Of(log, "assistant") \cup Of(log, "proposal") \cup Of(log, "call") :
    IF log[i].prepared = NoText
    THEN \A j \in (log[i].base + 1)..(i - 1) :
           log[j].kind \notin {"observation", "required", "resolved", "result"}
    ELSE \E j \in Of(log, "observation") :
           j < i /\ log[j].rev = log[i].answers /\ log[j].text = log[i].prepared

\* An obligation leaves the ledger only once the log holds a correction of what
\* was heard, by whichever runner and whatever commits in between, unless the
\* policy declined it (repair.go: resolveRepairs).
DischargedIsCorrected ==
  [][\A o \in owed \ owed' :
       \/ \E r \in Runners : run[r].pc = "raise" /\ run'[r].pc = "take"
       \/ \E i \in Of(log, "resolved") : log[i].ref = o.target]_vars
=============================================================================
