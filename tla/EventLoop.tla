----------------------------- MODULE EventLoop -----------------------------
(***************************************************************************)
(* The event coordinator, eventloop/coordinator.go, with the driver loop   *)
(* of binding/cascade/runtime.go that runs it and the gate of              *)
(* interaction/deferral.go that holds it back.                             *)
(*                                                                         *)
(* Goroutines: one per submission in progress; drivers, which wait for the *)
(* signal and drain (RunNext = Commit, gate, Process); committers, which   *)
(* only Commit (the perception path of binding/cascade/audio.go); one that *)
(* Interrupts; and one that holds and releases the gate's condition.  A    *)
(* step is one critical section of coordinator.mu, one store call, one     *)
(* gate call or one send on the signal channel.                            *)
(*                                                                         *)
(* An event is its identifier; what the coordinator looks at is given by   *)
(* the constants.  eventIDs, a map in the code, is kept as the sequence of *)
(* its keys in order of admission: the sort by queuedEvent.sequence is the *)
(* order in which events were appended to pending.  requeue is not here:   *)
(* commitAdmissible never returns the version conflict it is for.  The two *)
(* locked sections that end Commit, forget and the append to deferred, are *)
(* one step: what is refused and what is deferred are disjoint, and        *)
(* commitMu is held across both.                                           *)
(***************************************************************************)
EXTENDS Naturals, FiniteSets, SequencesExt

CONSTANTS
  Submissions,   \* the groups SubmitBatch may be called with
  Priority,      \* [Events -> {"routine", "interrupt", "parallel"}]
  Items,         \* [Events -> number of trajectory items it compiles to]
  Uncompilable,  \* events compile refuses: they name what the log does not hold
  Inadmissible,  \* events whose first item the store refuses
  Deliberation,  \* events that admit a batch whatever the gate's condition
  Drivers,       \* goroutines that drain
  Committers,    \* goroutines that only Commit
  MaxPending, Reserved,
  Cognition,     \* a log item that cognition, not an event, appended
  Nobody,        \* no holder of commitMu
  MaxAppends,    \* bound on the items cognition appends
  MaxHolds       \* bound on how often the gate's condition sets in

Events == UNION {Range(s) : s \in Submissions}

Workers == Drivers \cup Committers

ASSUME EventLoopAssumption ==
  /\ Submissions \subseteq Seq(Events)
  /\ \A s \in Submissions : s # << >> /\ IsInjective(s)
  /\ \A s, t \in Submissions : s # t => Range(s) \cap Range(t) = {}
  /\ Priority \in [Events -> {"routine", "interrupt", "parallel"}]
  /\ Items \in [Events -> Nat]
  /\ Uncompilable \subseteq Events /\ Inadmissible \subseteq Events
  /\ \A e \in Inadmissible : Items[e] > 0
  /\ Drivers \cap Committers = {} /\ Nobody \notin Workers /\ Cognition \notin Events
  /\ MaxPending \in Nat /\ Reserved \in 0..(MaxPending - 1)
  /\ MaxHolds \in Nat

VARIABLES
  pending,      \* Coordinator.pending
  eventIDs,     \* Coordinator.eventIDs, in order of admission
  deferred,     \* Coordinator.deferred: groups committed and not acted upon
  active,       \* Coordinator.active, and activeCancel is set
  activeEpoch,  \* Coordinator.activeEpoch
  signal,       \* the signal channel holds its one token
  commitMu,     \* who holds commitMu
  log,          \* the trajectory: for each item its event, or Cognition
  work,         \* [Workers -> what the goroutine is doing]
  sub,          \* [Submissions -> progress of SubmitBatch]
  intr,         \* progress of Interrupt
  cancelled,    \* epochs of the runs whose context has been cancelled
  held,         \* the gate's condition: someone is speaking, or backpressure
  holds,        \* how often it has set in
  waker,        \* progress of the Wake its end owes
  acted,        \* events some run has been handed
  dropped       \* events the coordinator has forgotten

storeVars == <<log>>
queueVars == <<pending, eventIDs, deferred>>
runVars == <<active, activeEpoch, cancelled>>
gateVars == <<held, holds, waker>>
ghostVars == <<acted, dropped>>
vars == <<queueVars, runVars, signal, commitMu, storeVars, work, sub, intr,
          gateVars, ghostVars>>

Pcs == {"wait", "loop", "idle", "commit", "compile", "append", "publish", "notify",
        "select", "gate", "start", "process", "finish", "wake"}

Worker == [pc : Pcs, queued : Seq(Events), batch : Seq(Events), snapshot : Nat,
           offered : SUBSET Events, run : SUBSET Events, epoch : Nat,
           failed : BOOLEAN]

EventLoopTypeOK ==
  /\ pending \in Seq(Events) /\ Len(pending) <= MaxPending
  /\ eventIDs \in Seq(Events)
  /\ deferred \in Seq(Seq(Events))
  /\ active \in BOOLEAN /\ activeEpoch \in Nat /\ cancelled \subseteq 1..activeEpoch
  /\ signal \in BOOLEAN
  /\ commitMu \in Workers \cup {Nobody}
  /\ log \in Seq(Events \cup {Cognition})
  /\ work \in [Workers -> Worker]
  /\ sub \in [Submissions -> [pc : {"idle", "cancel", "notify"}, epoch : Nat]]
  /\ intr \in [pc : {"idle", "cancel"}, epoch : Nat]
  /\ held \in BOOLEAN /\ holds \in 0..MaxHolds
  /\ waker \in {"idle", "check", "notify"}
  /\ acted \subseteq Events /\ dropped \subseteq Events

At(pc) == [pc |-> pc, queued |-> << >>, batch |-> << >>, snapshot |-> 0,
           offered |-> {}, run |-> {}, epoch |-> 0, failed |-> FALSE]

EventLoopInit ==
  /\ pending = << >> /\ eventIDs = << >> /\ deferred = << >>
  /\ active = FALSE /\ activeEpoch = 0 /\ cancelled = {}
  /\ signal = FALSE /\ commitMu = Nobody /\ log = << >>
  /\ work = [w \in Workers |-> At(IF w \in Drivers THEN "wait" ELSE "idle")]
  /\ sub = [s \in Submissions |-> [pc |-> "idle", epoch |-> 0]]
  /\ intr = [pc |-> "idle", epoch |-> 0]
  /\ held = FALSE /\ holds = 0 /\ waker = "idle"
  /\ acted = {} /\ dropped = {}

Waiting == deferred # << >> \/ pending # << >>

-----------------------------------------------------------------------------
\* SubmitBatch: one locked section, then the cancellation, then the signal.

Interrupts(s) == \E e \in Range(s) : Priority[e] = "interrupt"

\* Routine events leave the reserved capacity free.
Limit(e) == IF Priority[e] = "routine" THEN MaxPending - Reserved ELSE MaxPending

HasRoom(s) == \A i \in DOMAIN s : Len(pending) + i - 1 < Limit(s[i])

SubmitQueue(s) ==
  /\ sub[s].pc = "idle"
  /\ HasRoom(s)
  /\ Range(s) \cap Range(eventIDs) = {}
  /\ pending' = pending \o s
  /\ eventIDs' = eventIDs \o s
  /\ sub' = [sub EXCEPT ![s] =
       [pc |-> IF Interrupts(s) /\ active THEN "cancel" ELSE "notify",
        epoch |-> activeEpoch]]
  /\ dropped' = dropped \ Range(s)
  /\ UNCHANGED <<deferred, runVars, signal, commitMu, storeVars, work, intr, gateVars,
                 acted>>

\* Mutant of SubmitCancel: it cancels what is running now, not what was
\* running when the event arrived.
SubmitCancelCurrent(s) ==
  /\ sub[s].pc = "cancel"
  /\ cancelled' = cancelled \cup (IF active THEN {activeEpoch} ELSE {})
  /\ sub' = [sub EXCEPT ![s].pc = "notify", ![s].epoch = activeEpoch]
  /\ UNCHANGED <<queueVars, active, activeEpoch, signal, commitMu, storeVars, work, intr,
                 gateVars, ghostVars>>

SubmitCancel(s) ==
  /\ sub[s].pc = "cancel"
  /\ cancelled' = cancelled \cup {sub[s].epoch}
  /\ sub' = [sub EXCEPT ![s].pc = "notify"]
  /\ UNCHANGED <<queueVars, active, activeEpoch, signal, commitMu, storeVars, work, intr,
                 gateVars, ghostVars>>

SubmitNotify(s) ==
  /\ sub[s].pc = "notify"
  /\ signal' = TRUE
  /\ sub' = [sub EXCEPT ![s] = [pc |-> "idle", epoch |-> 0]]
  /\ UNCHANGED <<queueVars, runVars, commitMu, storeVars, work, intr, gateVars, ghostVars>>

SubmitBatch(s) == SubmitQueue(s) \/ SubmitCancel(s) \/ SubmitNotify(s)

-----------------------------------------------------------------------------
\* Commit: commitMu is one ordered lane from the queue to the log.

To(w, pc) == work' = [work EXCEPT ![w].pc = pc]

\* Where the caller of Commit goes on.
AfterCommit(w) == IF w \in Drivers THEN "select" ELSE "idle"

AfterError(w) == IF w \in Drivers THEN "wait" ELSE "idle"

commitSame == UNCHANGED <<runVars, sub, intr, gateVars, acted>>

CommitCall(w) ==
  /\ w \in Committers
  /\ work[w].pc = "idle"
  /\ To(w, "commit")
  /\ commitSame /\ UNCHANGED <<queueVars, signal, commitMu, storeVars, dropped>>

CommitIdle(w) ==
  /\ work[w].pc = "commit"
  /\ commitMu = Nobody
  /\ pending = << >>
  /\ To(w, AfterCommit(w))
  /\ commitSame /\ UNCHANGED <<queueVars, signal, commitMu, storeVars, dropped>>

\* Mutant of CommitTake: no commit lane, two goroutines commit side by side.
CommitTakeUnlocked(w) ==
  /\ work[w].pc = "commit"
  /\ pending # << >>
  /\ commitMu' = w
  /\ work' = [work EXCEPT ![w].pc = "compile", ![w].queued = pending,
                          ![w].batch = pending]
  /\ pending' = << >>
  /\ commitSame /\ UNCHANGED <<eventIDs, deferred, signal, storeVars, dropped>>

CommitTake(w) ==
  /\ work[w].pc = "commit"
  /\ commitMu = Nobody
  /\ pending # << >>
  /\ commitMu' = w
  /\ work' = [work EXCEPT ![w].pc = "compile", ![w].queued = pending,
                          ![w].batch = pending]
  /\ pending' = << >>
  /\ commitSame /\ UNCHANGED <<eventIDs, deferred, signal, storeVars, dropped>>

\* The members of s that are in S, in their order.
Within(s, S) ==
  LET kept[i \in 0..Len(s)] ==
        IF i = 0 THEN << >> ELSE IF s[i] \in S THEN Append(kept[i - 1], s[i]) ELSE kept[i - 1]
  IN  kept[Len(s)]

Without(s, S) == Within(s, Range(s) \ S)

\* The items of a batch, in event order, each as the event it belongs to.
ItemsOf(batch) == FlattenSeq([i \in DOMAIN batch |-> [k \in 1..Items[batch[i]] |-> batch[i]]])

\* forget: the whole group is given up, and the caller gets the error.
CommitFails(w) ==
  /\ eventIDs' = Without(eventIDs, Range(work[w].queued))
  /\ dropped' = dropped \cup Range(work[w].queued)
  /\ commitMu' = Nobody
  /\ work' = [work EXCEPT ![w] = At(AfterError(w))]
  /\ UNCHANGED <<pending, deferred, signal, storeVars>>

\* Snapshot and compile.
CommitCompile(w) ==
  /\ work[w].pc = "compile"
  /\ IF Range(work[w].batch) \cap Uncompilable # {}
     THEN CommitFails(w)
     ELSE /\ work' = [work EXCEPT ![w].snapshot = Len(log),
                        ![w].pc = IF ItemsOf(work[w].batch) = << >> THEN "publish"
                                                                    ELSE "append"]
          /\ UNCHANGED <<queueVars, signal, commitMu, storeVars, dropped>>
  /\ commitSame

\* Positions of the items AppendBatchAt refuses.
RefusedItems(batch) == {i \in DOMAIN ItemsOf(batch) : ItemsOf(batch)[i] \in Inadmissible}

\* The event blamed for a refused item: the one at the item's own position, which
\* is not the event it belongs to when an event before it compiled to several
\* items, or to none.
Offender(batch) == batch[Min({Min(RefusedItems(batch)), Len(batch)})]

\* AppendBatchAt against the version of the snapshot.
CommitConflict(w) ==
  /\ work[w].pc = "append"
  /\ Len(log) # work[w].snapshot
  /\ To(w, "compile")
  /\ commitSame /\ UNCHANGED <<queueVars, signal, commitMu, storeVars, dropped>>

\* Mutant of CommitRefused: the refusal of one item gives the whole group up.
CommitRefusedAll(w) ==
  /\ work[w].pc = "append"
  /\ Len(log) = work[w].snapshot
  /\ RefusedItems(work[w].batch) # {}
  /\ CommitFails(w)
  /\ commitSame

CommitRefused(w) ==
  /\ work[w].pc = "append"
  /\ Len(log) = work[w].snapshot
  /\ RefusedItems(work[w].batch) # {}
  /\ IF Len(work[w].batch) <= 1
     THEN CommitFails(w)
     ELSE /\ work' = [work EXCEPT ![w].pc = "compile",
                        ![w].batch = Without(@, {Offender(@)})]
          /\ UNCHANGED <<queueVars, signal, commitMu, storeVars, dropped>>
  /\ commitSame

CommitAppend(w) ==
  /\ work[w].pc = "append"
  /\ Len(log) = work[w].snapshot
  /\ RefusedItems(work[w].batch) = {}
  /\ log' = log \o ItemsOf(work[w].batch)
  /\ To(w, "publish")
  /\ commitSame /\ UNCHANGED <<queueVars, signal, commitMu, dropped>>

SubmissionOf(e) == CHOOSE s \in Submissions : e \in Range(s)

\* One group per submission, in order of first appearance.
Partition(batch) ==
  LET submissions == [i \in DOMAIN batch |-> SubmissionOf(batch[i])]
      first == Within([i \in DOMAIN batch |-> i],
                      {i \in DOMAIN batch : \A j \in 1..(i - 1) : submissions[j] # submissions[i]})
  IN  [k \in DOMAIN first |-> Within(batch, Range(submissions[first[k]]))]

\* Refused events are forgotten and the rest becomes work nobody has acted on.
CommitPublish(w) ==
  /\ work[w].pc = "publish"
  /\ LET refused == Range(work[w].queued) \ Range(work[w].batch)
     IN  /\ eventIDs' = Without(eventIDs, refused)
         /\ dropped' = dropped \cup refused
  /\ deferred' = deferred \o Partition(work[w].batch)
  /\ work' = [work EXCEPT ![w] = At("notify")]
  /\ commitSame /\ UNCHANGED <<pending, signal, commitMu, storeVars>>

\* Mutant of CommitNotify: commit relies on the submission's own signal.
CommitSilent(w) ==
  /\ work[w].pc = "notify"
  /\ commitMu' = Nobody
  /\ To(w, AfterCommit(w))
  /\ commitSame /\ UNCHANGED <<queueVars, signal, storeVars, dropped>>

CommitNotify(w) ==
  /\ work[w].pc = "notify"
  /\ signal' = TRUE
  /\ commitMu' = Nobody
  /\ To(w, AfterCommit(w))
  /\ commitSame /\ UNCHANGED <<queueVars, storeVars, dropped>>

Commit(w) == \/ CommitIdle(w) \/ CommitTake(w) \/ CommitCompile(w) \/ CommitConflict(w)
             \/ CommitRefused(w) \/ CommitAppend(w) \/ CommitPublish(w) \/ CommitNotify(w)

-----------------------------------------------------------------------------
\* run: select, ask the gate, select again, process.

runSame == UNCHANGED <<pending, eventIDs, commitMu, sub, intr, gateVars, dropped>>

Parallel(group) == \A e \in Range(group) : Priority[e] = "parallel"

ParallelGroups == {group \in Range(deferred) : Parallel(group)}

\* Mutant of Runnable: only the first group is taken, and Kept is not told.
RunnableFirst == IF deferred = << >> THEN << >> ELSE <<Head(deferred)>>

\* selectRunnable: what may run now ...
Runnable == IF active THEN Within(deferred, ParallelGroups) ELSE deferred

\* Mutant of Kept: whatever could not run is dropped with what could.
KeptNothing == << >>

\* ... and what must keep waiting.
Kept == IF active THEN Without(deferred, ParallelGroups) ELSE << >>

EventsOf(groups) == UNION {Range(groups[i]) : i \in DOMAIN groups}

\* ErrIdle and ErrBusy both end the drain.
RunNothing(w) ==
  /\ work[w].pc \in {"select", "start"}
  /\ Runnable = << >>
  /\ work' = [work EXCEPT ![w] = At("wait")]
  /\ runSame /\ UNCHANGED <<deferred, runVars, signal, storeVars, acted>>

RunSelect(w) ==
  /\ work[w].pc = "select"
  /\ Runnable # << >>
  /\ work' = [work EXCEPT ![w].pc = "gate", ![w].offered = EventsOf(Runnable)]
  /\ runSame /\ UNCHANGED <<deferred, runVars, signal, storeVars, acted>>

\* duplexDeferral.Admit: parallel and deliberate work passes, the rest waits
\* while the condition holds.
Admits(events) == \/ ~held
                  \/ \A e \in events : Priority[e] = "parallel"
                  \/ events \cap Deliberation # {}

AdmitRun(w) ==
  /\ work[w].pc = "gate"
  /\ work' = IF Admits(work[w].offered) THEN [work EXCEPT ![w].pc = "start"]
                                        ELSE [work EXCEPT ![w] = At("wait")]
  /\ runSame /\ UNCHANGED <<deferred, runVars, signal, storeVars, acted>>

RunStart(w) ==
  /\ work[w].pc = "start"
  /\ Runnable # << >>
  /\ LET events == EventsOf(Runnable)
     IN  /\ work' = [work EXCEPT ![w].pc = "process", ![w].run = events,
                       ![w].epoch = IF active THEN 0 ELSE activeEpoch + 1]
         /\ acted' = acted \cup events
  /\ deferred' = Kept
  /\ active' = TRUE
  /\ activeEpoch' = IF active THEN activeEpoch ELSE activeEpoch + 1
  /\ runSame /\ UNCHANGED <<cancelled, signal, storeVars>>

\* Cognition commits to the same store while it runs.
ProcessAppend(w) ==
  /\ work[w].pc = "process"
  /\ Cardinality({i \in DOMAIN log : log[i] = Cognition}) < MaxAppends
  /\ log' = Append(log, Cognition)
  /\ runSame /\ UNCHANGED <<deferred, runVars, signal, work, acted>>

\* The processor returns; an interruption is not an error to the driver.
ProcessEnd(w) ==
  /\ work[w].pc = "process"
  /\ \E failed \in BOOLEAN :
       work' = [work EXCEPT ![w].pc = "finish",
                            ![w].failed = failed /\ work[w].epoch \notin cancelled]
  /\ runSame /\ UNCHANGED <<deferred, runVars, signal, storeVars, acted>>

AfterRun(w) == At(IF work[w].failed THEN "wait" ELSE "loop")

\* Mutant of RunFinish: a parallel branch that ends clears the active run.
RunFinishClears(w) ==
  /\ work[w].pc = "finish"
  /\ active' = FALSE
  /\ work' = IF Waiting THEN [work EXCEPT ![w].pc = "wake", ![w].run = {}]
                        ELSE [work EXCEPT ![w] = AfterRun(w)]
  /\ runSame /\ UNCHANGED <<deferred, activeEpoch, cancelled, signal, storeVars, acted>>

\* finish; a parallel branch has nothing to hand over.
RunFinish(w) ==
  /\ work[w].pc = "finish"
  /\ LET parallel == work[w].epoch = 0
     IN  /\ active' = IF parallel THEN active ELSE active /\ activeEpoch # work[w].epoch
         /\ work' = IF Waiting /\ ~parallel THEN [work EXCEPT ![w].pc = "wake", ![w].run = {}]
                                            ELSE [work EXCEPT ![w] = AfterRun(w)]
  /\ runSame /\ UNCHANGED <<deferred, activeEpoch, cancelled, signal, storeVars, acted>>

FinishNotify(w) ==
  /\ work[w].pc = "wake"
  /\ signal' = TRUE
  /\ work' = [work EXCEPT ![w] = AfterRun(w)]
  /\ runSame /\ UNCHANGED <<deferred, runVars, storeVars, acted>>

\* drive and drain.
DriveSignal(w) ==
  /\ work[w].pc = "wait" /\ signal
  /\ signal' = FALSE
  /\ To(w, "loop")
  /\ runSame /\ UNCHANGED <<deferred, runVars, storeVars, acted>>

DrainLoop(w) ==
  /\ work[w].pc = "loop"
  /\ To(w, IF Waiting THEN "commit" ELSE "wait")
  /\ runSame /\ UNCHANGED <<deferred, runVars, signal, storeVars, acted>>

Drive(w) == \/ DriveSignal(w) \/ DrainLoop(w) \/ RunNothing(w) \/ RunSelect(w)
            \/ AdmitRun(w) \/ RunStart(w) \/ ProcessEnd(w) \/ RunFinish(w) \/ FinishNotify(w)

-----------------------------------------------------------------------------
\* Interrupt, and the gate's condition with the Wake its end owes.

InterruptCapture ==
  /\ intr.pc = "idle" /\ active
  /\ intr' = [pc |-> "cancel", epoch |-> activeEpoch]
  /\ UNCHANGED <<queueVars, runVars, signal, commitMu, storeVars, work, sub, gateVars, ghostVars>>

InterruptCancel ==
  /\ intr.pc = "cancel"
  /\ cancelled' = cancelled \cup {intr.epoch}
  /\ intr' = [pc |-> "idle", epoch |-> 0]
  /\ UNCHANGED <<queueVars, active, activeEpoch, signal, commitMu, storeVars, work, sub,
                 gateVars, ghostVars>>

gateSame == UNCHANGED <<queueVars, runVars, commitMu, storeVars, work, sub, intr, ghostVars>>

Hold ==
  /\ ~held /\ holds < MaxHolds
  /\ held' = TRUE /\ holds' = holds + 1
  /\ gateSame /\ UNCHANGED <<waker, signal>>

Relieve ==
  /\ held /\ waker = "idle"
  /\ held' = FALSE /\ waker' = "check"
  /\ gateSame /\ UNCHANGED <<holds, signal>>

WakeCheck ==
  /\ waker = "check"
  /\ waker' = IF Waiting THEN "notify" ELSE "idle"
  /\ gateSame /\ UNCHANGED <<held, holds, signal>>

WakeNotify ==
  /\ waker = "notify"
  /\ signal' = TRUE /\ waker' = "idle"
  /\ gateSame /\ UNCHANGED <<held, holds>>

EventLoopNext ==
  \/ \E s \in Submissions : SubmitBatch(s)
  \/ \E w \in Committers : CommitCall(w)
  \/ \E w \in Workers : Commit(w)
  \/ \E w \in Drivers : Drive(w) \/ ProcessAppend(w)
  \/ InterruptCapture \/ InterruptCancel
  \/ Hold \/ Relieve \/ WakeCheck \/ WakeNotify

EventLoopSpec == EventLoopInit /\ [][EventLoopNext]_vars

\* A call in progress proceeds, a processor returns, a condition ends.  Nothing
\* obliges anyone to submit, to interrupt or to call Commit.
EventLoopFairness ==
  /\ \A s \in Submissions : WF_vars(SubmitCancel(s) \/ SubmitNotify(s))
  /\ \A w \in Workers : WF_vars(Commit(w))
  /\ \A w \in Drivers : WF_vars(Drive(w))
  /\ WF_vars(Relieve) /\ WF_vars(WakeCheck \/ WakeNotify)

FairEventLoopSpec == EventLoopSpec /\ EventLoopFairness

-----------------------------------------------------------------------------
\* Properties.

InHand == IF commitMu = Nobody THEN << >> ELSE work[commitMu].queued

\* What has been admitted and no run has been handed is, in order of
\* arrival, what is deferred, then what is being committed, then what is
\* pending: nothing is lost, duplicated or overtaken on the way, and no event is
\* handed to two runs ("Nothing committed is ever silently dropped").
NothingLost ==
  Without(eventIDs, acted) = FlattenSeq(deferred) \o InHand \o pending

\* Events the trajectory holds, or need not hold because they are signals.
Committed ==
  acted \cup EventsOf(deferred)
    \cup UNION {Range(work[w].batch) : w \in {v \in Workers : work[v].pc = "publish"}}

\* The log holds exactly the committed events, each once, in order of arrival,
\* however commits, retries after a version conflict and cognition's own
\* appends interleave.
CommittedInOrder ==
  Without(log, {Cognition}) = ItemsOf(Within(eventIDs, Committed))

Continues(w) == work[w].pc \in {"process", "finish"} /\ work[w].epoch # 0

\* One continuation at a time: at most one run that is not a parallel branch is
\* in flight, and it is the one Interrupt would cancel.
OneActiveRun ==
  /\ \A v, w \in Workers : Continues(v) /\ Continues(w) => v = w
  /\ active <=> \E w \in Workers : Continues(w)
  /\ \A w \in Workers : Continues(w) => work[w].epoch = activeEpoch

\* An interrupting event cancels the work it interrupted, never the run that
\* was started to answer it, however late its cancellation is delivered.
InterruptSparesItsOwnRun ==
  \A s \in Submissions, w \in Drivers :
    /\ sub[s].pc # "idle" /\ Interrupts(s)
    /\ work[w].pc = "process" /\ Range(s) \cap work[w].run # {}
    /\ work[w].epoch # 0
    => work[w].epoch > sub[s].epoch

\* e stands behind an event the log refuses, or a signal that compiles to nothing
\* stands before that event.
Behind(s, e) ==
  \E i, j \in DOMAIN s :
    /\ s[i] = e /\ s[j] \in Inadmissible
    /\ j < i \/ \E k \in 1..(j - 1) : Items[s[k]] = 0

\* What an event the log refuses may cost.  commitAdmissible blames the event at
\* the refused item's position, so an event is given up, though the log would
\* accept it, only behind a bad one of its group, or because of a signal before
\* it ("never before the event that caused it", where nothing is a signal); or
\* with its whole group, when one of them does not compile.
LossFollowsABadEvent ==
  [][\A e \in (dropped' \ dropped) \ Inadmissible :
       \E w \in Workers :
         /\ e \in Range(work[w].queued)
         /\ Behind(work[w].queued, e) \/ Range(work[w].batch) \cap Uncompilable # {}]_vars

\* Who will look at the queue again: a token, or a goroutine on its way to one.
Looking == \/ signal
           \/ \E s \in Submissions : sub[s].pc # "idle"
           \/ \E w \in Drivers : work[w].pc \in {"loop", "commit"}

\* Who will look at what is deferred: also whoever is about to select from it, to
\* signal, or to end what keeps it waiting.
Owing == \/ Looking
         \/ active \/ held \/ waker # "idle"
         \/ \E w \in Workers : work[w].pc = "notify"
         \/ \E w \in Drivers : work[w].pc \in {"compile", "append", "publish", "select", "gate",
                                               "start", "wake"}

\* No event waits unnoticed: somebody will look at what is pending without a new
\* submission, and at what is deferred as well, provided that no commit fails (an
\* error ends the drain with the token spent).
WaitingIsOwed ==
  /\ pending # << >> => Looking
  /\ Uncompilable \cup Inadmissible = {} /\ deferred # << >> => Owing

\* Every event that was admitted is eventually handed to a run, or refused
\* ("An event that has been committed but not yet acted upon must eventually
\* cause a run").
EventuallyActed ==
  \A e \in Events : (e \in Range(eventIDs)) ~> (e \in acted \/ e \notin Range(eventIDs))

Stage == [e \in Events |-> CASE e \in acted -> "acted"
                             [] e \in Committed \ acted -> "committed"
                             [] e \in Range(eventIDs) \ Committed -> "admitted"
                             [] OTHER -> "unknown"]

D == INSTANCE Delivery WITH stage <- Stage, Groups <- {Range(s) : s \in Submissions}

\* The coordinator delivers: committed work is never withdrawn, and it is
\* handed over once, a submission's events together ("Commit is unconditional;
\* acting is conditional").
ImplementsDelivery == D!Spec
=============================================================================
