# OpenRealtime: models, checks and proofs

OpenRealtime runs a spoken conversation: audio and events come in, a log of
what happened (the trajectory) is extended, cognition runs on it, and speech
and tool calls go out into a world that cannot be rewound. What is hard about it
is not any one function. It is that half a dozen goroutines share a queue, a
ledger, a timer and a capacity budget, that a user may interrupt at any
instruction, and that what has been heard cannot be unheard. This directory
models those shared parts in TLA+, checks them with TLC and proves with TLAPS,
for every size of the instance, all of the safety properties the passing runs
check; their liveness properties are left to TLC.

Paths are relative to the repository. A module's header says how its state and
steps correspond to the code; `PROJECT.json` maps each definition to its lines.

## Inventory

| Part | State it keeps | Operations | Where |
|---|---|---|---|
| irreversibility ledger | commitments by id, their lifecycle state and played time, call identities, repair obligations | Prepare, Queue, Emit, Complete, Cancel, Invalidate, ResolveObligation, Truncated, queries | `action/ledger.go` |
| speech planner | a bounded channel of utterances, an epoch, the active utterance and its cancel function, a closed flag | Enqueue, Run (emit, stream), Cancel, CancelMatching, Close | `action/speech.go` |
| tool dispatch | results by call id, calls in flight | Dispatch, EmitRemote, Complete, authorize, confirm | `action/tools.go` |
| event coordinator | pending events, event ids, deferred groups, the active run and its epoch, a one-token signal | SubmitBatch, Commit, RunNext, Wake, Interrupt | `eventloop/` |
| session driver | the driver goroutine | drive, drain, Close | `binding/cascade/runtime.go` |
| deferral gate | backpressure, who is speaking, a client's request | AdmitRun, SetBackpressure, RequestResponse | `interaction/deferral.go` |
| supersession and observation path | none of its own | commit an observation, cancel and owe, visual evidence | `binding/cascade/audio.go` |
| duplex state | user and agent speaking, playout horizon, a timer | UserSpeechStarted/Stopped, AgentAudioHandedOff/Stopped, playoutElapsed, Close | `session/duplex.go` |
| admission governor | used capacity, waiters, leases | Acquire, Release, scheduling, preemption | `admission/governor.go` |
| client call tracker | invocations with calls, results and a deadline | Track, Hold, Result, expire, Close | `binding/clientcalls/clientcalls.go` |
| trajectory store | versioned append-only log, and what it says of calls, playback and repairs | AppendBatch, AppendBatchAt, AppendBatchAfter, Snapshot, projections | `trajectory/` |
| continuation runner | per run: the prefix it derives from, what it has heard back | Run, Prepare, Adopt, commit | `continuation/` |
| cascade cognition | preparations by phase; the rest per run | Process, raise and resolve repairs, prepare and adopt, dispatch, placeholders, playback reports | `binding/cascade/`, `cognition/` |
| graph runtime: boundary | bounded queues, admission epochs, current generation, shutdown flags | Broadcast, Receive, replace, shutdown | `graph/runtime/channel.go`, `boundary_router.go` |
| graph runtime: life of a graph | node states, lifecycle scopes with workers and disposers, results | Mount, Run, Close, Defer, Go, unwinding | `graph/runtime/mount.go`, `run.go`, `lifecycle.go` |
| graph compiler | none | compile | `graph/compile.go` |
| graph-native elements | per element | message handlers that restate ledger, planner and tools | `elements/` |
| recogniser buffer | audio not yet final | accumulate, replay | `asrbuffer/` |
| spoken boundary, authority contracts | none | pure | `spoken/`, `authority/` |
| gateway, bindings, adapters, computer use, benchmarks | sockets and processes | I/O | `gateway/`, `binding/`, `adapters/`, `computeruse/`, `bench/` |

How they interact. An event enters the coordinator's queue (SubmitBatch), which
signals the driver; a perception path may also Commit beside the driver. Commit
moves the queue into the trajectory and leaves the groups as deferred work. The
driver asks the gate, hands the deferred work to the processor, and the
processor appends to the same trajectory, enqueues utterances, dispatches tool
calls and hands client-executed ones to the tracker, whose finished batch comes
back as an event. The planner paces audio to the client and records each
crossing in the ledger, while the duplex state estimates when the client has
played it. The duplex state and the governor feed the gate, which
must be woken when its condition ends. A new perception revision cancels
speech that answers the old one and owes a repair for what was heard. The next
turn writes that debt into the trajectory, and a later answer of the slow phase
resolves it there and in the ledger. While a sentence is still being
spoken a turn may be prepared for it, to be adopted if the sentence ends that way.
The graph-native path runs the same decisions as elements joined by bounded
queues; a mounted graph is entered and left through boundary ports whose graph
behind them may be replaced.

What is hard, and what each part must get right:

* ledger: the commit boundary is one-way, and a repair is owed for exactly
  what crossed it, over every interleaving of Emit, Cancel, Complete,
  Invalidate and Truncated;
* planner: a cancellation races pacing frame by frame; nothing reported
  cancelled may be heard, each sink reservation is discharged exactly once, and
  every accepted utterance ends;
* tools: attempts of one call side by side and repeated must set off one
  effect, authorised and recorded before it happens;
* coordinator: refused events, version conflicts, a second committer, parallel
  branches and late cancellations; nothing may be lost, split, reordered,
  handed out twice or left waiting without a wake-up;
* duplex: timers in flight meet newer audio; playback must not be cut short nor
  go on for ever, and each change of who speaks must be announced;
* gate: it decides on a snapshot that is stale when used, and clears a request it
  read earlier; what it defers must be owed a wake;
* governor: grants race cancellations and deadlines; capacity must not be
  exceeded, leaked or left idle, and urgent work must get through;
* tracker: the last answer, the deadline, a failing commit and Close race for
  one batch, which is committed once, complete and with the answers given;
* trajectory and turns: the driver, live goroutines of either phase,
  speculations, playback reports and clients append to one log, under numbers of
  two counters that nothing relates; what a turn commits must have known the
  evidence before it, calls and repairs must have a possible history, and a debt
  may only be discharged once a correction stands in the log;
* boundary: a generation is retired under operations that wait in it; an item
  must cross once, none be stranded, every waiter return;
* life of a graph: mount, failure, Close and cancellation meet in any order;
  effects are undone in reverse and after their users, and errors surface.

`PROJECT.json` lists the same as hazards, each at the line where it bites.

## Modules

| Module | Models | Composes |
|---|---|---|
| `Boundary` | what the ledger promises: decide, withdraw or cross, owe, discharge | |
| `Ledger` | `action/ledger.go`; one action per method | implements `Boundary` |
| `Speech` | `action/speech.go`, and `owe` and the session's Close that call it | extends `Ledger` |
| `Tools` | `action/tools.go`, with an utterance in the same ledger | extends `Ledger`, shown to implement it |
| `Delivery` | what the event loop promises of each event | |
| `EventLoop` | `eventloop/`, `drive`/`drain`, the duplex deferral policy | implements `Delivery` |
| `Floor` | what the duplex state promises its observers | |
| `Duplex` | `session/duplex.go` | implements `Floor` |
| `Gate` | `interaction/deferral.go` and the driver that asks it | extends `Floor` |
| `Governor` | `admission/governor.go` | |
| `ClientCalls` | `binding/clientcalls/clientcalls.go` | |
| `Trajectory` | the admissibility rules of `trajectory/trajectory.go` | |
| `Cognition` | the turns that write the log: `continuation/runner.go`, `binding/cascade/process.go`, `interject.go`, `repair.go`, `prepare.go`, `emit.go` | extends `Trajectory` |
| `Router` | `graph/runtime/channel.go`, `boundary_router.go`, the queue shutdown of `run.go` | |
| `Supervisor` | `graph/runtime/mount.go`, `run.go`, `lifecycle.go` | |
| `LedgerProofs`, `CognitionProofs`, `ClientCallsProofs` | theorems | extend the module they are named after |
| `ActionProofs` | theorems about what goes out: speech and tool calls | extends `Speech` and `Tools` |
| `SessionProofs` | theorems about the session's shared state | extends `EventLoop` and `Duplex` |
| `AdmissionProofs` | theorems about where work waits | extends `Gate` and `Governor` |
| `GraphProofs` | theorems about the graph runtime | extends `Supervisor` and `Router` |
| `SequenceFacts` | lemmas about numbers, sequences and filtering | used by `SessionProofs` and `GraphProofs` |
| `MC*` | the instances TLC checks | |

**Granularity.** A step is one critical section, one channel operation, or one
call made without a lock. Two sections of the same goroutine are one step only
when nothing another goroutine reads or writes lies between them: the ledger's
Queue and the planner's read of its epoch in Enqueue; the reservation and the
non-blocking send; the cancelled reservation and the ledger's Cancel of an
utterance that Run alone holds; `forget` and the append to `deferred` at the end
of Commit, under commitMu. Where the code deliberately or accidentally lets go in
between, so does the model: the look-up and the Cancel in `stop`, the epoch
check and the publication of the active utterance, the gate's answer and the second
selection, the transition and its publication, the claim of a batch and its
commit, AdmitRun's snapshot, decision and clearing of the request, a provider's
answer and its commit, the repair resolved in the log and the obligation in
the ledger. In `Router` a signal is taken with the critical section it follows: a
waiter takes its channel under the lock it checks the state under, so a later
signal can only wake more. In `Gate` the event loop's own steps, which
`EventLoop` tells apart, are one step where the gate is not asked.

**Data.** An utterance, event, call or request is an identifier; what decisions
read is given by constants (priority, number of items, class, cost, deadline).
Durations are counted in frames or ticks, text and telemetry are left out.
`Ledger` keeps no `order` slice, which only orders query results. In `Duplex`
time is relative, which keeps its state finite without bounding how long a
session lasts. In `Governor`, the restart of the scheduling loop after each
grant is one pass in order: a grant only takes capacity away, so a waiter
passed over stays passed over. The pass is stated by what it grants (`Grants`: a
waiter is granted exactly if it fits beside the leases and the earlier waiters
granted), and costs are summed by counting units, which lets the proofs reason
about it without recursion. `EventLoop` keeps the map of event ids as the
sequence of its keys in admission order; in its log, what cognition appends
is a marker that is no event. Filtering is the recursive function `Within`. In `Trajectory` an item's identity is
its position and the store's indexes are written as what the log says; times,
causal parents and supersession edges between observations are left out. What a
provider says is a choice of items in `Cognition`, and the ledger appears there
as the set of open obligations, which is what its proved promises leave of it.

**Failure.** Every error a step can return that leaves state behind is in the
model: a refusing sink, a failing frame, a provider that stops, a full or closed
queue, a refused or conflicting append, an event that does not compile, a failing
processor, a refused confirmation, a mismatched result, a failing
commit, an ended context, a passed deadline, an interrupted provider, a superseded
turn, a refused replacement, a failing node, worker or mount, a worker that never
returns. An error that changes nothing is
the case in which the action is not enabled. Nothing in these parts is
persisted, so there is no restart to model.

## Runs

The mutants in the modules (operators named after the definition they replace,
each marked "Mutant of") are bugs the properties must notice; no specification
uses them.

| Run | Instance and bounds | Shows |
|---|---|---|
| `tools` | two attempts of a confirmed local call, two of a remote one, one of a mere proposal, an utterance in the same ledger, two obligations | `EffectAtMostOnce`, `EffectIsAuthorized`, `ObligationsSound`, and `ImplementsBoundary` |
| `speech` | two utterances, one superseded; a queue of one; one frame each; one call that is a Cancel or the session's Close beside a CancelMatching | `CancelledNeverHeard`, `ReservationDischargedOnce`, and, under fairness, `AcceptedIsSettled` |
| `event_loop` | one driver, one committer, a pair submitted together and an interruption, a queue of two, one append by cognition, one spell of the gate's condition | `CommittedInOrder`, `InterruptSparesItsOwnRun`, `ImplementsDelivery`, and, under fairness, `EventuallyActed` |
| `event_loop_parallel` | two drivers, a tool result of two items that may run in parallel, an interruption that is a signal of none, a pair of which the log refuses the first, a queue of four with one place reserved | `NothingLost`, `OneActiveRun`, `LossFollowsABadEvent` |
| `governor` | four requests, one of each class, three units, one reserved, two ticks of deadlines | `CapacityRespected`, `LeaseIsOwned`, `WorkConserving`, and, under fairness, `UrgentIsServed` |
| `client_calls` | an invocation of one local and two remote calls beside one of a single remote call, a failing commit each | `BatchCommittedOnce`, `BatchIsComplete`, `AnswersAreKept`, and, under fairness, `InvocationSettles` |
| `duplex` | frames of one and two ticks, up to two ticks ahead, clock values up to one tick old, three timers | `NeverCutShort`, `ImplementsFloor`, and, under fairness, `AgentFallsSilent` |
| `gate` | the server-VAD policy with backpressure and the client-driven one, a user, two goroutines that play, two requests | `DeferralIsOwedAWake`, `RequestReleasesOneRun`, and, under fairness, `DeferredIsReleased` |
| `router` | a sender whose context may end, a receiver, two lanes of one slot (one lossy), two items, two generations, one call of replace, shutdown | `DeliveredOnce`, `ConservedAcrossCutover`, and, under fairness, `OperationsReturn`, `TerminalOutputDrains` |
| `supervisor` | two nodes with a worker each, one and two effects, a Close, the parent's cancellation, a failing mount | `UnwoundInReverse`, `NothingRunsOnDisposed`, `FailureReported`, and, under fairness, `AlwaysUnwinds` |
| `cognition` | the driver and a live goroutine of either phase, two revisions and two texts, two invocations, one call name, two playback reports, either phase prepared or both, a recogniser's number that is also an observation's | `ToolHistorySound`, `RepairHistorySound`, `AnswersTheEvidence`, `DischargedIsCorrected` |
| `speech_owed` | one utterance and one supersession | a violation, see Findings |

**Why the bounds are enough.** Every property but the liveness ones relates at
most two utterances, commitments, submissions or calls, and every race in these
modules is between two or three parties: one that decides, one that undoes, and the
one that carries out. The instances have that many of each. One frame is enough
for an utterance to be unheard, crossing, heard and cut off; a queue of one is
full with one utterance, so both a refused Enqueue and a lost put-back happen.
Three timers let two callbacks be in flight or still publishing while a third
timer is armed, which is what it takes for a stale callback to meet a newer one; the
bound does cut behaviours (a hand-off waits while all three are taken), as do the
others in guards, and more of them add more stale callbacks of the same kind.
Two invocations let a live turn overlap the driver's and a
placeholder meet a result; two revisions are what it takes to contradict, and
two texts for a preparation to be right or wrong (with a third revision the
divergence described below appears, about which revision a correction answers).
The recogniser's only number is 2: it is ahead of the first observation and equal
to the second's, so a live or adopted answer can be ahead of what it has read, name
a sentence it was not made for, and be settled against. `Prepare` is bounded to
before the last observation: what is prepared after it is for a sentence that the
instance never commits. The event loop's four events are those for which the
place of a refused item among the items and of its event among the events differ in
both directions: a tool result moves it back, a signal forward.
Two generations and one replacement put an item
into the lanes, the element's hands and the output queue while the generation
changes; with lanes of one slot every wait happens. Two nodes are enough for an
order between scopes, two effects for one within a scope.
The bounds in guards are `MaxObligations` (ledger, on Invalidate; in `speech`
a superseded utterance is invalidated at most once, so it is not reached),
`MaxFrames`, `MaxAppends`, `MaxHolds`, `MaxFailures`, `MaxTime`, `MaxAhead`,
`MaxStale`, `MaxTimers`, `MaxRequests`, `MaxGen`, `MaxItems`, `MaxReplace`,
`MaxEffects`, `MaxRev`, `MaxInv` and `MaxReports`. Deadlock is checked for the
gate and the duplex state, which can always take another step; the other
instances run out of utterances, events, requests, calls or invocations, and stop.
The drivers of `event_loop_parallel` and the texts of `cognition` are
interchangeable and are declared symmetric; no run that checks liveness uses
symmetry. The shipped session
starts one driver goroutine (`binding/cascade/runtime.go:522-525`); the
coordinator's own comments and the parallel path allow for several, which is
what that run covers.

**Fairness.** It is weak fairness of goroutines that have something to do.

* `speech`: Run and a stop call that has begun. It assumes that a provider's
  stream and the sink's calls return, which the contexts they are given see to.
  Nothing obliges a caller to enqueue or to cancel.
* `event_loop`: submissions under way, Commit, the driver, and the Wake a
  relieved condition owes. It assumes a processor returns and the gate's
  condition ends: someone stops speaking. Nothing obliges anyone to submit,
  interrupt or call Commit.
* `governor`: a caller receives its lease or gives up, and a holder whose
  context was cancelled by preemption releases. No other holder need release.
* `client_calls`: timers fire and a claimant commits. Neither the client nor
  local execution need ever answer.
* `duplex`: time passes, due timers fire, calls that have begun end, observers
  return.
* `gate`: transitions are published, calls that have begun end, the driver runs.
  Nobody need fall silent or ask: `DeferredIsReleased` is about work the
  policy goes on admitting.
* `router`: clients of the output keep reading, elements take what is there, a
  replacement and a shutdown go on (their contexts are bounded). No
  sender's context need end. A client that was told the boundary is closed calls
  the stable port again while output may be left in it; without that assumption
  `TerminalOutputDrains` fails, see the divergence at `boundary_router.go:521`.
* `supervisor`: the supervising goroutine goes on, timers fire, and a disposer
  returns. Neither a node nor a worker need ever return.
* `cognition` has none: its properties are about what may be written.

## Findings

A run that TLC refutes, with the sentence of the repository it refutes.

* `speech_owed` (`binding/cascade/audio.go:881-883`). Run checks the epoch, lets
  go of the lock, and emit publishes the active utterance later
  (`action/speech.go:257`, `:466`). A CancelMatching in between finds it neither
  queued nor active, `owe` finds it not crossed, and it is then heard: neither
  cancelled nor owed a repair.

Divergences seen while modelling, which the models contain and no run singles out:

* `action/ledger.go:121` against `action/speech.go:490`: Cancel of an utterance
  being emitted makes it played without a duration; the Complete that carries
  the duration is refused and its error ignored. Interrupted speech keeps
  `PlayedMS` 0, and an obligation with `PlayedMS` 0 is never raised as a repair.
* `eventloop/coordinator.go:427` and `:460-463` against `:464`: "One inadmissible
  event must not cost the others", and several items only move "the boundary later -
  never before the event that caused it". The store names the refused item by
  its position among the items, and the coordinator drops the event at that
  position among the events. Behind a tool result of two items that is a later
  event, at most the last; behind a signal, which compiles to
  none, an earlier one. The wrong event is dropped, and the loop goes on dropping
  until the bad one is. `Offender` does what the code does, the run has both
  cases, and `LossFollowsABadEvent` says what is left of the promise: a good event
  is given up only when it stands behind a bad one of its group, when a signal
  stands before the bad one, or when an event of the group does not compile.
* `eventloop/event.go:8-9` against `coordinator.go:309` and
  `binding/cascade/runtime.go:963`: a deferred group is released and the driver
  woken; the RunNext it makes commits a new event first, that is refused, and
  the drain ends with the older group waiting and the token spent. With a refused
  event `EventuallyActed` fails.
* `action/ledger.go:387-389`: Outstanding says "every commitment that has not
  reached a terminal state" and omits those being emitted. Nothing calls it.
* `action/speech.go:264`: Cancel has the window of `speech_owed`; an utterance
  is spoken in full after the Cancel that should have stopped it.
* `action/speech.go:315-322`: two stop calls that look the commitment up before
  either cancels it both report it as cancelled (the variable `reported` can
  reach 2).
* `action/speech.go:391`: an utterance CancelMatching keeps is lost when the
  channel fills while it is out (the variable `lost`, which `AcceptedIsSettled`
  exempts). Its sink reservation is neither cancelled nor begun, which
  `ReservationDischargedOnce` exempts for the same reason.
* `eventloop/coordinator.go:339` and `:457`, also against `:427`: an event that
  does not compile takes with it everything that was committed with it.
* `eventloop/coordinator.go:530`: the run selects again after the gate's answer and
  takes what a Commit deferred in between, which the gate never saw
  (compare `binding/cascade/audio.go:939-940`).
* `binding/clientcalls/clientcalls.go:187-191`: a commit that fails on the last
  answer after the deadline, or in the deadline, is not tried again, so
  `InvocationSettles` exempts invocations whose commit failed.
* `binding/clientcalls/clientcalls.go:148-154`: when the client answers before the
  local half is held, Hold completes the batch and nobody commits it before the
  deadline.
* `interaction/deferral.go:334-350`: a second `response.create` between AdmitRun's
  reading of the request and its clearing is consumed by the run the first
  released.
* `continuation/runner.go:720-722` says an adopted turn is "indistinguishable from
  one that was run at this instant". Adopt commits against a snapshot of its own, so
  tool results, repairs and observations since the preparation began are
  not noticed; `AnswersTheEvidence` therefore claims of an adopted answer only
  that it was prepared for the sentence its turn answers. A preparation for the
  next sentence may be adopted by the turn of the previous one if the texts agree.
* `binding/cascade/repair.go:206`: resolveObligationFor discharges by assistant item
  whatever the revision, so an obligation owed again for a later revision can be
  discharged by the earlier correction (TLC finds it with three revisions and three
  invocations); `DischargedIsCorrected` claims that some correction stands. An
  obligation open for one revision also swallows the contradiction by the next,
  and raiseRepairs beside a live resolveRepairs can raise again what was just
  repaired.
* `binding/cascade/repair.go:131` against `:163`: a slow answer "is the
  authoritative correction", and what it corrects is found by comparing its
  SourceRevision with the observation's. An adopted or live answer carries the
  recogniser's number (`prepare.go:74`, `interject.go:298`), which nothing relates
  to the log's (`audio.go:864`): numbered ahead, it settles a repair whose
  evidence it had not read. The same comparison decides what a new observation
  owes (`audio.go:980`), and a live turn adopts whatever was prepared for the sentence
  that happens to have its number. `RepairHistorySound` allows the first, and
  only where the number is ahead of everything the answer had read;
  `AnswersTheEvidence` says which sentence an adopted answer was prepared for.
* `cognition/engine.go:734`: on a version conflict the placeholders of an
  interrupted turn are not written, and its calls stay unresolved.
* `binding/cascade/emit.go:130`: a truncation at 0 ms that arrives before the sink's
  own report records speech that was heard as cancelled.
* `graph/runtime/boundary_router.go:521` against `:623-625` and `:711-715`: terminal
  output stays drainable for "a caller holding (or later using) a stable port",
  and a receiver parked because a replacement paused the egress is told
  ErrChannelClosed by beginQueueShutdown although output is buffered. A caller
  that takes this for the end, as the repository's elements do
  (`elements/flow/runtime.go:134`), leaves it there.
* `graph/runtime/run.go:20-21` calls the shutdown bounded; a disposer that ignores
  its context blocks it. The error of a node read after Close, and of a
  worker read after Run's loop ended, leave the node shown as stopped.
* `session/duplex.go:107-108` against `:295`: transitions are published after the
  lock is released, so not always in transition order.
* `session/duplex.go:258` against `:320`: a callback in flight erases the handle of
  a timer armed after it, which Close then does not stop.

## Proofs

What is proved holds for every value of the constants that satisfies the named
assumption of the module that declares them (`LedgerAssumption`,
`SpeechAssumption`, `ToolsAssumption`, `EventLoopAssumption`,
`DuplexAssumption`, `GateAssumption`, `GovernorAssumption`,
`ClientCallsAssumption`, `CognitionAssumption`, `RouterAssumption`,
`SupervisorAssumption`), and for the specification without fairness. The
assumptions are what the code checks before it gets there (a cost that fits, a
queue of at least one, submissions that share no event), that a bound of the
model is a number, or that different things have different names (a client of a
boundary is not one of its elements); TLC evaluates each on the instances.

The type invariant of every module that has one is proved. Beside the properties
of the runs there are six invariants that no run lists, each next to a liveness
property in its module, which say what that property rests on: that whoever
waits is owed something. TLC agrees with each when it is added to the
invariants of the run named here, and each is a theorem:

| Invariant | Module, run | Theorem | Beside |
|---|---|---|---|
| `AcceptedIsHeld` | `Speech`, `speech` | `SpeechLosesNoUtterance` | `AcceptedIsSettled` |
| `WaitingIsOwed` | `EventLoop`, `event_loop` | `EventLoopOwesALook` | `EventuallyActed` |
| `PlayoutIsTimed` | `Duplex`, `duplex` | `DuplexPlayoutIsTimed` | `AgentFallsSilent` |
| `RoomIsMade` | `Governor`, `governor` | `GovernorMakesRoom` | `UrgentIsServed` |
| `SettlementIsDue` | `ClientCalls`, `client_calls` | `ClientCallsDue` | `InvocationSettles` |
| `SleepersWouldSleepAgain` | `Router`, `router` | `RouterLosesNoWakeup` | `OperationsReturn` |

That the step which is owed is then taken is what fairness adds.

`LedgerProofs`. The inductive invariant is `LedgerTypeOK` with
`ObligationsSound` and `CallCommittedOnce`, which are inductive with it: an
obligation is recorded only for a crossed commitment and no step takes a
crossing back, so `Crossed` of an obligation's commitment is preserved because
`CrossingIsIrreversible` is; Invalidate checks for an open obligation, and
resolving or truncating opens none. `LedgerIrreversible` follows step by
step from the type invariant. `LedgerImplementsBoundary` maps each action to a
step of `Boundary` or a stutter: Prepare decides, Emit and Complete cross, Cancel
withdraws what has not crossed, Invalidate owes, ResolveObligation discharges
(here the uniqueness of the open obligation is needed: otherwise resolving one
would leave the commitment owed), and Queue and Truncated leave the boundary alone.

`ActionProofs`, tool dispatch. Every step of an attempt, and of the utterance
beside it, is a step of the ledger or leaves it alone (`ToolsImplementLedger`), so what is proved of
the ledger holds of the composition: `ToolsObligations` and
`ToolsImplementBoundary`. `EffectAtMostOnce` and `EffectIsAuthorized` need more:
an attempt that got past Prepare is the only one of its call that ever does,
because a commitment is never absent again (`HeldByOne`); an attempt that can still
set its effect off finds that there was none (`EffectAhead`); and it comes to that
point only approved and emitted. The proof holds for any calls and any number of
attempts. `ToolsTypeCorrect` says besides what `inFlight` is: exactly the calls that
one attempt of this process is executing, because only one attempt of a call
passes the claim and a remote one never makes it (`InFlightSound`).

`ActionProofs`, the planner. Every step of the planner is a step of the ledger or
leaves it alone, so `LedgerProofs` applies (`SpeechIrreversible`). That a reported
cancellation stays true rests on the order in emitFrame: a frame leaves only for
a commitment the ledger has as crossed, and no crossing is taken back. That a
reservation is discharged exactly once, counting the sink's calls, rests on
ownership: an utterance is in the channel, kept by one CancelMatching, or
running, and never in two of these places, so one goroutine can begin it or give
it up (`HoldersSound`); and the counts go with the place, so that whoever has it
finds its reservation open and whoever lets go of it has discharged it
(`HistoriesSound`). `AcceptedIsHeld` is the converse: it is always in one of them until it is settled. It needs that an
utterance Run has let go of is terminal, that an accepted one was queued
(`AcceptedIsPlaced`, `LeftIsSettled`), and that what a CancelMatching keeps is either put
back or recorded as lost (`KeptIsPutBack`). All are proved for any number of
utterances, callers, frames and places in the queue.

`AdmissionProofs`. `RequestReleasesOneRun` counts: a request is added when it is
made and consumed by the one driver that saw it, which is why `RequestInv`
remembers that the request is still there when it is about to be cleared.
`DeferralIsOwedAWake` is not inductive, because the gate decides on a snapshot taken
before: a condition may have ended since. `SnapshotIsWatched` says that whatever
ended since the snapshot is still to be published, or was published and left
its token; with it the deferral's own step is covered. The proof is for any
policy options and any number of goroutines that play, over `Floor`, which `Duplex`
is proved to implement. Of the governor, `CapacityRespected`, `LeaseIsOwned` and
`WorkConserving` are inductive together with the order of arrivals and where a
call can be (`GovernorSound`): a call that holds a lease is in running, one that
waits is selecting, and one that gives up is in one of the two. A pass keeps the
capacity because the last waiter it granted fitted beside all the others, and
leaves nothing idle because a waiter it passed over did not fit at its turn and
fits no better afterwards. Every set of waiters has an earliest, so there is
such a pass. `RoomIsMade` is about preemption: of the leases that could be asked
and were not, take the one that would be asked first; it was not asked because
those before it make room enough for the waiter, and they have all been asked.
A waiter with victims takes from both budgets what they give back to both,
because it is of a higher class than each. Leases asked on behalf of an earlier
waiter stay asked, which only adds to the room. `GovernorTypeCorrect` needs
finitely many requests, since arrivals are numbered no further than there are
waiters that could have arrived, and shows that only a running lease is asked.

`SessionProofs`, the coordinator. All of it is for any number of drivers,
committers and submissions.

* `OneActiveRun` has three conjuncts that carry each other: the run that ends clears
  `active` only because it holds the current epoch, and a new continuation
  is the only one because `active` was clear. `RunInv` adds only the shape of
  what they speak of. RunStart is where it could break: a run that starts while
  `active` holds gets epoch 0, as a parallel branch. RunFinish is the other:
  a branch must not clear what it did not set.
* `InterruptSparesItsOwnRun` needs to know where an event can be: handed to a run,
  in one deferred group, in the hands of the holder of commitMu, or pending,
  and in one of these places only (`Places`). The event then was submitted
  before the run that answers it began, so the epoch it captured is an earlier
  one (`InterruptsSound`). Both, with `RunInv`, are `DeliverySound`.
* `ImplementsDelivery` maps each place to a stage of `Delivery`; every step moves
  events from one place to the next, a submission together.
* `NothingLost` and `CommittedInOrder` are about order. `OrderSound` says that the
  events known are a sequence x that is handed over or deferred, then what is in
  hand, then what is pending; that the deferred groups are what is left of x, in its
  order; that the log restricted to events is x and what is being committed,
  item by item; and that a submission's events are adjacent while they wait, which is
  why splitting a batch into groups and joining them again changes nothing. The
  laws of filtering, flattening and counting out items are lemmas of
  `SequenceFacts`, by induction over the length of a sequence on a set of lengths,
  which the provers can instantiate.

* `LossFollowsABadEvent` is proved for events of any number of items, some of
  which may not compile. The first refused item belongs to a bad event of the
  batch; if every event before that has an item, the item's position is not
  before the event's, so what is blamed is that event or one behind it. The batch
  shrinks while it goes round, so the strengthening says that it is what was
  queued in its order (`Embeds`) and that whatever was left out so far was bad
  itself or is explained by a bad event of what was queued (`Explained`,
  `BlameSound`), which covers both ends of a commit, the one that publishes the
  rest and the one that gives up.
* `WaitingIsOwed` goes over who consumes the token and what they do next: a driver
  that has taken it still has to select, a committer that moves pending events to
  deferred still has to signal, a run in flight and a condition that holds are
  followed by a wake (`OwedSound`). Its second part has the hypothesis
  that nothing is refused, and is false without: an error ends the drain with the
  token spent and older work still deferred, the divergence at `runtime.go:963`.
* `EventLoopTypeCorrect`: the queue never exceeds its capacity, since a submission
  is admitted only with room for all of it (`RoomForAll`), and only the context of a
  run that began is ever cancelled, since epochs are handed out in order.

`SessionProofs`, the duplex state. `DuplexImplementsFloor` and
`DuplexNeverCutShort` are for any frames and any number of timers. The steps are
the floor's because whoever can still make a transition, a timer that is
armed or has fired and the speaker that has read the clock, has published its last
one (`NothingOwed`). `PlayoutIsTimed` needs only that no clock value is older than
the bound when it is used (`AgesBounded`): whoever stops or outdates a
timer arms one, and a callback that finds audio left arms the next. TLC finds that
these two are redundant with each other in the model: without either one the
audio's end is still noticed. `DuplexTypeCorrect` adds that audio is never
estimated further ahead than the bound on it, and that the timer the state holds on
to has not run.

`ClientCallsProofs`. `BatchCommittedOnce` and `BatchIsComplete`, for any
invocations and calls and any number of failing commits. The strengthening
ties the claim to the flag: whoever holds a claim finds the batch dispatched, a
batch is claimed only with every result copied, a claimant that has yet to commit
has a batch that is not committed, and a committed batch stays dispatched, so
nobody can claim it again. A failed commit undoes the flag, which is harmless because it
concerns a batch that was not committed. `AnswersAreKept` is about the client's
answers and about those of the local half; it needs that the copy a
claimant took has every answer given before, and that under a claim every call
has one, so none is taken later (`AnswersInHand`). `ClientCallsTypeOK` is proved with them.
`SettlementIsDue` needs that a batch marked as dispatched and not yet committed has
a claimant who still holds it (`MarkIsHeld`): a deadline that finds the mark
ends, and leaves the invocation to that claimant.

`CognitionProofs`. For any goroutines, names of calls, observations and
invocations, and whatever numbers the recogniser gives. The log is read back through what it admitted: every item was
accepted by the log before it (`Admitted`), and appending makes no earlier item less
acceptable, so `ToolHistorySound` and `RepairHistorySound` follow from the rules
of one append. `AnswersTheEvidence` and `DischargedIsCorrected` need what the
turns remember (`TurnSound`): the observation they answer is in the log, what they
adopt was prepared for a sentence, and what they are about to discharge has
its correction in the log. What `RepairHistorySound` says of a correction needs
that observations are numbered in order, so that an answer which has read one
with its own number or a higher one has read all before it (`Numbered`,
`ReadOrNumberedAhead`): the comparison of numbers is sound exactly where the
answer's number is not ahead of all it had read.

`GraphProofs`. None of the supervisor's three properties is inductive, because each
speaks of what the unwinding left behind. `Joined` and `Collected` say how far
it has come: the scope has waited for its workers, the scope's close has returned.
A closed scope admits neither work nor effects, so what was true of a node when
the unwinding passed it stays true (`UnwindSound`). `DeliveredOnce` of the
boundary holds because an item is in one client's hands until its broadcast
returns, and has entered every lossless lane exactly if its result, returned or
still on its way, is "delivered" (`EnteredSound`): a broadcast enters all its
lanes in one step, and goes round again after a replacement only if it has not.

`ConservedAcrossCutover` is about one generation at a time (`BoundarySound`): a
generation that is no longer current is quiescent and admits nobody
(`RunningSound`), a replacement publishes the next only when the current one
has become so, and therefore what entered a lane is what was taken of it followed
by what the current generation carries, lane, element and output queue in turn
(`CarriedSound`). That a step moves an item from one of these places to the
next without reordering is where the laws of `SequenceFacts` come in. An admission
that is reopened gets a new epoch, of which there are no more than replacements
(`EpochsSound`); with the depths of the queues (`QueuesSound`) this gives
`RouterTypeCorrect`. `SleepersWouldSleepAgain` goes over every step that
could make a sleeper's wait pointless and finds that it signals: an item or a slot
in a queue (`QueueSleepers`), a stop or a resumption of an admission and the closing of
the boundary (`RouterSleepers`). An element takes its channel before it looks at
the first lane, so it is woken by what comes while it looks at the others:
what it has seen since then is still so as long as it is among the sleepers
(`ElementSleepers`).

Only model-checked:

* every liveness property and everything about fairness, which is outside the
  prover's reach: `AcceptedIsSettled`, `EventuallyActed`, `UrgentIsServed`,
  `InvocationSettles`, `AgentFallsSilent`, `DeferredIsReleased`, `OperationsReturn`,
  `TerminalOutputDrains` and `AlwaysUnwinds`;
* `SupersededIsStoppedOrOwed`, which the code violates.

## Not modelled

The repository has some 295 000 lines of implementation, of which the map covers
a small share. About half are benchmarks, commands, provider adapters, servers,
clients and presentation: I/O, wire formats, scoring and packaging, with no
protocol of their own. Another third is the graph-native path
(`elements/`, `graph/`): its runtime is modelled here, its compiler is a pure
translation, and its elements and bindings, which do have protocols, restate the
decisions of the modelled parts as message handlers, one state machine per
element. They are the largest part left. What is modelled is the machinery
that sessions share. Not all of it is in use at this commit: a replacement of a
graph's generation is only made by tests.

* What cognition says, and every policy verdict on recogniser or model output:
  `Cognition` chooses freely. Within the modelled parts of it: prompts, streaming,
  budgets, visual monitors, and the escalation from the fast phase to the slow.
* In the trajectory: AppendBatchOnPrefix, supersession edges between
  observations, the conflict between scoped and unscoped names of one call,
  projections.
* In the graph runtime: resolution, services, secrets, state transfer,
  telemetry, recording. `replace` is called by tests only at this commit; the drain
  callback it is given is external and assumed to establish what the code's
  comment asks of it. In production a boundary has one lossless lane; the
  instance has two.
* meetingManualDeferral, the recogniser buffer, graph-native elements other than the
  two that promote or suppress a proposed call.
* Compilers, validators and numeric estimation (`graph/compile.go`,
  `authority/`, `spoken/`) keep no state between calls.
* Gateway, transports, sidecar and upstream bindings, provider adapters,
  computer use, benchmarks and deployment are I/O around the modelled parts.
* In what is modelled: word timing, telemetry, audit records, schemas; a clock
  that runs backwards; how much preemption is asked for beyond what is needed.

## Plan

Done, in this order: ledger and boundary with proofs; planner; coordinator with
driver and gate, and delivery; governor; tracker; duplex; tools; the proofs of the
coordinator's single run and of the tracker; the gate with both policies, over
what the duplex state is shown to promise, with proofs; the router and the
supervisor of the graph runtime; the trajectory's rules and the turns that
write it; the proofs about tool dispatch; the proofs about the planner, the
governor, the log and its turns, the supervisor and the boundary, and the
tracker's answers; the refinements of `Floor` and of `Delivery`; the coordinator's
order and conservation of events; conservation across a cutover, the invariants
that the liveness properties rest on, and the remaining type invariants.

What is left:

1. the action and speech elements of the graph path, shown to keep the
   planner's and the ledger's promises;
2. a composition of planner, duplex state and gate: what is stopped, what is still
   playing, and what the gate is told.
