------------------------------- MODULE Speech -------------------------------
(***************************************************************************)
(* The speech planner, action/speech.go, over the irreversibility ledger.  *)
(*                                                                         *)
(* Four kinds of goroutine share the planner: those that Enqueue an        *)
(* utterance, the one that Runs the queue and paces audio to the sink,     *)
(* those that Cancel, CancelMatching or Close, and the supersession path   *)
(* of binding/cascade/audio.go that follows CancelMatching by recording    *)
(* what is owed.  A step is one critical section of speech.mu or of the    *)
(* ledger, one channel operation, or one call to the sink.                 *)
(*                                                                         *)
(* An utterance is its identifier.  Durations are counted in frames, and   *)
(* one frame is one millisecond of Commitment.PlayedMS.  The predicate a   *)
(* supersession passes to CancelMatching is membership in Superseded.      *)
(***************************************************************************)
EXTENDS Ledger, FiniteSets

CONSTANTS
  Superseded,   \* utterances that answer a replaced revision
  Cancellers,   \* calls that stop speech
  CancelKinds,  \* [Cancellers -> the calls it may turn out to be, of StopKinds]
  QueueDepth,   \* SpeechConfig.QueueDepth
  MaxFrames,    \* bound on the frames of an utterance
  None          \* no utterance

StopKinds == {"all", "matching", "close"}

ASSUME SpeechAssumption ==
  /\ Superseded \subseteq Ids
  /\ CancelKinds \in [Cancellers -> SUBSET StopKinds]
  /\ QueueDepth \in Nat \ {0}
  /\ MaxFrames \in Nat \ {0}
  /\ MaxFrames <= MaxMS
  /\ None \notin Ids

VARIABLES
  queue,      \* Speech.queue: the channel, oldest first
  epoch,      \* Speech.epoch
  activeID,   \* Speech.activeID (active and activeCancel move with it)
  closed,     \* Speech.closed
  ctxDone,    \* utterances whose own context has been cancelled
  done,       \* the session context has ended
  enq,        \* [Ids -> progress of the Enqueue call for that utterance]
  run,        \* the Run goroutine: pc, utterance, frames sent, completed
  canc,       \* [Cancellers -> progress of the call]
  reserved,   \* [Ids -> how often the sink saw Reserve, CancelReservation, Begin]
  delivered,  \* [Ids -> frames the sink has been handed]
  ends,       \* [Ids -> calls of Sink.End]
  reported,   \* [Ids -> calls that reported the commitment as cancelled]
  lost        \* utterances that PutBack found no room for

speechVars == <<queue, epoch, activeID, closed, ctxDone, done, enq, run, canc,
                reserved, delivered, ends, reported, lost>>

vars == <<ledgerVars, speechVars>>

Queued == [u : Ids, epoch : Nat]

EnqPcs == {"new", "prepared", "closed", "ready", "accepted", "refused"}

RunPcs == {"idle", "check", "activate", "begin", "frame", "emit", "audio",
           "settle", "end", "clear", "drain", "stopped"}

CancPcs == {"new", "closing", "start", "ctx", "lookup", "stop", "drain", "putback",
            "owe", "returned"}

SinkCalls == {"reserve", "cancel", "begin"}

SpeechTypeOK ==
  /\ LedgerTypeOK
  /\ queue \in Seq(Queued) /\ Len(queue) <= QueueDepth
  /\ epoch \in Nat
  /\ activeID \in Ids \cup {None}
  /\ closed \in BOOLEAN /\ done \in BOOLEAN
  /\ ctxDone \subseteq Ids
  /\ enq \in [Ids -> [pc : EnqPcs, epoch : Nat]]
  /\ run \in [pc : RunPcs, u : Ids \cup {None}, epoch : Nat,
              played : 0..MaxFrames, completed : BOOLEAN]
  /\ canc \in [Cancellers -> [pc : CancPcs, kind : StopKinds \cup {"none"}, u : Ids \cup {None},
                              keep : Seq(Queued), before : SUBSET Ids,
                              owing : SUBSET Ids]]
  /\ reserved \in [Ids -> [SinkCalls -> Nat]]
  /\ delivered \in [Ids -> 0..MaxFrames]
  /\ ends \in [Ids -> Nat]
  /\ reported \in [Ids -> Nat]
  /\ lost \subseteq Ids

Idle == [pc |-> "idle", u |-> None, epoch |-> 0, played |-> 0, completed |-> FALSE]

SpeechInit ==
  /\ LedgerInit
  /\ queue = << >> /\ epoch = 0 /\ activeID = None
  /\ closed = FALSE /\ ctxDone = {} /\ done = FALSE
  /\ enq = [u \in Ids |-> [pc |-> "new", epoch |-> 0]]
  /\ run = Idle
  /\ canc = [c \in Cancellers |-> [pc |-> "new", kind |-> "none", u |-> None,
                                   keep |-> << >>, before |-> {}, owing |-> {}]]
  /\ reserved = [u \in Ids |-> [call \in SinkCalls |-> 0]]
  /\ delivered = [u \in Ids |-> 0]
  /\ ends = [u \in Ids |-> 0]
  /\ reported = [u \in Ids |-> 0]
  /\ lost = {}

SinkSees(u, calls) ==
  [reserved EXCEPT ![u] = [call \in SinkCalls |-> reserved[u][call] + (IF call \in calls THEN 1 ELSE 0)]]

-----------------------------------------------------------------------------
\* Enqueue, for one utterance each.

enqSame == UNCHANGED <<epoch, activeID, closed, ctxDone, done, run, canc,
                       delivered, ends, reported, lost>>

EnqTo(u, pc) == enq' = [enq EXCEPT ![u].pc = pc]

EnqueuePrepare(u) ==
  /\ enq[u].pc = "new"
  /\ Prepare(u, NoCall)
  /\ EnqTo(u, "prepared")
  /\ enqSame /\ UNCHANGED <<queue, reserved>>

\* Queue in the ledger, then read the epoch and the closed flag together.
EnqueueQueue(u) ==
  /\ enq[u].pc = "prepared"
  /\ Queue(u)
  /\ enq' = [enq EXCEPT ![u] = [pc |-> IF closed THEN "closed" ELSE "ready",
                                epoch |-> epoch]]
  /\ enqSame /\ UNCHANGED <<queue, reserved>>

EnqueueClosed(u) ==
  /\ enq[u].pc = "closed"
  /\ Cancel(u)
  /\ EnqTo(u, "refused")
  /\ enqSame /\ UNCHANGED <<queue, reserved>>

\* The sink refuses the reservation.
EnqueueRefused(u) ==
  /\ enq[u].pc = "ready"
  /\ Cancel(u)
  /\ EnqTo(u, "refused")
  /\ enqSame /\ UNCHANGED <<queue, reserved>>

\* The reservation is made before the utterance is visible to Run.
EnqueuePush(u) ==
  /\ enq[u].pc = "ready"
  /\ Len(queue) < QueueDepth
  /\ queue' = Append(queue, [u |-> u, epoch |-> enq[u].epoch])
  /\ reserved' = SinkSees(u, {"reserve"})
  /\ EnqTo(u, "accepted")
  /\ enqSame /\ UNCHANGED ledgerVars

EnqueueFull(u) ==
  /\ enq[u].pc = "ready"
  /\ Len(queue) = QueueDepth
  /\ reserved' = SinkSees(u, {"reserve", "cancel"})
  /\ Cancel(u)
  /\ EnqTo(u, "refused")
  /\ enqSame /\ UNCHANGED queue

Enqueue(u) == \/ EnqueuePrepare(u) \/ EnqueueQueue(u) \/ EnqueueClosed(u)
              \/ EnqueueRefused(u) \/ EnqueuePush(u) \/ EnqueueFull(u)

-----------------------------------------------------------------------------
\* Run: one goroutine per session.

runSame == UNCHANGED <<epoch, closed, done, enq, canc, reported, lost>>

RunTo(pc) == run' = [run EXCEPT !.pc = pc]

CtxCancelled(u) == u \in ctxDone \/ done

RunTake ==
  /\ run.pc = "idle"
  /\ queue # << >>
  /\ queue' = Tail(queue)
  /\ run' = [pc |-> "check", u |-> Head(queue).u, epoch |-> Head(queue).epoch,
             played |-> 0, completed |-> FALSE]
  /\ runSame /\ UNCHANGED <<ledgerVars, activeID, ctxDone, reserved, delivered, ends>>

\* Mutant of RunStale: the stale utterance is skipped but left queued in the ledger.
RunStaleForgets ==
  /\ run.pc = "check"
  /\ run.epoch # epoch
  /\ reserved' = SinkSees(run.u, {"cancel"})
  /\ run' = Idle
  /\ runSame /\ UNCHANGED <<ledgerVars, queue, activeID, ctxDone, delivered, ends>>

\* An utterance queued before the latest Cancel is dropped.
RunStale ==
  /\ run.pc = "check"
  /\ run.epoch # epoch
  /\ reserved' = SinkSees(run.u, {"cancel"})
  /\ Cancel(run.u)
  /\ run' = Idle
  /\ runSame /\ UNCHANGED <<queue, activeID, ctxDone, delivered, ends>>

RunFresh ==
  /\ run.pc = "check"
  /\ run.epoch = epoch
  /\ RunTo("activate")
  /\ runSame
  /\ UNCHANGED <<ledgerVars, queue, activeID, ctxDone, reserved, delivered, ends>>

\* emit publishes the utterance it is about to stream; only from here can a
\* Cancel find it.
EmitActivate ==
  /\ run.pc = "activate"
  /\ activeID' = run.u
  /\ RunTo("begin")
  /\ runSame
  /\ UNCHANGED <<ledgerVars, queue, ctxDone, reserved, delivered, ends>>

\* Sink.Begin accepts the utterance, or refuses it and nothing is streamed.
EmitBegin ==
  /\ run.pc = "begin"
  /\ reserved' = SinkSees(run.u, {"begin"})
  /\ \/ RunTo("frame")
     \/ RunTo("settle")
  /\ runSame
  /\ UNCHANGED <<ledgerVars, queue, activeID, ctxDone, delivered, ends>>

\* The provider has another frame and its slot has come.
StreamFrame ==
  /\ run.pc = "frame"
  /\ run.played < MaxFrames
  /\ ~CtxCancelled(run.u)
  /\ RunTo("emit")
  /\ runSame
  /\ UNCHANGED <<ledgerVars, queue, activeID, ctxDone, reserved, delivered, ends>>

\* The provider's stream ends: completed, or cut short by its own error or by
\* the cancelled context, which stream checks once more after the last chunk but
\* not after the frame it then flushes.
StreamEnd ==
  /\ run.pc = "frame"
  /\ \E completed \in BOOLEAN :
       /\ completed => ~CtxCancelled(run.u) \/ run.played > 0
       /\ run' = [run EXCEPT !.pc = "settle", !.completed = completed]
  /\ runSame
  /\ UNCHANGED <<ledgerVars, queue, activeID, ctxDone, reserved, delivered, ends>>

\* Mutant of EmitCross: the frame leaves before the ledger hears of it.
EmitUnrecorded ==
  /\ run.pc = "emit"
  /\ RunTo("audio")
  /\ runSame
  /\ UNCHANGED <<ledgerVars, queue, activeID, ctxDone, reserved, delivered, ends>>

\* The crossing is recorded before the bytes move ...
EmitCross ==
  /\ run.pc = "emit"
  /\ Emit(run.u)
  /\ RunTo("audio")
  /\ runSame /\ UNCHANGED <<queue, activeID, ctxDone, reserved, delivered, ends>>

\* ... and a ledger that refuses the crossing ends the stream.
EmitRefused ==
  /\ run.pc = "emit"
  /\ Terminal(state[run.u])
  /\ RunTo("settle")
  /\ runSame
  /\ UNCHANGED <<ledgerVars, queue, activeID, ctxDone, reserved, delivered, ends>>

\* Playback and sink take the frame.
EmitAudio ==
  /\ run.pc = "audio"
  /\ delivered' = [delivered EXCEPT ![run.u] = @ + 1]
  /\ run' = [run EXCEPT !.pc = "frame", !.played = @ + 1]
  /\ runSame
  /\ UNCHANGED <<ledgerVars, queue, activeID, ctxDone, reserved, ends>>

\* Playback or sink fails: the frame is not counted as played.
EmitAudioFails ==
  /\ run.pc = "audio"
  /\ RunTo("settle")
  /\ runSame
  /\ UNCHANGED <<ledgerVars, queue, activeID, ctxDone, reserved, delivered, ends>>

\* The ledger call emit makes when the stream is over.  Complete on a terminal
\* commitment is an error that emit ignores.
Settle(u, played, completed) ==
  IF played = 0 /\ ~completed
  THEN Cancel(u)
  ELSE IF Terminal(state[u]) THEN UNCHANGED ledgerVars
                             ELSE Complete(u, played)

EmitSettle ==
  /\ run.pc = "settle"
  /\ Settle(run.u, run.played, run.completed)
  /\ RunTo("end")
  /\ runSame /\ UNCHANGED <<queue, activeID, ctxDone, reserved, delivered, ends>>

EmitEnd ==
  /\ run.pc = "end"
  /\ ends' = [ends EXCEPT ![run.u] = @ + 1]
  /\ RunTo("clear")
  /\ runSame
  /\ UNCHANGED <<ledgerVars, queue, activeID, ctxDone, reserved, delivered>>

EmitClear ==
  /\ run.pc = "clear"
  /\ activeID' = None
  /\ run' = Idle
  /\ runSame
  /\ UNCHANGED <<ledgerVars, queue, ctxDone, reserved, delivered, ends>>

\* The session context ended while Run was waiting.
RunStop ==
  /\ run.pc = "idle"
  /\ done
  /\ RunTo("drain")
  /\ runSame
  /\ UNCHANGED <<ledgerVars, queue, activeID, ctxDone, reserved, delivered, ends>>

RunDrain ==
  /\ run.pc = "drain"
  /\ \/ /\ queue = << >>
        /\ RunTo("stopped")
        /\ UNCHANGED <<ledgerVars, queue, reserved>>
     \/ /\ queue # << >>
        /\ queue' = Tail(queue)
        /\ reserved' = SinkSees(Head(queue).u, {"cancel"})
        /\ Cancel(Head(queue).u)
        /\ UNCHANGED run
  /\ runSame /\ UNCHANGED <<activeID, ctxDone, delivered, ends>>

Run == \/ RunTake \/ RunStale \/ RunFresh \/ EmitActivate \/ EmitBegin
       \/ StreamFrame \/ StreamEnd \/ EmitCross \/ EmitRefused \/ EmitAudio
       \/ EmitAudioFails \/ EmitSettle \/ EmitEnd \/ EmitClear
       \/ RunStop \/ RunDrain

-----------------------------------------------------------------------------
\* Cancel, CancelMatching and Close.

cancSame == UNCHANGED <<activeID, enq, run, delivered, ends>>

CancTo(c, pc) == canc' = [canc EXCEPT ![c].pc = pc]

Matching(c) == canc[c].kind = "matching"

\* The session's Close ends the context first and closes the planner later.
CloseSession(c) ==
  /\ "close" \in CancelKinds[c]
  /\ canc[c].pc = "new"
  /\ done' = TRUE
  /\ canc' = [canc EXCEPT ![c].pc = "closing", ![c].kind = "close"]
  /\ cancSame
  /\ UNCHANGED <<ledgerVars, queue, epoch, closed, ctxDone, reserved, reported, lost>>

ClosePlanner(c) ==
  /\ canc[c].pc = "closing"
  /\ closed' = TRUE
  /\ CancTo(c, "start")
  /\ cancSame
  /\ UNCHANGED <<ledgerVars, queue, epoch, ctxDone, done, reserved, reported, lost>>

\* Utterances a supersession that starts now has to deal with.
Accepted == {u \in Ids : enq[u].pc = "accepted"}

CancelStart(c) ==
  /\ \/ "all" \in CancelKinds[c] /\ canc[c].pc = "new"
     \/ canc[c].pc = "start"
  /\ epoch' = epoch + 1
  /\ canc' = [canc EXCEPT ![c].pc = IF activeID = None THEN "drain" ELSE "ctx",
                          ![c].kind = IF @ = "none" THEN "all" ELSE @,
                          ![c].u = activeID]
  /\ cancSame
  /\ UNCHANGED <<ledgerVars, queue, closed, ctxDone, done, reserved, reported, lost>>

MatchStart(c) ==
  /\ "matching" \in CancelKinds[c]
  /\ canc[c].pc = "new"
  /\ canc' = [canc EXCEPT ![c].kind = "matching",
                          ![c].pc = IF activeID \in Superseded THEN "ctx" ELSE "drain",
                          ![c].u = activeID,
                          ![c].before = Accepted \cap Superseded]
  /\ cancSame
  /\ UNCHANGED <<ledgerVars, queue, epoch, closed, ctxDone, done, reserved, reported, lost>>

CancelCtx(c) ==
  /\ canc[c].pc = "ctx"
  /\ ctxDone' = ctxDone \cup {canc[c].u}
  /\ CancTo(c, "lookup")
  /\ cancSame
  /\ UNCHANGED <<ledgerVars, queue, epoch, closed, done, reserved, reported, lost>>

\* stop looks the commitment up and cancels it in two critical sections.
StopLookup(c) ==
  /\ canc[c].pc = "lookup"
  /\ CancTo(c, IF Terminal(state[canc[c].u]) THEN "drain" ELSE "stop")
  /\ cancSame
  /\ UNCHANGED <<ledgerVars, queue, epoch, closed, ctxDone, done, reserved, reported, lost>>

\* Whatever the ledger does not call crossed is reported as cancelled.
StopCancel(c) ==
  /\ canc[c].pc = "stop"
  /\ Cancel(canc[c].u)
  /\ reported' = IF Crossed(state[canc[c].u]) THEN reported
                 ELSE [reported EXCEPT ![canc[c].u] = @ + 1]
  /\ CancTo(c, "drain")
  /\ cancSame
  /\ UNCHANGED <<queue, epoch, closed, ctxDone, done, reserved, lost>>

\* Mutant of DrainStop: the reservation is not given back.
DrainStopLeaks(c) ==
  /\ canc[c].pc = "drain"
  /\ queue # << >>
  /\ Matching(c) => Head(queue).u \in Superseded
  /\ queue' = Tail(queue)
  /\ Cancel(Head(queue).u)
  /\ reported' = IF Terminal(state[Head(queue).u]) \/ Crossed(state[Head(queue).u])
                 THEN reported
                 ELSE [reported EXCEPT ![Head(queue).u] = @ + 1]
  /\ cancSame
  /\ UNCHANGED <<canc, epoch, closed, ctxDone, done, reserved, lost>>

\* A queued utterance belongs to whoever received it, so stopping it is one step.
DrainStop(c) ==
  /\ canc[c].pc = "drain"
  /\ queue # << >>
  /\ Matching(c) => Head(queue).u \in Superseded
  /\ queue' = Tail(queue)
  /\ reserved' = SinkSees(Head(queue).u, {"cancel"})
  /\ Cancel(Head(queue).u)
  /\ reported' = IF Terminal(state[Head(queue).u]) \/ Crossed(state[Head(queue).u])
                 THEN reported
                 ELSE [reported EXCEPT ![Head(queue).u] = @ + 1]
  /\ cancSame
  /\ UNCHANGED <<canc, epoch, closed, ctxDone, done, lost>>

DrainKeep(c) ==
  /\ canc[c].pc = "drain"
  /\ queue # << >>
  /\ Matching(c) /\ Head(queue).u \notin Superseded
  /\ queue' = Tail(queue)
  /\ canc' = [canc EXCEPT ![c].keep = Append(@, Head(queue))]
  /\ cancSame
  /\ UNCHANGED <<ledgerVars, epoch, closed, ctxDone, done, reserved, reported, lost>>

\* The queue is empty.  Cancel returns; CancelMatching puts back what it kept.
DrainEnd(c) ==
  /\ canc[c].pc = "drain"
  /\ queue = << >>
  /\ canc' = [canc EXCEPT ![c].pc = IF Matching(c) THEN "putback" ELSE "returned",
                          ![c].u = None]
  /\ cancSame
  /\ UNCHANGED <<ledgerVars, queue, epoch, closed, ctxDone, done, reserved, reported, lost>>

\* A kept utterance for which the channel has no room is not put back.
PutBack(c) ==
  /\ canc[c].pc = "putback"
  /\ canc[c].keep # << >>
  /\ queue' = IF Len(queue) < QueueDepth THEN Append(queue, Head(canc[c].keep))
                                        ELSE queue
  /\ lost' = IF Len(queue) < QueueDepth THEN lost ELSE lost \cup {Head(canc[c].keep).u}
  /\ canc' = [canc EXCEPT ![c].keep = Tail(@)]
  /\ cancSame
  /\ UNCHANGED <<ledgerVars, epoch, closed, ctxDone, done, reserved, reported>>

\* The supersession then asks the ledger what was heard ...
OweCrossed(c) ==
  /\ canc[c].pc = "putback"
  /\ canc[c].keep = << >>
  /\ canc' = [canc EXCEPT ![c].pc = "owe",
                          ![c].owing = CrossedIds \cap Superseded]
  /\ cancSame
  /\ UNCHANGED <<ledgerVars, queue, epoch, closed, ctxDone, done, reserved, reported, lost>>

\* ... and records a repair for each.
OweOne(c) ==
  /\ canc[c].pc = "owe"
  /\ \E u \in canc[c].owing, revision \in Revisions :
       /\ IF HasOpen(u) THEN UNCHANGED ledgerVars ELSE Invalidate(u, revision)
       /\ canc' = [canc EXCEPT ![c].owing = @ \ {u}]
  /\ cancSame
  /\ UNCHANGED <<queue, epoch, closed, ctxDone, done, reserved, reported, lost>>

OweEnd(c) ==
  /\ canc[c].pc = "owe"
  /\ canc[c].owing = {}
  /\ CancTo(c, "returned")
  /\ cancSame
  /\ UNCHANGED <<ledgerVars, queue, epoch, closed, ctxDone, done, reserved, reported, lost>>

\* The steps of a call that has begun; when it begins is its caller's business.
CancelBody(c) == \/ ClosePlanner(c) \/ CancelCtx(c)
                 \/ StopLookup(c) \/ StopCancel(c) \/ DrainStop(c) \/ DrainKeep(c)
                 \/ DrainEnd(c) \/ PutBack(c) \/ OweCrossed(c) \/ OweOne(c) \/ OweEnd(c)

CancelCall(c) == \/ CloseSession(c) \/ CancelStart(c) \/ MatchStart(c) \/ CancelBody(c)

SpeechNext == \/ \E u \in Ids : Enqueue(u)
              \/ Run
              \/ \E c \in Cancellers : CancelCall(c)

SpeechSpec == SpeechInit /\ [][SpeechNext]_vars

\* Goroutines that can run do run; the provider's stream and the sink's calls
\* return.  Nothing obliges a caller to enqueue or to cancel.
SpeechFairness ==
  /\ WF_vars(Run)
  /\ \A c \in Cancellers : WF_vars(CancelBody(c) \/ (canc[c].pc = "start" /\ CancelStart(c)))

FairSpeechSpec == SpeechSpec /\ SpeechFairness

-----------------------------------------------------------------------------
\* A commitment handed back as cancelled was never heard and never will be:
\* emitFrame records the crossing before the bytes move, "so a concurrent
\* cancellation can never classify a frame that is already on its way as safely
\* droppable".
CancelledNeverHeard ==
  \A u \in Ids : reported[u] > 0 => delivered[u] = 0 /\ state[u] = "cancelled"

\* An accepted utterance that somebody has and has yet to settle: it is in the
\* channel, with a CancelMatching that will put it back, or with Run.
Held(u) ==
  \/ \E i \in DOMAIN queue : queue[i].u = u
  \/ \E c \in Cancellers : /\ Matching(c) /\ canc[c].pc \in {"drain", "putback"}
                           /\ \E i \in DOMAIN canc[c].keep : canc[c].keep[i].u = u
  \/ run.u = u /\ run.pc \notin {"idle", "drain", "stopped"}

\* The sink's queue reservation is discharged once: by CancelReservation or by
\* Begin and one End (SpeechSink.End: "called exactly once for every Begin"), never
\* by two of them, and by nobody less than once: when Enqueue has returned and no
\* goroutine has the utterance any longer, none is left open.  The exception is
\* the utterance CancelMatching could not put back, whose reservation stays.
ReservationDischargedOnce ==
  \A u \in Ids :
    LET seen == reserved[u]
    IN  /\ seen["reserve"] <= 1
        /\ seen["cancel"] + seen["begin"] <= seen["reserve"]
        /\ ends[u] <= seen["begin"]
        /\ enq[u].pc \in {"accepted", "refused"} /\ ~Held(u) /\ u \notin lost =>
             seen["cancel"] + seen["begin"] = seen["reserve"] /\ ends[u] = seen["begin"]

\* No accepted utterance falls between two goroutines: one that is not settled is
\* held by one of them.  The exception is one that CancelMatching kept and, the
\* channel having filled, could not put back.
AcceptedIsHeld ==
  \A u \in Ids : enq[u].pc = "accepted" => Terminal(state[u]) \/ u \in lost \/ Held(u)

\* An accepted utterance is eventually settled: spoken, or its commitment
\* cancelled, never left queued, whatever Cancel, CancelMatching and their
\* interleavings with Run do.  Two exceptions: the session ends, or it is one
\* that CancelMatching kept and, the channel having filled, could not put back.
AcceptedIsSettled ==
  \A u \in Ids :
    (enq[u].pc = "accepted") ~> (Terminal(state[u]) \/ done \/ u \in lost)

-----------------------------------------------------------------------------
\* What comments of the code say, which the interleavings below refute.

\* The supersession path: "speech it produced that nobody heard is cancelled,
\* and speech somebody did hear is recorded as owing a repair".
SupersededIsStoppedOrOwed ==
  \A c \in Cancellers :
    Matching(c) /\ canc[c].pc = "returned" =>
      \A u \in canc[c].before : delivered[u] > 0 => HasOpen(u)

=============================================================================
