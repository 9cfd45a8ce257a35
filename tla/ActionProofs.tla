---------------------------- MODULE ActionProofs ----------------------------
(***************************************************************************)
(* What goes out into the world: the speech planner, for any utterances,   *)
(* any callers that stop speech, any queue depth and any length of speech, *)
(* and tool dispatch, for any calls and any number of attempts.  Both are  *)
(* clients of the ledger like any other, so what is proved of the ledger   *)
(* holds of them.                                                          *)
(*                                                                         *)
(* Of the planner neither property is inductive.  That a reported          *)
(* cancellation stays true rests on the order of emitFrame: a frame leaves *)
(* only for a commitment the ledger has as crossed, and the ledger takes   *)
(* no crossing back.  That a reservation is discharged at most once rests  *)
(* on ownership: an utterance is in the channel, kept by one               *)
(* CancelMatching or running, and never in two of these places, so only    *)
(* one goroutine can begin it or give it up.                               *)
(*                                                                         *)
(* That it is discharged at all rests on where an utterance can go: an     *)
(* accepted one is always in one of these places until its reservation is  *)
(* discharged and its commitment ended, or lost because the channel filled *)
(* while it was out (HoldersSound).                                        *)
(*                                                                         *)
(* A call takes effect once because an attempt that got past Prepare is    *)
(* the only one of its call that ever does: the commitment is never absent *)
(* again.                                                                  *)
(*                                                                         *)
(* The calls in flight are those that one attempt executes here, since     *)
(* only one attempt of a call passes the claim (InFlightSound).            *)
(***************************************************************************)
EXTENDS Speech, Tools, LedgerProofs

-----------------------------------------------------------------------------
\* The speech planner.

\* The utterances of a sequence of queued ones, and that none occurs twice.
Us(s) == {s[i].u : i \in DOMAIN s}

Distinct(s) == \A i, j \in DOMAIN s : s[i].u = s[j].u => i = j

Kept(c) == Us(canc[c].keep)

\* Run has taken an utterance off the channel and is not yet done with it.
Busy == run.pc \notin {"idle", "drain", "stopped"}

\* An utterance has one owner: the channel, a CancelMatching, or Run.
OneOwner ==
  /\ Distinct(queue)
  /\ \A c \in Cancellers : Distinct(canc[c].keep) /\ Us(queue) \cap Kept(c) = {}
  /\ \A c, d \in Cancellers : c # d => Kept(c) \cap Kept(d) = {}
  /\ Busy => run.u \in Ids /\ run.u \notin Us(queue) /\ \A c \in Cancellers : run.u \notin Kept(c)

\* The sink's calls for an utterance: so many of each.
Seen(calls, reserve, cancel, begin) ==
  /\ calls["reserve"] = reserve
  /\ calls["cancel"] = cancel
  /\ calls["begin"] = begin

\* The histories of an utterance the sink can have seen.
History(calls, ended) ==
  \/ ended = 0 /\ (Seen(calls, 0, 0, 0) \/ Seen(calls, 1, 0, 0) \/ Seen(calls, 1, 1, 0))
  \/ ended \in {0, 1} /\ Seen(calls, 1, 0, 1)

HistoriesSound == \A u \in Ids : History(reserved[u], ends[u])

\* All the sink has seen of it is its reservation.
Untouched(u) ==
  enq[u].pc = "accepted" /\ Seen(reserved[u], 1, 0, 0) /\ delivered[u] = 0 /\ ends[u] = 0

\* An utterance that waits is untouched, in the channel as with a CancelMatching.
WaitingIsUntouched ==
  /\ \A u \in Us(queue) : Untouched(u)
  /\ \A c \in Cancellers : \A u \in Kept(c) : Untouched(u)

\* Before it is accepted nobody but its Enqueue has it.
NotYetAccepted ==
  \A u \in Ids : enq[u].pc # "accepted" =>
    /\ delivered[u] = 0 /\ ends[u] = 0
    /\ Seen(reserved[u], 0, 0, 0) \/ (enq[u].pc = "refused" /\ Seen(reserved[u], 1, 1, 0))

\* What the sink has seen of the utterance Run is busy with.
RunStage ==
  Busy =>
    /\ run.pc \in {"check", "activate", "begin"} => Untouched(run.u) /\ run.played = 0
    /\ run.pc \notin {"check", "activate", "begin"} =>
         /\ enq[run.u].pc = "accepted" /\ Seen(reserved[run.u], 1, 0, 1)
         /\ delivered[run.u] = run.played
         /\ ends[run.u] = IF run.pc = "clear" THEN 1 ELSE 0
    /\ run.pc \in {"emit", "audio"} => run.played < MaxFrames

\* Frames leave for crossed commitments only, and a reported cancellation is one.
HeardIsCrossed ==
  /\ \A u \in Ids : delivered[u] > 0 => Crossed(state[u])
  /\ run.pc = "audio" => Crossed(state[run.u])
  /\ \A u \in Ids : reported[u] > 0 => state[u] = "cancelled"
  /\ \A c \in Cancellers : canc[c].pc \in {"ctx", "lookup", "stop"} => canc[c].u \in Ids

\* The inductive invariant of the planner.
UtterancesSound ==
  /\ SpeechTypeOK
  /\ OneOwner
  /\ WaitingIsUntouched
  /\ NotYetAccepted
  /\ RunStage
  /\ HeardIsCrossed
  /\ HistoriesSound

-----------------------------------------------------------------------------
\* Sequences of queued utterances.

\* Appending adds one utterance.
LEMMA UsAppend ==
  ASSUME NEW s \in Seq(Queued), NEW x \in Queued, x.u \notin Us(s), Distinct(s)
  PROVE  /\ Append(s, x) \in Seq(Queued)
         /\ Us(Append(s, x)) = Us(s) \cup {x.u}
         /\ Distinct(Append(s, x))
<1> DEFINE t == Append(s, x)
<1>1. /\ t \in Seq(Queued) /\ Len(s) \in Nat /\ DOMAIN s = 1..Len(s) /\ DOMAIN t = 1..Len(s) + 1
      /\ \A i \in 1..Len(s) : t[i] = s[i]
      /\ t[Len(s) + 1] = x
  BY LenProperties
<1> HIDE DEF t
<1>2. \A i \in DOMAIN t : i \in DOMAIN s \/ i = Len(s) + 1
  BY <1>1
<1>3. Us(t) = Us(s) \cup {x.u}
  <2>1. ASSUME NEW i \in DOMAIN t PROVE t[i].u \in Us(s) \cup {x.u}
    BY <1>1, <1>2 DEF Us
  <2>2. ASSUME NEW i \in DOMAIN s PROVE s[i].u \in Us(t)
    BY <1>1 DEF Us
  <2>3. x.u \in Us(t)
    <3>1. Len(s) + 1 \in DOMAIN t
      BY <1>1
    <3> QED BY <1>1, <3>1 DEF Us
  <2> QED BY <2>1, <2>2, <2>3 DEF Us
<1>4. Distinct(t)
  <2> SUFFICES ASSUME NEW i \in DOMAIN t, NEW j \in DOMAIN t, t[i].u = t[j].u PROVE i = j
    BY DEF Distinct
  <2>1. CASE i \in DOMAIN s /\ j \in DOMAIN s
    BY <1>1, <2>1 DEF Distinct
  <2>2. CASE i \in DOMAIN s /\ j = Len(s) + 1
    BY <1>1, <2>2 DEF Us
  <2>3. CASE i = Len(s) + 1 /\ j \in DOMAIN s
    BY <1>1, <2>3 DEF Us
  <2> QED BY <1>2, <2>1, <2>2, <2>3
<1> QED BY <1>1, <1>3, <1>4 DEF t

\* Taking the head off takes its utterance off.
LEMMA UsTail ==
  ASSUME NEW s \in Seq(Queued), s # << >>, Distinct(s)
  PROVE  /\ Head(s) \in Queued /\ Head(s).u \in Ids /\ Head(s).u \in Us(s)
         /\ Tail(s) \in Seq(Queued) /\ Len(Tail(s)) = Len(s) - 1
         /\ Us(Tail(s)) = Us(s) \ {Head(s).u}
         /\ Distinct(Tail(s))
<1> DEFINE t == Tail(s)
<1>1. /\ t \in Seq(Queued) /\ Len(s) \in Nat \ {0} /\ DOMAIN s = 1..Len(s)
      /\ Len(t) = Len(s) - 1 /\ DOMAIN t = 1..Len(s) - 1
      /\ \A i \in 1..Len(s) - 1 : t[i] = s[i + 1]
      /\ Head(s) = s[1] /\ 1 \in DOMAIN s /\ s[1] \in Queued
  BY HeadTailProperties, LenProperties, EmptySeq
<1> HIDE DEF t
<1>2. Us(t) = Us(s) \ {s[1].u}
  <2>1. ASSUME NEW i \in DOMAIN t PROVE t[i].u \in Us(s) /\ t[i].u # s[1].u
    <3>1. i + 1 \in DOMAIN s /\ i + 1 # 1 /\ t[i] = s[i + 1]
      BY <1>1, <2>1
    <3> QED BY <1>1, <3>1 DEF Us, Distinct
  <2>2. ASSUME NEW j \in DOMAIN s, s[j].u # s[1].u PROVE s[j].u \in Us(t)
    <3>1. j # 1
      BY <2>2
    <3>2. j - 1 \in DOMAIN t /\ t[j - 1] = s[j]
      BY <1>1, <3>1
    <3> QED BY <3>2 DEF Us
  <2> QED BY <2>1, <2>2 DEF Us
<1>3. Distinct(t)
  <2> SUFFICES ASSUME NEW i \in DOMAIN t, NEW j \in DOMAIN t, t[i].u = t[j].u PROVE i = j
    BY DEF Distinct
  <2>1. i + 1 \in DOMAIN s /\ j + 1 \in DOMAIN s /\ t[i] = s[i + 1] /\ t[j] = s[j + 1]
    BY <1>1
  <2> QED BY <1>1, <2>1 DEF Distinct
<1> QED BY <1>1, <1>2, <1>3 DEF t, Us, Queued

-----------------------------------------------------------------------------
\* What the planner may do to the ledger in one step.
LedgerMove ==
  \/ UNCHANGED ledgerVars
  \/ \E id \in Ids : \/ Prepare(id, NoCall) \/ Queue(id) \/ Emit(id) \/ Cancel(id)
                     \/ \E ms \in 0..MaxMS : Complete(id, ms)
                     \/ \E revision \in Revisions : Invalidate(id, revision)

\* The ledger keeps its types, and takes back neither a crossing nor an end.
LEMMA LedgerMoveSound ==
  ASSUME LedgerTypeOK, LedgerMove
  PROVE  /\ LedgerTypeOK'
         /\ \A id \in Ids : /\ Crossed(state[id]) => Crossed(state'[id])
                            /\ Terminal(state[id]) => state'[id] = state[id]
<1>1. CASE \E id \in Ids, revision \in Revisions : Invalidate(id, revision)
  <2> PICK id \in Ids, revision \in Revisions : Invalidate(id, revision)
    BY <1>1
  <2> DEFINE o == [commitment |-> id, playedMS |-> playedMS[id], revision |-> revision,
                   resolved |-> FALSE]
  <2>1. o \in Obligation /\ obligations' = Append(obligations, o)
        /\ UNCHANGED <<state, playedMS, callOf, callIDs>>
    BY DEF Invalidate, Obligation, LedgerTypeOK
  <2> HIDE DEF o
  <2>2. obligations' \in Seq(Obligation)
    BY <2>1, AppendedList
  <2> QED
    BY <2>1, <2>2 DEF LedgerTypeOK
<1>2. CASE ~\E id \in Ids, revision \in Revisions : Invalidate(id, revision)
  <2>1. [LedgerNext]_ledgerVars
    BY <1>2 DEF LedgerMove, LedgerNext
  <2> QED
    BY <2>1, TypeStep, IrreversibleStep
<1> QED
  BY <1>1, <1>2

Canc == [pc : CancPcs, kind : StopKinds \cup {"none"}, u : Ids \cup {None},
         keep : Seq(Queued), before : SUBSET Ids, owing : SUBSET Ids]

\* A call that stops speech has moved; the others have not.
LEMMA CancReplaced ==
  ASSUME SpeechTypeOK, NEW c \in Cancellers, NEW r \in Canc, canc' = [canc EXCEPT ![c] = r]
  PROVE  /\ canc' \in [Cancellers -> Canc]
         /\ canc'[c] = r
         /\ \A d \in Cancellers : d # c => canc'[d] = canc[d]
BY DEF SpeechTypeOK, Canc

\* ... and keeps what it has taken off the channel.
LEMMA CancMoved ==
  ASSUME SpeechTypeOK, NEW c \in Cancellers, NEW pc \in CancPcs, CancTo(c, pc)
  PROVE  /\ canc' \in [Cancellers -> Canc]
         /\ canc'[c].pc = pc
         /\ \A d \in Cancellers : d # c => canc'[d] = canc[d]
         /\ \A d \in Cancellers : canc'[d].keep = canc[d].keep /\ canc'[d].u = canc[d].u
<1> DEFINE r == [canc[c] EXCEPT !.pc = pc]
<1>1. canc \in [Cancellers -> Canc] /\ canc[c] \in Canc
  BY DEF SpeechTypeOK, Canc
<1>2. r \in Canc /\ r.pc = pc /\ r.keep = canc[c].keep /\ r.u = canc[c].u
  BY <1>1 DEF Canc
<1>3. canc' = [canc EXCEPT ![c] = r]
  BY <1>1 DEF CancTo
<1> HIDE DEF r
<1> QED
  BY <1>2, <1>3, CancReplaced

RunState == [pc : RunPcs, u : Ids \cup {None}, epoch : Nat, played : 0..MaxFrames, completed : BOOLEAN]

\* Run has moved to another step with the same utterance.
LEMMA RunMoved ==
  ASSUME SpeechTypeOK, NEW pc \in RunPcs, RunTo(pc)
  PROVE  run' \in RunState /\ run'.pc = pc /\ run'.u = run.u /\ run'.played = run.played
<1>1. run \in RunState
  BY DEF SpeechTypeOK, RunState
<1> QED
  BY <1>1 DEF RunTo, RunState

\* The utterances the goroutines hold are utterances.
LEMMA HeldAreIds ==
  ASSUME SpeechTypeOK
  PROVE  /\ Us(queue) \subseteq Ids /\ \A c \in Cancellers : Kept(c) \subseteq Ids
         /\ queue # << >> => Head(queue) \in Queued /\ Head(queue).u \in Ids
                             /\ Tail(queue) \in Seq(Queued) /\ Len(Tail(queue)) <= QueueDepth
<1>1. \A t \in Seq(Queued) : Us(t) \subseteq Ids
  <2> SUFFICES ASSUME NEW t \in Seq(Queued), NEW i \in DOMAIN t PROVE t[i].u \in Ids
    BY DEF Us
  <2>1. t[i] \in Queued
    BY LenProperties
  <2> QED BY <2>1 DEF Queued
<1>2. queue \in Seq(Queued) /\ Len(queue) \in Nat /\ Len(queue) <= QueueDepth /\ QueueDepth \in Nat
      /\ \A c \in Cancellers : canc[c].keep \in Seq(Queued)
  BY SpeechAssumption, LenProperties DEF SpeechTypeOK, SpeechAssumption
<1>3. ASSUME queue # << >>
      PROVE  Head(queue) \in Queued /\ Tail(queue) \in Seq(Queued) /\ Len(Tail(queue)) = Len(queue) - 1
  BY <1>2, <1>3, HeadTailProperties
<1>4. ASSUME queue # << >> PROVE Head(queue).u \in Ids /\ Len(Tail(queue)) <= QueueDepth
  BY <1>2, <1>3, <1>4 DEF Queued
<1> QED
  BY <1>1, <1>2, <1>3, <1>4 DEF Kept

\* Every step of the planner is one operation of the ledger, or none.
LEMMA PlannerMoves ==
  ASSUME SpeechTypeOK, OneOwner, HeardIsCrossed, [SpeechNext]_vars
  PROVE  LedgerMove
<1>1. ASSUME NEW u \in Ids, Enqueue(u) PROVE LedgerMove
  BY <1>1 DEF Enqueue, EnqueuePrepare, EnqueueQueue, EnqueueClosed, EnqueueRefused, EnqueuePush,
              EnqueueFull, LedgerMove
<1>2. CASE Run
  <2>1. CASE RunStale \/ EmitCross
    <3>1. run.u \in Ids
      BY <2>1 DEF RunStale, EmitCross, OneOwner, Busy
    <3> QED
      BY <2>1, <3>1 DEF RunStale, EmitCross, LedgerMove
  <2>2. CASE EmitSettle
    <3>1. run.u \in Ids /\ run.played \in 0..MaxMS
      BY <2>2, SpeechAssumption, LedgerAssumption
      DEF EmitSettle, OneOwner, Busy, SpeechTypeOK, SpeechAssumption, LedgerAssumption
    <3> QED
      BY <2>2, <3>1 DEF EmitSettle, Settle, LedgerMove
  <2>3. CASE RunDrain
    BY <2>3, HeldAreIds DEF RunDrain, LedgerMove
  <2>4. CASE RunTake \/ RunFresh \/ EmitActivate \/ EmitBegin \/ StreamFrame \/ StreamEnd \/ EmitRefused
             \/ EmitAudio \/ EmitAudioFails \/ EmitEnd \/ EmitClear \/ RunStop
    BY <2>4 DEF RunTake, RunFresh, EmitActivate, EmitBegin, StreamFrame, StreamEnd, EmitRefused,
                EmitAudio, EmitAudioFails, EmitEnd, EmitClear, RunStop, LedgerMove
  <2> QED
    BY <1>2, <2>1, <2>2, <2>3, <2>4 DEF Run
<1>3. ASSUME NEW c \in Cancellers, CancelCall(c) PROVE LedgerMove
  <2>1. CASE StopCancel(c)
    <3>1. canc[c].u \in Ids
      BY <2>1 DEF StopCancel, HeardIsCrossed
    <3> QED
      BY <2>1, <3>1 DEF StopCancel, LedgerMove
  <2>2. CASE DrainStop(c)
    BY <2>2, HeldAreIds DEF DrainStop, LedgerMove
  <2>3. CASE OweOne(c)
    <3>1. canc[c].owing \subseteq Ids
      BY DEF SpeechTypeOK
    <3> QED
      BY <2>3, <3>1 DEF OweOne, LedgerMove
  <2>4. CASE CloseSession(c) \/ CancelStart(c) \/ MatchStart(c) \/ ClosePlanner(c) \/ CancelCtx(c)
             \/ StopLookup(c) \/ DrainKeep(c) \/ DrainEnd(c) \/ PutBack(c) \/ OweCrossed(c) \/ OweEnd(c)
    BY <2>4 DEF CloseSession, CancelStart, MatchStart, ClosePlanner, CancelCtx, StopLookup, DrainKeep,
                DrainEnd, PutBack, OweCrossed, OweEnd, LedgerMove
  <2> QED
    BY <1>3, <2>1, <2>2, <2>3, <2>4 DEF CancelCall, CancelBody
<1>4. CASE UNCHANGED vars
  BY <1>4 DEF vars, LedgerMove
<1> QED
  BY <1>1, <1>2, <1>3, <1>4 DEF SpeechNext

-----------------------------------------------------------------------------
\* Who owns each utterance, and what the sink has seen of it.
Owned == OneOwner /\ WaitingIsUntouched /\ NotYetAccepted /\ RunStage /\ HistoriesSound

\* An utterance that is not accepted is nobody's but its Enqueue's.
LEMMA NotAcceptedNotHeld ==
  ASSUME Owned, NEW u \in Ids, enq[u].pc # "accepted"
  PROVE  /\ u \notin Us(queue) /\ (Busy => u # run.u)
         /\ \A c \in Cancellers : u \notin Kept(c)
BY DEF Owned, WaitingIsUntouched, Untouched, RunStage

\* What the sink sees of an utterance, and of the others.
LEMMA SinkSaw ==
  ASSUME SpeechTypeOK, NEW u \in Ids, NEW calls \in SUBSET SinkCalls, reserved' = SinkSees(u, calls)
  PROVE  /\ reserved' \in [Ids -> [SinkCalls -> Nat]]
         /\ \A v \in Ids : v # u => reserved'[v] = reserved[v]
         /\ \A call \in SinkCalls :
              reserved'[u][call] = reserved[u][call] + (IF call \in calls THEN 1 ELSE 0)
<1> DEFINE f == [call \in SinkCalls |-> reserved[u][call] + (IF call \in calls THEN 1 ELSE 0)]
<1>1. reserved \in [Ids -> [SinkCalls -> Nat]]
  BY DEF SpeechTypeOK
<1>2. f \in [SinkCalls -> Nat]
  BY <1>1
<1>3. reserved' = [reserved EXCEPT ![u] = f]
  BY DEF SinkSees
<1>4. \A call \in SinkCalls : f[call] = reserved[u][call] + (IF call \in calls THEN 1 ELSE 0)
  OBVIOUS
<1> HIDE DEF f
<1> QED
  BY <1>1, <1>2, <1>3, <1>4

\* One call more of each kind, on an utterance only reserved or not even that.
LEMMA SawMore ==
  ASSUME SpeechTypeOK, NEW u \in Ids
  PROVE  /\ reserved' = SinkSees(u, {"reserve"}) /\ Seen(reserved[u], 0, 0, 0) => Seen(reserved'[u], 1, 0, 0)
         /\ reserved' = SinkSees(u, {"reserve", "cancel"}) /\ Seen(reserved[u], 0, 0, 0) =>
              Seen(reserved'[u], 1, 1, 0)
         /\ reserved' = SinkSees(u, {"cancel"}) /\ Seen(reserved[u], 1, 0, 0) => Seen(reserved'[u], 1, 1, 0)
         /\ reserved' = SinkSees(u, {"begin"}) /\ Seen(reserved[u], 1, 0, 0) => Seen(reserved'[u], 1, 0, 1)
<1>1. "reserve" \in SinkCalls /\ "cancel" \in SinkCalls /\ "begin" \in SinkCalls
  BY DEF SinkCalls
<1>2. ASSUME NEW calls \in SUBSET SinkCalls, reserved' = SinkSees(u, calls)
      PROVE  /\ reserved'[u]["reserve"] = reserved[u]["reserve"] + (IF "reserve" \in calls THEN 1 ELSE 0)
             /\ reserved'[u]["cancel"] = reserved[u]["cancel"] + (IF "cancel" \in calls THEN 1 ELSE 0)
             /\ reserved'[u]["begin"] = reserved[u]["begin"] + (IF "begin" \in calls THEN 1 ELSE 0)
  BY <1>1, <1>2, SinkSaw
<1>3. ASSUME reserved' = SinkSees(u, {"reserve"}), Seen(reserved[u], 0, 0, 0) PROVE Seen(reserved'[u], 1, 0, 0)
  BY <1>1, <1>2, <1>3 DEF Seen
<1>4. ASSUME reserved' = SinkSees(u, {"reserve", "cancel"}), Seen(reserved[u], 0, 0, 0)
      PROVE  Seen(reserved'[u], 1, 1, 0)
  BY <1>1, <1>2, <1>4 DEF Seen
<1>5. ASSUME reserved' = SinkSees(u, {"cancel"}), Seen(reserved[u], 1, 0, 0) PROVE Seen(reserved'[u], 1, 1, 0)
  BY <1>1, <1>2, <1>5 DEF Seen
<1>6. ASSUME reserved' = SinkSees(u, {"begin"}), Seen(reserved[u], 1, 0, 0) PROVE Seen(reserved'[u], 1, 0, 1)
  BY <1>1, <1>2, <1>6 DEF Seen
<1> QED
  BY <1>3, <1>4, <1>5, <1>6

\* The sink saw something of one utterance only.
LEMMA HistoryElsewhere ==
  ASSUME HistoriesSound, NEW u \in Ids, History(reserved'[u], ends'[u]),
         \A v \in Ids : v # u => reserved'[v] = reserved[v] /\ ends'[v] = ends[v]
  PROVE  HistoriesSound'
BY DEF HistoriesSound, History, Seen

\* Who holds what changes only with the channel, with what is kept, and with Run.
LEMMA PlacesSame ==
  ASSUME UNCHANGED queue
  PROVE  Us(queue)' = Us(queue) /\ (Distinct(queue)' <=> Distinct(queue))
BY DEF Us, Distinct

\* ... as for one caller.
LEMMA KeptSame ==
  ASSUME NEW c \in Cancellers, canc'[c].keep = canc[c].keep
  PROVE  Kept(c)' = Kept(c) /\ (Distinct(canc[c].keep)' <=> Distinct(canc[c].keep))
BY DEF Kept, Us, Distinct

\* The channel, what is kept and what Run is busy with are the same.
LEMMA OwnersSame ==
  ASSUME OneOwner, UNCHANGED queue,
         \A c \in Cancellers : canc'[c].keep = canc[c].keep,
         Busy' => Busy /\ run'.u = run.u
  PROVE  /\ OneOwner'
         /\ Us(queue)' = Us(queue) /\ \A c \in Cancellers : Kept(c)' = Kept(c)
<1>1. Us(queue)' = Us(queue) /\ (Distinct(queue)' <=> Distinct(queue))
  BY PlacesSame
<1>2. \A c \in Cancellers : Kept(c)' = Kept(c) /\ (Distinct(canc[c].keep)' <=> Distinct(canc[c].keep))
  BY KeptSame
<1> QED
  BY <1>1, <1>2 DEF OneOwner

\* Enqueue up to the channel, or refused.
LEMMA EnqueueOwned ==
  ASSUME SpeechTypeOK, Owned, NEW u \in Ids,
         enq[u].pc # "accepted", enq'[u].pc # "accepted",
         \A v \in Ids : v # u => enq'[v] = enq[v] /\ reserved'[v] = reserved[v],
         Seen(reserved'[u], 0, 0, 0) \/ (enq'[u].pc = "refused" /\ Seen(reserved'[u], 1, 1, 0)),
         UNCHANGED <<queue, run, canc, delivered, ends>>
  PROVE  Owned'
<1>1. /\ u \notin Us(queue) /\ (Busy => u # run.u)
      /\ \A c \in Cancellers : u \notin Kept(c)
  BY NotAcceptedNotHeld
<1>2. OneOwner' /\ Us(queue)' = Us(queue) /\ \A c \in Cancellers : Kept(c)' = Kept(c)
  BY OwnersSame DEF Owned, Busy
<1>3. \A v : v # u /\ v \in Ids => (Untouched(v)' <=> Untouched(v))
  BY DEF Untouched, Seen
<1>4. WaitingIsUntouched'
  <2>2. /\ \A v \in Us(queue) : v \in Ids
        /\ \A c \in Cancellers : \A v \in Kept(c) : v \in Ids
    BY HeldAreIds
  <2> QED
    BY <1>1, <1>2, <1>3, <2>2 DEF Owned, WaitingIsUntouched
<1>5. NotYetAccepted'
  BY DEF Owned, NotYetAccepted, Seen
<1>6. RunStage'
  BY <1>1 DEF Owned, OneOwner, RunStage, Busy, Untouched, Seen
<1>7. HistoriesSound'
  <2>1. History(reserved'[u], ends'[u])
    BY DEF Owned, NotYetAccepted, History
  <2> QED
    BY <2>1, HistoryElsewhere DEF Owned
<1> QED
  BY <1>2, <1>4, <1>5, <1>6, <1>7 DEF Owned

\* Enqueue puts the utterance in the channel.
LEMMA PushOwned ==
  ASSUME SpeechTypeOK, Owned, NEW u \in Ids, EnqueuePush(u)
  PROVE  /\ Owned'
         /\ queue' \in Seq(Queued) /\ Len(queue') <= QueueDepth
<1> DEFINE x == [u |-> u, epoch |-> enq[u].epoch]
<1>1. /\ enq[u].pc = "ready" /\ Len(queue) < QueueDepth /\ queue' = Append(queue, x)
      /\ enq'[u].pc = "accepted" /\ reserved' = SinkSees(u, {"reserve"})
      /\ \A v \in Ids : v # u => enq'[v] = enq[v]
      /\ UNCHANGED <<run, canc, delivered, ends>>
  BY DEF EnqueuePush, EnqTo, enqSame, SpeechTypeOK
<1>a. \A v \in Ids : v # u => reserved'[v] = reserved[v]
  BY <1>1, SinkSaw DEF SinkCalls
<1>2. x \in Queued /\ x.u = u /\ queue \in Seq(Queued)
  BY DEF SpeechTypeOK, Queued
<1> HIDE DEF x
<1>3. /\ u \notin Us(queue) /\ (Busy => u # run.u)
      /\ \A c \in Cancellers : u \notin Kept(c)
  BY <1>1, NotAcceptedNotHeld
<1>4. queue' \in Seq(Queued) /\ Us(queue') = Us(queue) \cup {u} /\ Distinct(queue')
  BY <1>1, <1>2, <1>3, UsAppend DEF Owned, OneOwner
<1>5. /\ Us(queue)' = Us(queue) \cup {u} /\ Distinct(queue)'
      /\ \A c \in Cancellers : Kept(c)' = Kept(c) /\ (Distinct(canc[c].keep)' <=> Distinct(canc[c].keep))
      /\ (Busy' <=> Busy)
  <2>1. Us(queue)' = Us(queue') /\ (Distinct(queue)' <=> Distinct(queue'))
    BY DEF Us, Distinct
  <2>2. \A c \in Cancellers : Kept(c)' = Kept(c) /\ (Distinct(canc[c].keep)' <=> Distinct(canc[c].keep))
    BY <1>1, KeptSame
  <2>3. Busy' <=> Busy
    BY <1>1 DEF Busy
  <2> QED
    BY <1>4, <2>1, <2>2, <2>3
<1>6. OneOwner'
  BY <1>1, <1>3, <1>5 DEF Owned, OneOwner
<1>7. Seen(reserved'[u], 1, 0, 0) /\ delivered[u] = 0 /\ ends[u] = 0
  BY <1>1, SawMore DEF Owned, NotYetAccepted
<1>8. WaitingIsUntouched'
  <2>1. Untouched(u)'
    BY <1>1, <1>7 DEF Untouched
  <2>2. \A v \in Ids : v # u /\ Untouched(v) => Untouched(v)'
    BY <1>1, <1>a DEF Untouched, Seen
  <2> QED
    BY <1>3, <1>5, <2>1, <2>2, HeldAreIds DEF Owned, WaitingIsUntouched
<1>9. NotYetAccepted'
  BY <1>1, <1>a DEF Owned, NotYetAccepted, Seen
<1>10. RunStage'
  BY <1>1, <1>a, <1>3 DEF Owned, OneOwner, RunStage, Busy, Untouched, Seen
<1>11. HistoriesSound'
  <2>1. History(reserved'[u], ends'[u])
    BY <1>1, <1>7 DEF History
  <2> QED
    BY <1>1, <1>a, <2>1, HistoryElsewhere DEF Owned
<1>12. Len(queue') <= QueueDepth
  BY <1>1, <1>2, SpeechAssumption, LenProperties, AppendProperties DEF SpeechAssumption
<1> QED
  BY <1>4, <1>6, <1>8, <1>9, <1>10, <1>11, <1>12 DEF Owned

\* Enqueue: one case per step.
LEMMA EnqueueKeeps ==
  ASSUME SpeechTypeOK, Owned, LedgerTypeOK', NEW u \in Ids, Enqueue(u)
  PROVE  SpeechTypeOK' /\ Owned'
<1>0. /\ enq[u].pc # "accepted" /\ enq[u].pc # "refused" /\ enqSame
      /\ Seen(reserved[u], 0, 0, 0) /\ enq[u].epoch \in Nat /\ epoch \in Nat
  BY DEF Enqueue, EnqueuePrepare, EnqueueQueue, EnqueueClosed, EnqueueRefused, EnqueuePush, EnqueueFull,
         Owned, NotYetAccepted, SpeechTypeOK
<1>1. CASE EnqueuePush(u)
  <2>1. enq' \in [Ids -> [pc : EnqPcs, epoch : Nat]]
    <3>1. enq \in [Ids -> [pc : EnqPcs, epoch : Nat]] /\ EnqTo(u, "accepted") /\ "accepted" \in EnqPcs
      BY <1>1 DEF EnqueuePush, SpeechTypeOK, EnqPcs
    <3> QED
      BY <3>1 DEF EnqTo
  <2>2. reserved' \in [Ids -> [SinkCalls -> Nat]]
    BY <1>1, SinkSaw DEF EnqueuePush, SinkCalls
  <2>3. Owned' /\ queue' \in Seq(Queued) /\ Len(queue') <= QueueDepth
    BY <1>1, PushOwned
  <2> QED
    BY <1>0, <2>1, <2>2, <2>3 DEF SpeechTypeOK, enqSame
<1>2. CASE ~EnqueuePush(u)
  <2>1. PICK pc \in EnqPcs \ {"accepted"}, e \in Nat : enq' = [enq EXCEPT ![u] = [pc |-> pc, epoch |-> e]]
    <3>1. enq \in [Ids -> [pc : EnqPcs, epoch : Nat]]
      BY DEF SpeechTypeOK
    <3>2. \A pc : EnqTo(u, pc) => enq' = [enq EXCEPT ![u] = [pc |-> pc, epoch |-> enq[u].epoch]]
      BY <3>1 DEF EnqTo
    <3> QED
      BY <1>0, <1>2, <3>2 DEF Enqueue, EnqueuePrepare, EnqueueQueue, EnqueueClosed, EnqueueRefused,
                              EnqueueFull, EnqPcs
  <2>2. /\ enq' \in [Ids -> [pc : EnqPcs, epoch : Nat]]
        /\ enq'[u].pc = pc /\ \A v \in Ids : v # u => enq'[v] = enq[v]
    BY <2>1 DEF SpeechTypeOK
  <2>3. /\ reserved' \in [Ids -> [SinkCalls -> Nat]]
        /\ \A v \in Ids : v # u => reserved'[v] = reserved[v]
        /\ Seen(reserved'[u], 0, 0, 0) \/ (EnqueueFull(u) /\ Seen(reserved'[u], 1, 1, 0))
    <3>1. reserved \in [Ids -> [SinkCalls -> Nat]]
      BY DEF SpeechTypeOK
    <3>2. CASE EnqueueFull(u)
      BY <1>0, <3>2, SinkSaw, SawMore DEF EnqueueFull, SinkCalls
    <3>3. CASE ~EnqueueFull(u)
      <4>1. UNCHANGED reserved
        BY <1>2, <3>3 DEF Enqueue, EnqueuePrepare, EnqueueQueue, EnqueueClosed, EnqueueRefused
      <4> QED
        BY <1>0, <3>1, <4>1 DEF Seen
    <3> QED
      BY <3>2, <3>3
  <2>4. EnqueueFull(u) => enq'[u].pc = "refused"
    BY DEF EnqueueFull, EnqTo, SpeechTypeOK
  <2>5. UNCHANGED queue
    BY <1>2 DEF Enqueue, EnqueuePrepare, EnqueueQueue, EnqueueClosed, EnqueueRefused, EnqueueFull
  <2>6. SpeechTypeOK'
    BY <1>0, <2>2, <2>3, <2>5 DEF SpeechTypeOK, enqSame
  <2>7. UNCHANGED <<run, canc, delivered, ends>>
    BY <1>0 DEF enqSame
  <2>8. Owned'
    BY <1>0, <2>1, <2>2, <2>3, <2>4, <2>5, <2>7, EnqueueOwned
  <2> QED
    BY <2>6, <2>8
<1> QED
  BY <1>1, <1>2

-----------------------------------------------------------------------------
\* A step of Run with the utterance it is busy with.
LEMMA StageOwned ==
  ASSUME SpeechTypeOK, Owned, Busy, RunStage',
         UNCHANGED <<queue, enq, canc>>,
         Busy' => run'.u = run.u,
         \A v \in Ids : v # run.u => /\ reserved'[v] = reserved[v] /\ delivered'[v] = delivered[v]
                                    /\ ends'[v] = ends[v],
         History(reserved'[run.u], ends'[run.u])
  PROVE  Owned'
<1>1. /\ run.u \in Ids /\ run.u \notin Us(queue) /\ \A c \in Cancellers : run.u \notin Kept(c)
      /\ enq[run.u].pc = "accepted"
  BY DEF Owned, OneOwner, RunStage, Untouched
<1>2. OneOwner' /\ Us(queue)' = Us(queue) /\ \A c \in Cancellers : Kept(c)' = Kept(c)
  BY OwnersSame DEF Owned
<1>3. \A v \in Ids : v # run.u /\ Untouched(v) => Untouched(v)'
  BY DEF Untouched, Seen
<1>4. WaitingIsUntouched'
  BY <1>1, <1>2, <1>3, HeldAreIds DEF Owned, WaitingIsUntouched
<1>5. NotYetAccepted'
  BY <1>1 DEF Owned, NotYetAccepted, Seen
<1>6. HistoriesSound'
  BY <1>1, HistoryElsewhere DEF Owned
<1> QED
  BY <1>2, <1>4, <1>5, <1>6 DEF Owned

\* Whoever receives a queued utterance and gives it up discharges its reservation.
LEMMA DropHead ==
  ASSUME SpeechTypeOK, Owned, queue # << >>, queue' = Tail(queue),
         reserved' = SinkSees(Head(queue).u, {"cancel"}),
         UNCHANGED <<enq, run, canc, delivered, ends>>
  PROVE  /\ Owned'
         /\ queue' \in Seq(Queued) /\ Len(queue') <= QueueDepth
         /\ reserved' \in [Ids -> [SinkCalls -> Nat]]
<1> DEFINE h == Head(queue).u
<1>0. queue \in Seq(Queued) /\ Distinct(queue) /\ reserved \in [Ids -> [SinkCalls -> Nat]]
  BY DEF SpeechTypeOK, Owned, OneOwner
<1>1. /\ h \in Ids /\ h \in Us(queue) /\ Us(queue') = Us(queue) \ {h} /\ Distinct(queue')
      /\ queue' \in Seq(Queued)
  BY <1>0, UsTail
<1>2. Len(queue') <= QueueDepth
  BY HeldAreIds
<1> HIDE DEF h
<1>3. /\ Seen(reserved[h], 1, 0, 0) => Seen(reserved'[h], 1, 1, 0)
      /\ \A v \in Ids : v # h => reserved'[v] = reserved[v]
      /\ reserved' \in [Ids -> [SinkCalls -> Nat]]
  BY <1>1, SinkSaw, SawMore DEF SinkCalls, h
<1>4. /\ Us(queue)' = Us(queue) \ {h} /\ Distinct(queue)' /\ (Busy' <=> Busy)
      /\ \A c \in Cancellers : Kept(c)' = Kept(c) /\ (Distinct(canc[c].keep)' <=> Distinct(canc[c].keep))
  <2>1. Us(queue)' = Us(queue') /\ (Distinct(queue)' <=> Distinct(queue')) /\ (Busy' <=> Busy)
    BY DEF Us, Distinct, Busy
  <2> QED
    BY <1>1, <2>1, KeptSame
<1>5. OneOwner'
  BY <1>4 DEF Owned, OneOwner
<1>6. Untouched(h) /\ (Busy => run.u # h) /\ \A c \in Cancellers : h \notin Kept(c)
  BY <1>1 DEF Owned, OneOwner, WaitingIsUntouched
<1>7. \A v \in Ids : v # h /\ Untouched(v) => Untouched(v)'
  BY <1>3 DEF Untouched, Seen
<1>8. WaitingIsUntouched'
  BY <1>4, <1>6, <1>7, HeldAreIds DEF Owned, WaitingIsUntouched
<1>9. NotYetAccepted'
  BY <1>3, <1>6 DEF Owned, NotYetAccepted, Untouched, Seen
<1>10. RunStage'
  BY <1>3, <1>6 DEF Owned, OneOwner, RunStage, Busy, Untouched, Seen
<1>11. HistoriesSound'
  <2>1. History(reserved'[h], ends'[h])
    BY <1>3, <1>6 DEF Untouched, History
  <2> QED
    BY <1>1, <1>3, <2>1, HistoryElsewhere DEF Owned
<1> QED
  BY <1>1, <1>2, <1>3, <1>5, <1>8, <1>9, <1>10, <1>11 DEF Owned

\* Run takes the utterance at the head of the channel.
LEMMA TakeOwned ==
  ASSUME SpeechTypeOK, Owned, RunTake
  PROVE  /\ Owned'
         /\ queue' \in Seq(Queued) /\ Len(queue') <= QueueDepth
         /\ run' \in RunState
<1> DEFINE h == Head(queue).u
<1>0. /\ queue \in Seq(Queued) /\ Distinct(queue) /\ queue # << >> /\ queue' = Tail(queue)
      /\ UNCHANGED <<enq, canc, reserved, delivered, ends>>
  BY DEF SpeechTypeOK, Owned, OneOwner, RunTake, runSame
<1>1. /\ h \in Ids /\ h \in Us(queue) /\ Us(queue') = Us(queue) \ {h} /\ Distinct(queue')
      /\ queue' \in Seq(Queued) /\ Head(queue) \in Queued
  BY <1>0, UsTail
<1>2. Len(queue') <= QueueDepth
  BY <1>0, HeldAreIds
<1>3. run' \in RunState /\ run'.pc = "check" /\ run'.u = h /\ run'.played = 0
  BY <1>1, SpeechAssumption DEF RunTake, RunState, RunPcs, Queued, SpeechAssumption
<1> HIDE DEF h
<1>4. /\ Us(queue)' = Us(queue) \ {h} /\ Distinct(queue)' /\ Busy'
      /\ \A c \in Cancellers : Kept(c)' = Kept(c) /\ (Distinct(canc[c].keep)' <=> Distinct(canc[c].keep))
  <2>1. Us(queue)' = Us(queue') /\ (Distinct(queue)' <=> Distinct(queue')) /\ Busy'
    BY <1>3 DEF Us, Distinct, Busy
  <2> QED
    BY <1>0, <1>1, <2>1, KeptSame
<1>5. Untouched(h) /\ \A c \in Cancellers : h \notin Kept(c)
  BY <1>1 DEF Owned, OneOwner, WaitingIsUntouched
<1>6. OneOwner'
  BY <1>1, <1>3, <1>4, <1>5 DEF Owned, OneOwner
<1>7. \A v : Untouched(v) => Untouched(v)'
  BY <1>0 DEF Untouched, Seen
<1>8. WaitingIsUntouched'
  BY <1>4, <1>7 DEF Owned, WaitingIsUntouched
<1>9. NotYetAccepted' /\ HistoriesSound'
  BY <1>0 DEF Owned, NotYetAccepted, HistoriesSound, History, Seen
<1>10. RunStage'
  BY <1>0, <1>3, <1>5 DEF RunStage, Untouched, Seen
<1> QED
  BY <1>1, <1>2, <1>3, <1>6, <1>8, <1>9, <1>10 DEF Owned

\* Run: one case per step.
LEMMA RunKeeps ==
  ASSUME SpeechTypeOK, Owned, LedgerTypeOK', Run
  PROVE  SpeechTypeOK' /\ Owned'
<1> DEFINE u == run.u
<1>0. /\ run \in RunState /\ MaxFrames \in Nat /\ None \notin Ids
      /\ reserved \in [Ids -> [SinkCalls -> Nat]]
      /\ delivered \in [Ids -> 0..MaxFrames] /\ ends \in [Ids -> Nat]
  BY SpeechAssumption DEF SpeechTypeOK, RunState, SpeechAssumption
<1>a. Busy => u \in Ids
  BY DEF Owned, OneOwner
<1>1. CASE RunTake
  BY <1>1, TakeOwned DEF RunTake, runSame, SpeechTypeOK, RunState
<1>2. CASE RunStale
  <2>1. Busy /\ Untouched(u) /\ ~Busy' /\ run' = Idle
        /\ reserved' = SinkSees(u, {"cancel"})
        /\ UNCHANGED <<queue, enq, canc, delivered, ends, activeID, ctxDone>> /\ runSame
    BY <1>2 DEF RunStale, Busy, Idle, Owned, RunStage, runSame
  <2>2. run' \in RunState
    BY <1>0, <2>1 DEF Idle, RunState, RunPcs
  <2>3. /\ reserved' \in [Ids -> [SinkCalls -> Nat]]
        /\ \A v \in Ids : v # u => reserved'[v] = reserved[v]
        /\ History(reserved'[u], ends'[u])
    BY <1>a, <2>1, SinkSaw, SawMore DEF Untouched, History, SinkCalls
  <2>4. RunStage'
    BY <2>1 DEF RunStage
  <2>5. Owned'
    BY <2>1, <2>3, <2>4, StageOwned
  <2> QED
    BY <2>1, <2>2, <2>3, <2>5, SMTT(30) DEF SpeechTypeOK, RunState, runSame
<1>3. CASE RunFresh \/ EmitActivate
  <2>1. PICK pc \in {"activate", "begin"} : RunTo(pc)
    BY <1>3 DEF RunFresh, EmitActivate
  <2>2. Busy /\ run.pc \in {"check", "activate"} /\ activeID' \in Ids \cup {None} /\ runSame
        /\ UNCHANGED <<queue, enq, canc, reserved, delivered, ends, ctxDone>>
    BY <1>3, <1>a DEF RunFresh, EmitActivate, Busy, runSame, SpeechTypeOK
  <2>3. run' \in RunState /\ run'.pc = pc /\ run'.u = u /\ run'.played = run.played
    BY <2>1, RunMoved DEF RunPcs
  <2>4. RunStage' /\ Untouched(u)
    BY <2>1, <2>2, <2>3 DEF Owned, RunStage, Busy, Untouched, Seen
  <2>a. History(reserved'[u], ends'[u])
    BY <2>2, <2>4 DEF Untouched, History, Seen
  <2>5. Owned'
    BY <1>0, <1>a, <2>a, <2>2, <2>3, <2>4, StageOwned
  <2> QED
    BY <2>2, <2>3, <2>5 DEF SpeechTypeOK, RunState, runSame
<1>4. CASE EmitBegin
  <2>1. PICK pc \in {"frame", "settle"} : RunTo(pc)
    BY <1>4 DEF EmitBegin
  <2>2. Busy /\ run.pc = "begin" /\ runSame /\ reserved' = SinkSees(u, {"begin"})
        /\ UNCHANGED <<queue, enq, canc, delivered, ends, ctxDone, activeID>>
    BY <1>4 DEF EmitBegin, Busy, runSame
  <2>3. run' \in RunState /\ run'.pc = pc /\ run'.u = u /\ run'.played = run.played
    BY <2>1, RunMoved DEF RunPcs
  <2>4. Untouched(u) /\ run.played = 0
    BY <2>2 DEF Owned, RunStage
  <2>5. /\ reserved' \in [Ids -> [SinkCalls -> Nat]]
        /\ \A v \in Ids : v # u => reserved'[v] = reserved[v]
        /\ Seen(reserved'[u], 1, 0, 1) /\ ends'[u] = 0 /\ History(reserved'[u], ends'[u])
    BY <1>a, <2>2, <2>4, SinkSaw, SawMore DEF Untouched, History, SinkCalls
  <2>6. RunStage'
    BY <2>1, <2>2, <2>3, <2>4, <2>5 DEF RunStage, Untouched
  <2>7. Owned'
    BY <2>2, <2>3, <2>5, <2>6, StageOwned
  <2> QED
    BY <2>2, <2>3, <2>5, <2>7 DEF SpeechTypeOK, RunState, runSame
<1>5. CASE \/ StreamFrame \/ EmitCross \/ EmitRefused \/ EmitAudioFails \/ EmitSettle \/ StreamEnd
  <2>1. /\ run.pc \in {"frame", "emit", "audio", "settle"} /\ Busy /\ runSame
        /\ UNCHANGED <<queue, enq, canc, reserved, delivered, ends, ctxDone, activeID>>
    BY <1>5 DEF StreamFrame, EmitCross, EmitRefused, EmitAudioFails, EmitSettle, StreamEnd, Busy, runSame
  <2>2. /\ run' \in RunState /\ run'.u = u /\ run'.played = run.played
        /\ run'.pc \in {"emit", "audio", "settle", "end"}
        /\ run'.pc \in {"emit", "audio"} => run.played < MaxFrames
    <3>1. CASE StreamEnd
      BY <1>0, <3>1 DEF StreamEnd, RunState, RunPcs
    <3>2. CASE StreamFrame
      BY <3>2, RunMoved DEF StreamFrame, RunPcs
    <3>3. CASE EmitCross
      <4>1. run.played < MaxFrames
        BY <3>3 DEF EmitCross, Owned, RunStage, Busy
      <4> QED
        BY <3>3, <4>1, RunMoved DEF EmitCross, RunPcs
    <3>4. CASE EmitRefused \/ EmitAudioFails \/ EmitSettle
      BY <3>4, RunMoved DEF EmitRefused, EmitAudioFails, EmitSettle, RunPcs
    <3> QED
      BY <1>5, <3>1, <3>2, <3>3, <3>4
  <2>3. /\ enq[u].pc = "accepted" /\ Seen(reserved[u], 1, 0, 1)
        /\ delivered[u] = run.played /\ ends[u] = 0
    BY <2>1 DEF Owned, RunStage
  <2>4. RunStage' /\ History(reserved'[u], ends'[u])
    BY <2>1, <2>2, <2>3 DEF RunStage, History, Seen
  <2>5. Owned'
    BY <2>1, <2>2, <2>3, <2>4, StageOwned
  <2> QED
    BY <2>1, <2>2, <2>5 DEF SpeechTypeOK, RunState, runSame
<1>6. CASE EmitAudio
  <2>1. /\ run.pc = "audio" /\ Busy /\ runSame
        /\ delivered' = [delivered EXCEPT ![u] = @ + 1]
        /\ run' = [run EXCEPT !.pc = "frame", !.played = @ + 1]
        /\ UNCHANGED <<queue, enq, canc, reserved, ends, ctxDone, activeID>>
    BY <1>6 DEF EmitAudio, Busy, runSame
  <2>2. /\ enq[u].pc = "accepted" /\ Seen(reserved[u], 1, 0, 1)
        /\ delivered[u] = run.played /\ ends[u] = 0 /\ run.played < MaxFrames
    BY <2>1 DEF Owned, RunStage
  <2>3. run.played + 1 \in 0..MaxFrames
    BY <1>0, <2>2 DEF RunState
  <2>4. run' \in RunState /\ run'.pc = "frame" /\ run'.u = u /\ run'.played = run.played + 1
    BY <1>0, <2>1, <2>3 DEF RunState, RunPcs
  <2>5. /\ delivered' \in [Ids -> 0..MaxFrames] /\ delivered'[u] = run.played + 1
        /\ \A v \in Ids : v # u => delivered'[v] = delivered[v]
    BY <1>0, <1>a, <2>1, <2>2, <2>3
  <2>6. RunStage' /\ History(reserved'[u], ends'[u])
    BY <2>1, <2>2, <2>4, <2>5 DEF RunStage, History, Seen
  <2>7. Owned'
    BY <2>1, <2>2, <2>4, <2>5, <2>6, StageOwned
  <2> QED
    BY <2>1, <2>4, <2>5, <2>7 DEF SpeechTypeOK, RunState, runSame
<1>7. CASE EmitEnd
  <2>1. /\ run.pc = "end" /\ Busy /\ runSame /\ RunTo("clear")
        /\ ends' = [ends EXCEPT ![u] = @ + 1]
        /\ UNCHANGED <<queue, enq, canc, reserved, delivered, ctxDone, activeID>>
    BY <1>7 DEF EmitEnd, Busy, runSame
  <2>2. /\ enq[u].pc = "accepted" /\ Seen(reserved[u], 1, 0, 1)
        /\ delivered[u] = run.played /\ ends[u] = 0
    BY <2>1 DEF Owned, RunStage
  <2>3. run' \in RunState /\ run'.pc = "clear" /\ run'.u = u /\ run'.played = run.played
    BY <2>1, RunMoved DEF RunPcs
  <2>4. /\ ends' \in [Ids -> Nat] /\ ends'[u] = 1
        /\ \A v \in Ids : v # u => ends'[v] = ends[v]
    BY <1>0, <1>a, <2>1, <2>2
  <2>5. RunStage' /\ History(reserved'[u], ends'[u])
    BY <2>1, <2>2, <2>3, <2>4 DEF RunStage, History, Seen
  <2>6. Owned'
    BY <2>1, <2>2, <2>3, <2>4, <2>5, StageOwned
  <2> QED
    BY <2>1, <2>3, <2>4, <2>6 DEF SpeechTypeOK, RunState, runSame
<1>8. CASE EmitClear
  <2>1. /\ run.pc = "clear" /\ Busy /\ ~Busy' /\ runSame /\ run' = Idle /\ activeID' = None
        /\ UNCHANGED <<queue, enq, canc, reserved, delivered, ends, ctxDone>>
    BY <1>8 DEF EmitClear, Busy, Idle, runSame
  <2>2. Seen(reserved[u], 1, 0, 1) /\ ends[u] = 1
    BY <2>1 DEF Owned, RunStage
  <2>3. run' \in RunState
    BY <1>0, <2>1 DEF Idle, RunState, RunPcs
  <2>4. RunStage' /\ History(reserved'[u], ends'[u])
    BY <2>1, <2>2 DEF RunStage, History, Seen
  <2>5. Owned'
    BY <2>1, <2>2, <2>4, StageOwned
  <2> QED
    BY <2>1, <2>3, <2>5 DEF SpeechTypeOK, RunState, runSame
<1>9. CASE RunStop \/ (RunDrain /\ queue = << >>)
  <2>1. PICK pc \in {"drain", "stopped"} : RunTo(pc)
    BY <1>9 DEF RunStop, RunDrain
  <2>2. ~Busy /\ runSame /\ UNCHANGED <<queue, enq, canc, reserved, delivered, ends, ctxDone, activeID>>
    BY <1>9 DEF RunStop, RunDrain, Busy, runSame
  <2>3. run' \in RunState /\ run'.pc = pc
    BY <2>1, RunMoved DEF RunPcs
  <2>4. ~Busy'
    BY <2>1, <2>3 DEF Busy
  <2>5. OneOwner' /\ Us(queue)' = Us(queue) /\ \A c \in Cancellers : Kept(c)' = Kept(c)
    BY <2>2, <2>4, OwnersSame DEF Owned
  <2>6. WaitingIsUntouched'
    BY <2>2, <2>5 DEF Owned, WaitingIsUntouched, Untouched, Seen
  <2>7. NotYetAccepted' /\ HistoriesSound' /\ RunStage'
    BY <2>2, <2>4 DEF Owned, NotYetAccepted, HistoriesSound, History, Seen, RunStage
  <2> QED
    BY <2>2, <2>3, <2>5, <2>6, <2>7 DEF Owned, SpeechTypeOK, RunState, runSame
<1>10. CASE RunDrain /\ queue # << >>
  <2>1. /\ queue # << >> /\ queue' = Tail(queue) /\ reserved' = SinkSees(Head(queue).u, {"cancel"})
        /\ UNCHANGED <<enq, run, canc, delivered, ends, activeID, ctxDone>> /\ runSame
    BY <1>10 DEF RunDrain, runSame
  <2> QED
    BY <2>1, DropHead DEF SpeechTypeOK, runSame
<1> QED
  BY <1>1, <1>2, <1>3, <1>4, <1>5, <1>6, <1>7, <1>8, <1>9, <1>10 DEF Run

-----------------------------------------------------------------------------
\* A step of a call that stops speech, which takes nothing and returns nothing.
LEMMA StopOwned ==
  ASSUME SpeechTypeOK, Owned, \A d \in Cancellers : canc'[d].keep = canc[d].keep,
         UNCHANGED <<queue, enq, run, reserved, delivered, ends>>
  PROVE  Owned'
<1>1. OneOwner' /\ Us(queue)' = Us(queue) /\ \A c \in Cancellers : Kept(c)' = Kept(c)
  BY OwnersSame DEF Owned, Busy
<1>2. \A u : Untouched(u)' <=> Untouched(u)
  BY DEF Untouched, Seen
<1>3. WaitingIsUntouched'
  BY <1>1, <1>2 DEF Owned, WaitingIsUntouched
<1>4. NotYetAccepted' /\ HistoriesSound'
  BY DEF Owned, NotYetAccepted, HistoriesSound, History, Seen
<1>5. RunStage'
  BY DEF Owned, RunStage, Busy, Untouched, Seen
<1> QED
  BY <1>1, <1>3, <1>4, <1>5 DEF Owned

\* CancelMatching takes an utterance it will put back.
LEMMA DrainKeepOwned ==
  ASSUME SpeechTypeOK, Owned, NEW c \in Cancellers, DrainKeep(c)
  PROVE  /\ Owned' /\ canc' \in [Cancellers -> Canc]
         /\ queue' \in Seq(Queued) /\ Len(queue') <= QueueDepth
         /\ \A d \in Cancellers : canc'[d].pc = canc[d].pc /\ canc'[d].u = canc[d].u
<1> DEFINE x == Head(queue)
           h == Head(queue).u
           k == canc[c].keep
           r == [canc[c] EXCEPT !.keep = Append(k, x)]
<1>0. /\ queue \in Seq(Queued) /\ Distinct(queue) /\ queue # << >> /\ queue' = Tail(queue)
      /\ canc \in [Cancellers -> Canc] /\ k \in Seq(Queued) /\ Distinct(k)
      /\ UNCHANGED <<enq, run, reserved, delivered, ends>>
  BY DEF SpeechTypeOK, Canc, Owned, OneOwner, DrainKeep, cancSame
<1>1. /\ h \in Ids /\ h \in Us(queue) /\ Us(queue') = Us(queue) \ {h} /\ Distinct(queue')
      /\ queue' \in Seq(Queued) /\ x \in Queued
  BY <1>0, UsTail
<1>2. Len(queue') <= QueueDepth
  BY <1>0, HeldAreIds
<1>3. h \notin Us(k)
  BY <1>1 DEF Owned, OneOwner, Kept
<1>4. Append(k, x) \in Seq(Queued) /\ Us(Append(k, x)) = Us(k) \cup {h} /\ Distinct(Append(k, x))
  BY <1>0, <1>1, <1>3, UsAppend
<1>5. r \in Canc /\ r.keep = Append(k, x) /\ r.pc = canc[c].pc /\ r.u = canc[c].u
  BY <1>0, <1>4 DEF Canc
<1>6. canc' = [canc EXCEPT ![c] = r]
  BY <1>0 DEF DrainKeep
<1> HIDE DEF x, h, k, r
<1>7. /\ canc' \in [Cancellers -> Canc] /\ canc'[c] = r
      /\ \A d \in Cancellers : d # c => canc'[d] = canc[d]
  BY <1>5, <1>6, CancReplaced
<1>8. /\ Us(queue)' = Us(queue) \ {h} /\ Distinct(queue)' /\ (Busy' <=> Busy)
      /\ Kept(c)' = Kept(c) \cup {h} /\ Distinct(canc[c].keep)'
      /\ \A d \in Cancellers : d # c =>
           Kept(d)' = Kept(d) /\ (Distinct(canc[d].keep)' <=> Distinct(canc[d].keep))
  <2>1. Us(queue)' = Us(queue') /\ (Distinct(queue)' <=> Distinct(queue')) /\ (Busy' <=> Busy)
    BY <1>0 DEF Us, Distinct, Busy
  <2>2. canc'[c].keep = Append(k, x)
    BY <1>5, <1>7
  <2>3. Kept(c)' = Us(Append(k, x)) /\ (Distinct(canc[c].keep)' <=> Distinct(Append(k, x)))
    BY <2>2 DEF Kept, Us, Distinct
  <2>4. Kept(c)' = Kept(c) \cup {h} /\ Distinct(canc[c].keep)'
    BY <1>4, <2>3 DEF Kept, k
  <2>5. \A d \in Cancellers : d # c =>
          Kept(d)' = Kept(d) /\ (Distinct(canc[d].keep)' <=> Distinct(canc[d].keep))
    BY <1>7, KeptSame
  <2> QED
    BY <1>1, <2>1, <2>4, <2>5
<1>9. Untouched(h) /\ (Busy => run.u # h) /\ \A d \in Cancellers : h \notin Kept(d)
  BY <1>1 DEF Owned, OneOwner, WaitingIsUntouched
<1>10. OneOwner'
  <2>1. \A d \in Cancellers : Distinct(canc[d].keep)' /\ Us(queue)' \cap Kept(d)' = {}
    BY <1>8 DEF Owned, OneOwner
  <2>2. \A d, e \in Cancellers : d # e => Kept(d)' \cap Kept(e)' = {}
    BY <1>8, <1>9 DEF Owned, OneOwner
  <2>3. Busy' => run'.u \in Ids /\ run'.u \notin Us(queue)' /\ \A d \in Cancellers : run'.u \notin Kept(d)'
    BY <1>0, <1>8, <1>9 DEF Owned, OneOwner
  <2> QED
    BY <1>8, <2>1, <2>2, <2>3 DEF OneOwner
<1>11. \A u : Untouched(u)' <=> Untouched(u)
  BY <1>0 DEF Untouched, Seen
<1>12. WaitingIsUntouched'
  BY <1>8, <1>9, <1>11 DEF Owned, WaitingIsUntouched
<1>13. NotYetAccepted' /\ HistoriesSound'
  BY <1>0 DEF Owned, NotYetAccepted, HistoriesSound, History, Seen
<1>14. RunStage'
  BY <1>0 DEF Owned, RunStage, Busy, Untouched, Seen
<1>15. \A d \in Cancellers : canc'[d].pc = canc[d].pc /\ canc'[d].u = canc[d].u
  BY <1>5, <1>7
<1> QED
  BY <1>1, <1>2, <1>7, <1>10, <1>12, <1>13, <1>14, <1>15 DEF Owned

\* CancelMatching puts one back, or loses it when the channel has filled.
LEMMA PutBackOwned ==
  ASSUME SpeechTypeOK, Owned, NEW c \in Cancellers, PutBack(c)
  PROVE  /\ Owned' /\ canc' \in [Cancellers -> Canc]
         /\ queue' \in Seq(Queued) /\ Len(queue') <= QueueDepth /\ lost' \subseteq Ids
         /\ \A d \in Cancellers : canc'[d].pc = canc[d].pc /\ canc'[d].u = canc[d].u
<1> DEFINE k == canc[c].keep
           x == Head(k)
           h == Head(k).u
           r == [canc[c] EXCEPT !.keep = Tail(k)]
<1>0. /\ queue \in Seq(Queued) /\ Distinct(queue) /\ k # << >> /\ Len(queue) <= QueueDepth
      /\ canc \in [Cancellers -> Canc] /\ k \in Seq(Queued) /\ Distinct(k) /\ lost \subseteq Ids
      /\ UNCHANGED <<enq, run, reserved, delivered, ends>>
  BY DEF SpeechTypeOK, Canc, Owned, OneOwner, PutBack, cancSame
<1>1. /\ h \in Ids /\ h \in Us(k) /\ Us(Tail(k)) = Us(k) \ {h} /\ Distinct(Tail(k))
      /\ Tail(k) \in Seq(Queued) /\ x \in Queued
  BY <1>0, UsTail
<1>2. r \in Canc /\ r.keep = Tail(k) /\ r.pc = canc[c].pc /\ r.u = canc[c].u
  BY <1>0, <1>1 DEF Canc
<1>3. canc' = [canc EXCEPT ![c] = r]
  BY <1>0 DEF PutBack
<1>4. lost' \subseteq Ids
  BY <1>0, <1>1 DEF PutBack
<1> HIDE DEF r
<1>5. /\ canc' \in [Cancellers -> Canc] /\ canc'[c] = r
      /\ \A d \in Cancellers : d # c => canc'[d] = canc[d]
  BY <1>2, <1>3, CancReplaced
<1>6. Untouched(h) /\ h \notin Us(queue) /\ (Busy => run.u # h)
      /\ \A d \in Cancellers : d # c => h \notin Kept(d)
  BY <1>1 DEF Owned, OneOwner, WaitingIsUntouched, Kept
<1>7. /\ queue' \in Seq(Queued) /\ Len(queue') <= QueueDepth /\ Distinct(queue')
      /\ Us(queue') \subseteq Us(queue) \cup {h}
  <2>1. CASE Len(queue) < QueueDepth
    <3>1. queue' = Append(queue, x)
      BY <2>1 DEF PutBack
    <3>2. Len(queue') <= QueueDepth
      BY <1>0, <1>1, <2>1, <3>1, SpeechAssumption, AppendProperties, LenProperties DEF SpeechAssumption
    <3> QED
      BY <1>0, <1>1, <1>6, <3>1, <3>2, UsAppend
  <2>2. CASE ~(Len(queue) < QueueDepth)
    BY <1>0, <2>2 DEF PutBack
  <2> QED
    BY <2>1, <2>2
<1>8. /\ Us(queue)' \subseteq Us(queue) \cup {h} /\ Distinct(queue)' /\ (Busy' <=> Busy)
      /\ Kept(c)' = Kept(c) \ {h} /\ Distinct(canc[c].keep)'
      /\ \A d \in Cancellers : d # c =>
           Kept(d)' = Kept(d) /\ (Distinct(canc[d].keep)' <=> Distinct(canc[d].keep))
  <2>1. Us(queue)' = Us(queue') /\ (Distinct(queue)' <=> Distinct(queue')) /\ (Busy' <=> Busy)
    BY <1>0 DEF Us, Distinct, Busy
  <2>2. canc'[c].keep = Tail(k)
    BY <1>2, <1>5
  <2>3. Kept(c)' = Us(Tail(k)) /\ (Distinct(canc[c].keep)' <=> Distinct(Tail(k)))
    BY <2>2 DEF Kept, Us, Distinct
  <2>4. Kept(c)' = Kept(c) \ {h} /\ Distinct(canc[c].keep)'
    BY <1>1, <2>3 DEF Kept
  <2>5. \A d \in Cancellers : d # c =>
          Kept(d)' = Kept(d) /\ (Distinct(canc[d].keep)' <=> Distinct(canc[d].keep))
    BY <1>5, KeptSame
  <2> QED
    BY <1>7, <2>1, <2>4, <2>5
<1> HIDE DEF h, k, x
<1>9. OneOwner'
  <2>1. \A d \in Cancellers : Distinct(canc[d].keep)' /\ Us(queue)' \cap Kept(d)' = {}
    BY <1>6, <1>8 DEF Owned, OneOwner
  <2>2. \A d, e \in Cancellers : d # e => Kept(d)' \cap Kept(e)' = {}
    BY <1>8 DEF Owned, OneOwner
  <2>3. Busy' => run'.u \in Ids /\ run'.u \notin Us(queue)' /\ \A d \in Cancellers : run'.u \notin Kept(d)'
    BY <1>0, <1>6, <1>8 DEF Owned, OneOwner
  <2> QED
    BY <1>8, <2>1, <2>2, <2>3 DEF OneOwner
<1>10. \A u : Untouched(u)' <=> Untouched(u)
  BY <1>0 DEF Untouched, Seen
<1>11. WaitingIsUntouched'
  BY <1>6, <1>8, <1>10 DEF Owned, WaitingIsUntouched
<1>12. NotYetAccepted' /\ HistoriesSound'
  BY <1>0 DEF Owned, NotYetAccepted, HistoriesSound, History, Seen
<1>13. RunStage'
  BY <1>0 DEF Owned, RunStage, Busy, Untouched, Seen
<1>14. \A d \in Cancellers : canc'[d].pc = canc[d].pc /\ canc'[d].u = canc[d].u
  BY <1>2, <1>5
<1> QED
  BY <1>4, <1>5, <1>7, <1>9, <1>11, <1>12, <1>13, <1>14 DEF Owned

\* A call that is about to stop the active utterance has one to stop.
StopsOne(c) == canc[c].pc \in {"ctx", "lookup", "stop"} => canc[c].u \in Ids

\* The steps at which a call neither takes an utterance nor returns one.
LEMMA CancelMoved ==
  ASSUME SpeechTypeOK, HeardIsCrossed, NEW c \in Cancellers, CancelCall(c),
         ~DrainKeep(c), ~PutBack(c)
  PROVE  /\ canc' \in [Cancellers -> Canc]
         /\ \A d \in Cancellers : canc'[d].keep = canc[d].keep /\ StopsOne(d)'
<1>0. /\ canc \in [Cancellers -> Canc] /\ canc[c] \in Canc /\ None \notin Ids /\ Superseded \subseteq Ids
      /\ activeID \in Ids \cup {None} /\ \A d \in Cancellers : StopsOne(d)
  BY SpeechAssumption DEF SpeechTypeOK, Canc, SpeechAssumption, HeardIsCrossed, StopsOne
<1>1. ASSUME NEW r \in Canc, canc' = [canc EXCEPT ![c] = r], r.keep = canc[c].keep,
             r.pc \in {"ctx", "lookup", "stop"} => r.u \in Ids
      PROVE  /\ canc' \in [Cancellers -> Canc]
             /\ \A d \in Cancellers : canc'[d].keep = canc[d].keep /\ StopsOne(d)'
  <2>1. /\ canc' \in [Cancellers -> Canc] /\ canc'[c] = r
        /\ \A d \in Cancellers : d # c => canc'[d] = canc[d]
    BY <1>1, CancReplaced
  <2> QED
    BY <1>0, <1>1, <2>1 DEF StopsOne
<1>2. ASSUME NEW pc \in CancPcs, CancTo(c, pc), pc \in {"ctx", "lookup", "stop"} => canc[c].u \in Ids
      PROVE  /\ canc' \in [Cancellers -> Canc]
             /\ \A d \in Cancellers : canc'[d].keep = canc[d].keep /\ StopsOne(d)'
  <2>1. /\ canc' \in [Cancellers -> Canc] /\ canc'[c].pc = pc
        /\ \A d \in Cancellers : d # c => canc'[d] = canc[d]
        /\ \A d \in Cancellers : canc'[d].keep = canc[d].keep /\ canc'[d].u = canc[d].u
    BY <1>2, CancMoved
  <2> QED
    BY <1>0, <1>2, <2>1 DEF StopsOne
<1>3. CASE ClosePlanner(c) \/ StopCancel(c) \/ OweEnd(c)
  <2>1. PICK pc \in {"start", "drain", "returned"} : CancTo(c, pc)
    BY <1>3 DEF ClosePlanner, StopCancel, OweEnd
  <2> QED
    BY <1>2, <2>1 DEF CancPcs
<1>4. CASE CancelCtx(c) \/ StopLookup(c)
  <2>1. canc[c].u \in Ids
    BY <1>0, <1>4 DEF CancelCtx, StopLookup, StopsOne
  <2>2. PICK pc \in {"lookup", "drain", "stop"} : CancTo(c, pc)
    BY <1>4 DEF CancelCtx, StopLookup
  <2> QED
    BY <1>2, <2>1, <2>2 DEF CancPcs
<1>5. CASE CloseSession(c)
  <2> DEFINE r == [canc[c] EXCEPT !.pc = "closing", !.kind = "close"]
  <2>1. r \in Canc /\ r.keep = canc[c].keep /\ r.pc = "closing"
    BY <1>0 DEF Canc, CancPcs, StopKinds
  <2>2. canc' = [canc EXCEPT ![c] = r]
    BY <1>0, <1>5 DEF CloseSession
  <2> HIDE DEF r
  <2> QED
    BY <1>1, <2>1, <2>2
<1>6. CASE CancelStart(c)
  <2> DEFINE r == [canc[c] EXCEPT !.pc = IF activeID = None THEN "drain" ELSE "ctx",
                                  !.kind = IF @ = "none" THEN "all" ELSE @, !.u = activeID]
  <2>1. r \in Canc /\ r.keep = canc[c].keep /\ (r.pc \in {"ctx", "lookup", "stop"} => r.u \in Ids)
    BY <1>0 DEF Canc, CancPcs, StopKinds
  <2>2. canc' = [canc EXCEPT ![c] = r]
    BY <1>0, <1>6 DEF CancelStart
  <2> HIDE DEF r
  <2> QED
    BY <1>1, <2>1, <2>2
<1>7. CASE MatchStart(c)
  <2> DEFINE r == [canc[c] EXCEPT !.kind = "matching",
                                  !.pc = IF activeID \in Superseded THEN "ctx" ELSE "drain",
                                  !.u = activeID, !.before = Accepted \cap Superseded]
  <2>1. r \in Canc /\ r.keep = canc[c].keep /\ (r.pc \in {"ctx", "lookup", "stop"} => r.u \in Ids)
    BY <1>0 DEF Canc, CancPcs, StopKinds
  <2>2. canc' = [canc EXCEPT ![c] = r]
    BY <1>0, <1>7 DEF MatchStart
  <2> HIDE DEF r
  <2> QED
    BY <1>1, <2>1, <2>2
<1>8. CASE DrainEnd(c)
  <2> DEFINE r == [canc[c] EXCEPT !.pc = IF Matching(c) THEN "putback" ELSE "returned", !.u = None]
  <2>1. r \in Canc /\ r.keep = canc[c].keep /\ r.pc \in {"putback", "returned"}
    BY <1>0 DEF Canc, CancPcs
  <2>2. canc' = [canc EXCEPT ![c] = r]
    BY <1>0, <1>8 DEF DrainEnd
  <2> HIDE DEF r
  <2> QED
    BY <1>1, <2>1, <2>2
<1>9. CASE OweCrossed(c)
  <2> DEFINE r == [canc[c] EXCEPT !.pc = "owe", !.owing = CrossedIds \cap Superseded]
  <2>1. r \in Canc /\ r.keep = canc[c].keep /\ r.pc = "owe"
    BY <1>0 DEF Canc, CancPcs
  <2>2. canc' = [canc EXCEPT ![c] = r]
    BY <1>0, <1>9 DEF OweCrossed
  <2> HIDE DEF r
  <2> QED
    BY <1>1, <2>1, <2>2
<1>10. CASE OweOne(c)
  <2>1. PICK u \in canc[c].owing : canc' = [canc EXCEPT ![c].owing = @ \ {u}]
    BY <1>10 DEF OweOne
  <2> DEFINE r == [canc[c] EXCEPT !.owing = @ \ {u}]
  <2>2. r \in Canc /\ r.keep = canc[c].keep /\ r.pc = "owe"
    BY <1>0, <1>10 DEF Canc, CancPcs, OweOne
  <2>3. canc' = [canc EXCEPT ![c] = r]
    BY <1>0, <2>1
  <2> HIDE DEF r
  <2> QED
    BY <1>1, <2>2, <2>3
<1>11. CASE DrainStop(c)
  BY <1>0, <1>11 DEF DrainStop, StopsOne
<1> QED
  BY <1>3, <1>4, <1>5, <1>6, <1>7, <1>8, <1>9, <1>10, <1>11 DEF CancelCall, CancelBody

\* Stopping speech keeps the types, the owners, and every caller's aim.
LEMMA CancelKeeps ==
  ASSUME SpeechTypeOK, Owned, HeardIsCrossed, LedgerTypeOK', NEW c \in Cancellers, CancelCall(c)
  PROVE  SpeechTypeOK' /\ Owned' /\ \A d \in Cancellers : StopsOne(d)'
<1>0. /\ cancSame /\ epoch \in Nat /\ ctxDone \subseteq Ids /\ reported \in [Ids -> Nat] /\ lost \subseteq Ids
      /\ closed \in BOOLEAN /\ done \in BOOLEAN /\ queue \in Seq(Queued) /\ Len(queue) <= QueueDepth
      /\ reserved \in [Ids -> [SinkCalls -> Nat]]
      /\ \A d \in Cancellers : StopsOne(d)
  BY DEF SpeechTypeOK, CancelCall, CancelBody, CloseSession, CancelStart, MatchStart, ClosePlanner,
         CancelCtx, StopLookup, StopCancel, DrainStop, DrainKeep, DrainEnd, PutBack, OweCrossed, OweOne,
         OweEnd, HeardIsCrossed, StopsOne
<1>1. ASSUME Owned', canc' \in [Cancellers -> Canc],
             queue' \in Seq(Queued) /\ Len(queue') <= QueueDepth, lost' \subseteq Ids,
             epoch' \in Nat, ctxDone' \subseteq Ids, closed' \in BOOLEAN /\ done' \in BOOLEAN,
             reserved' \in [Ids -> [SinkCalls -> Nat]], reported' \in [Ids -> Nat],
             \A d \in Cancellers : StopsOne(d)'
      PROVE  SpeechTypeOK' /\ Owned' /\ \A d \in Cancellers : StopsOne(d)'
  <2>1. canc' \in [Cancellers -> [pc : CancPcs, kind : StopKinds \cup {"none"}, u : Ids \cup {None},
                                  keep : Seq(Queued), before : SUBSET Ids, owing : SUBSET Ids]]
    BY <1>1 DEF Canc
  <2> QED
    BY <1>0, <1>1, <2>1 DEF SpeechTypeOK, cancSame
<1>2. CASE DrainKeep(c)
  <2>1. /\ Owned' /\ canc' \in [Cancellers -> Canc]
        /\ queue' \in Seq(Queued) /\ Len(queue') <= QueueDepth
        /\ \A d \in Cancellers : StopsOne(d)'
    BY <1>0, <1>2, DrainKeepOwned DEF StopsOne
  <2> QED
    BY <1>0, <1>1, <1>2, <2>1 DEF DrainKeep
<1>3. CASE PutBack(c)
  <2>1. /\ Owned' /\ canc' \in [Cancellers -> Canc]
        /\ queue' \in Seq(Queued) /\ Len(queue') <= QueueDepth /\ lost' \subseteq Ids
        /\ \A d \in Cancellers : StopsOne(d)'
    BY <1>0, <1>3, PutBackOwned DEF StopsOne
  <2> QED
    BY <1>0, <1>1, <1>3, <2>1 DEF PutBack
<1>4. CASE ~DrainKeep(c) /\ ~PutBack(c)
  <2>1. canc' \in [Cancellers -> Canc] /\ \A d \in Cancellers : canc'[d].keep = canc[d].keep /\ StopsOne(d)'
    BY <1>4, CancelMoved
  <2>2. CASE DrainStop(c)
    <3>1. /\ Owned' /\ queue' \in Seq(Queued) /\ Len(queue') <= QueueDepth
          /\ reserved' \in [Ids -> [SinkCalls -> Nat]]
      BY <1>0, <2>2, DropHead DEF DrainStop, cancSame
    <3>2. reported' \in [Ids -> Nat]
      <4>1. PICK h \in Ids : reported' = reported \/ reported' = [reported EXCEPT ![h] = @ + 1]
        BY <2>2, HeldAreIds DEF DrainStop
      <4>2. CASE reported' = reported
        BY <1>0, <4>2
      <4>3. CASE reported' = [reported EXCEPT ![h] = @ + 1]
        <5>1. reported[h] + 1 \in Nat
          BY <1>0
        <5> QED
          BY <1>0, <4>3, <5>1
      <4> QED
        BY <4>1, <4>2, <4>3
    <3> QED
      BY <1>0, <1>1, <2>1, <2>2, <3>1, <3>2 DEF DrainStop
  <2>3. CASE ~DrainStop(c)
    <3>1. UNCHANGED <<queue, enq, run, reserved, delivered, ends, lost>>
      BY <1>0, <1>4, <2>3 DEF CancelCall, CancelBody, CloseSession, CancelStart, MatchStart, ClosePlanner,
           CancelCtx, StopLookup, StopCancel, DrainEnd, OweCrossed, OweOne, OweEnd, cancSame
    <3>2. Owned'
      BY <2>1, <3>1, StopOwned
    <3>3. epoch' \in {epoch, epoch + 1} /\ closed' \in {closed, TRUE} /\ done' \in {done, TRUE}
      BY <1>4, <2>3 DEF CancelCall, CancelBody, CloseSession, CancelStart, MatchStart, ClosePlanner,
           CancelCtx, StopLookup, StopCancel, DrainEnd, OweCrossed, OweOne, OweEnd
    <3>6. epoch' \in Nat
      BY <1>0, <3>3
    <3>7. closed' \in BOOLEAN /\ done' \in BOOLEAN
      BY <1>0, <3>3
    <3>4. ctxDone' \subseteq Ids
      BY <1>0, <1>4, <2>3 DEF CancelCall, CancelBody, CloseSession, CancelStart, MatchStart, ClosePlanner,
           CancelCtx, StopLookup, StopCancel, DrainEnd, OweCrossed, OweOne, OweEnd, StopsOne
    <3>5. reported' \in [Ids -> Nat]
      BY <1>0, <1>4, <2>3 DEF CancelCall, CancelBody, CloseSession, CancelStart, MatchStart, ClosePlanner,
           CancelCtx, StopLookup, StopCancel, DrainEnd, OweCrossed, OweOne, OweEnd
    <3> QED
      BY <1>0, <1>1, <2>1, <3>1, <3>2, <3>4, <3>5, <3>6, <3>7
  <2> QED
    BY <2>2, <2>3
<1> QED
  BY <1>2, <1>3, <1>4

-----------------------------------------------------------------------------
\* A cancellation is reported only of what the ledger then has as cancelled.
LEMMA ReportedStep ==
  ASSUME SpeechTypeOK, OneOwner, HeardIsCrossed, [SpeechNext]_vars, NEW u \in Ids, reported'[u] > 0
  PROVE  state'[u] = "cancelled"
<1>0. /\ reported \in [Ids -> Nat] /\ state \in [Ids -> States \cup {"absent"}]
      /\ \A id \in Ids : Terminal(state[id]) => state'[id] = state[id]
  BY PlannerMoves, LedgerMoveSound DEF SpeechTypeOK, LedgerTypeOK
<1>1. CASE reported[u] > 0
  BY <1>0, <1>1 DEF HeardIsCrossed, Terminal
<1>2. ASSUME NEW v \in Ids, Cancel(v), ~Crossed(state[v]), u = v PROVE state'[u] = "cancelled"
  BY <1>0, <1>2 DEF Cancel, AfterCancel, Terminal, Crossed, States
<1>3. CASE \E v \in Ids : /\ Cancel(v) /\ ~Crossed(state[v])
                          /\ reported' = [reported EXCEPT ![v] = @ + 1]
  BY <1>0, <1>1, <1>2, <1>3
<1>4. CASE reported' # reported
  <2>1. PICK c \in Cancellers : StopCancel(c) \/ DrainStop(c)
    BY <1>4 DEF vars, speechVars, SpeechNext, Enqueue, EnqueuePrepare, EnqueueQueue, EnqueueClosed, EnqueueRefused,
         EnqueuePush, EnqueueFull, enqSame, Run, RunTake, RunStale, RunFresh, EmitActivate, EmitBegin,
         StreamFrame, StreamEnd, EmitCross, EmitRefused, EmitAudio, EmitAudioFails, EmitSettle, EmitEnd,
         EmitClear, RunStop, RunDrain, runSame, CancelCall, CancelBody, CloseSession, CancelStart,
         MatchStart, ClosePlanner, CancelCtx, StopLookup, DrainKeep, DrainEnd, PutBack, OweCrossed,
         OweOne, OweEnd
  <2>2. CASE StopCancel(c)
    <3>1. canc[c].u \in Ids
      BY <2>2 DEF StopCancel, HeardIsCrossed
    <3> QED
      BY <1>3, <1>4, <2>2, <3>1 DEF StopCancel
  <2>3. CASE DrainStop(c)
    <3>1. Head(queue).u \in Ids
      BY <2>3, HeldAreIds DEF DrainStop
    <3> QED
      BY <1>3, <1>4, <2>3, <3>1 DEF DrainStop
  <2> QED
    BY <2>1, <2>2, <2>3
<1> QED
  BY <1>1, <1>4

\* A frame leaves, or is about to, only for a commitment the ledger has as crossed.
LEMMA HeardStep ==
  ASSUME SpeechTypeOK, OneOwner, HeardIsCrossed, [SpeechNext]_vars
  PROVE  /\ \A u \in Ids : delivered'[u] > 0 => Crossed(state'[u])
         /\ run'.pc = "audio" => Crossed(state'[run'.u])
<1>0. /\ delivered \in [Ids -> 0..MaxFrames] /\ state \in [Ids -> States \cup {"absent"}]
      /\ run \in RunState /\ MaxFrames \in Nat
      /\ \A id \in Ids : Crossed(state[id]) => Crossed(state'[id])
      /\ run.pc = "audio" => run.u \in Ids /\ Crossed(state[run.u])
  BY PlannerMoves, LedgerMoveSound, SpeechAssumption
  DEF SpeechTypeOK, LedgerTypeOK, RunState, SpeechAssumption, HeardIsCrossed, OneOwner, Busy
<1>1. ASSUME UNCHANGED delivered PROVE \A u \in Ids : delivered'[u] > 0 => Crossed(state'[u])
  BY <1>0, <1>1 DEF HeardIsCrossed
<1>2. ASSUME UNCHANGED run PROVE run'.pc = "audio" => Crossed(state'[run'.u])
  BY <1>0, <1>2
<1>3. CASE EmitAudio
  <2>1. run'.pc # "audio"
    BY <1>0, <1>3 DEF EmitAudio, RunState
  <2>2. ASSUME NEW u \in Ids, delivered'[u] > 0 PROVE Crossed(state'[u])
    BY <1>0, <1>3, <2>2 DEF EmitAudio, HeardIsCrossed
  <2> QED
    BY <2>1, <2>2
<1>4. CASE EmitCross
  <2>1. run.u \in Ids /\ run'.u = run.u /\ UNCHANGED delivered /\ Emit(run.u)
    BY <1>0, <1>4 DEF EmitCross, RunTo, RunState, OneOwner, Busy
  <2>2. Crossed(state'[run.u])
    BY <1>0, <2>1 DEF Emit, Transition, Crossed
  <2> QED
    BY <1>1, <2>1, <2>2
<1>5. CASE Run /\ ~EmitAudio /\ ~EmitCross
  <2>1. UNCHANGED delivered
    BY <1>5 DEF Run, RunTake, RunStale, RunFresh, EmitActivate, EmitBegin, StreamFrame, StreamEnd,
         EmitRefused, EmitAudioFails, EmitSettle, EmitEnd, EmitClear, RunStop, RunDrain
  <2>2. UNCHANGED run \/ run'.pc # "audio"
    <3>1. CASE \E pc \in RunPcs : RunTo(pc) /\ pc # "audio"
      BY <3>1, RunMoved
    <3>2. CASE RunTake \/ RunStale \/ EmitClear
      BY <3>2 DEF RunTake, RunStale, EmitClear, Idle
    <3>3. CASE StreamEnd
      BY <1>0, <3>3 DEF StreamEnd, RunState
    <3>4. CASE ~(RunTake \/ RunStale \/ EmitClear \/ StreamEnd)
      BY <1>5, <3>1, <3>4 DEF Run, RunFresh, EmitActivate, EmitBegin, StreamFrame,
         EmitRefused, EmitAudioFails, EmitSettle, EmitEnd, RunStop, RunDrain, RunPcs
    <3> QED
      BY <3>2, <3>3, <3>4
  <2> QED
    BY <1>1, <1>2, <2>1, <2>2
<1>6. CASE ~Run
  <2>1. UNCHANGED <<run, delivered>>
    BY <1>6 DEF vars, speechVars, SpeechNext, Enqueue, EnqueuePrepare, EnqueueQueue, EnqueueClosed,
         EnqueueRefused, EnqueuePush, EnqueueFull, enqSame, CancelCall, CancelBody, CloseSession,
         CancelStart, MatchStart, ClosePlanner, CancelCtx, StopLookup, StopCancel, DrainStop, DrainKeep,
         DrainEnd, PutBack, OweCrossed, OweOne, OweEnd, cancSame
  <2> QED
    BY <1>1, <1>2, <2>1
<1> QED
  BY <1>3, <1>4, <1>5, <1>6

\* Every step preserves the inductive invariant.
LEMMA UtterancesStep ==
  ASSUME UtterancesSound, [SpeechNext]_vars
  PROVE  UtterancesSound'
<1>0. SpeechTypeOK /\ OneOwner /\ HeardIsCrossed /\ Owned /\ LedgerTypeOK
  BY DEF UtterancesSound, Owned, SpeechTypeOK
<1>1. LedgerTypeOK'
  BY <1>0, PlannerMoves, LedgerMoveSound
<1>2. ASSUME canc' = canc PROVE \A d \in Cancellers : StopsOne(d)'
  BY <1>0, <1>2 DEF HeardIsCrossed, StopsOne
<1>3. SpeechTypeOK' /\ Owned' /\ \A d \in Cancellers : StopsOne(d)'
  <2>1. ASSUME NEW u \in Ids, Enqueue(u) PROVE SpeechTypeOK' /\ Owned' /\ canc' = canc
    <3>1. canc' = canc
      BY <2>1 DEF Enqueue, EnqueuePrepare, EnqueueQueue, EnqueueClosed, EnqueueRefused, EnqueuePush,
                  EnqueueFull, enqSame
    <3> QED
      BY <1>0, <1>1, <2>1, <3>1, EnqueueKeeps
  <2>2. CASE Run
    <3>1. canc' = canc
      BY <2>2 DEF Run, RunTake, RunStale, RunFresh, EmitActivate, EmitBegin,
         StreamFrame, StreamEnd, EmitCross, EmitRefused, EmitAudio, EmitAudioFails, EmitSettle, EmitEnd,
         EmitClear, RunStop, RunDrain, runSame
    <3> QED
      BY <1>0, <1>1, <1>2, <2>2, <3>1, RunKeeps
  <2>3. ASSUME NEW c \in Cancellers, CancelCall(c)
        PROVE  SpeechTypeOK' /\ Owned' /\ \A d \in Cancellers : StopsOne(d)'
    BY <1>0, <1>1, <2>3, CancelKeeps
  <2>4. CASE UNCHANGED vars
    <3>1. UNCHANGED speechVars /\ canc' = canc
      BY <2>4 DEF vars, speechVars
    <3>2. Owned'
      BY <1>0, <3>1, StopOwned DEF speechVars
    <3>3. SpeechTypeOK'
      BY <1>0, <1>1, <3>1 DEF SpeechTypeOK, speechVars
    <3> QED
      BY <1>2, <3>1, <3>2, <3>3
  <2> QED
    BY <1>2, <2>1, <2>2, <2>3, <2>4 DEF SpeechNext
<1>4. HeardIsCrossed'
  BY <1>0, <1>3, HeardStep, ReportedStep DEF HeardIsCrossed, StopsOne
<1> QED
  BY <1>3, <1>4 DEF UtterancesSound, Owned

\* The planner starts with nothing queued, running or seen by the sink.
LEMMA UtterancesInit == SpeechInit => UtterancesSound
<1> SUFFICES ASSUME SpeechInit PROVE UtterancesSound
  OBVIOUS
<1>0. /\ None \notin Ids /\ MaxFrames \in Nat /\ QueueDepth \in Nat
      /\ queue = << >> /\ run = Idle /\ run.pc = "idle" /\ ~Busy
      /\ \A c \in Cancellers : canc[c].keep = << >> /\ canc[c].pc = "new"
      /\ \A u \in Ids : /\ enq[u].pc = "new" /\ Seen(reserved[u], 0, 0, 0) /\ delivered[u] = 0
                        /\ ends[u] = 0 /\ reported[u] = 0
  BY SpeechAssumption DEF SpeechInit, SpeechAssumption, Idle, Busy, Seen, SinkCalls
<1>1. LedgerTypeOK
  BY LedgerAssumption DEF SpeechInit, LedgerInit, LedgerTypeOK
<1>2. canc \in [Cancellers -> [pc : CancPcs, kind : StopKinds \cup {"none"}, u : Ids \cup {None},
                               keep : Seq(Queued), before : SUBSET Ids, owing : SUBSET Ids]]
  BY DEF SpeechInit, CancPcs
<1>3. run \in [pc : RunPcs, u : Ids \cup {None}, epoch : Nat, played : 0..MaxFrames, completed : BOOLEAN]
  BY <1>0 DEF Idle, RunPcs
<1>4. enq \in [Ids -> [pc : EnqPcs, epoch : Nat]]
  BY DEF SpeechInit, EnqPcs
<1>5. SpeechTypeOK
  <2>1. queue \in Seq(Queued) /\ Len(queue) <= QueueDepth
    BY <1>0
  <2>2. /\ reserved \in [Ids -> [SinkCalls -> Nat]]
        /\ delivered \in [Ids -> 0..MaxFrames] /\ ends \in [Ids -> Nat] /\ reported \in [Ids -> Nat]
    BY <1>0 DEF SpeechInit, SinkCalls
  <2>3. /\ epoch \in Nat /\ activeID \in Ids \cup {None} /\ closed \in BOOLEAN /\ done \in BOOLEAN
        /\ ctxDone \subseteq Ids /\ lost \subseteq Ids
    BY DEF SpeechInit
  <2> QED
    BY <1>1, <1>2, <1>3, <1>4, <2>1, <2>2, <2>3 DEF SpeechTypeOK
<1>6. /\ Us(queue) = {} /\ Distinct(queue)
      /\ \A c \in Cancellers : Kept(c) = {} /\ Distinct(canc[c].keep)
  BY <1>0 DEF Us, Distinct, Kept
<1>7. OneOwner /\ WaitingIsUntouched
  BY <1>0, <1>6 DEF OneOwner, WaitingIsUntouched
<1>8. NotYetAccepted /\ RunStage /\ HeardIsCrossed /\ HistoriesSound
  BY <1>0 DEF NotYetAccepted, RunStage, HeardIsCrossed, HistoriesSound, History
<1> QED
  BY <1>5, <1>7, <1>8 DEF UtterancesSound

\* The inductive invariant holds throughout.
LEMMA AlwaysUtterancesSound == SpeechSpec => []UtterancesSound
BY UtterancesInit, UtterancesStep, PTL DEF SpeechSpec

-----------------------------------------------------------------------------
\* The planner's variables keep their types: the channel never holds more than
\* SpeechConfig.QueueDepth, PutBack included.
THEOREM SpeechTypeCorrect == SpeechSpec => []SpeechTypeOK
<1>1. UtterancesSound => SpeechTypeOK
  BY DEF UtterancesSound
<1> QED
  BY <1>1, AlwaysUtterancesSound, PTL

\* A commitment that Cancel or CancelMatching handed back as cancelled was never
\* heard and never will be, however stop and emitFrame interleave.
THEOREM SpeechCancelledNeverHeard == SpeechSpec => []CancelledNeverHeard
<1>1. UtterancesSound => CancelledNeverHeard
  <2> SUFFICES ASSUME UtterancesSound, NEW u \in Ids, reported[u] > 0
               PROVE  delivered[u] = 0 /\ state[u] = "cancelled"
    BY DEF CancelledNeverHeard
  <2>1. state[u] = "cancelled" /\ ~(delivered[u] > 0)
    BY DEF UtterancesSound, HeardIsCrossed, Crossed
  <2>2. delivered[u] \in 0..MaxFrames /\ MaxFrames \in Nat
    BY SpeechAssumption DEF UtterancesSound, SpeechTypeOK, SpeechAssumption
  <2> QED
    BY <2>1, <2>2
<1> QED
  BY <1>1, AlwaysUtterancesSound, PTL

\* The ledger that the planner drives takes back neither a crossing nor an end.
THEOREM SpeechIrreversible == SpeechSpec => CrossingIsIrreversible
<1>1. UtterancesSound /\ [SpeechNext]_vars =>
        [\A id \in Ids : /\ Crossed(state[id]) => Crossed(state'[id])
                         /\ Terminal(state[id]) => state'[id] = state[id]]_ledgerVars
  BY PlannerMoves, LedgerMoveSound DEF UtterancesSound, SpeechTypeOK
<1> QED
  BY <1>1, AlwaysUtterancesSound, PTL DEF SpeechSpec, CrossingIsIrreversible

-----------------------------------------------------------------------------
\* No utterance falls between two goroutines.

\* An utterance whose commitment has ended and whose reservation is discharged.
Discharged(u) ==
  \/ Seen(reserved[u], 1, 1, 0) /\ ends[u] = 0
  \/ Seen(reserved[u], 1, 0, 1) /\ ends[u] = 1

Ended(u) == Terminal(state[u]) /\ Discharged(u)

\* An utterance that is settled, or that somebody has to settle.
Placed(u) ==
  \/ Ended(u) \/ u \in lost \/ u \in Us(queue)
  \/ \E c \in Cancellers : u \in Kept(c)
  \/ Busy /\ run.u = u

AcceptedIsPlaced == \A u \in Ids : enq[u].pc = "accepted" => Placed(u)

\* What a CancelMatching has taken it has yet to put back.
KeptIsPutBack ==
  \A c \in Cancellers : canc[c].keep # << >> => Matching(c) /\ canc[c].pc \in {"drain", "putback"}

\* Run lets go of an utterance once the ledger has its end.
LeftIsSettled == run.pc \in {"end", "clear"} => Terminal(state[run.u])

HoldersSound == AcceptedIsPlaced /\ KeptIsPutBack /\ LeftIsSettled

\* Cancelling ends a commitment, one way or the other.
LEMMA CancelEnds ==
  ASSUME LedgerTypeOK, NEW id \in Ids, Cancel(id)
  PROVE  Terminal(state'[id])
<1>1. state'[id] = AfterCancel(state[id])
  BY DEF LedgerTypeOK, Cancel
<1> QED
  BY <1>1 DEF AfterCancel, Terminal, Crossed

\* What is discharged stays so: the sink sees something only of an utterance that
\* was not.
LEMMA DischargedStays ==
  ASSUME SpeechTypeOK, Owned, [SpeechNext]_vars, NEW v \in Ids, Discharged(v)
  PROVE  Discharged(v)'
<1>1. ASSUME NEW u \in Ids, ~Discharged(u), UNCHANGED ends,
             NEW calls \in SUBSET SinkCalls, reserved' = SinkSees(u, calls)
      PROVE  Discharged(v)'
  BY <1>1, SinkSaw DEF Discharged, Seen
<1>2. ASSUME UNCHANGED <<reserved, ends>> PROVE Discharged(v)'
  BY <1>2 DEF Discharged, Seen
<1>3. ASSUME NEW u \in Ids, Untouched(u) PROVE ~Discharged(u)
  BY <1>3 DEF Untouched, Discharged, Seen
<1>4. ASSUME NEW u \in Ids, Enqueue(u) PROVE Discharged(v)'
  <2>1. UNCHANGED ends
    BY <1>4 DEF Enqueue, EnqueuePrepare, EnqueueQueue, EnqueueClosed, EnqueueRefused, EnqueuePush,
                EnqueueFull, enqSame
  <2>2. CASE EnqueuePush(u) \/ EnqueueFull(u)
    <3>1. ~Discharged(u)
      BY <2>2 DEF EnqueuePush, EnqueueFull, Owned, NotYetAccepted, Discharged, Seen
    <3>2. \E calls \in SUBSET SinkCalls : reserved' = SinkSees(u, calls)
      BY <2>2 DEF EnqueuePush, EnqueueFull, SinkCalls
    <3> QED
      BY <1>1, <2>1, <3>1, <3>2
  <2>3. CASE ~EnqueuePush(u) /\ ~EnqueueFull(u)
    BY <1>2, <1>4, <2>1, <2>3 DEF Enqueue, EnqueuePrepare, EnqueueQueue, EnqueueClosed, EnqueueRefused
  <2> QED
    BY <2>2, <2>3
<1>5. ASSUME queue # << >>, reserved' = SinkSees(Head(queue).u, {"cancel"}), UNCHANGED ends
      PROVE  Discharged(v)'
  <2>1. PICK h : h = Head(queue).u
    OBVIOUS
  <2>2. h \in Ids /\ h \in Us(queue)
    BY <1>5, <2>1, UsTail DEF SpeechTypeOK, Owned, OneOwner
  <2>3. ~Discharged(h)
    BY <1>3, <2>2 DEF Owned, WaitingIsUntouched
  <2> QED
    BY <1>1, <1>5, <2>1, <2>2, <2>3 DEF SinkCalls
<1>6. CASE Run
  <2>1. CASE RunStale \/ EmitBegin
    <3>1. run.u \in Ids /\ Untouched(run.u) /\ UNCHANGED ends
      BY <2>1 DEF RunStale, EmitBegin, Owned, OneOwner, RunStage, Busy
    <3>2. \E calls \in SUBSET SinkCalls : reserved' = SinkSees(run.u, calls)
      BY <2>1 DEF RunStale, EmitBegin, SinkCalls
    <3> QED
      BY <1>1, <1>3, <3>1, <3>2
  <2>2. CASE RunDrain
    BY <1>2, <1>5, <2>2 DEF RunDrain
  <2>3. CASE EmitEnd
    <3>1. PICK u \in Ids : u = run.u
      BY <2>3 DEF EmitEnd, Owned, OneOwner, Busy
    <3>2. /\ ends[u] = 0 /\ Seen(reserved[u], 1, 0, 1)
          /\ UNCHANGED reserved /\ ends' = [ends EXCEPT ![u] = @ + 1]
      BY <2>3, <3>1 DEF EmitEnd, Owned, RunStage, Busy
    <3>3. v # u
      BY <3>2 DEF Discharged, Seen
    <3>4. ends'[v] = ends[v]
      BY <3>2, <3>3 DEF SpeechTypeOK
    <3> QED
      BY <3>2, <3>4 DEF Discharged, Seen
  <2>4. CASE ~RunStale /\ ~EmitBegin /\ ~RunDrain /\ ~EmitEnd
    BY <1>2, <1>6, <2>4 DEF Run, RunTake, RunFresh, EmitActivate, StreamFrame, StreamEnd, EmitCross,
       EmitRefused, EmitAudio, EmitAudioFails, EmitSettle, EmitClear, RunStop
  <2> QED
    BY <2>1, <2>2, <2>3, <2>4
<1>7. ASSUME NEW c \in Cancellers, CancelCall(c) PROVE Discharged(v)'
  <2>1. UNCHANGED ends
    BY <1>7 DEF CancelCall, CancelBody, CloseSession, CancelStart, MatchStart, ClosePlanner, CancelCtx,
                StopLookup, StopCancel, DrainStop, DrainKeep, DrainEnd, PutBack, OweCrossed, OweOne,
                OweEnd, cancSame
  <2>2. CASE DrainStop(c)
    BY <1>5, <2>1, <2>2 DEF DrainStop
  <2>3. CASE ~DrainStop(c)
    BY <1>2, <1>7, <2>1, <2>3 DEF CancelCall, CancelBody, CloseSession, CancelStart, MatchStart,
       ClosePlanner, CancelCtx, StopLookup, StopCancel, DrainKeep, DrainEnd, PutBack, OweCrossed, OweOne,
       OweEnd
  <2> QED
    BY <2>2, <2>3
<1>8. CASE UNCHANGED vars
  BY <1>2, <1>8 DEF vars, speechVars
<1> QED
  BY <1>4, <1>6, <1>7, <1>8 DEF SpeechNext

\* Whoever gives up a queued utterance discharges it.
LEMMA HeadDischarged ==
  ASSUME SpeechTypeOK, Owned, queue # << >>, NEW h, h = Head(queue).u,
         reserved' = SinkSees(h, {"cancel"}), UNCHANGED ends
  PROVE  Discharged(h)'
<1>1. h \in Ids /\ h \in Us(queue)
  BY UsTail DEF SpeechTypeOK, Owned, OneOwner
<1>2. Untouched(h)
  BY <1>1 DEF Owned, WaitingIsUntouched
<1> QED
  BY <1>1, <1>2, SawMore DEF Untouched, Discharged

\* One utterance may move; all others stay where they are.
LEMMA OneMoves ==
  ASSUME AcceptedIsPlaced, NEW h,
         \A u \in Ids : Ended(u) => Ended(u)',
         lost \subseteq lost',
         Us(queue) \subseteq Us(queue)' \cup {h},
         \A c \in Cancellers : Kept(c) \subseteq Kept(c)' \cup {h},
         Busy /\ run.u # h => Busy' /\ run'.u = run.u,
         \A u \in Ids : u # h /\ enq'[u].pc = "accepted" => enq[u].pc = "accepted",
         h \in Ids => Placed(h)'
  PROVE  AcceptedIsPlaced'
<1> SUFFICES ASSUME NEW u \in Ids, enq'[u].pc = "accepted", u # h PROVE Placed(u)'
  BY DEF AcceptedIsPlaced
<1>1. Placed(u)
  BY DEF AcceptedIsPlaced
<1> QED
  BY <1>1 DEF Placed

\* ... and when nothing moves.
LEMMA NoneMoves ==
  ASSUME AcceptedIsPlaced,
         \A u \in Ids : Ended(u) => Ended(u)',
         \A u \in Ids : enq'[u].pc = "accepted" => enq[u].pc = "accepted",
         UNCHANGED <<queue, lost>>,
         \A c \in Cancellers : canc'[c].keep = canc[c].keep,
         Busy => Busy' /\ run'.u = run.u
  PROVE  AcceptedIsPlaced'
<1>1. None \notin Ids
  BY SpeechAssumption DEF SpeechAssumption
<1>2. Us(queue)' = Us(queue) /\ \A c \in Cancellers : Kept(c)' = Kept(c)
  BY PlacesSame, KeptSame
<1> QED
  BY <1>1, <1>2, OneMoves

\* The head of the channel is taken by whoever places it.
LEMMA HeadMoves ==
  ASSUME SpeechTypeOK, Owned, AcceptedIsPlaced, NEW h, h = Head(queue).u,
         queue # << >>, queue' = Tail(queue),
         \A u \in Ids : Ended(u) => Ended(u)',
         UNCHANGED <<enq, lost>>,
         \A c \in Cancellers : Kept(c) \subseteq Kept(c)',
         Busy => Busy' /\ run'.u = run.u,
         Placed(h)'
  PROVE  AcceptedIsPlaced'
<1>1. Us(Tail(queue)) = Us(queue) \ {h}
  BY UsTail DEF SpeechTypeOK, Owned, OneOwner
<1>2. Us(queue)' = Us(Tail(queue))
  BY DEF Us
<1> QED
  BY <1>1, <1>2, OneMoves

\* Enqueue leaves what it is given in the channel, or nowhere.
LEMMA EnqueuePlaces ==
  ASSUME SpeechTypeOK, Owned, HoldersSound, NEW u \in Ids, Enqueue(u),
         \A v \in Ids : Ended(v) => Ended(v)',
         \A v \in Ids : Terminal(state[v]) => Terminal(state'[v])
  PROVE  HoldersSound'
<1>1. /\ UNCHANGED <<run, canc, lost>> /\ enq[u].pc # "accepted"
      /\ enq \in [Ids -> [pc : EnqPcs, epoch : Nat]]
  BY DEF Enqueue, EnqueuePrepare, EnqueueQueue, EnqueueClosed, EnqueueRefused, EnqueuePush, EnqueueFull,
         enqSame, SpeechTypeOK
<1>2. KeptIsPutBack' /\ LeftIsSettled'
  BY <1>1 DEF HoldersSound, KeptIsPutBack, LeftIsSettled, Matching, Owned, OneOwner, Busy
<1>3. CASE EnqueuePush(u)
  <2>1. PICK x : x = [u |-> u, epoch |-> enq[u].epoch] /\ queue' = Append(queue, x)
    BY <1>3 DEF EnqueuePush
  <2>2. x \in Queued /\ x.u = u /\ queue \in Seq(Queued) /\ Distinct(queue) /\ u \notin Us(queue)
    BY <1>1, <2>1, NotAcceptedNotHeld DEF Queued, SpeechTypeOK, Owned, OneOwner
  <2>3. Us(queue') = Us(queue) \cup {u}
    BY <2>1, <2>2, UsAppend
  <2>4. Us(queue)' = Us(queue')
    BY DEF Us
  <2>5. \A v \in Ids : v # u => enq'[v] = enq[v]
    BY <1>1, <1>3 DEF EnqueuePush, EnqTo
  <2>6. (Busy' <=> Busy) /\ \A c \in Cancellers : Kept(c)' = Kept(c)
    BY <1>1, KeptSame DEF Busy
  <2>7. Placed(u)'
    BY <2>3, <2>4 DEF Placed
  <2>8. AcceptedIsPlaced
    BY DEF HoldersSound
  <2> QED
    BY <1>1, <1>2, <2>3, <2>4, <2>5, <2>6, <2>7, <2>8, OneMoves DEF HoldersSound
<1>4. CASE ~EnqueuePush(u)
  <2> DEFINE Settles(pc, e) == enq' = [enq EXCEPT ![u] = [pc |-> pc, epoch |-> e]]
  <2>1. UNCHANGED queue /\ \E pc, e : pc # "accepted" /\ Settles(pc, e)
    <3>1. \A pc : EnqTo(u, pc) => Settles(pc, enq[u].epoch)
      BY <1>1 DEF EnqTo
    <3>2. EnqueueQueue(u) => Settles(IF closed THEN "closed" ELSE "ready", epoch)
      BY DEF EnqueueQueue
    <3>3. EnqueueQueue(u) => UNCHANGED queue
      BY DEF EnqueueQueue
    <3>4. (IF closed THEN "closed" ELSE "ready") # "accepted"
      OBVIOUS
    <3> HIDE DEF Settles
    <3>5. CASE EnqueueQueue(u)
      BY <3>2, <3>3, <3>4, <3>5, Zenon
    <3>6. CASE EnqTo(u, "prepared") \/ EnqTo(u, "refused")
      <4>1. UNCHANGED queue
        BY <1>4, <3>3 DEF Enqueue, EnqueuePrepare, EnqueueClosed, EnqueueRefused, EnqueueFull
      <4> QED
        BY <3>1, <3>6, <4>1
    <3> QED
      BY <1>4, <3>5, <3>6 DEF Enqueue, EnqueuePrepare, EnqueueClosed, EnqueueRefused, EnqueueFull
  <2>2. \A v \in Ids : enq'[v].pc = "accepted" => enq[v].pc = "accepted"
    BY <1>1, <2>1
  <2>3. Busy' <=> Busy
    BY <1>1 DEF Busy
  <2> QED
    BY <1>1, <1>2, <2>1, <2>2, <2>3, NoneMoves DEF HoldersSound
<1> QED
  BY <1>3, <1>4

\* Run lets go of no utterance before the ledger has its end.
LEMMA RunPlaces ==
  ASSUME SpeechTypeOK, Owned, HoldersSound, Run,
         \A v \in Ids : Ended(v) => Ended(v)',
         \A v \in Ids : Terminal(state[v]) => Terminal(state'[v])
  PROVE  HoldersSound'
<1>0. /\ run \in RunState /\ LedgerTypeOK /\ UNCHANGED <<enq, canc, lost>>
      /\ AcceptedIsPlaced /\ (Busy => run.u \in Ids)
  BY DEF SpeechTypeOK, RunState, Run, RunTake, RunStale, RunFresh, EmitActivate, EmitBegin, StreamFrame,
         StreamEnd, EmitCross, EmitRefused, EmitAudio, EmitAudioFails, EmitSettle, EmitEnd, EmitClear,
         RunStop, RunDrain, runSame, HoldersSound, Owned, OneOwner
<1>1. KeptIsPutBack'
  BY <1>0 DEF HoldersSound, KeptIsPutBack, Matching
<1>2. \A c \in Cancellers : Kept(c)' = Kept(c)
  BY <1>0, KeptSame
<1>3. CASE RunTake
  <2>1. /\ run.pc = "idle" /\ ~Busy /\ queue # << >> /\ queue' = Tail(queue)
        /\ run'.u = Head(queue).u /\ run'.pc = "check" /\ Busy'
    BY <1>3 DEF RunTake, Busy
  <2>2. PICK h : h = Head(queue).u
    OBVIOUS
  <2>3. Placed(h)'
    BY <2>1, <2>2 DEF Placed
  <2>4. AcceptedIsPlaced'
    BY <1>0, <1>2, <2>1, <2>2, <2>3, HeadMoves
  <2> QED
    BY <1>1, <2>1, <2>4 DEF HoldersSound, LeftIsSettled
<1>4. CASE RunDrain /\ queue # << >>
  <2>1. /\ queue' = Tail(queue) /\ run' = run /\ Cancel(Head(queue).u) /\ run.pc = "drain"
    BY <1>4 DEF RunDrain
  <2>2. PICK h : h = Head(queue).u /\ h \in Ids
    BY <1>4, HeldAreIds
  <2>3. Terminal(state'[h])
    BY <1>0, <2>1, <2>2, CancelEnds
  <2>a. Discharged(h)'
    BY <1>4, <2>2, HeadDischarged DEF RunDrain
  <2>4. Placed(h)' /\ (Busy' <=> Busy)
    BY <2>1, <2>a, <2>3 DEF Placed, Ended, Busy
  <2>5. AcceptedIsPlaced'
    BY <1>0, <1>2, <1>4, <2>1, <2>2, <2>4, HeadMoves
  <2> QED
    BY <1>1, <2>1, <2>5 DEF HoldersSound, LeftIsSettled
<1>5. CASE RunStale \/ EmitClear
  <2>1. UNCHANGED queue /\ run' = Idle /\ Busy
    BY <1>5 DEF RunStale, EmitClear, Busy
  <2>2. PICK h \in Ids : h = run.u
    BY <1>0, <2>1
  <2>3. Terminal(state'[h])
    <3>1. CASE RunStale
      <4>1. Cancel(h)
        BY <2>2, <3>1 DEF RunStale
      <4> QED
        BY <1>0, <4>1, CancelEnds
    <3>2. CASE EmitClear
      <4>1. Terminal(state[h])
        BY <2>2, <3>2 DEF EmitClear, HoldersSound, LeftIsSettled
      <4> QED
        BY <4>1
    <3> QED
      BY <1>5, <3>1, <3>2
  <2>a. Discharged(h)'
    <3>1. CASE RunStale
      BY <2>2, <3>1, SawMore DEF RunStale, Owned, RunStage, Busy, Untouched, Discharged
    <3>2. CASE EmitClear
      BY <2>2, <3>2 DEF EmitClear, Owned, RunStage, Busy, Discharged, Seen
    <3> QED
      BY <1>5, <3>1, <3>2
  <2>4. Placed(h)' /\ Us(queue)' = Us(queue)
    BY <2>1, <2>a, <2>3, PlacesSame DEF Placed, Ended
  <2>5. AcceptedIsPlaced'
    BY <1>0, <1>2, <2>2, <2>4, OneMoves
  <2>6. LeftIsSettled'
    BY <2>1 DEF LeftIsSettled, Idle
  <2> QED
    BY <1>1, <2>5, <2>6 DEF HoldersSound
<1>6. CASE RunStop \/ (RunDrain /\ queue = << >>)
  <2>1. PICK pc \in {"drain", "stopped"} : RunTo(pc)
    BY <1>6 DEF RunStop, RunDrain
  <2>2. ~Busy /\ UNCHANGED queue
    BY <1>6 DEF RunStop, RunDrain, Busy
  <2>3. run'.pc = pc
    BY <2>1, RunMoved DEF RunPcs
  <2> QED
    BY <1>0, <1>1, <2>2, <2>3, NoneMoves DEF HoldersSound, LeftIsSettled
<1>7. CASE \/ RunFresh \/ EmitActivate \/ EmitBegin \/ StreamFrame \/ StreamEnd \/ EmitCross
           \/ EmitRefused \/ EmitAudio \/ EmitAudioFails \/ EmitSettle \/ EmitEnd
  <2>1. Busy /\ UNCHANGED queue
    BY <1>7 DEF Busy, RunFresh, EmitActivate, EmitBegin, StreamFrame, StreamEnd, EmitCross,
                EmitRefused, EmitAudio, EmitAudioFails, EmitSettle, EmitEnd
  <2>2. /\ run'.u = run.u
        /\ run'.pc \in {"activate", "begin", "frame", "settle", "emit", "audio", "end", "clear"}
        /\ run'.pc = "end" => EmitSettle
        /\ run'.pc = "clear" => EmitEnd
    <3>1. CASE StreamEnd
      BY <1>0, <3>1 DEF StreamEnd, RunState
    <3>2. CASE EmitAudio
      BY <1>0, <3>2 DEF EmitAudio, RunState
    <3>3. CASE ~StreamEnd /\ ~EmitAudio
      <4>1. PICK pc \in {"activate", "begin", "frame", "settle", "emit", "audio", "end", "clear"} :
               /\ RunTo(pc) /\ (pc = "end" => EmitSettle) /\ (pc = "clear" => EmitEnd)
        <5>1. CASE RunFresh \/ EmitActivate \/ StreamFrame \/ EmitCross
          BY <5>1 DEF RunFresh, EmitActivate, StreamFrame, EmitCross
        <5>2. CASE EmitBegin \/ EmitRefused \/ EmitAudioFails
          BY <5>2 DEF EmitBegin, EmitRefused, EmitAudioFails
        <5>3. CASE EmitSettle \/ EmitEnd
          BY <5>3 DEF EmitSettle, EmitEnd
        <5> QED
          BY <1>7, <3>3, <5>1, <5>2, <5>3
      <4> QED
        BY <4>1, RunMoved DEF RunPcs
    <3> QED
      BY <3>1, <3>2, <3>3
  <2>3. Busy'
    BY <2>2 DEF Busy
  <2>4. AcceptedIsPlaced'
    BY <1>0, <2>1, <2>2, <2>3, NoneMoves
  <2>5. LeftIsSettled'
    <3>1. PICK h \in Ids : h = run.u
      BY <1>0, <2>1
    <3>2. CASE EmitSettle
      <4>1. CASE Cancel(h)
        <5>1. Terminal(state'[h])
          BY <1>0, <4>1, CancelEnds
        <5> QED
          BY <2>2, <3>1, <5>1 DEF LeftIsSettled
      <4>2. CASE Terminal(state[h])
        BY <2>2, <3>1, <4>2 DEF LeftIsSettled
      <4>3. CASE Complete(h, run.played)
        <5>1. Terminal(state'[h])
          BY <1>0, <4>3 DEF Complete, LedgerTypeOK, Terminal
        <5> QED
          BY <2>2, <3>1, <5>1 DEF LeftIsSettled
      <4> QED
        BY <3>1, <3>2, <4>1, <4>2, <4>3 DEF EmitSettle, Settle
    <3>3. CASE EmitEnd
      BY <2>2, <3>1, <3>3 DEF EmitEnd, HoldersSound, LeftIsSettled
    <3>4. CASE ~EmitSettle /\ ~EmitEnd
      BY <2>2, <3>4 DEF LeftIsSettled
    <3> QED
      BY <3>2, <3>3, <3>4
  <2> QED
    BY <1>1, <2>4, <2>5 DEF HoldersSound
<1> QED
  BY <1>3, <1>4, <1>5, <1>6, <1>7 DEF Run

\* A call that stops speech settles what it takes, or keeps it to put it back.
LEMMA CancelPlaces ==
  ASSUME SpeechTypeOK, Owned, HeardIsCrossed, HoldersSound, NEW c \in Cancellers, CancelCall(c),
         \A v \in Ids : Ended(v) => Ended(v)',
         \A v \in Ids : Terminal(state[v]) => Terminal(state'[v])
  PROVE  HoldersSound'
<1>0. /\ LedgerTypeOK /\ UNCHANGED <<enq, run>> /\ AcceptedIsPlaced /\ (Busy => run.u \in Ids)
      /\ canc \in [Cancellers -> Canc] /\ KeptIsPutBack
  BY DEF SpeechTypeOK, Canc, HoldersSound, Owned, OneOwner, CancelCall, CancelBody, CloseSession,
         CancelStart, MatchStart, ClosePlanner, CancelCtx, StopLookup, StopCancel, DrainStop, DrainKeep,
         DrainEnd, PutBack, OweCrossed, OweOne, OweEnd, cancSame
<1>1. (Busy' <=> Busy) /\ LeftIsSettled'
  BY <1>0 DEF HoldersSound, LeftIsSettled, Busy
<1>2. CASE DrainStop(c)
  <2>1. queue # << >> /\ queue' = Tail(queue) /\ Cancel(Head(queue).u) /\ UNCHANGED <<canc, lost>>
    BY <1>2 DEF DrainStop
  <2>2. PICK h : h = Head(queue).u /\ h \in Ids
    BY <2>1, HeldAreIds
  <2>3. Terminal(state'[h])
    BY <1>0, <2>1, <2>2, CancelEnds
  <2>a. Discharged(h)'
    BY <1>2, <2>1, <2>2, HeadDischarged DEF DrainStop, cancSame
  <2>4. Placed(h)' /\ \A d \in Cancellers : Kept(d)' = Kept(d)
    BY <2>1, <2>a, <2>3, KeptSame DEF Placed, Ended
  <2>5. AcceptedIsPlaced'
    BY <1>0, <1>1, <2>1, <2>2, <2>4, HeadMoves
  <2>6. KeptIsPutBack'
    BY <1>0, <2>1 DEF KeptIsPutBack, Matching
  <2> QED
    BY <1>1, <2>5, <2>6 DEF HoldersSound
<1>3. CASE DrainKeep(c)
  <2>1. PICK x, k : x = Head(queue) /\ k = canc[c].keep
    OBVIOUS
  <2>2. /\ canc[c].pc = "drain" /\ Matching(c) /\ queue # << >> /\ queue' = Tail(queue)
        /\ canc' = [canc EXCEPT ![c] = [@ EXCEPT !.keep = Append(k, x)]] /\ UNCHANGED lost
    BY <1>0, <1>3, <2>1 DEF DrainKeep
  <2>3. /\ x \in Queued /\ x.u \in Us(queue) /\ k \in Seq(Queued) /\ Distinct(k)
        /\ x.u \notin Us(k)
    BY <1>0, <2>1, <2>2, UsTail DEF SpeechTypeOK, Owned, OneOwner, Canc, Kept
  <2>4. Us(Append(k, x)) = Us(k) \cup {x.u}
    BY <2>3, UsAppend
  <2>5. PICK r : r = [canc[c] EXCEPT !.keep = Append(k, x)]
    OBVIOUS
  <2>6. r.keep = Append(k, x) /\ r.pc = "drain" /\ r.kind = "matching"
    BY <1>0, <2>2, <2>5 DEF Canc, Matching
  <2>7. canc'[c] = r /\ \A d \in Cancellers : d # c => canc'[d] = canc[d]
    BY <1>0, <2>2, <2>5
  <2>8. /\ Kept(c)' = Kept(c) \cup {x.u}
        /\ \A d \in Cancellers : d # c => Kept(d)' = Kept(d)
    <3>1. canc'[c].keep = Append(k, x)
      BY <2>6, <2>7
    <3>2. Kept(c)' = Us(Append(k, x)) /\ Kept(c) = Us(k)
      BY <2>1, <3>1 DEF Kept, Us
    <3> QED
      BY <2>4, <2>7, <3>2, KeptSame
  <2>9. PICK h : h = x.u
    OBVIOUS
  <2>10. Placed(h)'
    BY <2>8, <2>9 DEF Placed
  <2>11. AcceptedIsPlaced'
    BY <1>0, <1>1, <2>1, <2>2, <2>8, <2>9, <2>10, HeadMoves
  <2>12. KeptIsPutBack'
    BY <1>0, <2>6, <2>7 DEF KeptIsPutBack, Matching
  <2> QED
    BY <1>1, <2>11, <2>12 DEF HoldersSound
<1>4. CASE PutBack(c)
  <2>1. PICK x, k : x = Head(k) /\ k = canc[c].keep
    OBVIOUS
  <2>2. /\ canc[c].pc = "putback" /\ k # << >>
        /\ canc' = [canc EXCEPT ![c] = [@ EXCEPT !.keep = Tail(k)]]
        /\ \/ queue' = Append(queue, x) /\ lost' = lost
           \/ queue' = queue /\ lost' = lost \cup {x.u}
    BY <1>0, <1>4, <2>1 DEF PutBack
  <2>3. /\ x \in Queued /\ k \in Seq(Queued) /\ Distinct(k) /\ x.u \in Us(k)
        /\ Us(Tail(k)) = Us(k) \ {x.u}
    BY <1>0, <2>1, <2>2, UsTail DEF Owned, OneOwner, Canc
  <2>4. /\ queue \in Seq(Queued) /\ Distinct(queue) /\ x.u \notin Us(queue)
    BY <2>1, <2>3 DEF SpeechTypeOK, Owned, OneOwner, Kept
  <2>5. PICK r : r = [canc[c] EXCEPT !.keep = Tail(k)]
    OBVIOUS
  <2>6. r.keep = Tail(k) /\ r.pc = "putback" /\ r.kind = canc[c].kind
    BY <1>0, <2>2, <2>5 DEF Canc
  <2>7. canc'[c] = r /\ \A d \in Cancellers : d # c => canc'[d] = canc[d]
    BY <1>0, <2>2, <2>5
  <2>8. /\ Kept(c)' = Kept(c) \ {x.u}
        /\ \A d \in Cancellers : d # c => Kept(d)' = Kept(d)
    <3>1. canc'[c].keep = Tail(k)
      BY <2>6, <2>7
    <3>2. Kept(c)' = Us(Tail(k)) /\ Kept(c) = Us(k)
      BY <2>1, <3>1 DEF Kept, Us
    <3> QED
      BY <2>3, <2>7, <3>2, KeptSame
  <2>9. /\ Us(queue) \subseteq Us(queue)' /\ lost \subseteq lost'
        /\ x.u \in Us(queue)' \/ x.u \in lost'
    <3>1. Us(queue)' = Us(queue')
      BY DEF Us
    <3>2. Us(Append(queue, x)) = Us(queue) \cup {x.u}
      BY <2>3, <2>4, UsAppend
    <3> QED
      BY <2>2, <3>1, <3>2
  <2>10. PICK h : h = x.u
    OBVIOUS
  <2>11. Placed(h)'
    BY <2>9, <2>10 DEF Placed
  <2>12. AcceptedIsPlaced'
    BY <1>0, <1>1, <2>8, <2>9, <2>10, <2>11, OneMoves
  <2>13. KeptIsPutBack'
    BY <1>0, <2>1, <2>2, <2>6, <2>7 DEF KeptIsPutBack, Matching
  <2> QED
    BY <1>1, <2>12, <2>13 DEF HoldersSound
<1>5. CASE ~DrainStop(c) /\ ~DrainKeep(c) /\ ~PutBack(c)
  <2>1. UNCHANGED <<queue, lost>>
    BY <1>5 DEF CancelCall, CancelBody, CloseSession, CancelStart, MatchStart, ClosePlanner, CancelCtx,
                StopLookup, StopCancel, DrainEnd, OweCrossed, OweOne, OweEnd
  <2>2. \A d \in Cancellers : canc'[d].keep = canc[d].keep
    BY <1>5, CancelMoved
  <2>3. AcceptedIsPlaced'
    BY <1>0, <1>1, <2>1, <2>2, NoneMoves
  <2>4. /\ \A d \in Cancellers : d # c => canc'[d] = canc[d]
        /\ \/ canc[c].pc \notin {"drain", "putback"}
           \/ canc'[c].kind = canc[c].kind /\ (canc[c].kind = "matching" => canc'[c].pc = "putback")
           \/ canc[c].keep = << >>
    <3>1. CASE CloseSession(c) \/ CancelStart(c) \/ MatchStart(c)
      BY <1>0, <3>1 DEF CloseSession, CancelStart, MatchStart
    <3>2. CASE ClosePlanner(c) \/ CancelCtx(c) \/ StopLookup(c) \/ StopCancel(c)
      BY <1>0, <3>2 DEF ClosePlanner, CancelCtx, StopLookup, StopCancel, CancTo
    <3>3. CASE DrainEnd(c)
      <4>1. PICK r : /\ r = [canc[c] EXCEPT !.pc = IF Matching(c) THEN "putback" ELSE "returned", !.u = None]
                     /\ canc' = [canc EXCEPT ![c] = r]
        BY <1>0, <3>3 DEF DrainEnd
      <4>2. r.kind = canc[c].kind /\ (canc[c].kind = "matching" => r.pc = "putback")
        BY <1>0, <4>1 DEF Canc, Matching
      <4> QED
        BY <1>0, <4>1, <4>2
    <3>4. CASE OweCrossed(c) \/ OweOne(c) \/ OweEnd(c)
      BY <1>0, <3>4 DEF OweCrossed, OweOne, OweEnd, CancTo
    <3> QED
      BY <1>5, <3>1, <3>2, <3>3, <3>4 DEF CancelCall, CancelBody
  <2>5. KeptIsPutBack'
    BY <1>0, <2>2, <2>4 DEF KeptIsPutBack, Matching
  <2> QED
    BY <1>1, <2>3, <2>5 DEF HoldersSound
<1> QED
  BY <1>2, <1>3, <1>4, <1>5

\* Whoever the planner has an utterance with, Held says so.
LEMMA PlacedIsHeld ==
  ASSUME HoldersSound, NEW u \in Ids, enq[u].pc = "accepted"
  PROVE  Ended(u) \/ u \in lost \/ Held(u)
<1>1. Placed(u)
  BY DEF HoldersSound, AcceptedIsPlaced
<1>2. CASE u \in Us(queue)
  BY <1>2 DEF Us, Held
<1>3. ASSUME NEW c \in Cancellers, u \in Kept(c) PROVE Held(u)
  <2>1. PICK i \in DOMAIN canc[c].keep : canc[c].keep[i].u = u
    BY <1>3 DEF Kept, Us
  <2>2. canc[c].keep # << >>
    BY <2>1
  <2>3. Matching(c) /\ canc[c].pc \in {"drain", "putback"}
    BY <2>2 DEF HoldersSound, KeptIsPutBack
  <2> QED
    BY <2>1, <2>3 DEF Held
<1>4. CASE Busy /\ run.u = u
  BY <1>4 DEF Busy, Held
<1> QED
  BY <1>1, <1>2, <1>3, <1>4 DEF Placed

\* Nothing falls between two goroutines, from the first state on.
LEMMA AlwaysHolders == SpeechSpec => [](UtterancesSound /\ HoldersSound)
<1>1. SpeechInit => HoldersSound
  BY DEF SpeechInit, HoldersSound, AcceptedIsPlaced, KeptIsPutBack, LeftIsSettled, Idle
<1>2. UtterancesSound /\ HoldersSound /\ [SpeechNext]_vars => HoldersSound'
  <2> SUFFICES ASSUME UtterancesSound, HoldersSound, [SpeechNext]_vars PROVE HoldersSound'
    OBVIOUS
  <2>1. SpeechTypeOK /\ Owned /\ HeardIsCrossed /\ OneOwner
    BY DEF UtterancesSound, Owned
  <2>2. \A v \in Ids : Terminal(state[v]) => Terminal(state'[v])
    BY <2>1, PlannerMoves, LedgerMoveSound DEF SpeechTypeOK
  <2>a. \A v \in Ids : Ended(v) => Ended(v)'
    BY <2>1, <2>2, DischargedStays DEF Ended
  <2>3. ASSUME NEW u \in Ids, Enqueue(u) PROVE HoldersSound'
    BY <2>1, <2>2, <2>a, <2>3, EnqueuePlaces
  <2>4. CASE Run
    BY <2>1, <2>2, <2>a, <2>4, RunPlaces
  <2>5. ASSUME NEW c \in Cancellers, CancelCall(c) PROVE HoldersSound'
    BY <2>1, <2>2, <2>a, <2>5, CancelPlaces
  <2>6. CASE UNCHANGED vars
    <3>1. UNCHANGED <<queue, lost, canc, run, enq, state>>
      BY <2>6 DEF vars, speechVars, ledgerVars
    <3>2. AcceptedIsPlaced'
      BY <2>a, <3>1, NoneMoves DEF HoldersSound, Busy
    <3> QED
      BY <3>1, <3>2 DEF HoldersSound, KeptIsPutBack, LeftIsSettled, Matching
  <2> QED
    BY <2>3, <2>4, <2>5, <2>6 DEF SpeechNext
<1> QED
  BY <1>1, <1>2, AlwaysUtterancesSound, PTL DEF SpeechSpec

\* An accepted utterance is settled, in the channel, with a CancelMatching that has
\* yet to put it back, or with Run, for any utterances and callers and however
\* their steps interleave: only one that CancelMatching found no room for is lost
\* (speech.go: CancelMatching).
THEOREM SpeechLosesNoUtterance == SpeechSpec => []AcceptedIsHeld
<1>1. HoldersSound => AcceptedIsHeld
  BY PlacedIsHeld DEF AcceptedIsHeld, Ended
<1> QED
  BY <1>1, AlwaysHolders, PTL

\* The sink's reservation is discharged once: never twice, by two CancelReservations,
\* two Begins or one of each, and not left open either, once Enqueue has returned
\* and no goroutine has the utterance, unless CancelMatching found no room for it
\* (speech.go: Enqueue, Run, Cancel, CancelMatching, drain and emit between them).
THEOREM SpeechDischargesOnce == SpeechSpec => []ReservationDischargedOnce
<1>1. UtterancesSound /\ HoldersSound => ReservationDischargedOnce
  <2> SUFFICES ASSUME UtterancesSound, HoldersSound, NEW u \in Ids
               PROVE  /\ reserved[u]["reserve"] <= 1
                      /\ reserved[u]["cancel"] + reserved[u]["begin"] <= reserved[u]["reserve"]
                      /\ ends[u] <= reserved[u]["begin"]
                      /\ enq[u].pc \in {"accepted", "refused"} /\ ~Held(u) /\ u \notin lost =>
                           /\ reserved[u]["cancel"] + reserved[u]["begin"] = reserved[u]["reserve"]
                           /\ ends[u] = reserved[u]["begin"]
    BY DEF ReservationDischargedOnce
  <2>1. History(reserved[u], ends[u])
    BY DEF UtterancesSound, HistoriesSound
  <2>2. CASE enq[u].pc = "refused"
    <3>1. ends[u] = 0 /\ (Seen(reserved[u], 0, 0, 0) \/ Seen(reserved[u], 1, 1, 0))
      BY <2>2 DEF UtterancesSound, NotYetAccepted
    <3> QED
      BY <3>1 DEF Seen
  <2>3. CASE enq[u].pc = "accepted"
    <3>1. ~Held(u) /\ u \notin lost => Discharged(u)
      BY <2>3, PlacedIsHeld DEF Ended
    <3> QED
      BY <2>1, <2>3, <3>1 DEF History, Discharged, Seen
  <2>4. CASE enq[u].pc \notin {"accepted", "refused"}
    BY <2>1, <2>4 DEF History, Seen
  <2> QED
    BY <2>2, <2>3, <2>4
<1> QED
  BY <1>1, AlwaysHolders, PTL

-----------------------------------------------------------------------------
\* Tool dispatch.

\* Where an attempt holds the commitment of its call, and has no effect yet.
Before == {"confirm", "deny", "queue", "emit", "effect"}

Active == Before \cup {"complete", "store"}

AttemptsTypeOK ==
  /\ state \in [Ids -> States \cup {"absent"}]
  /\ att \in [Attempts -> [pc : Pcs, out : {"none", "result", "error"}]]
  /\ effects \in [CallIds -> Nat]

\* One attempt holds the commitment, which then exists.
HeldByOne ==
  \A a \in Attempts : att[a].pc \in Active =>
    /\ state[CallOf[a]] # "absent"
    /\ \A b \in Attempts : CallOf[b] = CallOf[a] /\ att[b].pc \in Active => b = a

\* An attempt that can still set its effect off is the first to.
EffectAhead ==
  /\ \A a \in Attempts : att[a].pc \in Before => effects[CallOf[a]] = 0
  /\ \A c \in CallIds : effects[c] > 0 => state[c] # "absent"

\* What an attempt has been through.
Checked ==
  \A a \in Attempts :
    /\ att[a].pc \in Active \cup {"claim", "prepare"} => CallOf[a] \in Authoritative
    /\ att[a].pc \in {"queue", "emit", "effect"} => CallOf[a] \in approved
    /\ att[a].pc = "effect" => Crossed(state[CallOf[a]])

ToolsInv == /\ AttemptsTypeOK /\ HeldByOne /\ EffectAhead /\ Checked
            /\ EffectAtMostOnce /\ EffectIsAuthorized

-----------------------------------------------------------------------------
\* A step of a dispatch or of a speech operation is a step of the ledger or leaves
\* it alone.
LEMMA ToolsStepIsLedgerStep ==
  ASSUME ToolsNext
  PROVE  [LedgerNext]_ledgerVars
<1> USE LedgerAssumption, ToolsAssumption
<1>0. 0 \in 0..MaxMS
  OBVIOUS
<1>1. ASSUME NEW a \in Attempts, Attempt(a)
      PROVE  [LedgerNext]_ledgerVars
  <2>1. CallOf[a] \in Ids /\ CallOf[a] \in CallIds
    OBVIOUS
  <2>2. CASE Authorize(a)
    BY <2>1, <2>2 DEF Authorize, LedgerNext
  <2>3. CASE Deny(a)
    BY <2>1, <2>3 DEF Deny, LedgerNext
  <2>4. CASE QueueCall(a)
    BY <2>1, <2>4 DEF QueueCall, LedgerNext
  <2>5. CASE EmitCall(a)
    BY <2>1, <2>5 DEF EmitCall, LedgerNext
  <2>6. CASE CompleteCall(a)
    BY <1>0, <2>1, <2>6 DEF CompleteCall, LedgerNext
  <2>7. CASE CheckAuthority(a) \/ ClaimCall(a) \/ Confirm(a) \/ Effect(a)
              \/ StoreResult(a) \/ LeaveDispatch(a)
    BY <2>7 DEF CheckAuthority, ClaimCall, Confirm, Effect, StoreResult, LeaveDispatch
  <2> QED
    BY <1>1, <2>2, <2>3, <2>4, <2>5, <2>6, <2>7 DEF Attempt
<1>2. ASSUME NEW c \in CallIds, CompleteRemote(c)
      PROVE  [LedgerNext]_ledgerVars
  BY <1>0, <1>2 DEF CompleteRemote, LedgerNext
<1>3. ASSUME NEW id \in Ids \ CallIds, SpeechOperation(id)
      PROVE  [LedgerNext]_ledgerVars
  BY <1>3 DEF SpeechOperation, LedgerNext
<1> QED
  BY <1>1, <1>2, <1>3 DEF ToolsNext

\* Dispatch keeps to the ledger's operations, each under its own guard.
THEOREM ToolsImplementLedger == ToolsSpec => LedgerSpec
<1>1. ToolsInit => LedgerInit
  BY DEF ToolsInit
<1>2. [ToolsNext]_dispatchVars => [LedgerNext]_ledgerVars
  BY ToolsStepIsLedgerStep DEF dispatchVars, ledgerVars
<1> QED
  BY <1>1, <1>2, PTL DEF ToolsSpec, LedgerSpec

\* Repairs are owed soundly in a ledger that calls and speech share.
THEOREM ToolsObligations == ToolsSpec => []ObligationsSound
  BY ToolsImplementLedger, LedgerObligations, PTL

\* The commit boundary holds for dispatch: nothing that ran is taken back.
THEOREM ToolsImplementBoundary == ToolsSpec => ImplementsBoundary
  BY ToolsImplementLedger, LedgerImplementsBoundary, PTL

-----------------------------------------------------------------------------
\* The inductive step: the action of one attempt leaves the others where they are.
LEMMA ToolsInvStep ==
  ASSUME ToolsInv, [ToolsNext]_dispatchVars
  PROVE  ToolsInv'
<1> USE LedgerAssumption, ToolsAssumption
<1>1. CASE UNCHANGED dispatchVars
  BY <1>1 DEF dispatchVars, ledgerVars, toolsVars, ToolsInv, AttemptsTypeOK, HeldByOne, EffectAhead, Checked,
     EffectAtMostOnce, EffectIsAuthorized
<1>2. ASSUME NEW a \in Attempts, Attempt(a) PROVE ToolsInv'
  <2> DEFINE Moves(pcs) == /\ att' \in [Attempts -> [pc : Pcs, out : {"none", "result", "error"}]]
                           /\ \A b \in Attempts \ {a} : att'[b] = att[b]
                           /\ att'[a].pc \in pcs
  <2>0. ASSUME NEW pc \in Pcs, To(a, pc)
        PROVE  Moves({pc})
    BY <2>0 DEF To, ToolsInv, AttemptsTypeOK
  <2>a. ASSUME Fail(a)
        PROVE  Moves({"leave", "returned"})
    BY <2>a DEF Fail, ToolsInv, AttemptsTypeOK, Pcs
  <2> USE DEF ToolsInv, AttemptsTypeOK, HeldByOne, EffectAhead, Checked, EffectAtMostOnce,
          EffectIsAuthorized, Before, Active, Pcs, States, Crossed, ledgerVars
  <2>1. CASE CheckAuthority(a)
    <3>1. \/ CallOf[a] \in Authoritative /\ Moves({"prepare", "claim"})
          \/ Moves({"returned"})
      BY <2>0, <2>1 DEF CheckAuthority
    <3> QED
      BY <2>1, <3>1, SMTT(30) DEF CheckAuthority
  <2>2. CASE ClaimCall(a)
    <3>1. Moves({"prepare", "returned"})
      BY <2>0, <2>2 DEF ClaimCall
    <3> QED
      BY <2>2, <3>1, SMTT(30) DEF ClaimCall
  <2>3. CASE Authorize(a)
    <3>1. CASE state[CallOf[a]] = "absent"
      <4>1. Moves({"confirm"}) /\ state' = [state EXCEPT ![CallOf[a]] = "prepared"]
        BY <2>0, <2>3, <3>1 DEF Authorize, Prepare
      <4>2. \A b \in Attempts : CallOf[b] = CallOf[a] => att[b].pc \notin Active
        BY <3>1
      <4>3. att[a].pc = "prepare" /\ UNCHANGED <<effects, approved>>
        BY <2>3 DEF Authorize
      <4>5. AttemptsTypeOK'
        BY <3>1, <4>1, <4>2, <4>3
      <4>6. HeldByOne'
        BY <3>1, <4>1, <4>2, <4>3
      <4>7. EffectAhead'
        BY <3>1, <4>1, <4>2, <4>3
      <4>8. Checked'
        BY <3>1, <4>1, <4>2, <4>3
      <4>9. EffectAtMostOnce' /\ EffectIsAuthorized'
        BY <3>1, <4>1, <4>2, <4>3
      <4> QED
        BY <4>5, <4>6, <4>7, <4>8, <4>9 DEF ToolsInv
    <3>2. CASE state[CallOf[a]] # "absent"
      <4>1. Moves({"leave", "returned"}) /\ UNCHANGED <<state, effects, approved>>
        BY <2>3, <2>a, <3>2 DEF Authorize
      <4>5. AttemptsTypeOK'
        BY <4>1
      <4>6. HeldByOne'
        BY <4>1, SMTT(30)
      <4>7. EffectAhead'
        BY <4>1
      <4>8. Checked'
        BY <4>1
      <4>9. EffectAtMostOnce' /\ EffectIsAuthorized'
        BY <4>1
      <4> QED
        BY <4>5, <4>6, <4>7, <4>8, <4>9 DEF ToolsInv
    <3> QED
      BY <3>1, <3>2
  <2>4. CASE Confirm(a)
    BY <2>4 DEF Confirm, To
  <2>5. CASE Deny(a)
    BY <2>5 DEF Deny, Cancel, AfterCancel, Terminal, Fail
  <2>6. CASE QueueCall(a)
    BY <2>6, SMTT(30) DEF QueueCall, Queue, Transition, To
  <2>7. CASE EmitCall(a)
    <3>1. CASE Terminal(state[CallOf[a]])
      BY <2>7, <2>a, <3>1 DEF EmitCall
    <3>2. CASE ~Terminal(state[CallOf[a]])
      <4>1. Moves({"effect"}) /\ state' = [state EXCEPT ![CallOf[a]] = "emitting"]
        BY <2>0, <2>7, <3>2 DEF EmitCall, Emit, Transition
      <4>2. att[a].pc = "emit" /\ UNCHANGED <<effects, approved>>
        BY <2>7 DEF EmitCall
      <4>5. AttemptsTypeOK'
        BY <4>1, <4>2
      <4>6. HeldByOne'
        BY <4>1, <4>2
      <4>7. EffectAhead'
        BY <4>1, <4>2
      <4>8. Checked'
        BY <4>1, <4>2
      <4>9. EffectAtMostOnce' /\ EffectIsAuthorized'
        BY <4>1, <4>2
      <4> QED
        BY <4>5, <4>6, <4>7, <4>8, <4>9 DEF ToolsInv
    <3> QED
      BY <3>1, <3>2
  <2>8. CASE Effect(a)
    BY <2>8, SMTT(30) DEF Effect, To
  <2>9. CASE CompleteCall(a)
    <3>1. Moves({"store", "leave", "returned"})
      BY <2>0, <2>9, <2>a DEF CompleteCall
    <3>2. \/ UNCHANGED state
          \/ state' = [state EXCEPT ![CallOf[a]] = "played"]
      BY <2>9 DEF CompleteCall, Complete
    <3>3. att[a].pc = "complete" /\ UNCHANGED <<effects, approved>>
      BY <2>9 DEF CompleteCall
    <3>5. AttemptsTypeOK'
      BY <3>1, <3>2, <3>3
    <3>6. HeldByOne'
      BY <3>1, <3>2, <3>3
    <3>7. EffectAhead'
      BY <3>1, <3>2, <3>3
    <3>8. Checked'
      BY <3>1, <3>2, <3>3
    <3>9. EffectAtMostOnce' /\ EffectIsAuthorized'
      BY <3>1, <3>2, <3>3
    <3> QED
      BY <3>5, <3>6, <3>7, <3>8, <3>9 DEF ToolsInv
  <2>10. CASE StoreResult(a)
    BY <2>10 DEF StoreResult
  <2>11. CASE LeaveDispatch(a)
    BY <2>11 DEF LeaveDispatch, To
  <2> QED
    BY <1>2, <2>1, <2>2, <2>3, <2>4, <2>5, <2>6, <2>7, <2>8, <2>9, <2>10, <2>11 DEF Attempt
<1>3. ASSUME NEW c \in CallIds, CompleteRemote(c) PROVE ToolsInv'
  BY <1>3 DEF CompleteRemote, Complete, toolsVars, ToolsInv, AttemptsTypeOK, HeldByOne, EffectAhead,
     Checked, EffectAtMostOnce, EffectIsAuthorized, Crossed, States
<1>4. ASSUME NEW id \in Ids \ CallIds, SpeechOperation(id) PROVE ToolsInv'
  <2>1. \/ UNCHANGED state
        \/ \E s \in States : state' = [state EXCEPT ![id] = s]
    BY <1>4 DEF SpeechOperation, Prepare, Queue, Emit, Transition, Cancel, AfterCancel, Terminal,
       Crossed, Complete, Truncated, Invalidate, ResolveObligation, States, ToolsInv, AttemptsTypeOK
  <2>2. /\ state' \in [Ids -> States \cup {"absent"}]
        /\ \A c \in CallIds : state'[c] = state[c]
    BY <2>1 DEF ToolsInv, AttemptsTypeOK
  <2> QED
    BY <1>4, <2>2 DEF SpeechOperation, toolsVars, ToolsInv, AttemptsTypeOK, HeldByOne, EffectAhead,
       Checked, EffectAtMostOnce, EffectIsAuthorized
<1> QED
  BY <1>1, <1>2, <1>3, <1>4 DEF ToolsNext

\* The inductive invariant: one holder, no effect before it, and what it passed.
LEMMA ToolsInvariant == ToolsSpec => []ToolsInv
<1>1. ToolsInit => ToolsInv
  BY ToolsAssumption DEF ToolsInit, LedgerInit, ToolsInv, AttemptsTypeOK, HeldByOne, EffectAhead, Checked,
     EffectAtMostOnce, EffectIsAuthorized, Before, Active, Pcs
<1> QED
  BY <1>1, ToolsInvStep, PTL DEF ToolsSpec

\* A call takes effect at most once, however many attempts are made for it and
\* however they interleave (EffectAtMostOnce).
THEOREM ToolsEffectOnce == ToolsSpec => []EffectAtMostOnce
  BY ToolsInvariant, PTL DEF ToolsInv

\* Whatever took effect was authoritative, approved and recorded as crossed
\* (EffectIsAuthorized).
THEOREM ToolsEffectAuthorized == ToolsSpec => []EffectIsAuthorized
  BY ToolsInvariant, PTL DEF ToolsInv

-----------------------------------------------------------------------------
\* The calls in flight.

\* An attempt between Dispatch's claim and its deferred function.
Dispatching(a) == CallOf[a] \notin Remote /\ att[a].pc \notin {"new", "claim", "returned"}

\* A call is in flight when, and only when, one attempt runs it here.
InFlightSound ==
  /\ results \subseteq CallIds /\ approved \subseteq CallIds
  /\ inFlight = {CallOf[a] : a \in {b \in Attempts : Dispatching(b)}}
  /\ \A a, b \in Attempts : Dispatching(a) /\ Dispatching(b) /\ CallOf[a] = CallOf[b] => a = b
  /\ \A a \in Attempts : att[a].pc = "claim" => CallOf[a] \notin Remote

\* Most steps leave who is dispatching what as it was.
LEMMA InFlightKept ==
  ASSUME InFlightSound, inFlight' = inFlight, results' \subseteq CallIds, approved' \subseteq CallIds,
         \A b \in Attempts : /\ Dispatching(b)' <=> Dispatching(b)
                             /\ att'[b].pc = "claim" => att[b].pc = "claim" \/ CallOf[b] \notin Remote
  PROVE  InFlightSound'
BY DEF InFlightSound

\* An attempt that goes on from where it dispatches still dispatches.
LEMMA GoesOn ==
  ASSUME AttemptsTypeOK, NEW a \in Attempts,
         att[a].pc \notin {"new", "claim", "returned"},
         NEW x, att' = [att EXCEPT ![a] = x], x.pc # "claim",
         CallOf[a] \notin Remote => x.pc \notin {"new", "claim", "returned"}
  PROVE  \A b \in Attempts : (Dispatching(b)' <=> Dispatching(b)) /\ (att'[b].pc = "claim" => att[b].pc = "claim")
BY DEF AttemptsTypeOK, Dispatching

LEMMA InFlightStep ==
  ASSUME AttemptsTypeOK, InFlightSound, [ToolsNext]_dispatchVars
  PROVE  InFlightSound'
<1> USE ToolsAssumption
<1>1. results \subseteq CallIds /\ approved \subseteq CallIds
  BY DEF InFlightSound
<1>2. CASE UNCHANGED toolsVars
  BY <1>1, <1>2, InFlightKept DEF toolsVars, Dispatching
<1>3. CASE UNCHANGED dispatchVars
  BY <1>2, <1>3 DEF dispatchVars
<1>4. ASSUME NEW a \in Attempts, Attempt(a) PROVE InFlightSound'
  <2>1. CallOf[a] \in CallIds
    OBVIOUS
  <2> DEFINE Goes(x) == /\ att' = [att EXCEPT ![a] = x] /\ x.pc # "claim"
                        /\ CallOf[a] \notin Remote => x.pc \notin {"new", "claim", "returned"}
  <2>2. ASSUME NEW pc, To(a, pc), pc \notin {"new", "claim", "returned"} PROVE \E x : Goes(x)
    <3>1. Goes([att[a] EXCEPT !.pc = pc])
      BY <2>2 DEF To, AttemptsTypeOK
    <3> HIDE DEF Goes
    <3> QED
      BY <3>1
  <2>3. ASSUME Fail(a) PROVE \E x : Goes(x)
    <3>1. Goes([pc |-> IF IsRemote(a) THEN "returned" ELSE "leave", out |-> "error"])
      BY <2>3 DEF Fail, IsRemote
    <3> HIDE DEF Goes
    <3> QED
      BY <3>1
  <2>4. ASSUME att[a].pc \notin {"new", "claim", "returned"}, \E x : Goes(x), inFlight' = inFlight,
               results' \subseteq CallIds, approved' \subseteq CallIds
        PROVE  InFlightSound'
    <3>1. \A b \in Attempts : (Dispatching(b)' <=> Dispatching(b)) /\ (att'[b].pc = "claim" => att[b].pc = "claim")
      BY <2>4, GoesOn
    <3> QED
      BY <2>4, <3>1, InFlightKept
  <2>5. CASE CheckAuthority(a)
    <3>1. \A b \in Attempts : /\ Dispatching(b)' <=> Dispatching(b)
                              /\ att'[b].pc = "claim" => att[b].pc = "claim" \/ CallOf[b] \notin Remote
      BY <2>5 DEF CheckAuthority, To, IsRemote, Dispatching, AttemptsTypeOK
    <3> QED
      BY <1>1, <2>5, <3>1, InFlightKept DEF CheckAuthority
  <2>6. CASE ClaimCall(a)
    <3>1. att[a].pc = "claim" /\ CallOf[a] \notin Remote /\ UNCHANGED <<results, approved>>
      BY <2>6 DEF ClaimCall, InFlightSound
    <3>2. CASE att'[a].pc = "returned" /\ inFlight' = inFlight /\ \A b \in Attempts \ {a} : att'[b] = att[b]
      BY <1>1, <3>1, <3>2, InFlightKept DEF Dispatching
    <3>3. CASE /\ CallOf[a] \notin inFlight /\ inFlight' = inFlight \cup {CallOf[a]}
               /\ att'[a].pc = "prepare" /\ \A b \in Attempts \ {a} : att'[b] = att[b]
      <4>1. \A b \in Attempts \ {a} : Dispatching(b)' <=> Dispatching(b)
        BY <3>3 DEF Dispatching
      <4>2. ~Dispatching(a) /\ Dispatching(a)'
        BY <3>1, <3>3 DEF Dispatching
      <4>3. \A b \in Attempts : Dispatching(b) => CallOf[b] # CallOf[a]
        BY <3>3 DEF InFlightSound
      <4> QED
        BY <1>1, <3>1, <3>3, <4>1, <4>2, <4>3 DEF InFlightSound
    <3> QED
      BY <2>6, <3>2, <3>3 DEF ClaimCall, To, AttemptsTypeOK
  <2>7. CASE Authorize(a)
    BY <1>1, <2>2, <2>3, <2>4, <2>7 DEF Authorize
  <2>8. CASE Confirm(a)
    <3>1. approved' \subseteq CallIds
      BY <1>1, <2>1, <2>8 DEF Confirm
    <3> QED
      BY <1>1, <2>2, <2>4, <2>8, <3>1 DEF Confirm
  <2>9. CASE Deny(a)
    BY <1>1, <2>3, <2>4, <2>9 DEF Deny
  <2>10. CASE QueueCall(a)
    BY <1>1, <2>2, <2>4, <2>10 DEF QueueCall
  <2>11. CASE EmitCall(a)
    BY <1>1, <2>2, <2>3, <2>4, <2>11 DEF EmitCall
  <2>12. CASE Effect(a)
    <3>1. \E x : Goes(x)
      <4>1. CASE IsRemote(a)
        <5>1. Goes([pc |-> "returned", out |-> "result"])
          BY <2>12, <4>1 DEF Effect, IsRemote
        <5> HIDE DEF Goes
        <5> QED
          BY <5>1
      <4>2. CASE ~IsRemote(a)
        BY <2>2, <2>12, <4>2 DEF Effect
      <4> QED
        BY <4>1, <4>2
    <3> QED
      BY <1>1, <2>4, <2>12, <3>1 DEF Effect
  <2>13. CASE CompleteCall(a)
    BY <1>1, <2>2, <2>3, <2>4, <2>13 DEF CompleteCall
  <2>14. CASE StoreResult(a)
    <3>1. Goes([pc |-> "leave", out |-> "result"])
      BY <2>14 DEF StoreResult
    <3>2. results' \subseteq CallIds
      BY <1>1, <2>1, <2>14 DEF StoreResult
    <3> HIDE DEF Goes
    <3> QED
      BY <1>1, <2>4, <2>14, <3>1, <3>2 DEF StoreResult
  <2>15. CASE LeaveDispatch(a)
    <3>1. /\ att[a].pc = "leave" /\ att'[a].pc = "returned" /\ inFlight' = inFlight \ {CallOf[a]}
          /\ \A b \in Attempts \ {a} : att'[b] = att[b]
          /\ UNCHANGED <<results, approved>>
      BY <2>15 DEF LeaveDispatch, To, AttemptsTypeOK
    <3>2. \A b \in Attempts \ {a} : Dispatching(b)' <=> Dispatching(b)
      BY <3>1 DEF Dispatching
    <3>3. ~Dispatching(a)' /\ (Dispatching(a) <=> CallOf[a] \notin Remote)
      BY <3>1 DEF Dispatching
    <3>4. \A b \in Attempts : Dispatching(b) /\ CallOf[b] = CallOf[a] => b = a
      BY <3>3 DEF InFlightSound, Dispatching
    <3> QED
      BY <1>1, <3>1, <3>2, <3>3, <3>4 DEF InFlightSound
  <2> QED
    BY <1>4, <2>5, <2>6, <2>7, <2>8, <2>9, <2>10, <2>11, <2>12, <2>13, <2>14, <2>15 DEF Attempt
<1> QED
  BY <1>2, <1>3, <1>4 DEF ToolsNext, CompleteRemote, SpeechOperation

\* Type correctness of dispatch: inFlight names exactly the calls an attempt runs
\* here, so every way out of Dispatch drops its entry and none drops another's
\* (tools.go: the deferred function of Dispatch).
THEOREM ToolsTypeCorrect == ToolsSpec => []ToolsTypeOK
<1>1. ToolsInit => InFlightSound
  BY DEF ToolsInit, InFlightSound, Dispatching
<1>2. LedgerTypeOK /\ AttemptsTypeOK /\ InFlightSound => ToolsTypeOK
  BY DEF AttemptsTypeOK, InFlightSound, ToolsTypeOK, Dispatching
<1>3. ToolsInv => AttemptsTypeOK
  BY DEF ToolsInv
<1> QED
  BY <1>1, <1>2, <1>3, InFlightStep, ToolsInvariant, ToolsImplementLedger, LedgerTypeCorrect, PTL DEF ToolsSpec
=============================================================================
