--------------------------- MODULE SessionProofs ---------------------------
(***************************************************************************)
(* The session's shared state: the event coordinator, for any submissions, *)
(* drivers and committers, and the duplex state, for any frames and any    *)
(* number of timers.                                                       *)
(*                                                                         *)
(* That one continuation is in flight is inductive with the shape of what  *)
(* it speaks of (RunInv).  Everything else about the coordinator rests on  *)
(* where an event can be: handed to a run, in a deferred group, in the     *)
(* hands of the one holder of commitMu, or pending; a submission is in one *)
(* of these places only, and in one deferred group at most (Places).  An   *)
(* event that interrupts was submitted before the run that answers it      *)
(* began, so it captured an earlier epoch; and every step moves events     *)
(* from one place to the next, which is what Delivery allows.  That none   *)
(* is lost or overtaken is about sequences: the events known are those     *)
(* handed over or deferred, then those in hand, then those pending, and    *)
(* the log is a prefix of that order (OrderSound).  What a refused event   *)
(* costs the others follows from where an item stands: no earlier than its *)
(* event, unless a signal is before it (ItemsFollow); so each event left   *)
(* out of a batch so far is a refused one or is explained by one           *)
(* (BlameSound).                                                           *)
(*                                                                         *)
(* No event waits unseen: who takes the token still has to look, and who   *)
(* makes work for others still has to signal (OwedSound).                  *)
(*                                                                         *)
(* The duplex state's steps are the floor's because whoever can still make *)
(* a transition, a timer that is armed or has fired and the speaker that   *)
(* read the clock, has published its last one (NothingOwed).               *)
(*                                                                         *)
(* The end of its audio is timed because whoever stops or outdates a timer *)
(* arms one, a callback that finds audio left arms the next, and a clock   *)
(* value is used before it is too old (PlayoutSound).                      *)
(***************************************************************************)
EXTENDS EventLoop, Duplex, SequenceFacts

\* The shape of what a goroutine keeps; the queues' element types do not matter
\* to which run is in flight.
Fields == {"pc", "queued", "batch", "snapshot", "offered", "run", "epoch", "failed"}

WorkShape ==
  /\ DOMAIN work = Workers
  /\ \A w \in Workers : DOMAIN work[w] = Fields

\* A goroutine that starts over has the same fields, and no epoch.
LEMMA AtShape == \A pc : DOMAIN At(pc) = Fields /\ At(pc).pc = pc /\ At(pc).epoch = 0
  BY DEF At, Fields

\* The inductive invariant: OneActiveRun with the shape of what it speaks of.
RunInv == /\ WorkShape
          /\ activeEpoch \in Nat
          /\ active \in BOOLEAN
          /\ OneActiveRun

\* No run is in flight at first.
LEMMA InitRunInv == EventLoopInit => RunInv
<1> SUFFICES ASSUME EventLoopInit PROVE RunInv
  OBVIOUS
<1>1. \A w \in Workers : work[w] = At(IF w \in Drivers THEN "wait" ELSE "idle")
  BY DEF EventLoopInit
<1>2. \A w \in Workers : work[w].epoch = 0
  BY <1>1, AtShape
<1>3. WorkShape
  BY <1>1, AtShape DEF EventLoopInit, WorkShape
<1>4. active = FALSE /\ activeEpoch = 0
  BY DEF EventLoopInit
<1> QED
  BY <1>2, <1>3, <1>4 DEF RunInv, OneActiveRun, Continues

\* No step of Commit touches a run.
LEMMA CommitRunInv ==
  ASSUME RunInv, NEW w \in Workers, Commit(w)
  PROVE  RunInv'
<1> USE DEF RunInv, WorkShape, Fields, OneActiveRun, Continues, To, At, commitSame, runVars
<1>1. CASE CommitIdle(w)
  BY <1>1 DEF CommitIdle, AfterCommit
<1>2. CASE CommitTake(w)
  BY <1>2 DEF CommitTake
<1>3. CASE CommitCompile(w)
  BY <1>3 DEF CommitCompile, CommitFails, AfterError
<1>4. CASE CommitConflict(w)
  BY <1>4 DEF CommitConflict
<1>5. CASE CommitRefused(w)
  BY <1>5 DEF CommitRefused, CommitFails, AfterError
<1>6. CASE CommitAppend(w)
  BY <1>6 DEF CommitAppend
<1>7. CASE CommitPublish(w)
  BY <1>7 DEF CommitPublish
<1>8. CASE CommitNotify(w)
  BY <1>8 DEF CommitNotify, AfterCommit
<1> QED
  BY <1>1, <1>2, <1>3, <1>4, <1>5, <1>6, <1>7, <1>8 DEF Commit

\* A driver starts a continuation only when none is in flight, and the one that
\* ends clears what it set.
LEMMA DriveRunInv ==
  ASSUME RunInv, NEW w \in Drivers, Drive(w)
  PROVE  RunInv'
<1> USE DEF RunInv, WorkShape, Fields, OneActiveRun, Continues, To, At, runSame, runVars
<1>0. w \in Workers
  BY DEF Workers
<1>1. CASE DriveSignal(w)
  BY <1>0, <1>1 DEF DriveSignal
<1>2. CASE DrainLoop(w)
  BY <1>0, <1>2 DEF DrainLoop
<1>3. CASE RunNothing(w)
  BY <1>0, <1>3 DEF RunNothing
<1>4. CASE RunSelect(w)
  BY <1>0, <1>4 DEF RunSelect
<1>5. CASE AdmitRun(w)
  BY <1>0, <1>5 DEF AdmitRun
\* The run that starts is the only one: either none is in flight, or it is a
\* parallel branch without an epoch.
<1>6. CASE RunStart(w)
  BY <1>0, <1>6 DEF RunStart
<1>7. CASE ProcessEnd(w)
  BY <1>0, <1>7 DEF ProcessEnd
\* The run that finishes owns the current epoch, so it clears active.
<1>8. CASE RunFinish(w)
  <2>1. /\ work[w].pc = "finish" /\ activeEpoch' = activeEpoch
        /\ \/ work' = [work EXCEPT ![w].pc = "wake", ![w].run = {}]
           \/ work' = [work EXCEPT ![w] = At(IF work[w].failed THEN "wait" ELSE "loop")]
    BY <1>8 DEF RunFinish, AfterRun
  <2>2. WorkShape' /\ ~Continues(w)'
    BY <1>0, <2>1, AtShape
  <2>3. \A v \in Workers \ {w} : work'[v] = work[v]
    BY <1>0, <2>1
  <2>4. CASE work[w].epoch = 0
    <3>1. active' = active
      BY <1>8, <2>4 DEF RunFinish
    <3> QED
      BY <1>0, <2>1, <2>2, <2>3, <2>4, <3>1
  <2>5. CASE work[w].epoch # 0
    <3>1. active' = FALSE
      BY <1>0, <1>8, <2>1, <2>5 DEF RunFinish
    <3>2. \A v \in Workers : ~Continues(v)'
      <4> SUFFICES ASSUME NEW v \in Workers, v # w PROVE ~Continues(v)'
        BY <2>2
      <4>1. ~Continues(v) /\ work'[v] = work[v]
        BY <1>0, <2>1, <2>3, <2>5
      <4> QED
        BY <4>1
    <3> QED
      BY <2>1, <2>2, <3>1, <3>2
  <2> QED
    BY <2>4, <2>5
<1>9. CASE FinishNotify(w)
  BY <1>0, <1>9 DEF FinishNotify, AfterRun
<1> QED
  BY <1>1, <1>2, <1>3, <1>4, <1>5, <1>6, <1>7, <1>8, <1>9 DEF Drive

LEMMA RunInvStep ==
  ASSUME RunInv, [EventLoopNext]_vars
  PROVE  RunInv'
<1>1. CASE UNCHANGED vars
  BY <1>1 DEF vars, runVars, RunInv, WorkShape, OneActiveRun, Continues
<1>2. ASSUME NEW s \in Submissions, SubmitBatch(s) PROVE RunInv'
  BY <1>2 DEF SubmitBatch, SubmitQueue, SubmitCancel, SubmitNotify, runVars,
              RunInv, WorkShape, OneActiveRun, Continues
<1>3. ASSUME NEW w \in Committers, CommitCall(w) PROVE RunInv'
  BY <1>3 DEF CommitCall, commitSame, runVars, To, Workers,
              RunInv, WorkShape, OneActiveRun, Continues
<1>4. ASSUME NEW w \in Workers, Commit(w) PROVE RunInv'
  BY <1>4, CommitRunInv
<1>5. ASSUME NEW w \in Drivers, Drive(w) PROVE RunInv'
  BY <1>5, DriveRunInv
<1>6. ASSUME NEW w \in Drivers, ProcessAppend(w) PROVE RunInv'
  BY <1>6 DEF ProcessAppend, runSame, runVars, RunInv, WorkShape, OneActiveRun, Continues
<1>7. CASE InterruptCapture \/ InterruptCancel
  BY <1>7 DEF InterruptCapture, InterruptCancel, runVars,
              RunInv, WorkShape, OneActiveRun, Continues
<1>8. CASE Hold \/ Relieve \/ WakeCheck \/ WakeNotify
  BY <1>8 DEF Hold, Relieve, WakeCheck, WakeNotify, gateSame, runVars,
              RunInv, WorkShape, OneActiveRun, Continues
<1> QED
  BY <1>1, <1>2, <1>3, <1>4, <1>5, <1>6, <1>7, <1>8 DEF EventLoopNext

\* At most one continuation is in flight, over any number of drivers and
\* committers, and active and activeEpoch always denote it.
THEOREM EventLoopOneActiveRun == EventLoopSpec => []OneActiveRun
<1>1. EventLoopInit => RunInv
  BY InitRunInv
<1>2. RunInv /\ [EventLoopNext]_vars => RunInv'
  BY RunInvStep
<1>3. RunInv => OneActiveRun
  BY DEF RunInv
<1> QED
  BY <1>1, <1>2, <1>3, PTL DEF EventLoopSpec

-----------------------------------------------------------------------------
\* The duplex state.

Timers == [st : {"idle", "armed", "fired"}, n : Nat]

Speakers == [pc : {"idle", "read"}, age : Nat, duration : Nat]

DuplexTyped ==
  /\ userSpeaking \in BOOLEAN /\ agentSpeaking \in BOOLEAN /\ left \in Int
  /\ slot \in [TimerIds -> Timers] /\ timer \in TimerIds \cup {0}
  /\ speaker \in Speakers

\* Whoever may still make a transition has published its last one: a timer from
\* when it is armed until it has run, the speaker from when it reads the clock.
NothingOwed ==
  /\ \A t \in TimerIds : slot[t].st # "idle" => Ready(t)
  /\ speaker.pc = "read" => Ready(Speaker)

\* The inductive invariant of the duplex state.
DuplexSound == DuplexTyped /\ NothingOwed

LEMMA MaxOfTwo ==
  ASSUME NEW a \in Int, NEW b \in Int
  PROVE  Max({a, b}) \in Int /\ Max({a, b}) >= a /\ Max({a, b}) >= b
<1>1. \E x \in {a, b} : \A y \in {a, b} : x >= y
  OBVIOUS
<1> QED
  BY <1>1 DEF Max

LEMMA NotNegative ==
  ASSUME NEW b \in Int
  PROVE  Max({0, b}) \in Nat
<1>1. 0 \in Int
  OBVIOUS
<1>2. PICK m : m = Max({0, b})
  OBVIOUS
<1>3. m \in Int /\ m >= 0
  BY <1>1, <1>2, MaxOfTwo, Zenon
<1>4. m \in Nat
  BY <1>3
<1> QED
  BY <1>2, <1>4, Zenon

LEMMA TimerRecords ==
  /\ IdleSlot \in Timers /\ IdleSlot.st = "idle"
  /\ \A n \in Nat : [st |-> "armed", n |-> n] \in Timers
  /\ IdleSpeaker \in Speakers /\ IdleSpeaker.pc = "idle"
BY DEF IdleSlot, Timers, IdleSpeaker, Speakers

\* Stopping a timer arms none.
LEMMA StoppedTimers ==
  ASSUME NEW slots \in [TimerIds -> Timers], NEW handle \in TimerIds \cup {0}
  PROVE  /\ Stopped(slots, handle) \in [TimerIds -> Timers]
         /\ \A t \in TimerIds : Stopped(slots, handle)[t].st # "idle" => slots[t].st # "idle"
BY TimerRecords DEF Stopped

\* A timer is armed on a slot that is free, by a goroutine that owes nothing.
LEMMA RearmedTimers ==
  ASSUME NEW slots \in [TimerIds -> Timers], NEW handle \in TimerIds \cup {0},
         NEW horizon \in Int, NEW age \in Nat, Rearm(slots, handle, horizon, age)
  PROVE  /\ slot' \in [TimerIds -> Timers] /\ timer' \in TimerIds
         /\ \A t \in TimerIds : slot'[t].st # "idle" => slots[t].st # "idle" \/ Ready(t)
<1>1. PICK stopped \in [TimerIds -> Timers] :
        /\ stopped = Stopped(slots, handle)
        /\ \A t \in TimerIds : stopped[t].st # "idle" => slots[t].st # "idle"
  BY StoppedTimers
<1>2. PICK t \in TimerIds :
        /\ Ready(t)
        /\ slot' = [stopped EXCEPT ![t] = [st |-> "armed", n |-> Max({0, horizon + age})]]
        /\ timer' = t
  BY <1>1 DEF Rearm
<1>3. Max({0, horizon + age}) \in Nat
  <2>1. PICK b \in Int : b = horizon + age
    OBVIOUS
  <2>2. Max({0, b}) \in Nat
    BY NotNegative
  <2> QED
    BY <2>1, <2>2, Zenon
<1>4. PICK armed \in Timers : armed = [st |-> "armed", n |-> Max({0, horizon + age})]
  BY <1>3, TimerRecords
<1> QED
  BY <1>1, <1>2, <1>4

\* A transition leaves everyone else as ready as before.
LEMMA OthersReady ==
  ASSUME NEW who, NEW kind, Transition(who, kind), NEW other, other # who, Ready(other)
  PROVE  Ready(other)'
BY DEF Transition, Ready, F!Transition, F!Ready

LEMMA DuplexStep ==
  ASSUME DuplexSound, [DuplexNext]_duplexVars
  PROVE  DuplexSound'
<1> USE DuplexAssumption, TimerRecords DEF DuplexSound
<1>1. User \notin TimerIds /\ Speaker \notin TimerIds /\ Canceller \notin TimerIds
  BY DEF Callers
<1>2. CASE UNCHANGED duplexVars
  BY <1>2 DEF duplexVars, DuplexTyped, NothingOwed, Ready, F!Ready
<1>3. CASE UserSpeech
  <2>1. PICK kind : Transition(User, kind)
    BY <1>3 DEF UserSpeech
  <2>2. userSpeaking' \in BOOLEAN /\ UNCHANGED <<agentSpeaking, left, timer, slot, speaker>>
    BY <1>3 DEF UserSpeech, DuplexTyped
  <2>3. NothingOwed'
    BY <1>1, <2>1, <2>2, OthersReady DEF NothingOwed
  <2> QED
    BY <2>2, <2>3 DEF DuplexTyped
<1>4. CASE HandOffRead
  <2>1. PICK d \in Durations : speaker' = [pc |-> "read", age |-> 0, duration |-> d]
    BY <1>4 DEF HandOffRead
  <2>2. speaker' \in Speakers
    BY <2>1 DEF Speakers
  <2>3. Ready(Speaker) /\ UNCHANGED <<userSpeaking, agentSpeaking, left, timer, slot, unpublished>>
    BY <1>4 DEF HandOffRead
  <2> QED
    BY <2>2, <2>3 DEF DuplexTyped, NothingOwed, Ready, F!Ready
<1>5. CASE HandOffApply
  <2>1. PICK horizon : /\ horizon = Max({left, -speaker.age}) + speaker.duration
                       /\ left' = horizon /\ Rearm(slot, timer, horizon, speaker.age)
    BY <1>5 DEF HandOffApply
  <2>2. speaker.age \in Nat /\ speaker.duration \in Nat
    BY DEF DuplexTyped, Speakers
  <2>3. horizon \in Int
    BY <2>1, <2>2, MaxOfTwo DEF DuplexTyped
  <2>4. /\ slot' \in [TimerIds -> Timers] /\ timer' \in TimerIds
        /\ \A t \in TimerIds : slot'[t].st # "idle" => slot[t].st # "idle" \/ Ready(t)
    BY <2>1, <2>2, <2>3, RearmedTimers DEF DuplexTyped
  <2>5. agentSpeaking' = TRUE /\ userSpeaking' = userSpeaking /\ speaker' = IdleSpeaker
    BY <1>5 DEF HandOffApply
  <2>6. \A t \in TimerIds : Ready(t) => Ready(t)'
    <3>1. unpublished' = unpublished \/ Transition(Speaker, "agentStarted")
      BY <1>5 DEF HandOffApply
    <3>2. CASE unpublished' = unpublished
      BY <3>2 DEF Ready, F!Ready
    <3>3. CASE Transition(Speaker, "agentStarted")
      BY <1>1, <3>3, OthersReady
    <3> QED
      BY <3>1, <3>2, <3>3
  <2> QED
    BY <2>1, <2>3, <2>4, <2>5, <2>6 DEF DuplexTyped, NothingOwed
<1>6. CASE HandOffClosed
  BY <1>6 DEF HandOffClosed, DuplexTyped, NothingOwed, Ready, F!Ready
<1>7. ASSUME NEW who \in {Speaker, Canceller}, AgentAudioStopped(who) PROVE DuplexSound'
  <2>1. /\ agentSpeaking' = FALSE /\ left' = Past /\ timer' = 0 /\ slot' = Stopped(slot, timer)
        /\ Transition(who, "agentStopped") /\ UNCHANGED <<userSpeaking, speaker>>
        /\ who = Speaker => speaker.pc = "idle"
    BY <1>7 DEF AgentAudioStopped
  <2>2. /\ slot' \in [TimerIds -> Timers]
        /\ \A t \in TimerIds : slot'[t].st # "idle" => slot[t].st # "idle"
    BY <2>1, StoppedTimers DEF DuplexTyped
  <2>3. Past \in Int
    BY DEF Past
  <2>4. NothingOwed'
    BY <1>1, <2>1, <2>2, OthersReady DEF NothingOwed
  <2> QED
    BY <2>1, <2>2, <2>3, <2>4 DEF DuplexTyped
<1>8. ASSUME NEW t \in TimerIds, TimerFires(t) PROVE DuplexSound'
  <2>1. PICK fired : fired = [slot[t] EXCEPT !.st = "fired"]
    OBVIOUS
  <2>2. fired \in Timers /\ slot[t].st = "armed"
    BY <1>8, <2>1 DEF TimerFires, DuplexTyped, Timers
  <2>3. /\ slot' = [slot EXCEPT ![t] = fired]
        /\ UNCHANGED <<userSpeaking, agentSpeaking, left, timer, speaker, unpublished>>
    BY <1>8, <2>1 DEF TimerFires
  <2>4. slot' \in [TimerIds -> Timers] /\ \A u \in TimerIds : slot'[u].st # "idle" => slot[u].st # "idle"
    BY <2>2, <2>3 DEF DuplexTyped
  <2> QED
    BY <2>3, <2>4 DEF DuplexTyped, NothingOwed, Ready, F!Ready
<1>9. ASSUME NEW t \in TimerIds, PlayoutElapsed(t) PROVE DuplexSound'
  <2>1. PICK gone : gone = [slot EXCEPT ![t] = IdleSlot]
    OBVIOUS
  <2>2. /\ gone \in [TimerIds -> Timers] /\ gone[t].st = "idle"
        /\ \A u \in TimerIds : gone[u].st # "idle" => slot[u].st # "idle"
    BY <2>1 DEF DuplexTyped
  <2>3. slot[t].st = "fired" /\ slot[t].n \in Nat /\ UNCHANGED <<userSpeaking, speaker>>
    BY <1>9 DEF PlayoutElapsed, DuplexTyped, Timers
  <2>4. CASE slot' = gone /\ timer' = 0 /\ UNCHANGED <<agentSpeaking, left, unpublished>>
    BY <2>2, <2>3, <2>4 DEF DuplexTyped, NothingOwed, Ready, F!Ready
  <2>5. CASE Rearm(gone, 0, left, slot[t].n) /\ UNCHANGED <<agentSpeaking, left, unpublished>>
    <3>1. /\ slot' \in [TimerIds -> Timers] /\ timer' \in TimerIds
          /\ \A u \in TimerIds : slot'[u].st # "idle" => gone[u].st # "idle" \/ Ready(u)
      BY <2>2, <2>3, <2>5, RearmedTimers DEF DuplexTyped
    <3> QED
      BY <2>2, <2>3, <2>5, <3>1 DEF DuplexTyped, NothingOwed, Ready, F!Ready
  <2>6. CASE /\ slot' = gone /\ timer' = 0 /\ agentSpeaking' = FALSE /\ left' = Past
             /\ Transition(t, "agentStopped")
    <3>1. Past \in Int
      BY DEF Past
    <3>2. NothingOwed'
      BY <1>1, <2>2, <2>3, <2>6, OthersReady DEF NothingOwed
    <3> QED
      BY <2>2, <2>3, <2>6, <3>1, <3>2 DEF DuplexTyped
  <2> QED
    BY <1>9, <2>1, <2>4, <2>5, <2>6 DEF PlayoutElapsed
<1>10. ASSUME NEW t \in unpublished, Publish(t) PROVE DuplexSound'
  <2>1. \A who : Ready(who) => Ready(who)'
    BY <1>10 DEF Publish, Ready, F!Ready
  <2> QED
    BY <1>10, <2>1 DEF Publish, DuplexTyped, NothingOwed
<1>11. CASE Close
  <2>1. /\ slot' = Stopped(slot, timer) /\ timer' = 0
        /\ UNCHANGED <<userSpeaking, agentSpeaking, left, speaker, unpublished>>
    BY <1>11 DEF Close
  <2>2. /\ slot' \in [TimerIds -> Timers]
        /\ \A t \in TimerIds : slot'[t].st # "idle" => slot[t].st # "idle"
    BY <2>1, StoppedTimers DEF DuplexTyped
  <2> QED
    BY <2>1, <2>2 DEF DuplexTyped, NothingOwed, Ready, F!Ready
<1>12. CASE Tick
  <2>1. UNCHANGED <<userSpeaking, agentSpeaking, timer, unpublished>>
    BY <1>12 DEF Tick
  <2>2. left' \in Int
    <3>1. PICK a \in Int, b \in Int : a = Past /\ b = left - 1
      BY DEF DuplexTyped, Past
    <3>2. left' = Max({a, b})
      BY <1>12, <3>1, Zenon DEF Tick
    <3> QED
      BY <3>2, MaxOfTwo
  <2>3. speaker' \in Speakers /\ speaker'.pc = speaker.pc
    BY <1>12 DEF Tick, DuplexTyped, Speakers
  <2>4. \A t \in TimerIds : slot'[t] \in Timers /\ slot'[t].st = slot[t].st
    <3> SUFFICES ASSUME NEW t \in TimerIds PROVE slot'[t] \in Timers /\ slot'[t].st = slot[t].st
      OBVIOUS
    <3>1. slot[t] \in Timers /\ slot[t].n \in Nat
      BY DEF DuplexTyped, Timers
    <3>2. Max({0, slot[t].n - 1}) \in Nat
      <4>1. PICK b \in Int : b = slot[t].n - 1
        BY <3>1
      <4>2. Max({0, b}) \in Nat
        BY NotNegative
      <4> QED
        BY <4>1, <4>2, Zenon
    <3>3. slot'[t] = CASE slot[t].st = "armed" -> [slot[t] EXCEPT !.n = Max({0, @ - 1})]
                       [] slot[t].st = "fired" -> [slot[t] EXCEPT !.n = @ + 1]
                       [] OTHER -> slot[t]
      BY <1>12 DEF Tick
    <3>4. CASE slot[t].st = "armed"
      BY <3>1, <3>2, <3>3, <3>4 DEF Timers
    <3>5. CASE slot[t].st = "fired"
      BY <3>1, <3>3, <3>5 DEF Timers
    <3>6. CASE slot[t].st = "idle"
      BY <3>1, <3>3, <3>6 DEF Timers
    <3> QED
      BY <3>1, <3>4, <3>5, <3>6 DEF Timers
  <2>5. slot' \in [TimerIds -> Timers]
    BY <1>12, <2>4 DEF Tick
  <2> QED
    BY <2>1, <2>2, <2>3, <2>4, <2>5 DEF DuplexTyped, NothingOwed, Ready, F!Ready
<1> QED
  BY <1>2, <1>3, <1>4, <1>5, <1>6, <1>7, <1>8, <1>9, <1>10, <1>11, <1>12 DEF DuplexNext

LEMMA DuplexStart ==
  ASSUME DuplexInit
  PROVE  DuplexSound
<1>1. Past \in Int
  BY DuplexAssumption DEF Past
<1>2. slot \in [TimerIds -> Timers] /\ \A t \in TimerIds : slot[t].st = "idle"
  BY TimerRecords DEF DuplexInit
<1>3. speaker \in Speakers /\ speaker.pc = "idle"
  BY TimerRecords DEF DuplexInit
<1> QED
  BY <1>1, <1>2, <1>3 DEF DuplexInit, DuplexSound, DuplexTyped, NothingOwed

\* The current utterance is ended by whoever stops it, or by a callback that
\* finds the horizon behind the clock it read, so behind now.
THEOREM DuplexNeverCutShort == DuplexSpec => NeverCutShort
<1>1. DuplexSound /\ [DuplexNext]_duplexVars =>
        [agentSpeaking /\ ~agentSpeaking' /\ left > 0 =>
           \E who \in Callers : Transition(who, "agentStopped")]_duplexVars
  <2> SUFFICES ASSUME DuplexSound, DuplexNext, agentSpeaking, ~agentSpeaking', left > 0
               PROVE  \E who \in Callers : Transition(who, "agentStopped")
    BY DEF duplexVars
  <2>1. ASSUME NEW t \in TimerIds, PlayoutElapsed(t) PROVE FALSE
    <3>1. slot[t].n \in Nat /\ left \in Int
      BY DEF DuplexSound, DuplexTyped, Timers
    <3>2. left <= -slot[t].n
      BY <2>1 DEF PlayoutElapsed
    <3> QED
      BY <3>1, <3>2
  <2>2. PICK who \in {Speaker, Canceller} : AgentAudioStopped(who)
    BY <2>1 DEF DuplexNext, UserSpeech, HandOffRead, HandOffApply, HandOffClosed, TimerFires,
                Publish, Close, Tick
  <2> QED
    BY <2>2 DEF AgentAudioStopped, Callers
<1> QED
  BY <1>1, DuplexStart, DuplexStep, PTL DEF DuplexSpec, NeverCutShort

\* For an observer, whatever timers and callers overtook each other, the duplex
\* state is the floor: a goroutine that makes a transition owes no other.
THEOREM DuplexImplementsFloor == DuplexSpec => ImplementsFloor
<1>1. DuplexInit => F!FloorInit
  BY DEF DuplexInit, F!FloorInit
<1>2. DuplexSound /\ [DuplexNext]_duplexVars => [F!FloorNext]_F!floorVars
  <2> SUFFICES ASSUME DuplexSound, [DuplexNext]_duplexVars PROVE [F!FloorNext]_F!floorVars
    OBVIOUS
  <2> DEFINE Playback == {Speaker, Canceller} \cup TimerIds
  <2>1. CASE UNCHANGED <<userSpeaking, agentSpeaking, unpublished>>
    BY <2>1 DEF F!floorVars
  <2>2. CASE UserSpeech
    <3>1. F!UserTurns
      BY <2>2 DEF UserSpeech, Ready, Transition, F!UserTurns
    <3> QED
      BY <3>1 DEF F!FloorNext, F!FloorMoves
  <2>3. ASSUME NEW who \in Playback, F!AgentStarts(who) \/ F!AgentStops(who)
        PROVE  [F!FloorNext]_F!floorVars
    BY <2>3 DEF F!FloorNext, F!FloorMoves
  <2>4. CASE HandOffApply
    <3>1. CASE agentSpeaking
      BY <2>1, <2>4, <3>1 DEF HandOffApply
    <3>2. CASE ~agentSpeaking
      <4>1. F!AgentStarts(Speaker)
        BY <2>4, <3>2 DEF HandOffApply, DuplexSound, NothingOwed, Ready, Transition, F!AgentStarts
      <4> QED
        BY <2>3, <4>1
    <3> QED
      BY <3>1, <3>2
  <2>5. ASSUME NEW who \in {Speaker, Canceller}, AgentAudioStopped(who)
        PROVE  [F!FloorNext]_F!floorVars
    <3>1. F!AgentStops(who)
      BY <2>5 DEF AgentAudioStopped, Ready, Transition, F!AgentStops
    <3> QED
      BY <2>3, <3>1
  <2>6. ASSUME NEW t \in TimerIds, PlayoutElapsed(t) PROVE [F!FloorNext]_F!floorVars
    <3>1. userSpeaking' = userSpeaking
      BY <2>6 DEF PlayoutElapsed
    <3>2. CASE UNCHANGED <<agentSpeaking, unpublished>>
      BY <2>1, <3>1, <3>2
    <3>3. CASE agentSpeaking /\ agentSpeaking' = FALSE /\ Transition(t, "agentStopped")
      <4>1. Ready(t)
        BY <2>6 DEF PlayoutElapsed, DuplexSound, NothingOwed
      <4>2. F!AgentStops(t)
        BY <3>1, <3>3, <4>1 DEF Ready, Transition, F!AgentStops
      <4> QED
        BY <2>3, <4>2
    <3> QED
      BY <2>6, <3>2, <3>3 DEF PlayoutElapsed
  <2>7. ASSUME NEW t \in unpublished, Publish(t) PROVE [F!FloorNext]_F!floorVars
    <3>1. F!Published(t)
      BY <2>7 DEF Publish, F!Published
    <3> QED
      BY <3>1 DEF F!FloorNext
  <2>8. CASE HandOffRead \/ HandOffClosed \/ Close \/ Tick \/ \E t \in TimerIds : TimerFires(t)
    BY <2>1, <2>8 DEF HandOffRead, HandOffClosed, Close, Tick, TimerFires
  <2>9. CASE UNCHANGED duplexVars
    BY <2>1, <2>9 DEF duplexVars
  <2> QED
    BY <2>2, <2>4, <2>5, <2>6, <2>7, <2>8, <2>9 DEF DuplexNext
<1> QED
  BY <1>1, <1>2, DuplexStart, DuplexStep, PTL DEF DuplexSpec, ImplementsFloor, F!FloorSpec

\* A clock value is used within MaxStale ticks of being read.
AgesBounded ==
  /\ speaker.age <= MaxStale
  /\ \A t \in TimerIds : slot[t].st = "fired" => slot[t].n <= MaxStale

PlayoutSound == AgesBounded /\ PlayoutIsTimed

LEMMA MaxIsOne ==
  ASSUME NEW a \in Int, NEW b \in Int
  PROVE  Max({a, b}) = IF a >= b THEN a ELSE b
<1>1. \E x \in {a, b} : \A y \in {a, b} : x >= y
  OBVIOUS
<1>2. Max({a, b}) \in {a, b} /\ Max({a, b}) >= a /\ Max({a, b}) >= b
  BY <1>1 DEF Max
<1> QED
  BY <1>2

\* Stopping a timer makes no callback.
LEMMA StoppedFires ==
  ASSUME NEW slots \in [TimerIds -> Timers], NEW handle \in TimerIds \cup {0}, NEW t \in TimerIds,
         Stopped(slots, handle)[t].st = "fired"
  PROVE  Stopped(slots, handle)[t] = slots[t]
BY DEF Stopped, IdleSlot

\* Arming for a horizon arms one for no later than that, and makes no callback.
LEMMA RearmedInTime ==
  ASSUME NEW slots \in [TimerIds -> Timers], NEW handle \in TimerIds \cup {0},
         NEW horizon \in Int, NEW age \in Nat, age <= MaxStale, MaxStale \in Nat,
         Rearm(slots, handle, horizon, age)
  PROVE  /\ \E t \in TimerIds : slot'[t].st = "armed" /\ slot'[t].n <= Max({0, horizon}) + MaxStale
         /\ \A t \in TimerIds : slot'[t].st = "fired" => slot'[t] = slots[t]
<1>1. PICK stopped \in [TimerIds -> Timers] : stopped = Stopped(slots, handle)
  BY StoppedTimers
<1>2. PICK b \in Int : b = horizon + age
  OBVIOUS
<1>3. PICK n : n = Max({0, b})
  OBVIOUS
<1>4. PICK t \in TimerIds : slot' = [stopped EXCEPT ![t] = [st |-> "armed", n |-> n]]
  BY <1>1, <1>2, <1>3, Zenon DEF Rearm
<1>5. n <= Max({0, horizon}) + MaxStale
  <2>1. n = IF 0 >= b THEN 0 ELSE b
    BY <1>3, MaxIsOne
  <2>2. PICK m : m = Max({0, horizon})
    OBVIOUS
  <2>3. m = IF 0 >= horizon THEN 0 ELSE horizon
    BY <2>2, MaxIsOne
  <2>4. n <= m + MaxStale
    BY <1>2, <2>1, <2>3
  <2> QED
    BY <2>2, <2>4
<1>6. slot'[t].st = "armed" /\ slot'[t].n = n
  BY <1>4
<1>7. ASSUME NEW u \in TimerIds, slot'[u].st = "fired" PROVE slot'[u] = slots[u]
  <2>1. slot'[u] = stopped[u]
    BY <1>4, <1>6, <1>7
  <2> QED
    BY <1>1, <1>7, <2>1, StoppedFires
<1> QED
  BY <1>5, <1>6, <1>7

\* Every step of a goroutine or of the clock leaves the playout timed.
LEMMA PlayoutStep ==
  ASSUME DuplexSound, PlayoutSound, [DuplexNext]_duplexVars
  PROVE  PlayoutSound'
<1> USE DuplexAssumption DEF PlayoutSound
<1>1. /\ left \in Int /\ slot \in [TimerIds -> Timers] /\ timer \in TimerIds \cup {0}
      /\ speaker \in Speakers /\ MaxStale \in Nat /\ Past \in Int
  BY DEF DuplexSound, DuplexTyped, Past
<1>2. CASE /\ UNCHANGED <<agentSpeaking, left, closed, slot>>
           /\ speaker' = speaker \/ speaker'.age = 0
  <2>1. AgesBounded'
    BY <1>1, <1>2 DEF AgesBounded
  <2>2. PlayoutIsTimed'
    BY <1>2, Zenon DEF PlayoutIsTimed
  <2> QED
    BY <2>1, <2>2
<1>3. CASE UserSpeech \/ HandOffRead \/ HandOffClosed \/ UNCHANGED duplexVars
  BY <1>2, <1>3 DEF UserSpeech, HandOffRead, HandOffClosed, duplexVars, IdleSpeaker
<1>4. ASSUME NEW handle \in TimerIds \cup {0}, NEW slots \in [TimerIds -> Timers], NEW age \in Nat,
             age <= MaxStale, left' \in Int, Rearm(slots, handle, left', age),
             \A t \in TimerIds : slots[t].st = "fired" => slots[t] = slot[t],
             speaker' = speaker \/ speaker'.age = 0
      PROVE  PlayoutSound'
  <2>1. PICK horizon \in Int : horizon = left'
    BY <1>4
  <2>2. /\ \E t \in TimerIds : slot'[t].st = "armed" /\ slot'[t].n <= Max({0, horizon}) + MaxStale
        /\ \A t \in TimerIds : slot'[t].st = "fired" => slot'[t] = slots[t]
    BY <1>1, <1>4, <2>1, RearmedInTime
  <2>3. PlayoutIsTimed'
    BY <2>1, <2>2 DEF PlayoutIsTimed
  <2>4. AgesBounded'
    BY <1>1, <1>4, <2>2 DEF AgesBounded
  <2> QED
    BY <2>3, <2>4
<1>5. CASE HandOffApply
  <2>1. PICK horizon : /\ horizon = Max({left, -speaker.age}) + speaker.duration
                       /\ left' = horizon /\ Rearm(slot, timer, horizon, speaker.age)
    BY <1>5 DEF HandOffApply
  <2>2. speaker.age \in Nat /\ speaker.duration \in Nat /\ speaker.age <= MaxStale
    BY <1>1 DEF Speakers, AgesBounded
  <2>3. horizon \in Int
    BY <1>1, <2>1, <2>2, MaxOfTwo
  <2>4. speaker'.age = 0
    BY <1>5 DEF HandOffApply, IdleSpeaker
  <2> QED
    BY <1>1, <1>4, <2>1, <2>2, <2>3, <2>4
<1>6. ASSUME slot' = Stopped(slot, timer), ~agentSpeaking' \/ closed', speaker' = speaker
      PROVE  PlayoutSound'
  <2>1. \A t \in TimerIds : slot'[t].st = "fired" => slot'[t] = slot[t]
    BY <1>1, <1>6, StoppedFires
  <2> QED
    BY <1>1, <1>6, <2>1 DEF AgesBounded, PlayoutIsTimed
<1>7. ASSUME NEW who \in {Speaker, Canceller}, AgentAudioStopped(who) PROVE PlayoutSound'
  BY <1>6, <1>7 DEF AgentAudioStopped
<1>8. ASSUME NEW t \in TimerIds, TimerFires(t) PROVE PlayoutSound'
  <2>1. PICK fired : fired = [slot[t] EXCEPT !.st = "fired"]
    OBVIOUS
  <2>2. slot[t].n = 0 /\ slot[t].st = "armed" /\ slot' = [slot EXCEPT ![t] = fired]
        /\ UNCHANGED <<agentSpeaking, left, closed, speaker>>
    BY <1>8, <2>1 DEF TimerFires
  <2>3. fired.st = "fired" /\ fired.n = 0
    BY <1>1, <2>1, <2>2 DEF Timers
  <2>4. slot'[t] = fired /\ \A u \in TimerIds : u # t => slot'[u] = slot[u]
    BY <1>1, <2>2
  <2>5. PlayoutIsTimed'
    BY <2>2, <2>3, <2>4 DEF PlayoutIsTimed
  <2>6. AgesBounded'
    BY <1>1, <2>2, <2>3, <2>4 DEF AgesBounded
  <2> QED
    BY <2>5, <2>6
<1>9. ASSUME NEW t \in TimerIds, PlayoutElapsed(t) PROVE PlayoutSound'
  <2>1. PICK gone : gone = [slot EXCEPT ![t] = IdleSlot]
    OBVIOUS
  <2>2. gone \in [TimerIds -> Timers] /\ \A u \in TimerIds : gone[u].st = "fired" => gone[u] = slot[u]
    BY <1>1, <2>1, TimerRecords
  <2>3. /\ slot[t].st = "fired" /\ slot[t].n \in Nat /\ slot[t].n <= MaxStale
        /\ closed' = closed /\ speaker' = speaker
    BY <1>1, <1>9 DEF PlayoutElapsed, Timers, AgesBounded
  <2>4. CASE slot' = gone /\ (~agentSpeaking' \/ closed')
    BY <1>1, <2>2, <2>3, <2>4 DEF AgesBounded, PlayoutIsTimed
  <2>5. CASE Rearm(gone, 0, left, slot[t].n) /\ left' = left
    BY <1>1, <1>4, <2>2, <2>3, <2>5
  <2> QED
    BY <1>9, <2>1, <2>3, <2>4, <2>5 DEF PlayoutElapsed
<1>10. ASSUME NEW t \in unpublished, Publish(t) PROVE PlayoutSound'
  BY <1>2, <1>10 DEF Publish
<1>11. CASE Close
  BY <1>6, <1>11 DEF Close
<1>12. CASE Tick
  <2>1. UNCHANGED <<agentSpeaking, closed>> /\ left' = Max({Past, left - 1})
    BY <1>12 DEF Tick
  <2>2. PICK x \in Int : x = left - 1
    BY <1>1
  <2>3. left' = IF Past >= x THEN Past ELSE x
    BY <1>1, <2>1, <2>2, MaxIsOne
  <2>4. AgesBounded'
    <3>1. speaker'.age <= MaxStale
      BY <1>1, <1>12 DEF Tick, Speakers, AgesBounded
    <3>2. ASSUME NEW t \in TimerIds, slot'[t].st = "fired" PROVE slot'[t].n <= MaxStale
      <4>1. slot[t] \in Timers
        BY <1>1
      <4>2. slot'[t] = CASE slot[t].st = "armed" -> [slot[t] EXCEPT !.n = Max({0, @ - 1})]
                         [] slot[t].st = "fired" -> [slot[t] EXCEPT !.n = @ + 1]
                         [] OTHER -> slot[t]
        BY <1>12 DEF Tick
      <4>3. slot[t].st = "fired" /\ slot'[t].n = slot[t].n + 1 /\ slot[t].n \in Nat
        BY <3>2, <4>1, <4>2 DEF Timers
      <4>4. slot[t].n < MaxStale
        BY <1>12, <4>3 DEF Tick
      <4> QED
        BY <1>1, <4>3, <4>4
    <3> QED
      BY <3>1, <3>2 DEF AgesBounded
  <2>5. PlayoutIsTimed'
    <3> SUFFICES ASSUME agentSpeaking', ~closed'
                 PROVE  \E t \in TimerIds : \/ slot'[t].st = "fired"
                                            \/ slot'[t].st = "armed" /\ slot'[t].n <= Max({0, left'}) + MaxStale
      BY DEF PlayoutIsTimed
    <3>1. PICK t \in TimerIds : \/ slot[t].st = "fired"
                                \/ slot[t].st = "armed" /\ slot[t].n <= Max({0, left}) + MaxStale
      BY <2>1 DEF PlayoutIsTimed
    <3>2. slot[t] \in Timers /\ slot[t].n \in Nat
      BY <1>1 DEF Timers
    <3>3. slot'[t] = CASE slot[t].st = "armed" -> [slot[t] EXCEPT !.n = Max({0, @ - 1})]
                       [] slot[t].st = "fired" -> [slot[t] EXCEPT !.n = @ + 1]
                       [] OTHER -> slot[t]
      BY <1>12 DEF Tick
    <3>4. CASE slot[t].st = "fired"
      BY <3>2, <3>3, <3>4 DEF Timers
    <3>5. CASE slot[t].st = "armed"
      <4>1. slot'[t].st = "armed" /\ slot'[t].n = Max({0, slot[t].n - 1})
        BY <3>2, <3>3, <3>5 DEF Timers
      <4>2. PICK y \in Int : y = slot[t].n - 1
        BY <3>2
      <4>3. slot'[t].n = IF 0 >= y THEN 0 ELSE y
        <5>1. Max({0, y}) = IF 0 >= y THEN 0 ELSE y
          BY MaxIsOne
        <5> QED
          BY <4>1, <4>2, <5>1, Zenon
      <4>4. PICK h \in Int : h = left'
        BY <1>1, <2>2, <2>3
      <4>5. PICK m, k : m = Max({0, left}) /\ k = Max({0, h})
        OBVIOUS
      <4>6. m = (IF 0 >= left THEN 0 ELSE left) /\ k = IF 0 >= h THEN 0 ELSE h
        BY <1>1, <4>5, MaxIsOne
      <4>7. slot[t].n <= m + MaxStale
        BY <3>1, <3>5, <4>5
      <4>8. slot'[t].n <= k + MaxStale
        BY <1>1, <2>2, <2>3, <3>2, <4>2, <4>3, <4>4, <4>6, <4>7
      <4> QED
        BY <4>1, <4>4, <4>5, <4>8
    <3> QED
      BY <3>1, <3>4, <3>5
  <2> QED
    BY <2>4, <2>5
<1> QED
  BY <1>3, <1>5, <1>7, <1>8, <1>9, <1>10, <1>11, <1>12 DEF DuplexNext

\* The invariant holds when the session starts, and every step keeps it.
LEMMA AlwaysTimed == DuplexSpec => []PlayoutSound
<1>1. DuplexInit => PlayoutSound
  <2> SUFFICES ASSUME DuplexInit PROVE PlayoutSound
    OBVIOUS
  <2>1. speaker.age = 0 /\ ~agentSpeaking /\ MaxStale \in Nat
    BY DuplexAssumption DEF DuplexInit, IdleSpeaker
  <2>2. \A t \in TimerIds : slot[t].st = "idle"
    BY DEF DuplexInit, IdleSlot
  <2> QED
    BY <2>1, <2>2 DEF PlayoutSound, AgesBounded, PlayoutIsTimed
<1>2. DuplexSound /\ PlayoutSound /\ [DuplexNext]_duplexVars => PlayoutSound'
  BY PlayoutStep
<1> QED
  BY <1>1, <1>2, DuplexStart, DuplexStep, PTL DEF DuplexSpec

\* While the agent speaks a callback is on its way or a timer is armed in time,
\* for any frames, timers and callers, also when the one the state knows of was
\* overtaken (duplex.go: rearmLocked, playoutElapsed).
THEOREM DuplexPlayoutIsTimed == DuplexSpec => []PlayoutIsTimed
<1>1. PlayoutSound => PlayoutIsTimed
  BY DEF PlayoutSound
<1> QED
  BY <1>1, AlwaysTimed, PTL

\* The bounds of the duplex state, and the timer it knows of, which is not over.
DuplexBounded ==
  /\ closed \in BOOLEAN
  /\ Past <= left /\ left <= MaxAhead
  /\ timer # 0 => slot[timer].st # "idle"
  /\ \A t \in TimerIds : slot[t].n <= MaxAhead + MaxStale
  /\ speaker.duration \in Durations \cup {0}
  /\ speaker.pc = "read" => speaker.duration <= MaxAhead /\ left + speaker.duration <= MaxAhead

\* Stopping a timer gives none more time.
LEMMA StoppedBounded ==
  ASSUME NEW slots \in [TimerIds -> Timers], NEW handle \in TimerIds \cup {0}, NEW B \in Nat,
         \A t \in TimerIds : slots[t].n <= B
  PROVE  \A t \in TimerIds : Stopped(slots, handle)[t].n <= B
BY DEF Stopped, IdleSlot

\* The timer armed is the one the state knows of, and its time is bounded.
LEMMA RearmedBounded ==
  ASSUME NEW slots \in [TimerIds -> Timers], NEW handle \in TimerIds \cup {0}, NEW B \in Nat,
         \A t \in TimerIds : slots[t].n <= B,
         NEW horizon \in Int, NEW age \in Nat, horizon + age <= B,
         Rearm(slots, handle, horizon, age)
  PROVE  /\ timer' # 0 => slot'[timer'].st # "idle"
         /\ \A t \in TimerIds : slot'[t].n <= B
<1>1. PICK stopped \in [TimerIds -> Timers] :
        stopped = Stopped(slots, handle) /\ \A t \in TimerIds : stopped[t].n <= B
  BY StoppedTimers, StoppedBounded
<1>2. PICK b \in Int : b = horizon + age
  OBVIOUS
<1>3. PICK n : n = Max({0, b})
  OBVIOUS
<1>4. n = IF 0 >= b THEN 0 ELSE b
  BY <1>3, MaxIsOne
<1>5. n <= B
  BY <1>2, <1>4
<1>6. PICK t \in TimerIds : slot' = [stopped EXCEPT ![t] = [st |-> "armed", n |-> n]] /\ timer' = t
  BY <1>1, <1>2, <1>3, Zenon DEF Rearm
<1>7. slot'[t].st = "armed" /\ slot'[t].n = n /\ \A u \in TimerIds : u # t => slot'[u] = stopped[u]
  BY <1>6
<1> QED
  BY <1>1, <1>5, <1>6, <1>7

LEMMA BoundedStep ==
  ASSUME DuplexSound, AgesBounded, DuplexBounded, [DuplexNext]_duplexVars
  PROVE  DuplexBounded'
<1>0. closed' \in BOOLEAN
  BY DEF DuplexNext, DuplexBounded, duplexVars, UserSpeech, HandOffRead, HandOffApply, HandOffClosed,
     AgentAudioStopped, TimerFires, PlayoutElapsed, Publish, Close, Tick
<1> USE <1>0, DuplexAssumption DEF DuplexBounded
<1>1. /\ left \in Int /\ slot \in [TimerIds -> Timers] /\ timer \in TimerIds \cup {0}
      /\ speaker \in Speakers /\ MaxStale \in Nat /\ MaxAhead \in Nat /\ Past \in Int /\ Past <= 0
  BY DEF DuplexSound, DuplexTyped, Past
<1>2. speaker.age \in Nat /\ speaker.duration \in Nat /\ speaker.age <= MaxStale
  BY <1>1 DEF Speakers, AgesBounded
<1>3. \A t \in TimerIds : slot[t].n \in Nat
  BY <1>1 DEF Timers
<1>4. CASE UserSpeech \/ HandOffClosed \/ UNCHANGED duplexVars
  BY <1>4 DEF UserSpeech, HandOffClosed, duplexVars, IdleSpeaker
<1>5. CASE HandOffRead
  <2>1. PICK d \in Durations : Max({left, 0}) + d <= MaxAhead
                               /\ speaker' = [pc |-> "read", age |-> 0, duration |-> d]
    BY <1>5 DEF HandOffRead
  <2>2. PICK m : m = Max({left, 0})
    OBVIOUS
  <2>3. m = IF left >= 0 THEN left ELSE 0
    BY <1>1, <2>2, MaxIsOne
  <2>4. d \in Nat /\ m + d <= MaxAhead
    BY <2>1, <2>2
  <2>5. d <= MaxAhead /\ left + d <= MaxAhead
    BY <1>1, <2>3, <2>4
  <2> QED
    BY <1>5, <2>1, <2>5 DEF HandOffRead
<1>6. CASE HandOffApply
  <2>1. PICK m : m = Max({left, -speaker.age})
    OBVIOUS
  <2>2. PICK a \in Int : a = -speaker.age
    BY <1>2
  <2>3. m = IF left >= a THEN left ELSE a
    BY <1>1, <2>1, <2>2, MaxIsOne
  <2>4. PICK horizon : /\ horizon = m + speaker.duration /\ left' = horizon
                       /\ Rearm(slot, timer, horizon, speaker.age)
    BY <1>6, <2>1 DEF HandOffApply
  <2>5. speaker.pc = "read" /\ speaker' = IdleSpeaker
    BY <1>6 DEF HandOffApply
  <2>6. horizon \in Int /\ Past <= horizon /\ horizon <= MaxAhead
    BY <1>1, <1>2, <2>2, <2>3, <2>4, <2>5
  <2>7. horizon + speaker.age <= MaxAhead + MaxStale
    BY <1>1, <1>2, <2>6
  <2>8. PICK B \in Nat : B = MaxAhead + MaxStale
    BY <1>1
  <2>9. /\ timer' # 0 => slot'[timer'].st # "idle"
        /\ \A t \in TimerIds : slot'[t].n <= B
    BY <1>1, <1>2, <2>4, <2>6, <2>7, <2>8, RearmedBounded
  <2> QED
    BY <2>4, <2>5, <2>6, <2>8, <2>9 DEF IdleSpeaker
<1>7. ASSUME slot' = Stopped(slot, timer), timer' = 0, left' \in {Past, left}, speaker' = speaker
      PROVE  DuplexBounded'
  <2>1. \A t \in TimerIds : slot'[t].n <= MaxAhead + MaxStale
    <3>1. PICK B \in Nat : B = MaxAhead + MaxStale
      BY <1>1
    <3> QED
      BY <1>1, <1>7, <3>1, StoppedBounded
  <2> QED
    BY <1>1, <1>2, <1>7, <2>1
<1>8. ASSUME NEW who \in {Speaker, Canceller}, AgentAudioStopped(who) PROVE DuplexBounded'
  BY <1>7, <1>8 DEF AgentAudioStopped
<1>9. ASSUME NEW t \in TimerIds, TimerFires(t) PROVE DuplexBounded'
  <2>1. PICK fired : fired = [slot[t] EXCEPT !.st = "fired"]
    OBVIOUS
  <2>2. slot' = [slot EXCEPT ![t] = fired] /\ UNCHANGED <<left, timer, speaker>>
    BY <1>9, <2>1 DEF TimerFires
  <2>3. fired.st = "fired" /\ fired.n = slot[t].n
    BY <1>1, <2>1 DEF Timers
  <2>4. slot'[t] = fired /\ \A u \in TimerIds : u # t => slot'[u] = slot[u]
    BY <1>1, <2>2
  <2> QED
    BY <1>1, <2>2, <2>3, <2>4
<1>10. ASSUME NEW t \in TimerIds, PlayoutElapsed(t) PROVE DuplexBounded'
  <2>1. PICK gone : gone = [slot EXCEPT ![t] = IdleSlot]
    OBVIOUS
  <2>2. gone \in [TimerIds -> Timers] /\ \A u \in TimerIds : gone[u].n <= MaxAhead + MaxStale
    BY <1>1, <2>1, TimerRecords DEF IdleSlot
  <2>3. slot[t].n \in Nat /\ slot[t].n <= MaxStale /\ speaker' = speaker
    BY <1>3, <1>10 DEF PlayoutElapsed, AgesBounded
  <2>4. CASE slot' = gone /\ timer' = 0 /\ left' \in {Past, left}
    BY <1>1, <1>2, <2>2, <2>3, <2>4
  <2>5. CASE Rearm(gone, 0, left, slot[t].n) /\ left' = left
    <3>1. PICK B \in Nat : B = MaxAhead + MaxStale
      BY <1>1
    <3>2. left + slot[t].n <= B /\ \A u \in TimerIds : gone[u].n <= B
      BY <1>1, <2>2, <2>3, <3>1
    <3>3. /\ timer' # 0 => slot'[timer'].st # "idle"
          /\ \A u \in TimerIds : slot'[u].n <= B
      BY <1>1, <2>2, <2>3, <2>5, <3>2, RearmedBounded
    <3> QED
      BY <2>3, <2>5, <3>1, <3>3
  <2> QED
    BY <1>10, <2>1, <2>4, <2>5 DEF PlayoutElapsed
<1>11. ASSUME NEW t \in unpublished, Publish(t) PROVE DuplexBounded'
  BY <1>11 DEF Publish
<1>12. CASE Close
  BY <1>7, <1>12 DEF Close
<1>13. CASE Tick
  <2>1. timer' = timer /\ left' = Max({Past, left - 1})
    BY <1>13 DEF Tick
  <2>2. PICK x \in Int : x = left - 1
    BY <1>1
  <2>3. left' = IF Past >= x THEN Past ELSE x
    BY <1>1, <2>1, <2>2, MaxIsOne
  <2>4. speaker'.pc = speaker.pc /\ speaker'.duration = speaker.duration
    BY <1>1, <1>13 DEF Tick, Speakers
  <2>5. ASSUME NEW t \in TimerIds
        PROVE  (slot'[t].st = "idle" <=> slot[t].st = "idle") /\ slot'[t].n <= MaxAhead + MaxStale
    <3>1. slot[t] \in Timers /\ slot[t].n \in Nat
      BY <1>1, <1>3
    <3>2. slot'[t] = CASE slot[t].st = "armed" -> [slot[t] EXCEPT !.n = Max({0, @ - 1})]
                       [] slot[t].st = "fired" -> [slot[t] EXCEPT !.n = @ + 1]
                       [] OTHER -> slot[t]
      BY <1>13 DEF Tick
    <3>3. CASE slot[t].st = "armed"
      <4>1. slot'[t].st = "armed" /\ slot'[t].n = Max({0, slot[t].n - 1})
        BY <3>1, <3>2, <3>3 DEF Timers
      <4>2. PICK y \in Int : y = slot[t].n - 1
        BY <3>1
      <4>3. PICK k : k = Max({0, y})
        OBVIOUS
      <4>4. k = IF 0 >= y THEN 0 ELSE y
        BY <4>3, MaxIsOne
      <4>5. k <= MaxAhead + MaxStale
        BY <1>1, <3>1, <4>2, <4>4
      <4> QED
        BY <3>3, <4>1, <4>2, <4>3, <4>5
    <3>4. CASE slot[t].st = "fired"
      <4>1. slot'[t].st = "fired" /\ slot'[t].n = slot[t].n + 1
        BY <3>1, <3>2, <3>4 DEF Timers
      <4>2. slot[t].n < MaxStale
        BY <1>13, <3>4 DEF Tick
      <4> QED
        BY <1>1, <3>1, <3>4, <4>1, <4>2
    <3>5. CASE slot[t].st = "idle"
      BY <3>2, <3>5
    <3> QED
      BY <3>1, <3>3, <3>4, <3>5 DEF Timers
  <2>7. Past <= left' /\ left' <= MaxAhead
        /\ (speaker.pc = "read" => left' + speaker.duration <= MaxAhead)
    BY <1>1, <1>2, <2>2, <2>3
  <2> QED
    BY <1>1, <2>1, <2>4, <2>5, <2>7
<1> QED
  BY <1>4, <1>5, <1>6, <1>8, <1>9, <1>10, <1>11, <1>12, <1>13 DEF DuplexNext

\* What an observer sees is typed.
LEMMA FloorTypes == F!FloorSpec => []F!FloorTypeOK
<1>1. F!FloorInit => F!FloorTypeOK
  BY DEF F!FloorInit, F!FloorTypeOK
<1>2. F!FloorTypeOK /\ [F!FloorNext]_(F!floorVars) => F!FloorTypeOK'
  <2> SUFFICES ASSUME F!FloorTypeOK, [F!FloorNext]_(F!floorVars) PROVE F!FloorTypeOK'
    OBVIOUS
  <2> USE DEF F!FloorTypeOK
  <2>1. ASSUME NEW who \in {Speaker, Canceller} \cup TimerIds \cup {User}, NEW kind \in F!TransitionKinds,
               F!Transition(who, kind)
        PROVE  unpublished' \subseteq [who : {Speaker, Canceller} \cup TimerIds \cup {User},
                                       kind : F!TransitionKinds]
    BY <2>1 DEF F!Transition
  <2>2. {"userStarted", "userStopped", "agentStarted", "agentStopped"} = F!TransitionKinds
    BY DEF F!TransitionKinds
  <2>3. CASE F!UserTurns
    BY <2>1, <2>2, <2>3 DEF F!UserTurns
  <2>4. ASSUME NEW who \in {Speaker, Canceller} \cup TimerIds, F!AgentStarts(who) \/ F!AgentStops(who)
        PROVE  F!FloorTypeOK'
    BY <2>1, <2>2, <2>4 DEF F!AgentStarts, F!AgentStops
  <2>5. ASSUME NEW t \in unpublished, F!Published(t) PROVE F!FloorTypeOK'
    BY <2>5 DEF F!Published
  <2>6. CASE UNCHANGED F!floorVars
    BY <2>6 DEF F!floorVars
  <2> QED
    BY <2>3, <2>4, <2>5, <2>6 DEF F!FloorNext, F!FloorMoves
<1> QED
  BY <1>1, <1>2, PTL DEF F!FloorSpec

\* Type correctness of the duplex state: audio never runs further ahead than the
\* bound, no timer is armed for longer, and the timer the state holds on to has
\* not run (duplex.go: Duplex.timer, rearmLocked).
THEOREM DuplexTypeCorrect == DuplexSpec => []DuplexTypeOK
<1>1. DuplexInit => DuplexBounded
  <2> SUFFICES ASSUME DuplexInit PROVE DuplexBounded
    OBVIOUS
  <2>1. speaker.pc = "idle" /\ speaker.duration = 0 /\ timer = 0 /\ left = Past /\ closed = FALSE
    BY DEF DuplexInit, IdleSpeaker
  <2>2. \A t \in TimerIds : slot[t].n = 0
    BY DEF DuplexInit, IdleSlot
  <2>3. MaxStale \in Nat /\ MaxAhead \in Nat
    BY DuplexAssumption
  <2>4. Past <= left /\ left <= MaxAhead /\ \A t \in TimerIds : slot[t].n <= MaxAhead + MaxStale
    BY <2>1, <2>2, <2>3 DEF Past
  <2> QED
    BY <2>1, <2>4 DEF DuplexBounded
<1>2. DuplexSound /\ AgesBounded /\ DuplexBounded /\ [DuplexNext]_duplexVars => DuplexBounded'
  BY BoundedStep
<1>3. DuplexSound /\ AgesBounded /\ DuplexBounded /\ F!FloorTypeOK => DuplexTypeOK
  <2> SUFFICES ASSUME DuplexSound, AgesBounded, DuplexBounded, F!FloorTypeOK
               PROVE  DuplexTypeOK
    OBVIOUS
  <2>1. /\ left \in Int /\ slot \in [TimerIds -> Timers] /\ timer \in TimerIds \cup {0}
        /\ speaker \in Speakers /\ MaxStale \in Nat /\ MaxAhead \in Nat /\ Past \in Int
    BY DuplexAssumption DEF DuplexSound, DuplexTyped, Past
  <2>2. left \in Past..MaxAhead
    BY <2>1 DEF DuplexBounded
  <2>3. slot \in [TimerIds -> Slot]
    <3>1. ASSUME NEW t \in TimerIds PROVE slot[t] \in Slot
      <4>1. slot[t] \in Timers /\ slot[t].n \in 0..(MaxAhead + MaxStale)
        BY <2>1 DEF DuplexBounded, Timers
      <4> QED
        BY <4>1 DEF Timers, Slot
    <3> QED
      BY <2>1, <3>1
  <2>4. speaker \in [pc : {"idle", "read"}, age : 0..MaxStale, duration : Durations \cup {0}]
    <3>1. speaker.age \in 0..MaxStale /\ speaker.duration \in Durations \cup {0}
      BY <2>1 DEF AgesBounded, DuplexBounded, Speakers
    <3> QED
      BY <2>1, <3>1 DEF Speakers
  <2>5. unpublished \subseteq [who : Callers \cup TimerIds, kind : F!TransitionKinds]
    <3>1. {Speaker, Canceller} \cup TimerIds \cup {User} = Callers \cup TimerIds
      BY DEF Callers
    <3> QED
      BY <3>1, Zenon DEF F!FloorTypeOK
  <2>6. userSpeaking \in BOOLEAN /\ agentSpeaking \in BOOLEAN
    BY DEF F!FloorTypeOK
  <2> QED
    BY <2>1, <2>2, <2>3, <2>4, <2>5, <2>6 DEF DuplexTypeOK, DuplexBounded
<1>4. DuplexSpec => []AgesBounded
  <2>1. PlayoutSound => AgesBounded
    BY DEF PlayoutSound
  <2> QED
    BY <2>1, AlwaysTimed, PTL
<1>5. DuplexSpec => []F!FloorTypeOK
  BY DuplexImplementsFloor, FloorTypes, PTL DEF ImplementsFloor
<1> QED
  BY <1>1, <1>2, <1>3, <1>4, <1>5, DuplexStart, DuplexStep, PTL DEF DuplexSpec

-----------------------------------------------------------------------------
\* What Within keeps.

\* f computes what Within keeps of the first n members of s.
Computes(f, s, S, n) ==
  f = [i \in 0..n |-> IF i = 0 THEN << >> ELSE IF s[i] \in S THEN Append(f[i - 1], s[i]) ELSE f[i - 1]]

LEMMA ComputedValues ==
  ASSUME NEW f, NEW s, NEW S, NEW n, Computes(f, s, S, n)
  PROVE  \A i \in 0..n : f[i] = IF i = 0 THEN << >>
                                ELSE IF s[i] \in S THEN Append(f[i - 1], s[i]) ELSE f[i - 1]
<1>1. PICK h : h = f /\ f = [i \in 0..n |-> IF i = 0 THEN << >>
                               ELSE IF s[i] \in S THEN Append(h[i - 1], s[i]) ELSE h[i - 1]]
  BY DEF Computes
<1>2. \A i \in 0..n : f[i] = IF i = 0 THEN << >>
                             ELSE IF s[i] \in S THEN Append(h[i - 1], s[i]) ELSE h[i - 1]
  BY <1>1
<1> QED
  BY <1>1, <1>2

LEMMA Computed ==
  ASSUME NEW T, NEW s \in Seq(T), NEW S, NEW n \in 0..Len(s)
  PROVE  \E f : Computes(f, s, S, n)
<1> DEFINE Bad == {m \in 0..Len(s) : ~\E f : Computes(f, s, S, m)}
<1>1. Len(s) \in Nat
  OBVIOUS
<1>2. SUFFICES ASSUME Bad # {} PROVE FALSE
  OBVIOUS
<1>3. PICK m \in Bad : \A k \in Bad : m <= k
  <2>1. Bad \subseteq Nat
    BY <1>1
  <2> QED
    BY <1>2, <2>1, FirstNumber
<1>4. m # 0
  <2>1. Computes([i \in 0..0 |-> << >>], s, S, 0)
    BY DEF Computes
  <2> QED
    BY <2>1
<1>5. m \in 1..Len(s) /\ m - 1 \in 0..Len(s) /\ m - 1 \notin Bad
  BY <1>1, <1>3, <1>4
<1>6. PICK f : Computes(f, s, S, m - 1)
  BY <1>5
<1> DEFINE g == [i \in 0..m |-> IF i = m THEN (IF s[m] \in S THEN Append(f[m - 1], s[m]) ELSE f[m - 1])
                                         ELSE f[i]]
<1>7. Computes(g, s, S, m)
  <2>1. \A i \in 0..(m - 1) : g[i] = f[i]
    BY <1>5
  <2>2. \A i \in 0..(m - 1) : g[i] = IF i = 0 THEN << >> ELSE IF s[i] \in S THEN Append(f[i - 1], s[i]) ELSE f[i - 1]
    <3> HIDE DEF g
    <3> QED
      BY <1>6, <2>1, ComputedValues
  <2>3. \A i \in 1..m : g[i - 1] = f[i - 1]
    BY <1>5, <2>1
  <2>4. g[m] = IF s[m] \in S THEN Append(g[m - 1], s[m]) ELSE g[m - 1]
    BY <1>5, <2>3
  <2>5. \A i \in 0..m : g[i] = IF i = 0 THEN << >> ELSE IF s[i] \in S THEN Append(g[i - 1], s[i]) ELSE g[i - 1]
    <3> HIDE DEF g
    <3> QED
      BY <1>5, <2>2, <2>3, <2>4, SMTT(30)
  <2>6. \E h : h = g /\ h = [i \in 0..m |-> h[i]]
    OBVIOUS
  <2> HIDE DEF g
  <2> QED
    BY <2>5, <2>6 DEF Computes
<1> QED
  BY <1>7

\* Within, step by step.
LEMMA WithinSteps ==
  ASSUME NEW T, NEW s \in Seq(T), NEW S
  PROVE  \E kept : /\ Within(s, S) = kept[Len(s)] /\ kept[0] = << >>
                   /\ \A i \in 1..Len(s) :
                        kept[i] = IF s[i] \in S THEN Append(kept[i - 1], s[i]) ELSE kept[i - 1]
<1>1. Len(s) \in Nat
  OBVIOUS
<1>2. PICK k : k = CHOOSE f : Computes(f, s, S, Len(s))
  OBVIOUS
<1>3. Within(s, S) = k[Len(s)]
  BY <1>2 DEF Within, Computes
<1>4. Computes(k, s, S, Len(s))
  <2>1. \E f : Computes(f, s, S, Len(s))
    BY <1>1, Computed
  <2> QED
    BY <1>2, <2>1
<1>5. \A i \in 0..Len(s) : k[i] = IF i = 0 THEN << >>
                                  ELSE IF s[i] \in S THEN Append(k[i - 1], s[i]) ELSE k[i - 1]
  BY <1>4, ComputedValues
<1>6. k[0] = << >> /\ \A i \in 1..Len(s) : k[i] = IF s[i] \in S THEN Append(k[i - 1], s[i]) ELSE k[i - 1]
  BY <1>1, <1>5
<1> QED
  BY <1>3, <1>6

\* Within keeps the members of s that are in S, and nothing else.
LEMMA WithinMembers ==
  ASSUME NEW T, NEW s \in Seq(T), NEW S
  PROVE  Within(s, S) \in Seq(T) /\ Range(Within(s, S)) = Range(s) \cap S
<1>1. PICK k : /\ Within(s, S) = k[Len(s)] /\ k[0] = << >>
               /\ \A i \in 1..Len(s) : k[i] = IF s[i] \in S THEN Append(k[i - 1], s[i]) ELSE k[i - 1]
  BY WithinSteps
<1>2. Len(s) \in Nat /\ DOMAIN s = 1..Len(s) /\ \A i \in 1..Len(s) : s[i] \in T
  OBVIOUS
<1> DEFINE Seen(n) == {s[i] : i \in 1..n}
           G == {n \in 0..Len(s) : k[n] \in Seq(T) /\ Range(k[n]) = Seen(n) \cap S}
<1>3. 0 \in G
  <2>1. Range(<< >>) = {} /\ << >> \in Seq(T) /\ Seen(0) = {}
    BY DEF Range
  <2> HIDE DEF Seen
  <2>2. k[0] \in Seq(T) /\ Range(k[0]) = {} /\ {} = Seen(0) \cap S /\ 0 \in 0..Len(s)
    BY <1>1, <1>2, <2>1
  <2>3. k[0] \in Seq(T) /\ Range(k[0]) = Seen(0) \cap S /\ 0 \in 0..Len(s)
    BY <2>2, Zenon
  <2> QED
    BY <2>3, Zenon
<1>4. ASSUME NEW m \in 0..(Len(s) - 1), m \in G PROVE m + 1 \in G
  <2>1. m + 1 \in 1..Len(s) /\ (m + 1) - 1 = m
    BY <1>2
  <2>2. k[m + 1] = IF s[m + 1] \in S THEN Append(k[m], s[m + 1]) ELSE k[m]
    BY <1>1, <2>1
  <2>3. Seen(m + 1) = Seen(m) \cup {s[m + 1]}
    BY <2>1
  <2>4. k[m] \in Seq(T) /\ Range(k[m]) = Seen(m) \cap S /\ s[m + 1] \in T
    BY <1>2, <1>4, <2>1
  <2> HIDE DEF Seen
  <2>5. CASE s[m + 1] \in S
    <3>1. k[m + 1] \in Seq(T) /\ Range(k[m + 1]) = Range(k[m]) \cup {s[m + 1]}
      BY <2>2, <2>4, <2>5, RangeAppend
    <3> QED
      BY <2>1, <2>3, <2>4, <2>5, <3>1
  <2>6. CASE s[m + 1] \notin S
    BY <2>1, <2>2, <2>3, <2>4, <2>6
  <2> QED
    BY <2>5, <2>6
<1>5. Len(s) \in G
  <2> HIDE DEF G
  <2>1. \A m \in 0..Len(s) : m \in G
    BY <1>2, <1>3, <1>4, UpTo, Zenon
  <2> QED
    BY <1>2, <2>1
<1>6. Seen(Len(s)) = Range(s)
  BY <1>2 DEF Range
<1> QED
  BY <1>1, <1>5, <1>6

LEMMA WithoutMembers ==
  ASSUME NEW T, NEW s \in Seq(T), NEW S
  PROVE  Without(s, S) \in Seq(T) /\ Range(Without(s, S)) = Range(s) \ S
<1>1. /\ Within(s, Range(s) \ S) \in Seq(T)
      /\ Range(Within(s, Range(s) \ S)) = Range(s) \cap (Range(s) \ S)
  BY WithinMembers
<1> QED
  BY <1>1 DEF Without

-----------------------------------------------------------------------------
\* Where the events of a submission are.

\* A worker that has taken events from the queue and not published them yet.
Holds(w) == work[w].pc \in {"compile", "append", "publish"}

Taken == UNION {Range(work[w].queued) : w \in {v \in Workers : Holds(v)}}

\* No submission has events in both places.
Apart(X, Y) == \A s \in Submissions : Range(s) \cap X = {} \/ Range(s) \cap Y = {}

\* One worker at a time is between the queue and the deferred groups.
LaneSound ==
  \A w \in Workers :
    /\ work[w].pc \in {"compile", "append", "publish", "notify"} => commitMu = w
    /\ Holds(w) => /\ work[w].queued \in Seq(Events) /\ work[w].batch \in Seq(Events)
                   /\ Range(work[w].batch) \subseteq Range(work[w].queued)

EventsIn(groups) == UNION {Range(g) : g \in groups}

\* A submission stays together: it was handed to a run, is in one deferred group,
\* is taken, or is pending; and the coordinator knows of whatever is in any of
\* these places.
Places(handed, groups, hand, queue, known) ==
  /\ Apart(handed, EventsIn(groups)) /\ Apart(handed, hand) /\ Apart(handed, queue)
  /\ Apart(EventsIn(groups), hand) /\ Apart(EventsIn(groups), queue) /\ Apart(hand, queue)
  /\ handed \cup EventsIn(groups) \cup hand \cup queue \subseteq known
  /\ \A s \in Submissions, g, h \in groups :
       Range(s) \cap Range(g) # {} /\ Range(s) \cap Range(h) # {} => g = h

PlacesSound ==
  /\ pending \in Seq(Events) /\ eventIDs \in Seq(Events) /\ deferred \in Seq(Seq(Events))
  /\ Places(acted, Range(deferred), Taken, Range(pending), Range(eventIDs))

\* What interrupts was submitted before the run that answers it began.
InterruptsSound ==
  /\ \A w \in Drivers : work[w].pc = "process" => work[w].run \subseteq acted
  /\ sub \in [Submissions -> [pc : {"idle", "cancel", "notify"}, epoch : Nat]]
  /\ \A s \in Submissions : sub[s].epoch <= activeEpoch
  /\ \A s \in Submissions, w \in Drivers :
       /\ sub[s].pc # "idle" /\ work[w].pc = "process"
       /\ Range(s) \cap work[w].run # {} /\ work[w].epoch # 0
       => work[w].epoch > sub[s].epoch

\* The inductive invariant of the coordinator.
DeliverySound == RunInv /\ LaneSound /\ PlacesSound /\ InterruptsSound

LEMMA InSubmission ==
  ASSUME NEW e \in Events
  PROVE  SubmissionOf(e) \in Submissions /\ e \in Range(SubmissionOf(e))
<1>1. \E s \in Submissions : e \in Range(s)
  BY DEF Events
<1> QED
  BY <1>1 DEF SubmissionOf

\* Events of one submission only.
LEMMA OneSubmission ==
  ASSUME NEW e, NEW s \in Submissions, NEW t \in Submissions, e \in Range(s), e \in Range(t)
  PROVE  s = t
BY EventLoopAssumption DEF EventLoopAssumption

\* Partition makes groups of the batch's events, one for a submission.
LEMMA PartitionGroups ==
  ASSUME NEW batch \in Seq(Events)
  PROVE  /\ Partition(batch) \in Seq(Seq(Events))
         /\ EventsIn(Range(Partition(batch))) = Range(batch)
         /\ \A g \in Range(Partition(batch)) : \E s \in Submissions : g = Within(batch, Range(s))
<1>1. PICK n \in Nat : DOMAIN batch = 1..n /\ \A i \in 1..n : batch[i] \in Events
  OBVIOUS
<1> DEFINE subs == [i \in DOMAIN batch |-> SubmissionOf(batch[i])]
           heads == {i \in DOMAIN batch : \A j \in 1..(i - 1) : subs[j] # subs[i]}
           order == [i \in DOMAIN batch |-> i]
           first == Within(order, heads)
<1>2. Partition(batch) = [k \in DOMAIN first |-> Within(batch, Range(subs[first[k]]))]
  BY DEF Partition
<1>3. \A i \in 1..n : subs[i] \in Submissions /\ batch[i] \in Range(subs[i])
  BY <1>1, InSubmission
<1> HIDE DEF subs
<1>4. heads = {i \in 1..n : \A j \in 1..(i - 1) : subs[j] # subs[i]}
  BY <1>1
<1> HIDE DEF heads
<1>5. order \in Seq(1..n) /\ Range(order) = 1..n
  BY <1>1 DEF Range
<1> HIDE DEF order
<1>6. first \in Seq(1..n) /\ Range(first) = Range(order) \cap heads
  BY <1>5, WithinMembers
<1> HIDE DEF first
<1>8. first \in Seq(1..n) /\ Range(first) = heads
  BY <1>4, <1>5, <1>6
<1>10. PICK groups : groups = Partition(batch)
  OBVIOUS
<1>11. /\ DOMAIN groups = DOMAIN first
       /\ \A k \in DOMAIN first : /\ first[k] \in heads /\ first[k] \in 1..n
                                  /\ groups[k] = Within(batch, Range(subs[first[k]]))
  <2>1. \A k \in DOMAIN first : first[k] \in heads /\ first[k] \in 1..n
    BY <1>8 DEF Range
  <2> QED
    BY <1>2, <1>10, <2>1
<1>12. \A k \in DOMAIN groups : groups[k] \in Seq(Events)
  BY <1>11, WithinMembers
<1>13. groups \in Seq(Seq(Events))
  <2>1. PICK m \in Nat : DOMAIN first = 1..m
    BY <1>8
  <2>2. groups \in [1..m -> Seq(Events)]
    BY <1>2, <1>10, <1>11, <1>12, <2>1
  <2> QED
    BY <2>2, SeqDef
<1>14. \A g \in Range(groups) : \E s \in Submissions : g = Within(batch, Range(s))
  <2> SUFFICES ASSUME NEW g \in Range(groups) PROVE \E s \in Submissions : g = Within(batch, Range(s))
    OBVIOUS
  <2>1. PICK k \in DOMAIN first : g = groups[k]
    BY <1>11 DEF Range
  <2> QED
    BY <1>3, <1>11, <2>1
<1>15. ASSUME NEW g \in Range(groups), NEW e \in Range(g) PROVE e \in Range(batch)
  <2>1. PICK s \in Submissions : g = Within(batch, Range(s))
    BY <1>14
  <2>2. Range(g) = Range(batch) \cap Range(s)
    BY <2>1, WithinMembers
  <2> QED
    BY <2>2
<1>16. ASSUME NEW e \in Range(batch) PROVE \E g \in Range(groups) : e \in Range(g)
  <2>1. PICK i \in 1..n : batch[i] = e
    BY <1>1 DEF Range
  <2>2. PICK same : same = {j \in 1..n : subs[j] = subs[i]}
    OBVIOUS
  <2>3. PICK j \in same : \A k \in same : j <= k
    <3>1. same \subseteq Nat /\ i \in same
      BY <2>2
    <3> QED
      BY <3>1, FirstNumber
  <2>4. j \in heads
    <3>1. \A k \in 1..(j - 1) : k \in 1..n /\ k \notin same
      BY <2>2, <2>3
    <3> QED
      BY <1>1, <1>4, <2>2, <2>3, <3>1
  <2>5. PICK k \in DOMAIN first : first[k] = j
    BY <1>8, <2>4 DEF Range
  <2>6. groups[k] = Within(batch, Range(subs[i])) /\ groups[k] \in Range(groups)
    BY <1>11, <2>2, <2>3, <2>5 DEF Range
  <2>7. Range(groups[k]) = Range(batch) \cap Range(subs[i])
    BY <2>6, WithinMembers
  <2> QED
    BY <1>3, <2>1, <2>6, <2>7
<1> QED
  BY <1>10, <1>13, <1>14, <1>15, <1>16 DEF EventsIn

-----------------------------------------------------------------------------
\* What the coordinator's steps do to the places.

LEMMA PlacesSubmit ==
  ASSUME NEW A, NEW G, NEW C, NEW P, NEW I, Places(A, G, C, P, I),
         NEW s \in Submissions, Range(s) \cap I = {}
  PROVE  Places(A, G, C, P \cup Range(s), I \cup Range(s))
<1>1. \A t \in Submissions : t # s => Range(t) \cap Range(s) = {}
  BY EventLoopAssumption
<1>2. PICK E : E = EventsIn(G)
  OBVIOUS
<1>3. Range(s) \cap (A \cup E \cup C) = {}
  BY <1>2 DEF Places
<1>4. ASSUME NEW X, Apart(X, P), Range(s) \cap X = {} PROVE Apart(X, P \cup Range(s))
  BY <1>1, <1>4 DEF Apart
<1> QED
  BY <1>2, <1>3, <1>4 DEF Places

LEMMA PlacesTake ==
  ASSUME NEW A, NEW G, NEW P, NEW I, Places(A, G, {}, P, I)
  PROVE  Places(A, G, P, {}, I)
BY DEF Places, Apart

\* Nothing is in two places.
LEMMA PlacesDisjoint ==
  ASSUME NEW A, NEW G, NEW C, NEW P, NEW I, Places(A, G, C, P, I), I \subseteq Events
  PROVE  /\ A \cap C = {} /\ EventsIn(G) \cap C = {} /\ P \cap C = {}
         /\ A \cap EventsIn(G) = {}
<1>1. ASSUME NEW X, NEW Y, Apart(X, Y), X \subseteq Events PROVE X \cap Y = {}
  BY <1>1, InSubmission DEF Apart
<1>2. PICK E : E = EventsIn(G)
  OBVIOUS
<1>3. /\ Apart(A, C) /\ Apart(E, C) /\ Apart(C, P) /\ Apart(A, E)
      /\ A \subseteq Events /\ E \subseteq Events /\ C \subseteq Events
  BY <1>2 DEF Places
<1> QED
  BY <1>1, <1>2, <1>3

LEMMA PlacesFail ==
  ASSUME NEW A, NEW G, NEW C, NEW P, NEW I, Places(A, G, C, P, I), I \subseteq Events
  PROVE  Places(A, G, {}, P, I \ C)
<1>1. PICK E : E = EventsIn(G)
  OBVIOUS
<1>2. A \cap C = {} /\ E \cap C = {} /\ P \cap C = {}
  BY <1>1, PlacesDisjoint
<1>3. /\ Apart(A, E) /\ Apart(A, P) /\ Apart(E, P) /\ A \cup E \cup C \cup P \subseteq I
      /\ \A s \in Submissions, g, h \in G :
           Range(s) \cap Range(g) # {} /\ Range(s) \cap Range(h) # {} => g = h
  BY <1>1 DEF Places
<1>4. \A X : Apart(X, {}) /\ Apart({}, X)
  BY DEF Apart
<1> QED
  BY <1>1, <1>2, <1>3, <1>4 DEF Places

LEMMA PlacesPublish ==
  ASSUME NEW A, NEW G, NEW C, NEW P, NEW I, Places(A, G, C, P, I), I \subseteq Events,
         NEW batch \in Seq(Events), Range(batch) \subseteq C
  PROVE  Places(A, G \cup Range(Partition(batch)), {}, P, I \ (C \ Range(batch)))
<1>1. PICK E : E = EventsIn(G)
  OBVIOUS
<1>2. A \cap C = {} /\ E \cap C = {} /\ P \cap C = {}
  BY <1>1, PlacesDisjoint
<1>3. PICK H : H = Range(Partition(batch))
  OBVIOUS
<1>4. EventsIn(H) = Range(batch) /\ \A g \in H : \E s \in Submissions : g = Within(batch, Range(s))
  BY <1>3, PartitionGroups
<1>5. EventsIn(G \cup H) = E \cup Range(batch)
  BY <1>1, <1>4 DEF EventsIn
<1>6. /\ Apart(A, E) /\ Apart(A, C) /\ Apart(A, P) /\ Apart(E, P) /\ Apart(C, P) /\ Apart(E, C)
      /\ A \cup E \cup C \cup P \subseteq I
      /\ \A s \in Submissions, g, h \in G :
           Range(s) \cap Range(g) # {} /\ Range(s) \cap Range(h) # {} => g = h
  BY <1>1 DEF Places
<1>7. /\ Apart(A, E \cup Range(batch)) /\ Apart(E \cup Range(batch), P) /\ Apart(A, {})
      /\ Apart(E \cup Range(batch), {}) /\ Apart({}, P)
  BY <1>6 DEF Apart
<1>8. A \cup (E \cup Range(batch)) \cup {} \cup P \subseteq I \ (C \ Range(batch))
  BY <1>2, <1>6
<1>9. ASSUME NEW s \in Submissions, NEW g \in G \cup H, NEW h \in G \cup H,
             Range(s) \cap Range(g) # {}, Range(s) \cap Range(h) # {}
      PROVE  g = h
  <2>1. ASSUME NEW x \in G, Range(s) \cap Range(x) # {} PROVE Range(s) \cap E # {}
    BY <1>1, <2>1 DEF EventsIn
  <2>2. ASSUME NEW x \in H, Range(s) \cap Range(x) # {}
        PROVE  Range(s) \cap C # {} /\ x = Within(batch, Range(s))
    <3>1. PICK t \in Submissions : x = Within(batch, Range(t))
      BY <1>4
    <3>2. Range(x) = Range(batch) \cap Range(t)
      BY <3>1, WithinMembers
    <3>3. t = s /\ Range(s) \cap C # {}
      BY <2>2, <3>2, OneSubmission
    <3> QED
      BY <3>1, <3>3
  <2>3. Range(s) \cap E = {} \/ Range(s) \cap C = {}
    BY <1>6 DEF Apart
  <2>4. CASE g \in G /\ h \in G
    BY <1>6, <1>9, <2>4
  <2>5. CASE g \in H /\ h \in H
    BY <1>9, <2>2, <2>5
  <2> QED
    BY <1>9, <2>1, <2>2, <2>3, <2>4, <2>5
<1>10. Places(A, G \cup H, {}, P, I \ (C \ Range(batch)))
  BY <1>5, <1>7, <1>8, <1>9 DEF Places
<1> QED
  BY <1>3, <1>10

LEMMA PlacesRun ==
  ASSUME NEW A, NEW G, NEW C, NEW P, NEW I, Places(A, G, C, P, I), NEW R, R \subseteq G
  PROVE  Places(A \cup EventsIn(R), G \ R, C, P, I)
<1>1. PICK E : E = EventsIn(G)
  OBVIOUS
<1>2. PICK F1 : F1 = EventsIn(R)
  OBVIOUS
<1>3. PICK F2 : F2 = EventsIn(G \ R)
  OBVIOUS
<1>4. F1 \subseteq E /\ F2 \subseteq E
  BY <1>1, <1>2, <1>3 DEF EventsIn
<1>5. /\ Apart(A, E) /\ Apart(A, C) /\ Apart(A, P) /\ Apart(E, P) /\ Apart(C, P) /\ Apart(E, C)
      /\ A \cup E \cup C \cup P \subseteq I
      /\ \A s \in Submissions, g, h \in G :
           Range(s) \cap Range(g) # {} /\ Range(s) \cap Range(h) # {} => g = h
  BY <1>1 DEF Places
<1>6. Apart(F1, F2)
  <2> SUFFICES ASSUME NEW s \in Submissions, Range(s) \cap F1 # {}, Range(s) \cap F2 # {}
               PROVE  FALSE
    BY DEF Apart
  <2>1. PICK g \in R : Range(s) \cap Range(g) # {}
    BY <1>2 DEF EventsIn
  <2>2. PICK h \in G \ R : Range(s) \cap Range(h) # {}
    BY <1>3 DEF EventsIn
  <2> QED
    BY <1>5, <2>1, <2>2
<1>7. /\ Apart(A \cup F1, F2) /\ Apart(A \cup F1, C) /\ Apart(A \cup F1, P)
      /\ Apart(F2, C) /\ Apart(F2, P)
  BY <1>4, <1>5, <1>6 DEF Apart
<1>8. (A \cup F1) \cup F2 \cup C \cup P \subseteq I
  BY <1>4, <1>5
<1> QED
  BY <1>2, <1>3, <1>5, <1>7, <1>8 DEF Places

-----------------------------------------------------------------------------
\* One worker's step.

Lane == {"compile", "append", "publish", "notify"}

OthersWork(w) == \A v \in Workers : v # w => work'[v] = work[v]

LEMMA OnlyHolder ==
  ASSUME LaneSound, NEW w \in Workers, work[w].pc \in Lane
  PROVE  /\ \A v \in Workers : v # w => work[v].pc \notin Lane
         /\ Holds(w) => Taken = Range(work[w].queued)
         /\ ~Holds(w) => Taken = {}
<1>1. \A v \in Workers : v # w => work[v].pc \notin Lane
  BY DEF LaneSound, Lane
<1>2. \A v \in Workers : v # w => ~Holds(v)
  BY <1>1 DEF Holds, Lane
<1> QED
  BY <1>1, <1>2 DEF Taken

LEMMA NobodyHolds ==
  ASSUME LaneSound, commitMu = Nobody
  PROVE  Taken = {} /\ \A v \in Workers : work[v].pc \notin Lane
<1>1. \A v \in Workers : work[v].pc \notin Lane
  BY EventLoopAssumption DEF LaneSound, Lane
<1>2. \A v \in Workers : ~Holds(v)
  BY <1>1 DEF Holds, Lane
<1> QED
  BY <1>1, <1>2 DEF Taken

\* A step that hands no run anything and submits nothing.
LEMMA InterruptsKept ==
  ASSUME InterruptsSound, UNCHANGED <<sub, acted, activeEpoch>>,
         \A v \in Drivers : work'[v].pc = "process" => work'[v] = work[v]
  PROVE  InterruptsSound'
<1>1. \A v \in Drivers : work'[v].pc = "process" =>
        /\ work[v].pc = "process" /\ work'[v].run = work[v].run /\ work'[v].epoch = work[v].epoch
  OBVIOUS
<1> QED
  BY <1>1 DEF InterruptsSound

Queues == <<pending, eventIDs, deferred, acted>>

\* A worker goes on with what it holds, if it holds anything.
LEMMA WorkerGoesOn ==
  ASSUME LaneSound, PlacesSound, InterruptsSound, NEW w \in Workers, OthersWork(w),
         UNCHANGED <<commitMu, Queues, sub, activeEpoch>>,
         work'[w].pc # "process",
         work'[w].pc \in Lane => work[w].pc \in Lane,
         Holds(w)' <=> Holds(w),
         Holds(w) => /\ work'[w].queued = work[w].queued /\ work'[w].batch \in Seq(Events)
                     /\ Range(work'[w].batch) \subseteq Range(work[w].queued)
  PROVE  LaneSound' /\ PlacesSound' /\ InterruptsSound'
<1>1. \A v \in Workers : Holds(v)' <=> Holds(v)
  BY DEF Holds, OthersWork
<1>2. \A v \in Workers : Holds(v) => work'[v].queued = work[v].queued
  BY DEF OthersWork
<1>3. Taken' = Taken
  BY <1>1, <1>2 DEF Taken
<1>4. PlacesSound'
  BY <1>3 DEF PlacesSound, Queues
<1>5. InterruptsSound'
  BY InterruptsKept DEF OthersWork, Workers, Queues
<1>6. LaneSound'
  <2> SUFFICES ASSUME NEW v \in Workers
               PROVE  /\ work'[v].pc \in Lane => commitMu' = v
                      /\ Holds(v)' => /\ work'[v].queued \in Seq(Events) /\ work'[v].batch \in Seq(Events)
                                      /\ Range(work'[v].batch) \subseteq Range(work'[v].queued)
    BY DEF LaneSound, Lane
  <2>1. CASE v = w
    BY <1>1, <2>1 DEF LaneSound, Lane
  <2>2. CASE v # w
    BY <1>1, <2>2 DEF LaneSound, Lane, OthersWork
  <2> QED
    BY <2>1, <2>2
<1> QED
  BY <1>4, <1>5, <1>6

\* The holder of the lane leaves it.
LEMMA WorkerLeaves ==
  ASSUME LaneSound, NEW w \in Workers, OthersWork(w), work[w].pc \in Lane,
         work'[w].pc \notin {"compile", "append", "publish", "process"},
         work'[w].pc = "notify" => commitMu' = w
  PROVE  /\ LaneSound' /\ Taken' = {}
         /\ \A v \in Drivers : work'[v].pc = "process" => work'[v] = work[v]
<1>1. \A v \in Workers : v # w => work[v].pc \notin Lane
  BY OnlyHolder
<1>2. \A v \in Workers : v # w => work'[v].pc \notin Lane
  BY <1>1 DEF OthersWork
<1>3. \A v \in Workers : ~Holds(v)'
  BY <1>2 DEF Holds, Lane
<1>4. LaneSound'
  BY <1>2, <1>3 DEF LaneSound, Lane
<1>5. Taken' = {}
  BY <1>3 DEF Taken
<1> QED
  BY <1>4, <1>5 DEF OthersWork, Workers

LEMMA GoesTo ==
  ASSUME WorkShape, NEW w \in Workers, NEW pc, To(w, pc)
  PROVE  /\ OthersWork(w) /\ work'[w].pc = pc
         /\ work'[w].queued = work[w].queued /\ work'[w].batch = work[w].batch
BY DEF WorkShape, Fields, To, OthersWork

LEMMA StartsOver ==
  ASSUME WorkShape, NEW w \in Workers, NEW pc, work' = [work EXCEPT ![w] = At(pc)]
  PROVE  OthersWork(w) /\ work'[w].pc = pc
BY AtShape DEF WorkShape, OthersWork

\* The group is given up: its events are known no longer.
LEMMA FailStep ==
  ASSUME DeliverySound, NEW w \in Workers, work[w].pc \in {"compile", "append"}, CommitFails(w),
         UNCHANGED <<sub, acted, activeEpoch>>
  PROVE  /\ LaneSound' /\ PlacesSound' /\ InterruptsSound' /\ OthersWork(w)
         /\ work'[w].pc \in {"wait", "idle"}
         /\ deferred' = deferred /\ Range(eventIDs') = Range(eventIDs) \ Range(work[w].queued)
<1> USE DEF DeliverySound
<1>1. /\ eventIDs' = Without(eventIDs, Range(work[w].queued)) /\ UNCHANGED <<pending, deferred>>
      /\ work' = [work EXCEPT ![w] = At(AfterError(w))] /\ AfterError(w) \in {"wait", "idle"}
  BY DEF CommitFails, AfterError
<1>2. OthersWork(w) /\ work'[w].pc \in {"wait", "idle"}
  BY <1>1, StartsOver DEF RunInv
<1>3. /\ LaneSound' /\ Taken' = {}
      /\ \A v \in Drivers : work'[v].pc = "process" => work'[v] = work[v]
  BY <1>2, WorkerLeaves DEF Lane
<1>4. InterruptsSound'
  BY <1>3, InterruptsKept
<1>5. Taken = Range(work[w].queued)
  BY OnlyHolder DEF Lane, Holds
<1>6. eventIDs' \in Seq(Events) /\ Range(eventIDs') = Range(eventIDs) \ Taken
  BY <1>1, <1>5, WithoutMembers DEF PlacesSound
<1>7. Places(acted, Range(deferred), {}, Range(pending), Range(eventIDs) \ Taken)
  BY PlacesFail, MembersOf DEF PlacesSound
<1>8. PlacesSound'
  BY <1>1, <1>3, <1>6, <1>7 DEF PlacesSound
<1> QED
  BY <1>1, <1>2, <1>3, <1>4, <1>5, <1>6, <1>8

LEMMA TakeStep ==
  ASSUME DeliverySound, NEW w \in Workers, CommitTake(w)
  PROVE  LaneSound' /\ PlacesSound' /\ InterruptsSound'
<1> USE DEF DeliverySound
<1>1. /\ commitMu = Nobody /\ commitMu' = w /\ pending' = << >>
      /\ UNCHANGED <<eventIDs, deferred, acted, sub, activeEpoch>>
  BY DEF CommitTake, commitSame, runVars
<1>2. /\ OthersWork(w) /\ work'[w].pc = "compile"
      /\ work'[w].queued = pending /\ work'[w].batch = pending
  BY DEF CommitTake, OthersWork, RunInv, WorkShape, Fields
<1>3. Taken = {} /\ \A v \in Workers : work[v].pc \notin Lane
  BY <1>1, NobodyHolds
<1>4. \A v \in Workers : v # w => work'[v].pc \notin Lane
  BY <1>2, <1>3 DEF OthersWork
<1>5. \A v \in Workers : Holds(v)' <=> v = w
  BY <1>2, <1>4 DEF Holds, Lane
<1>6. LaneSound'
  BY <1>1, <1>2, <1>4, <1>5 DEF LaneSound, Lane, PlacesSound
<1>7. Taken' = Range(pending)
  BY <1>2, <1>5 DEF Taken
<1>8. Places(acted, Range(deferred), Range(pending), {}, Range(eventIDs))
  BY <1>3, PlacesTake DEF PlacesSound
<1>9. Range(<< >>) = {} /\ << >> \in Seq(Events)
  BY DEF Range
<1>10. PlacesSound'
  BY <1>1, <1>7, <1>8, <1>9 DEF PlacesSound
<1>11. InterruptsSound'
  BY <1>1, <1>2, InterruptsKept DEF OthersWork, Workers
<1> QED
  BY <1>6, <1>10, <1>11

LEMMA PublishStep ==
  ASSUME DeliverySound, NEW w \in Workers, CommitPublish(w)
  PROVE  /\ LaneSound' /\ PlacesSound' /\ InterruptsSound' /\ OthersWork(w)
         /\ work'[w].pc = "notify" /\ acted' = acted
         /\ Range(deferred') = Range(deferred) \cup Range(Partition(work[w].batch))
         /\ Range(eventIDs') = Range(eventIDs) \ (Range(work[w].queued) \ Range(work[w].batch))
<1> USE DEF DeliverySound
<1> DEFINE batch == work[w].batch
<1>1. /\ work[w].pc = "publish"
      /\ eventIDs' = Without(eventIDs, Range(work[w].queued) \ Range(batch))
      /\ deferred' = deferred \o Partition(batch) /\ work' = [work EXCEPT ![w] = At("notify")]
      /\ UNCHANGED <<pending, acted, sub, activeEpoch, commitMu>>
  BY DEF CommitPublish, commitSame, runVars
<1>2. OthersWork(w) /\ work'[w].pc = "notify"
  BY <1>1, StartsOver DEF RunInv
<1>3. /\ commitMu = w /\ batch \in Seq(Events) /\ Range(batch) \subseteq Range(work[w].queued)
  BY <1>1 DEF LaneSound, Holds
<1> HIDE DEF batch
<1>4. /\ LaneSound' /\ Taken' = {}
      /\ \A v \in Drivers : work'[v].pc = "process" => work'[v] = work[v]
  BY <1>1, <1>2, <1>3, WorkerLeaves DEF Lane
<1>5. InterruptsSound'
  BY <1>1, <1>4, InterruptsKept
<1>6. Taken = Range(work[w].queued)
  BY <1>1, OnlyHolder DEF Lane, Holds
<1>7. /\ eventIDs' \in Seq(Events) /\ Range(eventIDs') = Range(eventIDs) \ (Taken \ Range(batch))
  BY <1>1, <1>6, WithoutMembers DEF PlacesSound
<1>8. Partition(batch) \in Seq(Seq(Events))
  BY <1>3, PartitionGroups
<1>9. /\ deferred' \in Seq(Seq(Events))
      /\ Range(deferred') = Range(deferred) \cup Range(Partition(batch))
  BY <1>1, <1>8, RangeConcat DEF PlacesSound
<1>10. Places(acted, Range(deferred) \cup Range(Partition(batch)), {}, Range(pending),
              Range(eventIDs) \ (Taken \ Range(batch)))
  BY <1>3, <1>6, PlacesPublish, MembersOf DEF PlacesSound
<1>11. PlacesSound'
  BY <1>1, <1>4, <1>7, <1>9, <1>10 DEF PlacesSound
<1> QED
  BY <1>1, <1>2, <1>4, <1>5, <1>6, <1>7, <1>9, <1>11 DEF batch

LEMMA CommitStep ==
  ASSUME DeliverySound, NEW w \in Workers, Commit(w)
  PROVE  LaneSound' /\ PlacesSound' /\ InterruptsSound'
<1> USE DEF DeliverySound
<1>1. UNCHANGED <<acted, sub, activeEpoch>>
  BY DEF Commit, CommitIdle, CommitTake, CommitCompile, CommitConflict, CommitRefused,
         CommitAppend, CommitPublish, CommitNotify, commitSame, runVars
<1>2. ASSUME NEW pc, To(w, pc), UNCHANGED <<commitMu, pending, eventIDs, deferred>>,
             work[w].pc \in {"compile", "append"}, pc \in {"compile", "append", "publish"}
      PROVE  LaneSound' /\ PlacesSound' /\ InterruptsSound'
  <2>1. /\ OthersWork(w) /\ work'[w].pc = pc
        /\ work'[w].queued = work[w].queued /\ work'[w].batch = work[w].batch
    BY <1>2, GoesTo DEF RunInv
  <2> QED
    BY <1>1, <1>2, <2>1, WorkerGoesOn DEF Holds, Lane, Queues, LaneSound
<1>3. CASE CommitIdle(w)
  <2>1. /\ work[w].pc = "commit" /\ To(w, AfterCommit(w)) /\ AfterCommit(w) \in {"select", "idle"}
        /\ UNCHANGED <<commitMu, pending, eventIDs, deferred>>
    BY <1>3 DEF CommitIdle, AfterCommit, queueVars
  <2>2. OthersWork(w) /\ work'[w].pc \in {"select", "idle"}
    BY <2>1, GoesTo DEF RunInv
  <2> QED
    BY <1>1, <2>1, <2>2, WorkerGoesOn DEF Holds, Lane, Queues
<1>4. CASE CommitTake(w)
  BY <1>4, TakeStep
<1>5. CASE CommitCompile(w)
  <2>1. CASE CommitFails(w)
    BY <1>1, <1>5, <2>1, FailStep DEF CommitCompile
  <2>2. CASE ~CommitFails(w)
    <3>1. PICK pc \in {"publish", "append"} :
            /\ work' = [work EXCEPT ![w].snapshot = Len(log), ![w].pc = pc]
            /\ work[w].pc = "compile" /\ UNCHANGED <<commitMu, pending, eventIDs, deferred>>
      BY <1>5, <2>2 DEF CommitCompile, queueVars
    <3>2. /\ OthersWork(w) /\ work'[w].pc = pc
          /\ work'[w].queued = work[w].queued /\ work'[w].batch = work[w].batch
      BY <3>1 DEF OthersWork, RunInv, WorkShape, Fields
    <3> QED
      BY <1>1, <3>1, <3>2, WorkerGoesOn DEF Holds, Lane, Queues, LaneSound
  <2> QED
    BY <2>1, <2>2
<1>6. CASE CommitConflict(w)
  BY <1>2, <1>6 DEF CommitConflict, queueVars
<1>7. CASE CommitRefused(w)
  <2>1. CASE CommitFails(w)
    BY <1>1, <1>7, <2>1, FailStep DEF CommitRefused
  <2>2. CASE ~CommitFails(w)
    <3>1. PICK offender :
            /\ work' = [work EXCEPT ![w].pc = "compile", ![w].batch = Without(@, {offender})]
            /\ work[w].pc = "append" /\ UNCHANGED <<commitMu, pending, eventIDs, deferred>>
      BY <1>7, <2>2 DEF CommitRefused, queueVars
    <3>2. /\ OthersWork(w) /\ work'[w].pc = "compile" /\ work'[w].queued = work[w].queued
          /\ work'[w].batch = Without(work[w].batch, {offender})
      BY <3>1 DEF OthersWork, RunInv, WorkShape, Fields
    <3>3. work[w].batch \in Seq(Events) /\ Range(work[w].batch) \subseteq Range(work[w].queued)
      BY <3>1 DEF LaneSound, Holds
    <3>4. work'[w].batch \in Seq(Events) /\ Range(work'[w].batch) \subseteq Range(work[w].queued)
      BY <3>2, <3>3, WithoutMembers
    <3> QED
      BY <1>1, <3>1, <3>2, <3>4, WorkerGoesOn DEF Holds, Lane, Queues
  <2> QED
    BY <2>1, <2>2
<1>8. CASE CommitAppend(w)
  BY <1>2, <1>8 DEF CommitAppend, queueVars
<1>9. CASE CommitPublish(w)
  BY <1>9, PublishStep
<1>10. CASE CommitNotify(w)
  <2>1. /\ work[w].pc = "notify" /\ To(w, AfterCommit(w)) /\ AfterCommit(w) \in {"select", "idle"}
        /\ UNCHANGED <<pending, eventIDs, deferred>>
    BY <1>10 DEF CommitNotify, AfterCommit, queueVars
  <2>2. OthersWork(w) /\ work'[w].pc \in {"select", "idle"}
    BY <2>1, GoesTo DEF RunInv
  <2>3. /\ LaneSound' /\ Taken' = {}
        /\ \A v \in Drivers : work'[v].pc = "process" => work'[v] = work[v]
    BY <2>1, <2>2, WorkerLeaves DEF Lane
  <2>4. Taken = {}
    BY <2>1, OnlyHolder DEF Lane, Holds
  <2>5. PlacesSound'
    BY <1>1, <2>1, <2>3, <2>4 DEF PlacesSound
  <2> QED
    BY <1>1, <2>3, <2>5, InterruptsKept
<1> QED
  BY <1>3, <1>4, <1>5, <1>6, <1>7, <1>8, <1>9, <1>10 DEF Commit

LEMMA EventsOfGroups ==
  ASSUME NEW groups
  PROVE  EventsOf(groups) = EventsIn(Range(groups))
BY DEF EventsOf, EventsIn, Range

\* What runs and what keeps waiting are the deferred groups, between them.
LEMMA Selection ==
  ASSUME PlacesSound
  PROVE  \E R \in SUBSET Range(deferred) :
           /\ Range(Runnable) = R /\ Range(Kept) = Range(deferred) \ R /\ Kept \in Seq(Seq(Events))
<1>1. deferred \in Seq(Seq(Events)) /\ ParallelGroups \subseteq Range(deferred)
  BY DEF PlacesSound, ParallelGroups
<1>2. CASE active
  <2>1. /\ Range(Within(deferred, ParallelGroups)) = Range(deferred) \cap ParallelGroups
        /\ Without(deferred, ParallelGroups) \in Seq(Seq(Events))
        /\ Range(Without(deferred, ParallelGroups)) = Range(deferred) \ ParallelGroups
    BY <1>1, WithinMembers, WithoutMembers
  <2>2. Runnable = Within(deferred, ParallelGroups) /\ Kept = Without(deferred, ParallelGroups)
    BY <1>2 DEF Runnable, Kept
  <2> QED
    BY <1>1, <2>1, <2>2
<1>3. CASE ~active
  <2>1. Runnable = deferred /\ Kept = << >> /\ Range(<< >>) = {}
    BY <1>3 DEF Runnable, Kept, Range
  <2> QED
    BY <2>1
<1> QED
  BY <1>2, <1>3

LEMMA StartStep ==
  ASSUME DeliverySound, NEW w \in Drivers, RunStart(w)
  PROVE  /\ LaneSound' /\ PlacesSound' /\ InterruptsSound'
         /\ OthersWork(w) /\ work[w].pc = "start" /\ work'[w].pc = "process"
         /\ eventIDs' = eventIDs
         /\ \E R \in SUBSET Range(deferred) :
              acted' = acted \cup EventsIn(R) /\ Range(deferred') = Range(deferred) \ R
<1> USE DEF DeliverySound
<1>1. PICK R \in SUBSET Range(deferred) :
        /\ Range(Runnable) = R /\ Range(Kept) = Range(deferred) \ R /\ Kept \in Seq(Seq(Events))
  BY Selection
<1>2. EventsOf(Runnable) = EventsIn(R)
  BY <1>1, EventsOfGroups
<1>3. /\ acted' = acted \cup EventsIn(R) /\ deferred' = Kept /\ work[w].pc = "start"
      /\ work' = [work EXCEPT ![w].pc = "process", ![w].run = EventsIn(R),
                              ![w].epoch = IF active THEN 0 ELSE activeEpoch + 1]
      /\ activeEpoch' = IF active THEN activeEpoch ELSE activeEpoch + 1
      /\ UNCHANGED <<pending, eventIDs, commitMu, sub>>
  BY <1>2 DEF RunStart, runSame
<1>4. w \in Workers
  BY DEF Workers
<1>5. /\ OthersWork(w) /\ work'[w].pc = "process" /\ work'[w].run = EventsIn(R)
      /\ work'[w].epoch = IF active THEN 0 ELSE activeEpoch + 1
  BY <1>3, <1>4 DEF OthersWork, RunInv, WorkShape, Fields
<1>6. \A v \in Workers : Holds(v)' <=> Holds(v)
  BY <1>3, <1>5 DEF OthersWork, Holds
<1>7. \A v \in Workers : Holds(v) => work'[v] = work[v]
  BY <1>3, <1>5 DEF OthersWork, Holds
<1>8. Taken' = Taken
  BY <1>6, <1>7 DEF Taken
<1>9. LaneSound'
  <2> SUFFICES ASSUME NEW v \in Workers
               PROVE  /\ work'[v].pc \in Lane => commitMu' = v
                      /\ Holds(v)' => /\ work'[v].queued \in Seq(Events) /\ work'[v].batch \in Seq(Events)
                                      /\ Range(work'[v].batch) \subseteq Range(work'[v].queued)
    BY DEF LaneSound, Lane
  <2>1. work'[v].pc \in Lane => work'[v] = work[v]
    BY <1>5 DEF OthersWork, Lane
  <2> QED
    BY <1>3, <1>6, <1>7, <2>1 DEF LaneSound, Lane
<1>10. Places(acted \cup EventsIn(R), Range(deferred) \ R, Taken, Range(pending), Range(eventIDs))
  BY PlacesRun DEF PlacesSound
<1>11. PlacesSound'
  BY <1>1, <1>3, <1>8, <1>10 DEF PlacesSound
<1>12. InterruptsSound'
  <2>1. activeEpoch \in Nat /\ activeEpoch' >= activeEpoch
    BY <1>3 DEF RunInv
  <2>2. \A s \in Submissions : sub[s].epoch \in Nat /\ sub[s].epoch <= activeEpoch
    BY DEF InterruptsSound
  <2>3. \A s \in Submissions : sub'[s].epoch <= activeEpoch'
    BY <1>3, <2>1, <2>2, activeEpoch' \in Nat DEF RunInv
  <2>4. \A v \in Drivers : work'[v].pc = "process" => work'[v].run \subseteq acted'
    BY <1>3, <1>5 DEF InterruptsSound, OthersWork, Workers
  <2>5. \A s \in Submissions, v \in Drivers :
          /\ sub[s].pc # "idle" /\ work'[v].pc = "process"
          /\ Range(s) \cap work'[v].run # {} /\ work'[v].epoch # 0
          => work'[v].epoch > sub[s].epoch
    <3> SUFFICES ASSUME NEW s \in Submissions, NEW v \in Drivers,
                        sub[s].pc # "idle", work'[v].pc = "process",
                        Range(s) \cap work'[v].run # {}, work'[v].epoch # 0
                 PROVE  work'[v].epoch > sub[s].epoch
      OBVIOUS
    <3>1. CASE v = w
      BY <1>5, <2>1, <2>2, <3>1
    <3>2. CASE v # w
      BY <1>5, <3>2 DEF InterruptsSound, OthersWork, Workers
    <3> QED
      BY <3>1, <3>2
  <2> QED
    BY <1>3, <2>3, <2>4, <2>5 DEF InterruptsSound
<1> QED
  BY <1>1, <1>3, <1>5, <1>9, <1>11, <1>12

Driving == {"wait", "loop", "commit", "select", "gate", "start", "process", "finish", "wake"}

\* The other steps of a driver leave the events where they are.
LEMMA DriveQuiet ==
  ASSUME WorkShape, NEW w \in Drivers, Drive(w), ~RunStart(w)
  PROVE  /\ OthersWork(w) /\ work[w].pc \in Driving
         /\ work'[w].pc \in Driving \ {"process"}
         /\ UNCHANGED <<commitMu, pending, eventIDs, deferred, acted, sub, activeEpoch>>
<1> USE DEF runSame, Driving
<1>1. w \in Workers
  BY DEF Workers
<1>2. ASSUME NEW pc, To(w, pc) PROVE OthersWork(w) /\ work'[w].pc = pc
  BY <1>1, <1>2, GoesTo
<1>3. ASSUME NEW pc, work' = [work EXCEPT ![w] = At(pc)] PROVE OthersWork(w) /\ work'[w].pc = pc
  BY <1>1, <1>3, StartsOver
<1>4. CASE DriveSignal(w) \/ DrainLoop(w)
  BY <1>2, <1>4 DEF DriveSignal, DrainLoop, runVars
<1>5. CASE RunNothing(w)
  <2>1. work' = [work EXCEPT ![w] = At("wait")]
    BY <1>5 DEF RunNothing
  <2>2. OthersWork(w) /\ work'[w].pc = "wait"
    BY <1>3, <2>1
  <2> QED
    BY <1>5, <2>2 DEF RunNothing, runVars
<1>6. CASE RunSelect(w)
  BY <1>1, <1>6 DEF RunSelect, runVars, OthersWork, WorkShape, Fields
<1>7. CASE AdmitRun(w)
  <2>1. To(w, "start") \/ work' = [work EXCEPT ![w] = At("wait")]
    BY <1>7 DEF AdmitRun, To
  <2>2. OthersWork(w) /\ work'[w].pc \in {"start", "wait"}
    BY <1>2, <1>3, <2>1
  <2> QED
    BY <1>7, <2>2 DEF AdmitRun, runVars
<1>8. CASE ProcessEnd(w)
  BY <1>1, <1>8 DEF ProcessEnd, runVars, OthersWork, WorkShape, Fields
<1>9. CASE RunFinish(w)
  <2>1. \/ work' = [work EXCEPT ![w].pc = "wake", ![w].run = {}]
        \/ work' = [work EXCEPT ![w] = At("wait")] \/ work' = [work EXCEPT ![w] = At("loop")]
    BY <1>9 DEF RunFinish, AfterRun
  <2>2. CASE work' = [work EXCEPT ![w].pc = "wake", ![w].run = {}]
    BY <1>1, <1>9, <2>2 DEF RunFinish, OthersWork, WorkShape, Fields
  <2>3. CASE ~(work' = [work EXCEPT ![w].pc = "wake", ![w].run = {}])
    <3>1. OthersWork(w) /\ work'[w].pc \in {"wait", "loop"}
      BY <1>3, <2>1, <2>3
    <3> QED
      BY <1>9, <3>1 DEF RunFinish
  <2> QED
    BY <2>2, <2>3
<1>10. CASE FinishNotify(w)
  <2>1. work' = [work EXCEPT ![w] = At("wait")] \/ work' = [work EXCEPT ![w] = At("loop")]
    BY <1>10 DEF FinishNotify, AfterRun
  <2>2. OthersWork(w) /\ work'[w].pc \in {"wait", "loop"}
    BY <1>3, <2>1
  <2> QED
    BY <1>10, <2>2 DEF FinishNotify, runVars
<1> QED
  BY <1>4, <1>5, <1>6, <1>7, <1>8, <1>9, <1>10 DEF Drive

LEMMA QueueStep ==
  ASSUME DeliverySound, NEW s \in Submissions, SubmitQueue(s)
  PROVE  /\ LaneSound' /\ PlacesSound' /\ InterruptsSound'
         /\ Range(s) \cap Range(eventIDs) = {} /\ Range(eventIDs') = Range(eventIDs) \cup Range(s)
<1> USE DEF DeliverySound
<1>1. /\ pending' = pending \o s /\ eventIDs' = eventIDs \o s /\ Range(s) \cap Range(eventIDs) = {}
      /\ sub' = [sub EXCEPT ![s] = [pc |-> IF Interrupts(s) /\ active THEN "cancel" ELSE "notify",
                                    epoch |-> activeEpoch]]
      /\ UNCHANGED <<deferred, commitMu, work, acted, activeEpoch>>
  BY DEF SubmitQueue, runVars
<1>2. s \in Seq(Events)
  BY EventLoopAssumption
<1>3. /\ pending' \in Seq(Events) /\ eventIDs' \in Seq(Events)
      /\ Range(pending') = Range(pending) \cup Range(s)
      /\ Range(eventIDs') = Range(eventIDs) \cup Range(s)
  BY <1>1, <1>2, RangeConcat DEF PlacesSound
<1>4. Taken' = Taken
  BY <1>1 DEF Taken, Holds
<1>5. Places(acted, Range(deferred), Taken, Range(pending) \cup Range(s), Range(eventIDs) \cup Range(s))
  BY <1>1, PlacesSubmit DEF PlacesSound
<1>6. PlacesSound'
  BY <1>1, <1>3, <1>4, <1>5 DEF PlacesSound
<1>7. LaneSound'
  BY <1>1 DEF LaneSound, Holds
<1>8. InterruptsSound'
  <2>1. acted \subseteq Range(eventIDs)
    BY DEF PlacesSound, Places
  <2>2. \A v \in Drivers : work[v].pc = "process" => Range(s) \cap work[v].run = {}
    BY <1>1, <2>1 DEF InterruptsSound
  <2>3. activeEpoch \in Nat
    BY DEF RunInv
  <2>4. PICK t : t = [pc |-> IF Interrupts(s) /\ active THEN "cancel" ELSE "notify",
                      epoch |-> activeEpoch]
    OBVIOUS
  <2>5. t \in [pc : {"idle", "cancel", "notify"}, epoch : Nat] /\ t.epoch = activeEpoch
    BY <2>3, <2>4
  <2>6. sub' = [sub EXCEPT ![s] = t]
    BY <1>1, <2>4
  <2>7. /\ sub' \in [Submissions -> [pc : {"idle", "cancel", "notify"}, epoch : Nat]]
        /\ sub'[s] = t /\ \A u \in Submissions : u # s => sub'[u] = sub[u]
    BY <2>5, <2>6 DEF InterruptsSound
  <2> QED
    BY <1>1, <2>2, <2>3, <2>5, <2>7 DEF InterruptsSound
<1> QED
  BY <1>1, <1>3, <1>6, <1>7, <1>8

LEMMA DeliveryStep ==
  ASSUME DeliverySound, [EventLoopNext]_vars
  PROVE  DeliverySound'
<1> USE DEF DeliverySound
<1> DEFINE Sound == LaneSound' /\ PlacesSound' /\ InterruptsSound'
<1>1. RunInv'
  BY RunInvStep
<1>2. ASSUME UNCHANGED <<commitMu, work, pending, eventIDs, deferred, acted, activeEpoch, sub>>
      PROVE  Sound
  <2>1. Taken' = Taken /\ LaneSound'
    BY <1>2 DEF Taken, Holds, LaneSound
  <2> QED
    BY <1>2, <2>1, InterruptsKept DEF PlacesSound
<1>3. ASSUME NEW s \in Submissions, SubmitCancel(s) \/ SubmitNotify(s) PROVE Sound
  <2>1. UNCHANGED <<commitMu, work, pending, eventIDs, deferred, acted, activeEpoch>>
    BY <1>3 DEF SubmitCancel, SubmitNotify, queueVars, runVars, ghostVars
  <2>2. Taken' = Taken /\ LaneSound'
    BY <2>1 DEF Taken, Holds, LaneSound
  <2>3. PICK t \in [pc : {"idle", "cancel", "notify"}, epoch : Nat] :
          /\ sub' = [sub EXCEPT ![s] = t] /\ t.epoch <= activeEpoch
          /\ t.pc # "idle" => sub[s].pc # "idle" /\ t.epoch = sub[s].epoch
    <3>1. CASE SubmitCancel(s)
      <4>1. PICK t : t = [sub[s] EXCEPT !.pc = "notify"]
        OBVIOUS
      <4>2. /\ t \in [pc : {"idle", "cancel", "notify"}, epoch : Nat] /\ t.epoch = sub[s].epoch
            /\ sub[s].epoch <= activeEpoch
        BY <4>1 DEF InterruptsSound
      <4>3. sub' = [sub EXCEPT ![s] = t] /\ sub[s].pc = "cancel"
        BY <3>1, <4>1 DEF SubmitCancel
      <4> QED
        BY <4>2, <4>3
    <3>2. CASE SubmitNotify(s)
      <4>1. PICK t : t = [pc |-> "idle", epoch |-> 0]
        OBVIOUS
      <4>2. t \in [pc : {"idle", "cancel", "notify"}, epoch : Nat] /\ t.epoch = 0 /\ t.pc = "idle"
        BY <4>1
      <4>3. sub' = [sub EXCEPT ![s] = t] /\ activeEpoch \in Nat
        BY <3>2, <4>1 DEF SubmitNotify, RunInv
      <4>4. t.epoch <= activeEpoch
        BY <4>2, <4>3
      <4> QED
        BY <4>2, <4>3, <4>4, Zenon
    <3> QED
      BY <1>3, <3>1, <3>2
  <2>4. /\ sub' \in [Submissions -> [pc : {"idle", "cancel", "notify"}, epoch : Nat]]
        /\ sub'[s] = t /\ \A u \in Submissions : u # s => sub'[u] = sub[u]
    BY <2>3 DEF InterruptsSound
  <2>5. InterruptsSound'
    BY <2>1, <2>3, <2>4 DEF InterruptsSound
  <2> QED
    BY <2>1, <2>2, <2>5 DEF PlacesSound
<1>4. ASSUME NEW w \in Committers, CommitCall(w) PROVE Sound
  <2>1. /\ work[w].pc = "idle" /\ To(w, "commit") /\ w \in Workers
        /\ UNCHANGED <<commitMu, pending, eventIDs, deferred, acted, sub, activeEpoch>>
    BY <1>4 DEF CommitCall, commitSame, queueVars, runVars, Workers
  <2>2. OthersWork(w) /\ work'[w].pc = "commit"
    BY <2>1, GoesTo DEF RunInv
  <2> QED
    BY <2>1, <2>2, WorkerGoesOn DEF Holds, Lane, Queues
<1>5. ASSUME NEW w \in Drivers, Drive(w), ~RunStart(w) PROVE Sound
  <2>1. /\ OthersWork(w) /\ work[w].pc \in Driving
        /\ work'[w].pc \in Driving \ {"process"}
        /\ UNCHANGED <<commitMu, pending, eventIDs, deferred, acted, sub, activeEpoch>>
    BY <1>5, DriveQuiet DEF RunInv
  <2> QED
    BY <2>1, WorkerGoesOn DEF Holds, Lane, Queues, Driving, Workers
<1>6. ASSUME NEW w \in Drivers, ProcessAppend(w) PROVE Sound
  BY <1>2, <1>6 DEF ProcessAppend, runSame, runVars
<1>7. ASSUME InterruptCapture \/ InterruptCancel \/ Hold \/ Relieve \/ WakeCheck \/ WakeNotify
      PROVE  Sound
  <2>1. UNCHANGED <<commitMu, work, pending, eventIDs, deferred, acted, activeEpoch, sub>>
    BY <1>7 DEF InterruptCapture, InterruptCancel, Hold, Relieve, WakeCheck, WakeNotify,
                gateSame, queueVars, runVars, ghostVars
  <2> QED
    BY <1>2, <2>1
<1>8. ASSUME UNCHANGED vars PROVE Sound
  <2>1. UNCHANGED <<commitMu, work, pending, eventIDs, deferred, acted, activeEpoch, sub>>
    BY <1>8 DEF vars, queueVars, runVars, ghostVars
  <2> QED
    BY <1>2, <2>1
<1>9. Sound
  BY <1>3, <1>4, <1>5, <1>6, <1>7, <1>8, QueueStep, CommitStep, StartStep
     DEF EventLoopNext, SubmitBatch, Drive
<1> QED
  BY <1>1, <1>9

LEMMA DeliveryStart ==
  ASSUME EventLoopInit
  PROVE  DeliverySound
<1>1. RunInv
  BY InitRunInv
<1>2. \A w \in Workers : work[w].pc \in {"wait", "idle"}
  BY AtShape DEF EventLoopInit
<1>3. Taken = {} /\ LaneSound
  BY <1>2 DEF Taken, Holds, LaneSound
<1>4. Range(<< >>) = {} /\ EventsIn({}) = {}
  BY DEF Range, EventsIn
<1>5. Places({}, {}, {}, {}, {})
  BY <1>4 DEF Places, Apart
<1>6. PlacesSound
  <2>1. pending = << >> /\ eventIDs = << >> /\ deferred = << >> /\ acted = {}
    BY DEF EventLoopInit
  <2>2. Places(acted, Range(deferred), Taken, Range(pending), Range(eventIDs))
    BY <1>3, <1>4, <1>5, <2>1, Zenon
  <2> QED
    BY <2>1, <2>2 DEF PlacesSound
<1>7. InterruptsSound
  <2>1. \A w \in Drivers : work[w].pc # "process"
    BY <1>2 DEF Workers
  <2>2. activeEpoch = 0 /\ sub = [s \in Submissions |-> [pc |-> "idle", epoch |-> 0]]
    BY DEF EventLoopInit
  <2> QED
    BY <2>1, <2>2 DEF InterruptsSound
<1> QED
  BY <1>1, <1>3, <1>6, <1>7 DEF DeliverySound

\* An interrupting event cancels the work it interrupted, never the run that
\* answers it, however late its cancellation is delivered: the run began when
\* the epoch the event captured was over.
THEOREM EventLoopSparesItsOwnRun == EventLoopSpec => []InterruptSparesItsOwnRun
<1>1. DeliverySound => InterruptSparesItsOwnRun
  BY DEF DeliverySound, InterruptsSound, InterruptSparesItsOwnRun
<1>2. EventLoopInit => DeliverySound
  BY DeliveryStart
<1>3. DeliverySound /\ [EventLoopNext]_vars => DeliverySound'
  BY DeliveryStep
<1> QED
  BY <1>1, <1>2, <1>3, PTL DEF EventLoopSpec

-----------------------------------------------------------------------------
\* The coordinator implements Delivery.

\* Events in the log whose groups are not deferred yet.
Publishing == UNION {Range(work[w].batch) : w \in {v \in Workers : work[v].pc = "publish"}}

\* The stage of every event, where A were handed over, K are committed and I known.
StageIn(A, K, I) ==
  [e \in Events |-> CASE e \in A -> "acted"
                      [] e \in K \ A -> "committed"
                      [] e \in I \ K -> "admitted"
                      [] OTHER -> "unknown"]

LEMMA StageAt ==
  ASSUME NEW A, NEW K, NEW I, A \subseteq K, K \subseteq I
  PROVE  /\ StageIn(A, K, I) \in [Events -> {"unknown", "admitted", "committed", "acted"}]
         /\ \A e \in Events : StageIn(A, K, I)[e] = IF e \in A THEN "acted"
                                                    ELSE IF e \in K THEN "committed"
                                                    ELSE IF e \in I THEN "admitted" ELSE "unknown"
<1>1. \A e \in Events :
        StageIn(A, K, I)[e] = CASE e \in A -> "acted"
                                [] e \in K \ A -> "committed"
                                [] e \in I \ K -> "admitted"
                                [] OTHER -> "unknown"
  BY DEF StageIn
<1>2. \A e \in Events : StageIn(A, K, I)[e] = IF e \in A THEN "acted"
                                              ELSE IF e \in K THEN "committed"
                                              ELSE IF e \in I THEN "admitted" ELSE "unknown"
  BY <1>1
<1>3. StageIn(A, K, I) = [e \in Events |-> StageIn(A, K, I)[e]]
  BY DEF StageIn
<1> QED
  BY <1>2, <1>3

\* Committed events, as the places they are in.
CommittedSound ==
  /\ Committed = acted \cup EventsIn(Range(deferred)) \cup Publishing
  /\ Publishing \subseteq Taken /\ acted \subseteq Committed
  /\ Committed \subseteq Range(eventIDs) /\ Range(eventIDs) \subseteq Events
  /\ Taken \subseteq Range(eventIDs)
  /\ Stage = StageIn(acted, Committed, Range(eventIDs))

LEMMA CommittedPlaces == DeliverySound => CommittedSound
<1> SUFFICES ASSUME DeliverySound PROVE CommittedSound
  OBVIOUS
<1> USE DEF DeliverySound
<1>1. Committed = acted \cup EventsIn(Range(deferred)) \cup Publishing
  BY EventsOfGroups DEF Committed, Publishing
<1>2. Publishing \subseteq Taken
  BY DEF Publishing, Taken, LaneSound, Holds
<1>3. acted \cup EventsIn(Range(deferred)) \cup Taken \subseteq Range(eventIDs)
  BY DEF PlacesSound, Places
<1>4. Range(eventIDs) \subseteq Events
  BY MembersOf DEF PlacesSound
<1>5. Stage = StageIn(acted, Committed, Range(eventIDs))
  BY DEF Stage, StageIn
<1> QED
  BY <1>1, <1>2, <1>3, <1>4, <1>5 DEF CommittedSound

LEMMA CommittedPlacesNext == DeliverySound' => CommittedSound'
BY CommittedPlaces, PTL

\* The events M, and no others, go from one stage to the next.
Goes(f, g, M, from, to) ==
  /\ f \in [Events -> {"unknown", "admitted", "committed", "acted"}]
  /\ g \in [Events -> {"unknown", "admitted", "committed", "acted"}]
  /\ M \subseteq Events
  /\ \A e \in M : f[e] = from /\ g[e] = to
  /\ \A e \in Events \ M : g[e] = f[e]

LEMMA StageMoves ==
  ASSUME NEW M, NEW from, NEW to, from # to, Goes(Stage, Stage', M, from, to)
  PROVE  /\ M = {} => Stage' = Stage
         /\ M # {} => D!Move(from, to) /\ D!Moved = M
<1>1. PICK f : f = Stage
  OBVIOUS
<1>2. PICK g : g = Stage'
  OBVIOUS
<1>3. /\ f \in [Events -> {"unknown", "admitted", "committed", "acted"}]
      /\ g \in [Events -> {"unknown", "admitted", "committed", "acted"}]
      /\ M \subseteq Events
      /\ \A e \in M : f[e] = from /\ g[e] = to
      /\ \A e \in Events \ M : g[e] = f[e]
  BY <1>1, <1>2 DEF Goes
<1>4. M = {} => g = f
  BY <1>3
<1>5. {e \in Events : g[e] # f[e]} = M
  BY <1>3
<1>6. D!Moved = M
  BY <1>1, <1>2, <1>5 DEF D!Moved
<1>7. M # {} => D!Move(from, to)
  BY <1>1, <1>2, <1>3, <1>6 DEF D!Move, D!Stages
<1> QED
  BY <1>1, <1>2, <1>4, <1>6, <1>7

Delivers == D!Next \/ Stage' = Stage

\* A step that leaves what was handed over alone either moves events into the
\* log, or gives up some that are not in it, or admits a submission.
LEMMA DeliversCommit ==
  ASSUME DeliverySound, DeliverySound', acted' = acted, Range(eventIDs') = Range(eventIDs),
         Committed \subseteq Committed'
  PROVE  Delivers
<1>1. PICK M : M = Committed' \ Committed
  OBVIOUS
<1>2. /\ Stage = StageIn(acted, Committed, Range(eventIDs))
      /\ acted \subseteq Committed /\ Committed \subseteq Range(eventIDs)
      /\ Range(eventIDs) \subseteq Events
  BY CommittedPlaces DEF CommittedSound
<1>3. /\ Stage' = StageIn(acted, Committed', Range(eventIDs))
      /\ Committed' \subseteq Range(eventIDs)
  BY CommittedPlacesNext DEF CommittedSound
<1>4. Goes(Stage, Stage', M, "admitted", "committed")
  BY <1>1, <1>2, <1>3, StageAt DEF Goes
<1> QED
  BY <1>4, StageMoves, "admitted" # "committed" DEF Delivers, D!Next, D!Commit

LEMMA DeliversRefuse ==
  ASSUME DeliverySound, DeliverySound', acted' = acted, Committed' = Committed,
         Range(eventIDs') \subseteq Range(eventIDs)
  PROVE  Delivers
<1>1. PICK I : I = Range(eventIDs')
  OBVIOUS
<1>2. PICK M : M = Range(eventIDs) \ I
  OBVIOUS
<1>3. /\ Stage = StageIn(acted, Committed, Range(eventIDs))
      /\ acted \subseteq Committed /\ Committed \subseteq Range(eventIDs)
      /\ Range(eventIDs) \subseteq Events
  BY CommittedPlaces DEF CommittedSound
<1>4. /\ Stage' = StageIn(acted, Committed, I)
      /\ Committed \subseteq I
  BY <1>1, CommittedPlacesNext DEF CommittedSound
<1>5. Goes(Stage, Stage', M, "admitted", "unknown")
  BY <1>1, <1>2, <1>3, <1>4, StageAt DEF Goes
<1> QED
  BY <1>5, StageMoves, "admitted" # "unknown" DEF Delivers, D!Next, D!Refuse

LEMMA DeliversAdmit ==
  ASSUME DeliverySound, DeliverySound', acted' = acted, Committed' = Committed,
         NEW s \in Submissions, Range(s) \cap Range(eventIDs) = {},
         Range(eventIDs') = Range(eventIDs) \cup Range(s)
  PROVE  Delivers
<1>1. PICK I : I = Range(eventIDs')
  OBVIOUS
<1>2. PICK M : M = Range(s)
  OBVIOUS
<1>3. /\ Stage = StageIn(acted, Committed, Range(eventIDs))
      /\ acted \subseteq Committed /\ Committed \subseteq Range(eventIDs)
      /\ Range(eventIDs) \subseteq Events
  BY CommittedPlaces DEF CommittedSound
<1>4. /\ Stage' = StageIn(acted, Committed, I)
      /\ Committed \subseteq I /\ I \subseteq Events
  BY <1>1, CommittedPlacesNext DEF CommittedSound
<1>5. I = Range(eventIDs) \cup M /\ M \cap Range(eventIDs) = {}
  BY <1>1, <1>2
<1>6. Goes(Stage, Stage', M, "unknown", "admitted")
  BY <1>3, <1>4, <1>5, StageAt DEF Goes
<1>7. M \in {Range(t) : t \in Submissions}
  BY <1>2
<1> QED
  BY <1>6, <1>7, StageMoves, "unknown" # "admitted" DEF Delivers, D!Next, D!Admit

\* A submission's committed events are all in groups that run, or none is.
LEMMA DeliversAct ==
  ASSUME DeliverySound, DeliverySound', eventIDs' = eventIDs, Publishing' = Publishing,
         NEW R \in SUBSET Range(deferred), acted' = acted \cup EventsIn(R),
         Range(deferred') = Range(deferred) \ R
  PROVE  Delivers
<1>1. PICK E : E = EventsIn(Range(deferred))
  OBVIOUS
<1>2. PICK M : M = EventsIn(R)
  OBVIOUS
<1>3. PICK rest : rest = EventsIn(Range(deferred) \ R)
  OBVIOUS
<1>4. M \cup rest = E
  BY <1>1, <1>2, <1>3 DEF EventsIn
<1>5. /\ Stage = StageIn(acted, Committed, Range(eventIDs))
      /\ acted \subseteq Committed /\ Committed \subseteq Range(eventIDs)
      /\ Range(eventIDs) \subseteq Events /\ Committed = acted \cup E \cup Publishing
      /\ Publishing \subseteq Taken
  BY <1>1, CommittedPlaces DEF CommittedSound
<1>6. /\ Stage' = StageIn(acted', Committed', Range(eventIDs))
      /\ Committed' = acted' \cup EventsIn(Range(deferred')) \cup Publishing
  BY CommittedPlacesNext DEF CommittedSound
<1>7. acted' = acted \cup M /\ EventsIn(Range(deferred')) = rest
  BY <1>2, <1>3
<1>8. Committed' = Committed
  BY <1>4, <1>5, <1>6, <1>7
<1>9. Stage' = StageIn(acted \cup M, Committed, Range(eventIDs))
  BY <1>6, <1>7, <1>8
<1>10. /\ Places(acted, Range(deferred), Taken, Range(pending), Range(eventIDs))
  BY DEF DeliverySound, PlacesSound
<1>11. M \cap acted = {}
  BY <1>1, <1>4, <1>5, <1>10, PlacesDisjoint
<1>12. Goes(Stage, Stage', M, "committed", "acted")
  <2>1. acted \cup M \subseteq Committed
    BY <1>4, <1>5
  <2> QED
    BY <1>5, <1>9, <1>11, <2>1, StageAt DEF Goes
<1>13. ASSUME NEW s \in Submissions, Range(s) \cap M # {}, NEW e \in Range(s), Stage[e] = "committed"
       PROVE  e \in M
  <2>0. e \in Events
    BY <1>13 DEF Events
  <2>1. e \in Committed \ acted
    <3>1. StageIn(acted, Committed, Range(eventIDs))[e] =
            IF e \in acted THEN "acted" ELSE IF e \in Committed THEN "committed"
            ELSE IF e \in Range(eventIDs) THEN "admitted" ELSE "unknown"
      BY <1>5, <2>0, StageAt
    <3> QED
      BY <1>5, <1>13, <3>1
  <2>2. PICK g \in R : Range(s) \cap Range(g) # {}
    BY <1>2, <1>13 DEF EventsIn
  <2>3. Range(s) \cap Taken = {}
    BY <1>1, <1>4, <1>10, <1>13 DEF Places, Apart
  <2>4. e \in E
    BY <1>5, <1>13, <2>1, <2>3
  <2>5. PICK h \in Range(deferred) : e \in Range(h)
    BY <1>1, <2>4 DEF EventsIn
  <2>6. h = g
    BY <1>10, <2>2, <2>5 DEF Places
  <2> QED
    BY <1>2, <2>2, <2>5, <2>6 DEF EventsIn
<1>14. \A G \in {Range(t) : t \in Submissions} :
         G \cap M # {} => \A e \in G : Stage[e] = "committed" => e \in M
  BY <1>13
<1>15. M # {} => D!Act
  BY <1>12, <1>14, StageMoves, "committed" # "acted" DEF D!Act
<1> QED
  BY <1>12, <1>15, StageMoves, "committed" # "acted" DEF Delivers, D!Next

\* What is being published depends on who publishes and on what batch.
LEMMA PublishingKept ==
  ASSUME NEW w \in Workers, OthersWork(w), work[w].pc # "publish", work'[w].pc # "publish"
  PROVE  Publishing' = Publishing
<1>1. \A v \in Workers : work'[v].pc = "publish" <=> work[v].pc = "publish"
  BY DEF OthersWork
<1>2. \A v \in Workers : work[v].pc = "publish" => work'[v].batch = work[v].batch
  BY DEF OthersWork
<1> QED
  BY <1>1, <1>2 DEF Publishing

LEMMA PublishingBegins ==
  ASSUME LaneSound, NEW w \in Workers, OthersWork(w), work[w].pc \in {"compile", "append"},
         work'[w].pc = "publish"
  PROVE  Publishing = {}
<1>1. \A v \in Workers : v # w => work[v].pc \notin Lane
  BY OnlyHolder DEF Lane
<1>2. \A v \in Workers : work[v].pc # "publish"
  BY <1>1 DEF Lane
<1> QED
  BY <1>2 DEF Publishing

\* A step that leaves the queues alone and that does not end a publication.
LEMMA DeliversQuiet ==
  ASSUME DeliverySound, DeliverySound', UNCHANGED <<eventIDs, deferred, acted>>,
         NEW w \in Workers, OthersWork(w), work[w].pc # "publish",
         work'[w].pc = "publish" => work[w].pc \in {"compile", "append"}
  PROVE  Delivers
<1>1. Publishing \subseteq Publishing'
  BY PublishingKept, PublishingBegins DEF DeliverySound
<1>2. Committed = acted \cup EventsIn(Range(deferred)) \cup Publishing
  BY CommittedPlaces DEF CommittedSound
<1>3. Committed' = acted' \cup EventsIn(Range(deferred')) \cup Publishing'
  BY CommittedPlacesNext DEF CommittedSound
<1>4. Committed \subseteq Committed'
  <2>1. PICK E : E = EventsIn(Range(deferred))
    OBVIOUS
  <2> QED
    BY <1>1, <1>2, <1>3, <2>1
<1> QED
  BY <1>4, DeliversCommit

LEMMA DeliversFail ==
  ASSUME DeliverySound, DeliverySound', NEW w \in Workers, work[w].pc \in {"compile", "append"},
         CommitFails(w), UNCHANGED <<sub, acted, activeEpoch>>
  PROVE  Delivers
<1>1. /\ OthersWork(w) /\ work'[w].pc \in {"wait", "idle"} /\ deferred' = deferred
      /\ Range(eventIDs') = Range(eventIDs) \ Range(work[w].queued)
  BY FailStep
<1>2. Publishing' = Publishing
  BY <1>1, PublishingKept
<1>3. Committed' = Committed
  BY <1>1, <1>2, CommittedPlaces, CommittedPlacesNext DEF CommittedSound
<1> QED
  BY <1>1, <1>3, DeliversRefuse

LEMMA DeliversPublish ==
  ASSUME DeliverySound, DeliverySound', NEW w \in Workers, CommitPublish(w)
  PROVE  Delivers
<1>1. /\ OthersWork(w) /\ work'[w].pc = "notify" /\ acted' = acted
      /\ Range(deferred') = Range(deferred) \cup Range(Partition(work[w].batch))
      /\ Range(eventIDs') = Range(eventIDs) \ (Range(work[w].queued) \ Range(work[w].batch))
  BY PublishStep
<1>2. work[w].pc = "publish"
  BY DEF CommitPublish
<1>3. \A v \in Workers : v # w => work[v].pc \notin Lane
  BY <1>2, OnlyHolder DEF Lane, DeliverySound
<1>4. \A v \in Workers : work[v].pc = "publish" <=> v = w
  BY <1>2, <1>3 DEF Lane
<1>5. Publishing = Range(work[w].batch)
  BY <1>4 DEF Publishing
<1>6. \A v \in Workers : work'[v].pc # "publish"
  BY <1>1, <1>4 DEF OthersWork
<1>7. Publishing' = {}
  BY <1>6 DEF Publishing
<1>8. work[w].batch \in Seq(Events)
  BY <1>2 DEF DeliverySound, LaneSound, Holds
<1>9. EventsIn(Range(Partition(work[w].batch))) = Range(work[w].batch)
  BY <1>8, PartitionGroups
<1>10. PICK H : H = Range(Partition(work[w].batch))
  OBVIOUS
<1>11. EventsIn(Range(deferred) \cup H) = EventsIn(Range(deferred)) \cup EventsIn(H)
  BY DEF EventsIn
<1>12. Committed = acted \cup EventsIn(Range(deferred)) \cup Range(work[w].batch)
  BY <1>5, CommittedPlaces DEF CommittedSound
<1>13. Committed' = acted \cup EventsIn(Range(deferred) \cup H)
  BY <1>1, <1>7, <1>10, CommittedPlacesNext DEF CommittedSound
<1>14. Committed' = Committed
  <2>1. PICK E : E = EventsIn(Range(deferred))
    OBVIOUS
  <2>2. EventsIn(Range(deferred) \cup H) = E \cup Range(work[w].batch)
    BY <1>9, <1>10, <1>11, <2>1
  <2> QED
    BY <1>12, <1>13, <2>1, <2>2
<1> QED
  BY <1>1, <1>14, DeliversRefuse

LEMMA DeliversStep ==
  ASSUME DeliverySound, DeliverySound', [EventLoopNext]_vars
  PROVE  Delivers
<1>1. WorkShape /\ LaneSound
  BY DEF DeliverySound, RunInv
<1>2. ASSUME UNCHANGED <<work, eventIDs, deferred, acted>> PROVE Delivers
  <2>1. Stage' = Stage
    BY <1>2 DEF Stage, Committed, EventsOf
  <2> QED
    BY <2>1 DEF Delivers
<1>3. ASSUME NEW s \in Submissions, SubmitQueue(s) PROVE Delivers
  <2>1. Range(s) \cap Range(eventIDs) = {} /\ Range(eventIDs') = Range(eventIDs) \cup Range(s)
    BY <1>3, QueueStep
  <2>2. UNCHANGED <<work, deferred, acted>>
    BY <1>3 DEF SubmitQueue
  <2>3. Committed' = Committed
    BY <2>2 DEF Committed, EventsOf
  <2> QED
    BY <2>1, <2>2, <2>3, DeliversAdmit
<1>4. ASSUME NEW w \in Committers, CommitCall(w) PROVE Delivers
  <2>1. /\ work[w].pc = "idle" /\ To(w, "commit") /\ w \in Workers
        /\ UNCHANGED <<eventIDs, deferred, acted>>
    BY <1>4 DEF CommitCall, commitSame, queueVars, Workers
  <2>2. OthersWork(w) /\ work'[w].pc = "commit"
    BY <1>1, <2>1, GoesTo
  <2> QED
    BY <2>1, <2>2, DeliversQuiet
<1>5. ASSUME NEW w \in Workers, Commit(w) PROVE Delivers
  <2>1. UNCHANGED <<acted, sub, activeEpoch>>
    BY <1>5 DEF Commit, CommitIdle, CommitTake, CommitCompile, CommitConflict, CommitRefused,
                CommitAppend, CommitPublish, CommitNotify, commitSame, runVars
  <2>2. ASSUME NEW pc, To(w, pc), UNCHANGED <<eventIDs, deferred>>, work[w].pc # "publish",
               pc = "publish" => work[w].pc \in {"compile", "append"}
        PROVE  Delivers
    <3>1. OthersWork(w) /\ work'[w].pc = pc
      BY <1>1, <2>2, GoesTo
    <3> QED
      BY <2>1, <2>2, <3>1, DeliversQuiet
  <2>3. CASE CommitIdle(w) \/ CommitNotify(w)
    <3>1. /\ work[w].pc \in {"commit", "notify"} /\ To(w, AfterCommit(w))
          /\ AfterCommit(w) # "publish" /\ UNCHANGED <<eventIDs, deferred>>
      BY <2>3 DEF CommitIdle, CommitNotify, AfterCommit, queueVars
    <3> QED
      BY <2>2, <3>1
  <2>4. CASE CommitTake(w)
    <3>1. /\ OthersWork(w) /\ work[w].pc = "commit" /\ work'[w].pc = "compile"
          /\ UNCHANGED <<eventIDs, deferred>>
      BY <1>1, <2>4 DEF CommitTake, OthersWork, WorkShape, Fields
    <3> QED
      BY <2>1, <3>1, DeliversQuiet
  <2>5. CASE CommitCompile(w)
    <3>1. CASE CommitFails(w)
      BY <2>1, <2>5, <3>1, DeliversFail DEF CommitCompile
    <3>2. CASE ~CommitFails(w)
      <4>1. PICK pc \in {"publish", "append"} :
              /\ work' = [work EXCEPT ![w].snapshot = Len(log), ![w].pc = pc]
              /\ work[w].pc = "compile" /\ UNCHANGED <<eventIDs, deferred>>
        BY <2>5, <3>2 DEF CommitCompile, queueVars
      <4>2. OthersWork(w) /\ work'[w].pc = pc
        BY <1>1, <4>1 DEF OthersWork, WorkShape, Fields
      <4> QED
        BY <2>1, <4>1, <4>2, DeliversQuiet
    <3> QED
      BY <3>1, <3>2
  <2>6. CASE CommitConflict(w) \/ CommitAppend(w)
    <3>1. /\ work[w].pc = "append" /\ (To(w, "compile") \/ To(w, "publish"))
          /\ UNCHANGED <<eventIDs, deferred>>
      BY <2>6 DEF CommitConflict, CommitAppend, queueVars
    <3> QED
      BY <2>2, <3>1
  <2>7. CASE CommitRefused(w)
    <3>1. CASE CommitFails(w)
      BY <2>1, <2>7, <3>1, DeliversFail DEF CommitRefused
    <3>2. CASE ~CommitFails(w)
      <4>1. PICK offender :
              /\ work' = [work EXCEPT ![w].pc = "compile", ![w].batch = Without(@, {offender})]
              /\ work[w].pc = "append" /\ UNCHANGED <<eventIDs, deferred>>
        BY <2>7, <3>2 DEF CommitRefused, queueVars
      <4>2. OthersWork(w) /\ work'[w].pc = "compile"
        BY <1>1, <4>1 DEF OthersWork, WorkShape, Fields
      <4> QED
        BY <2>1, <4>1, <4>2, DeliversQuiet
    <3> QED
      BY <3>1, <3>2
  <2>8. CASE CommitPublish(w)
    BY <2>8, DeliversPublish
  <2> QED
    BY <1>5, <2>3, <2>4, <2>5, <2>6, <2>7, <2>8 DEF Commit
<1>6. ASSUME NEW w \in Drivers, RunStart(w) PROVE Delivers
  <2>1. /\ OthersWork(w) /\ work[w].pc = "start" /\ work'[w].pc = "process" /\ w \in Workers
        /\ eventIDs' = eventIDs
    BY <1>6, StartStep DEF Workers
  <2>2. PICK R \in SUBSET Range(deferred) :
          acted' = acted \cup EventsIn(R) /\ Range(deferred') = Range(deferred) \ R
    BY <1>6, StartStep
  <2>3. Publishing' = Publishing
    BY <2>1, PublishingKept
  <2> QED
    BY <2>1, <2>2, <2>3, DeliversAct
<1>7. ASSUME NEW w \in Drivers, Drive(w), ~RunStart(w) PROVE Delivers
  <2>1. /\ OthersWork(w) /\ work[w].pc # "publish" /\ work'[w].pc # "publish" /\ w \in Workers
        /\ UNCHANGED <<eventIDs, deferred, acted>>
    BY <1>1, <1>7, DriveQuiet DEF Driving, Workers
  <2> QED
    BY <2>1, DeliversQuiet
<1>8. ASSUME NEW s \in Submissions, SubmitCancel(s) \/ SubmitNotify(s) PROVE Delivers
  BY <1>2, <1>8 DEF SubmitCancel, SubmitNotify, queueVars, ghostVars
<1>9. ASSUME NEW w \in Drivers, ProcessAppend(w) PROVE Delivers
  BY <1>2, <1>9 DEF ProcessAppend, runSame
<1>10. ASSUME InterruptCapture \/ InterruptCancel \/ Hold \/ Relieve \/ WakeCheck \/ WakeNotify
       PROVE  Delivers
  BY <1>2, <1>10 DEF InterruptCapture, InterruptCancel, Hold, Relieve, WakeCheck, WakeNotify,
                     gateSame, queueVars, ghostVars
<1>11. ASSUME UNCHANGED vars PROVE Delivers
  BY <1>2, <1>11 DEF vars, queueVars, ghostVars
<1> QED
  BY <1>3, <1>4, <1>5, <1>6, <1>7, <1>8, <1>9, <1>10, <1>11 DEF EventLoopNext, SubmitBatch

\* The coordinator delivers: a submission is admitted whole; what is committed is
\* never withdrawn; and it is handed over once, a submission's committed events
\* together, whatever drivers, committers and interruptions do meanwhile.
THEOREM EventLoopImplementsDelivery == EventLoopSpec => ImplementsDelivery
<1>1. EventLoopInit => DeliverySound
  BY DeliveryStart
<1>2. DeliverySound /\ [EventLoopNext]_vars => DeliverySound'
  BY DeliveryStep
<1>3. EventLoopInit => D!Init
  <2> SUFFICES ASSUME EventLoopInit PROVE D!Init
    OBVIOUS
  <2>1. Range(eventIDs) = {}
    BY DEF EventLoopInit, Range
  <2>2. Stage = StageIn(acted, Committed, Range(eventIDs)) /\ acted \subseteq Committed
        /\ Committed \subseteq Range(eventIDs)
    BY <1>1, CommittedPlaces DEF CommittedSound
  <2>3. \A e \in Events : Stage[e] = "unknown"
    BY <2>1, <2>2, StageAt
  <2>4. Stage = [e \in Events |-> Stage[e]]
    BY DEF Stage
  <2> QED
    BY <2>3, <2>4 DEF D!Init
<1>4. DeliverySound /\ DeliverySound' /\ [EventLoopNext]_vars => [D!Next]_Stage
  BY DeliversStep DEF Delivers
<1> QED
  BY <1>1, <1>2, <1>3, <1>4, PTL DEF EventLoopSpec, ImplementsDelivery, D!Spec

-----------------------------------------------------------------------------
\* What Within keeps, by its order.

LEMMA WithinAppend ==
  ASSUME NEW T, NEW s \in Seq(T), NEW x \in T, NEW S
  PROVE  Within(Append(s, x), S) = IF x \in S THEN Append(Within(s, S), x) ELSE Within(s, S)
<1>1. PICK t : t = Append(s, x)
  OBVIOUS
<1>2. /\ t \in Seq(T) /\ Len(t) = Len(s) + 1 /\ Len(s) \in Nat /\ t[Len(s) + 1] = x
      /\ \A i \in 1..Len(s) : t[i] = s[i]
  BY <1>1
<1>3. PICK k : /\ Within(s, S) = k[Len(s)] /\ k[0] = << >>
               /\ \A i \in 1..Len(s) : k[i] = IF s[i] \in S THEN Append(k[i - 1], s[i]) ELSE k[i - 1]
  BY WithinSteps
<1>4. PICK h : /\ Within(t, S) = h[Len(t)] /\ h[0] = << >>
               /\ \A i \in 1..Len(t) : h[i] = IF t[i] \in S THEN Append(h[i - 1], t[i]) ELSE h[i - 1]
  BY <1>2, WithinSteps
<1> DEFINE G == {n \in 0..Len(s) : h[n] = k[n]}
<1>5. 0 \in G
  BY <1>2, <1>3, <1>4
<1>6. ASSUME NEW m \in 0..(Len(s) - 1), m \in G PROVE m + 1 \in G
  <2>1. m + 1 \in 1..Len(s) /\ m + 1 \in 1..Len(t) /\ (m + 1) - 1 = m /\ m + 1 \in 0..Len(s)
    BY <1>2
  <2>2. h[m] = k[m] /\ t[m + 1] = s[m + 1]
    BY <1>2, <1>6, <2>1
  <2>3. k[m + 1] = IF s[m + 1] \in S THEN Append(k[m], s[m + 1]) ELSE k[m]
    BY <1>3, <2>1
  <2>4. h[m + 1] = IF t[m + 1] \in S THEN Append(h[m], t[m + 1]) ELSE h[m]
    BY <1>4, <2>1
  <2> QED
    BY <2>1, <2>2, <2>3, <2>4
<1>7. h[Len(s)] = k[Len(s)]
  <2>0. Len(s) \in G => h[Len(s)] = k[Len(s)]
    OBVIOUS
  <2> HIDE DEF G
  <2>1. \A m \in 0..Len(s) : m \in G
    BY <1>2, <1>5, <1>6, UpTo, Zenon
  <2> QED
    BY <1>2, <2>0, <2>1
<1>8. Len(t) \in 1..Len(t) /\ Len(t) - 1 = Len(s)
  BY <1>2
<1>9. h[Len(t)] = IF t[Len(t)] \in S THEN Append(h[Len(s)], t[Len(t)]) ELSE h[Len(s)]
  BY <1>4, <1>8
<1> QED
  BY <1>1, <1>2, <1>3, <1>4, <1>7, <1>9

LEMMA WithinEmpty ==
  ASSUME NEW S
  PROVE  Within(<< >>, S) = << >>
<1>1. PICK T : T = {0}
  OBVIOUS
<1>2. PICK s \in Seq(T) : s = << >> /\ Len(s) = 0
  BY EmptySeq
<1>3. \E k : Within(s, S) = k[Len(s)] /\ k[0] = << >>
  <2>1. \E k : /\ Within(s, S) = k[Len(s)] /\ k[0] = << >>
               /\ \A i \in 1..Len(s) : k[i] = IF s[i] \in S THEN Append(k[i - 1], s[i]) ELSE k[i - 1]
    BY WithinSteps
  <2> QED
    BY <2>1
<1> QED
  BY <1>2, <1>3

LEMMA WithinConcat ==
  ASSUME NEW T, NEW s \in Seq(T), NEW t \in Seq(T), NEW S
  PROVE  Within(s \o t, S) = Within(s, S) \o Within(t, S)
<1> DEFINE P == {u \in Seq(T) : Within(s \o u, S) = Within(s, S) \o Within(u, S)}
<1>1. Within(s, S) \in Seq(T)
  BY WithinMembers
<1>2. << >> \in P
  <2>1. s \o << >> = s /\ Within(s, S) \o << >> = Within(s, S) /\ << >> \in Seq(T)
    BY <1>1, ConcatEmptySeq
  <2>2. Within(<< >>, S) = << >>
    BY WithinEmpty
  <2> QED
    BY <2>1, <2>2
<1>3. ASSUME NEW u \in Seq(T), NEW x \in T, u \in P PROVE Append(u, x) \in P
  <2>1. /\ s \o Append(u, x) = Append(s \o u, x) /\ s \o u \in Seq(T) /\ Append(u, x) \in Seq(T)
    BY ConcatAppend
  <2>2. Within(u, S) \in Seq(T) /\ Within(s \o u, S) = Within(s, S) \o Within(u, S)
    BY <1>3, WithinMembers
  <2>3. /\ Within(Append(u, x), S) = IF x \in S THEN Append(Within(u, S), x) ELSE Within(u, S)
        /\ Within(Append(s \o u, x), S) = IF x \in S THEN Append(Within(s \o u, S), x) ELSE Within(s \o u, S)
    BY <2>1, WithinAppend
  <2>4. Within(s, S) \o Append(Within(u, S), x) = Append(Within(s, S) \o Within(u, S), x)
    BY <1>1, <2>2, ConcatAppend
  <2> QED
    BY <2>1, <2>2, <2>3, <2>4
<1>4. \A u \in Seq(T) : u \in P
  <2> HIDE DEF P
  <2> QED
    BY <1>2, <1>3, SequenceInduction
<1> QED
  BY <1>4

\* Only the members of s matter.
LEMMA WithinSame ==
  ASSUME NEW T, NEW s \in Seq(T), NEW S, NEW R, \A x \in Range(s) : x \in S <=> x \in R
  PROVE  Within(s, S) = Within(s, R)
<1> DEFINE P == {u \in Seq(T) : (\A x \in Range(u) : x \in S <=> x \in R) => Within(u, S) = Within(u, R)}
<1>1. << >> \in P
  BY WithinEmpty
<1>2. ASSUME NEW u \in Seq(T), NEW y \in T, u \in P PROVE Append(u, y) \in P
  <2>1. Append(u, y) \in Seq(T) /\ Range(Append(u, y)) = Range(u) \cup {y}
    BY RangeAppend
  <2>2. /\ Within(Append(u, y), S) = IF y \in S THEN Append(Within(u, S), y) ELSE Within(u, S)
        /\ Within(Append(u, y), R) = IF y \in R THEN Append(Within(u, R), y) ELSE Within(u, R)
    BY WithinAppend
  <2>3. ASSUME \A x \in Range(Append(u, y)) : x \in S <=> x \in R
        PROVE  Within(Append(u, y), S) = Within(Append(u, y), R)
    <3>1. (y \in S <=> y \in R) /\ \A x \in Range(u) : x \in S <=> x \in R
      BY <2>1, <2>3
    <3>2. Within(u, S) = Within(u, R)
      BY <1>2, <3>1
    <3> QED
      BY <2>2, <3>1, <3>2
  <2> QED
    BY <2>1, <2>3
<1>3. \A u \in Seq(T) : u \in P
  <2> HIDE DEF P
  <2> QED
    BY <1>1, <1>2, SequenceInduction
<1> QED
  BY <1>3

LEMMA WithinTwice ==
  ASSUME NEW T, NEW s \in Seq(T), NEW S, NEW R
  PROVE  Within(Within(s, S), R) = Within(s, S \cap R)
<1> DEFINE P == {u \in Seq(T) : Within(Within(u, S), R) = Within(u, S \cap R)}
<1>1. << >> \in P
  <2>1. \A X : Within(<< >>, X) = << >>
    BY WithinEmpty
  <2> QED
    BY <2>1
<1>2. ASSUME NEW u \in Seq(T), NEW y \in T, u \in P PROVE Append(u, y) \in P
  <2>1. Append(u, y) \in Seq(T) /\ Within(u, S) \in Seq(T)
    BY WithinMembers
  <2>2. /\ Within(Append(u, y), S) = IF y \in S THEN Append(Within(u, S), y) ELSE Within(u, S)
        /\ Within(Append(u, y), S \cap R) =
             IF y \in S \cap R THEN Append(Within(u, S \cap R), y) ELSE Within(u, S \cap R)
        /\ Within(Append(Within(u, S), y), R) =
             IF y \in R THEN Append(Within(Within(u, S), R), y) ELSE Within(Within(u, S), R)
    BY <2>1, WithinAppend
  <2>3. Within(Within(u, S), R) = Within(u, S \cap R)
    BY <1>2
  <2>4. PICK B : B = S \cap R
    OBVIOUS
  <2>5. Within(Within(Append(u, y), S), R) = Within(Append(u, y), B)
    <3>1. CASE y \in S
      <4>1. Within(Append(u, y), S) = Append(Within(u, S), y) /\ (y \in B <=> y \in R)
        BY <2>2, <2>4, <3>1
      <4> QED
        BY <2>2, <2>3, <2>4, <4>1
    <3>2. CASE y \notin S
      <4>1. Within(Append(u, y), S) = Within(u, S) /\ y \notin B
        BY <2>2, <2>4, <3>2
      <4> QED
        BY <2>2, <2>3, <2>4, <4>1
    <3> QED
      BY <3>1, <3>2
  <2> QED
    BY <2>1, <2>4, <2>5
<1>3. \A u \in Seq(T) : u \in P
  <2> HIDE DEF P
  <2> QED
    BY <1>1, <1>2, SequenceInduction
<1> QED
  BY <1>3

LEMMA WithinAll ==
  ASSUME NEW T, NEW s \in Seq(T), NEW S, Range(s) \subseteq S
  PROVE  Within(s, S) = s
<1> DEFINE P == {u \in Seq(T) : Range(u) \subseteq S => Within(u, S) = u}
<1>1. << >> \in P
  BY WithinEmpty
<1>2. ASSUME NEW u \in Seq(T), NEW y \in T, u \in P PROVE Append(u, y) \in P
  <2>1. Append(u, y) \in Seq(T) /\ Range(Append(u, y)) = Range(u) \cup {y}
    BY RangeAppend
  <2>2. Within(Append(u, y), S) = IF y \in S THEN Append(Within(u, S), y) ELSE Within(u, S)
    BY WithinAppend
  <2> QED
    BY <1>2, <2>1, <2>2
<1>3. \A u \in Seq(T) : u \in P
  <2> HIDE DEF P
  <2> QED
    BY <1>1, <1>2, SequenceInduction
<1> QED
  BY <1>3

LEMMA WithinNone ==
  ASSUME NEW T, NEW s \in Seq(T), NEW S, Range(s) \cap S = {}
  PROVE  Within(s, S) = << >>
<1> DEFINE P == {u \in Seq(T) : Range(u) \cap S = {} => Within(u, S) = << >>}
<1>1. << >> \in P
  BY WithinEmpty
<1>2. ASSUME NEW u \in Seq(T), NEW y \in T, u \in P PROVE Append(u, y) \in P
  <2>1. Append(u, y) \in Seq(T) /\ Range(Append(u, y)) = Range(u) \cup {y}
    BY RangeAppend
  <2>2. Within(Append(u, y), S) = IF y \in S THEN Append(Within(u, S), y) ELSE Within(u, S)
    BY WithinAppend
  <2> QED
    BY <1>2, <2>1, <2>2
<1>3. \A u \in Seq(T) : u \in P
  <2> HIDE DEF P
  <2> QED
    BY <1>1, <1>2, SequenceInduction
<1> QED
  BY <1>3

-----------------------------------------------------------------------------
\* What Within keeps of groups, one after the other.

LEMMA FlattenMembers ==
  ASSUME NEW T, NEW d \in Seq(Seq(T))
  PROVE  FlattenSeq(d) \in Seq(T) /\ Range(FlattenSeq(d)) = EventsIn(Range(d))
BY FlattenValues DEF EventsIn, ValuesIn

\* Whole groups, kept or left out.
LEMMA FlattenWithin ==
  ASSUME NEW T, NEW d \in Seq(Seq(T)), NEW K, NEW E,
         \A g \in Range(d) : IF g \in K THEN Range(g) \subseteq E ELSE Range(g) \cap E = {}
  PROVE  FlattenSeq(Within(d, K)) = Within(FlattenSeq(d), E)
<1> DEFINE Whole(c) == \A g \in Range(c) : IF g \in K THEN Range(g) \subseteq E ELSE Range(g) \cap E = {}
           P == {c \in Seq(Seq(T)) : Whole(c) => FlattenSeq(Within(c, K)) = Within(FlattenSeq(c), E)}
<1>1. << >> \in P
  <2>1. \A X : Within(<< >>, X) = << >>
    BY WithinEmpty
  <2> QED
    BY <2>1, FlattenEmpty
<1>2. ASSUME NEW c \in Seq(Seq(T)), NEW g \in Seq(T), c \in P PROVE Append(c, g) \in P
  <2>0. Append(c, g) \in Seq(Seq(T))
    OBVIOUS
  <2>1. SUFFICES ASSUME Whole(Append(c, g))
                 PROVE  FlattenSeq(Within(Append(c, g), K)) = Within(FlattenSeq(Append(c, g)), E)
    BY <2>0
  <2>2. Range(Append(c, g)) = Range(c) \cup {g}
    BY RangeAppend
  <2>3. /\ \A h \in Range(c) : IF h \in K THEN Range(h) \subseteq E ELSE Range(h) \cap E = {}
        /\ IF g \in K THEN Range(g) \subseteq E ELSE Range(g) \cap E = {}
    BY <2>1, <2>2
  <2>4. FlattenSeq(Within(c, K)) = Within(FlattenSeq(c), E)
    BY <1>2, <2>3
  <2>5. FlattenSeq(Append(c, g)) = FlattenSeq(c) \o g /\ FlattenSeq(c) \in Seq(T)
    BY FlattenAppend, FlattenMembers
  <2>6. Within(FlattenSeq(c) \o g, E) = Within(FlattenSeq(c), E) \o Within(g, E) /\ Within(FlattenSeq(c), E) \in Seq(T)
    <3>1. PICK f \in Seq(T) : f = FlattenSeq(c)
      BY <2>5
    <3>2. Within(f \o g, E) = Within(f, E) \o Within(g, E)
      BY WithinConcat
    <3>3. Within(f, E) \in Seq(T)
      BY WithinMembers
    <3> QED
      BY <3>1, <3>2, <3>3
  <2>7. Within(Append(c, g), K) = IF g \in K THEN Append(Within(c, K), g) ELSE Within(c, K)
    BY WithinAppend
  <2>8. CASE g \in K
    <3>1. Within(g, E) = g
      BY <2>3, <2>8, WithinAll
    <3>2. Within(c, K) \in Seq(Seq(T))
      BY WithinMembers
    <3>3. FlattenSeq(Append(Within(c, K), g)) = FlattenSeq(Within(c, K)) \o g
      BY <3>2, FlattenAppend
    <3>4. Within(Append(c, g), K) = Append(Within(c, K), g)
      BY <2>7, <2>8
    <3> QED
      BY <2>4, <2>5, <2>6, <3>1, <3>3, <3>4, Zenon
  <2>9. CASE g \notin K
    <3>1. Within(g, E) = << >>
      BY <2>3, <2>9, WithinNone
    <3>2. Within(FlattenSeq(c), E) \o << >> = Within(FlattenSeq(c), E)
      BY <2>6, ConcatEmptySeq
    <3> QED
      BY <2>4, <2>5, <2>6, <2>7, <2>9, <3>1, <3>2
  <2> QED
    BY <2>8, <2>9
<1>3. \A c \in Seq(Seq(T)) : c \in P
  <2> HIDE DEF P
  <2> QED
    BY <1>1, <1>2, SequenceInduction
<1> QED
  BY <1>3

-----------------------------------------------------------------------------
\* The groups of a batch, one after the other, are the batch.

Increasing(s) == \A i, j \in DOMAIN s : i < j => s[i] < s[j]

LEMMA WithinIncreasing ==
  ASSUME NEW s \in Seq(Nat), NEW S, Increasing(s)
  PROVE  Increasing(Within(s, S))
<1> DEFINE P == {u \in Seq(Nat) : Increasing(u) => Increasing(Within(u, S))}
<1>1. << >> \in P
  <2>1. Within(<< >>, S) = << >>
    BY WithinEmpty
  <2> QED
    BY <2>1 DEF Increasing
<1>2. ASSUME NEW u \in Seq(Nat), NEW y \in Nat, u \in P PROVE Append(u, y) \in P
  <2>0. Append(u, y) \in Seq(Nat)
    OBVIOUS
  <2>1. SUFFICES ASSUME Increasing(Append(u, y)) PROVE Increasing(Within(Append(u, y), S))
    BY <2>0
  <2>2. PICK a : a = Append(u, y)
    OBVIOUS
  <2>3. /\ DOMAIN a = 1..(Len(u) + 1) /\ DOMAIN u = 1..Len(u) /\ Len(u) \in Nat
        /\ a[Len(u) + 1] = y /\ \A i \in 1..Len(u) : a[i] = u[i]
    BY <2>2
  <2>4. \A i, j \in 1..(Len(u) + 1) : i < j => a[i] < a[j]
    BY <2>1, <2>2, <2>3 DEF Increasing
  <2>5. Increasing(u) /\ \A i \in 1..Len(u) : u[i] < y
    <3>1. \A i \in 1..Len(u) : i \in 1..(Len(u) + 1) /\ Len(u) + 1 \in 1..(Len(u) + 1) /\ i < Len(u) + 1
      BY <2>3
    <3>2. \A i \in 1..Len(u) : u[i] < y
      BY <2>3, <2>4, <3>1
    <3>3. \A i, j \in 1..Len(u) : i < j => u[i] < u[j]
      BY <2>3, <2>4, <3>1
    <3> QED
      BY <2>3, <3>2, <3>3 DEF Increasing
  <2>6. PICK v : v = Within(u, S)
    OBVIOUS
  <2>7. Increasing(v) /\ v \in Seq(Nat) /\ Range(v) \subseteq Range(u)
    <3>1. Within(u, S) \in Seq(Nat) /\ Range(Within(u, S)) = Range(u) \cap S
      BY WithinMembers
    <3> QED
      BY <1>2, <2>5, <2>6, <3>1
  <2>8. \A i \in DOMAIN v : v[i] < y
    BY <2>3, <2>5, <2>7 DEF Range
  <2>9. PICK b : b = Append(v, y)
    OBVIOUS
  <2>10. Increasing(b)
    <3>1. /\ DOMAIN b = 1..(Len(v) + 1) /\ DOMAIN v = 1..Len(v) /\ Len(v) \in Nat
          /\ b[Len(v) + 1] = y /\ \A i \in 1..Len(v) : b[i] = v[i] /\ v[i] \in Nat
      BY <2>7, <2>9
    <3>2. ASSUME NEW i \in 1..(Len(v) + 1), NEW j \in 1..(Len(v) + 1), i < j PROVE b[i] < b[j]
      <4>1. i \in 1..Len(v)
        BY <3>1, <3>2
      <4>2. CASE j = Len(v) + 1
        BY <2>8, <3>1, <4>1, <4>2
      <4>3. CASE j # Len(v) + 1
        <5>1. j \in 1..Len(v)
          BY <3>1, <4>3
        <5> QED
          BY <2>7, <3>1, <3>2, <4>1, <5>1 DEF Increasing
      <4> QED
        BY <4>2, <4>3
    <3> QED
      BY <3>1, <3>2 DEF Increasing
  <2>11. Within(Append(u, y), S) = IF y \in S THEN b ELSE v
    BY <2>6, <2>9, WithinAppend
  <2> QED
    BY <2>7, <2>10, <2>11
<1>3. \A u \in Seq(Nat) : u \in P
  <2> HIDE DEF P
  <2> QED
    BY <1>1, <1>2, SequenceInduction
<1> QED
  BY <1>3

\* Partition takes the submissions in the order in which they first occur.
LEMMA PartitionOrder ==
  ASSUME NEW batch \in Seq(Events)
  PROVE  \E m \in Nat : \E first \in [1..m -> DOMAIN batch] :
           /\ \A j, k \in 1..m : j < k => first[j] < first[k]
           /\ \A k \in 1..m : \A i \in 1..(first[k] - 1) :
                SubmissionOf(batch[i]) # SubmissionOf(batch[first[k]])
           /\ Partition(batch) = [k \in 1..m |-> Within(batch, Range(SubmissionOf(batch[first[k]])))]
<1>1. PICK n \in Nat : DOMAIN batch = 1..n
  OBVIOUS
<1> DEFINE subs == [i \in DOMAIN batch |-> SubmissionOf(batch[i])]
           heads == {i \in DOMAIN batch : \A j \in 1..(i - 1) : subs[j] # subs[i]}
           order == [i \in DOMAIN batch |-> i]
           first == Within(order, heads)
<1>2. Partition(batch) = [k \in DOMAIN first |-> Within(batch, Range(subs[first[k]]))]
  BY DEF Partition
<1>3. \A i \in 1..n : subs[i] = SubmissionOf(batch[i])
  BY <1>1
<1> HIDE DEF subs
<1>4. heads = {i \in 1..n : \A j \in 1..(i - 1) : subs[j] # subs[i]}
  BY <1>1
<1> HIDE DEF heads
<1>5. order \in Seq(Nat) /\ Range(order) = 1..n /\ Increasing(order)
  BY <1>1 DEF Range, Increasing
<1> HIDE DEF order
<1>6. first \in Seq(Nat) /\ Range(first) = Range(order) \cap heads /\ Increasing(first)
  BY <1>5, WithinMembers, WithinIncreasing
<1> HIDE DEF first
<1>7. PICK m \in Nat : DOMAIN first = 1..m
  BY <1>6
<1>8. \A k \in 1..m : first[k] \in 1..n /\ first[k] \in heads
  BY <1>5, <1>6, <1>7 DEF Range
<1>9. first \in [1..m -> DOMAIN batch]
  BY <1>1, <1>6, <1>7, <1>8
<1>10. \A j, k \in 1..m : j < k => first[j] < first[k]
  BY <1>6, <1>7 DEF Increasing
<1>11. ASSUME NEW k \in 1..m, NEW i \in 1..(first[k] - 1)
       PROVE  SubmissionOf(batch[i]) # SubmissionOf(batch[first[k]])
  <2>1. i \in 1..n /\ first[k] \in 1..n
    BY <1>8
  <2> QED
    BY <1>3, <1>4, <1>8, <2>1
<1>12. Partition(batch) = [k \in 1..m |-> Within(batch, Range(SubmissionOf(batch[first[k]])))]
  BY <1>2, <1>3, <1>7, <1>8
<1> QED
  BY <1>9, <1>10, <1>11, <1>12

\* The events of a submission lie side by side.
Together(b) ==
  \A s \in Submissions : \E u, v \in Seq(Events) :
    /\ b = (u \o Within(b, Range(s))) \o v
    /\ Range(u) \cap Range(s) = {} /\ Range(v) \cap Range(s) = {}

\* Where b is u, w and v, one after the other.
InParts(b, u, w, v) ==
  /\ Len(u) \in Nat /\ Len(w) \in Nat /\ Len(v) \in Nat
  /\ DOMAIN b = 1..(Len(u) + Len(w) + Len(v))
  /\ \A i \in DOMAIN b : /\ i <= Len(u) => b[i] \in Range(u)
                         /\ i > Len(u) /\ i <= Len(u) + Len(w) => b[i] \in Range(w)
                         /\ i > Len(u) + Len(w) => b[i] \in Range(v)
  /\ \A i \in 1..Len(v) : b[Len(u) + Len(w) + i] = v[i]

LEMMA ThreeParts ==
  ASSUME NEW u \in Seq(Events), NEW w \in Seq(Events), NEW v \in Seq(Events),
         NEW b \in Seq(Events), b = (u \o w) \o v
  PROVE  InParts(b, u, w, v)
<1>1. /\ Len(u) \in Nat /\ Len(w) \in Nat /\ Len(v) \in Nat
      /\ DOMAIN u = 1..Len(u) /\ DOMAIN w = 1..Len(w) /\ DOMAIN v = 1..Len(v)
  OBVIOUS
<1>2. PICK a : a = u \o w
  OBVIOUS
<1>3. /\ a \in Seq(Events) /\ Len(a) = Len(u) + Len(w)
      /\ \A i \in 1..(Len(u) + Len(w)) : a[i] = IF i <= Len(u) THEN u[i] ELSE w[i - Len(u)]
  BY <1>2, ConcatProperties
<1>4. /\ b \in Seq(Events) /\ Len(b) = Len(a) + Len(v)
      /\ \A i \in 1..(Len(a) + Len(v)) : b[i] = IF i <= Len(a) THEN a[i] ELSE v[i - Len(a)]
  BY <1>2, <1>3, ConcatProperties
<1>5. DOMAIN b = 1..(Len(u) + Len(w) + Len(v))
  BY <1>1, <1>3, <1>4
<1>6. ASSUME NEW i \in 1..(Len(u) + Len(w) + Len(v))
      PROVE  /\ i <= Len(u) => b[i] \in Range(u)
             /\ i > Len(u) /\ i <= Len(u) + Len(w) => b[i] \in Range(w)
             /\ i > Len(u) + Len(w) => b[i] \in Range(v)
  <2>1. CASE i <= Len(u)
    <3>1. b[i] = u[i] /\ i \in DOMAIN u
      BY <1>1, <1>3, <1>4, <2>1
    <3> QED
      BY <1>1, <2>1, <3>1 DEF Range
  <2>2. CASE i > Len(u) /\ i <= Len(u) + Len(w)
    <3>1. i - Len(u) \in DOMAIN w /\ i \in 1..(Len(u) + Len(w)) /\ i \in 1..(Len(a) + Len(v)) /\ ~(i <= Len(u))
      BY <1>1, <1>3, <2>2
    <3>2. b[i] = a[i] /\ a[i] = w[i - Len(u)]
      BY <1>3, <1>4, <2>2, <3>1
    <3> QED
      BY <1>1, <2>2, <3>1, <3>2 DEF Range
  <2>3. CASE i > Len(u) + Len(w)
    <3>1. i - (Len(u) + Len(w)) \in DOMAIN v /\ i \in 1..(Len(a) + Len(v)) /\ ~(i <= Len(a))
      BY <1>1, <1>3, <2>3
    <3>2. b[i] = v[i - Len(a)] /\ i - Len(a) \in DOMAIN v
      BY <1>3, <1>4, <3>1
    <3>3. b[i] \in Range(v)
      BY <3>2 DEF Range
    <3>4. ~(i <= Len(u)) /\ ~(i <= Len(u) + Len(w))
      BY <1>1, <2>3
    <3> QED
      BY <3>3, <3>4
  <2> QED
    BY <1>1, <2>1, <2>2, <2>3
<1>7. ASSUME NEW i \in 1..Len(v) PROVE b[Len(u) + Len(w) + i] = v[i]
  <2>1. Len(u) + Len(w) + i \in 1..(Len(a) + Len(v)) /\ ~(Len(u) + Len(w) + i <= Len(a))
        /\ (Len(u) + Len(w) + i) - Len(a) = i
    BY <1>1, <1>3
  <2> QED
    BY <1>4, <2>1
<1> QED
  BY <1>1, <1>5, <1>6, <1>7 DEF InParts

LEMMA Between ==
  ASSUME NEW b \in Seq(Events), Together(b), NEW s \in Submissions,
         NEW i \in DOMAIN b, NEW m \in DOMAIN b, NEW l \in DOMAIN b, i < m, m < l,
         b[i] \in Range(s), b[l] \in Range(s)
  PROVE  b[m] \in Range(s)
<1>1. PICK u \in Seq(Events), v \in Seq(Events) :
        /\ b = (u \o Within(b, Range(s))) \o v
        /\ Range(u) \cap Range(s) = {} /\ Range(v) \cap Range(s) = {}
  BY DEF Together
<1>2. PICK w : w = Within(b, Range(s))
  OBVIOUS
<1>3. w \in Seq(Events) /\ Range(w) \subseteq Range(s)
  BY <1>2, WithinMembers
<1>4. b = (u \o w) \o v
  BY <1>1, <1>2
<1>5. InParts(b, u, w, v)
  BY <1>3, <1>4, ThreeParts
<1>6. i > Len(u) /\ l <= Len(u) + Len(w)
  BY <1>1, <1>5 DEF InParts
<1>7. m > Len(u) /\ m <= Len(u) + Len(w)
  BY <1>5, <1>6 DEF InParts
<1> QED
  BY <1>3, <1>5, <1>7 DEF InParts

\* Filtering a sequence of three parts filters each of them.
FiltersParts(b, u, w, v, X) == Within(b, X) = (Within(u, X) \o Within(w, X)) \o Within(v, X)

LEMMA WithinParts ==
  ASSUME NEW u \in Seq(Events), NEW w \in Seq(Events), NEW v \in Seq(Events), NEW X
  PROVE  FiltersParts((u \o w) \o v, u, w, v, X)
<1>1. PICK a \in Seq(Events) : a = u \o w
  BY ConcatProperties
<1>2. Within(a \o v, X) = Within(a, X) \o Within(v, X)
  BY WithinConcat, SMTT(30)
<1>3. Within(u \o w, X) = Within(u, X) \o Within(w, X)
  BY WithinConcat, SMTT(30)
<1> QED
  BY <1>1, <1>2, <1>3 DEF FiltersParts

LEMMA FlattenPartition ==
  ASSUME NEW b \in Seq(Events), Together(b)
  PROVE  FlattenSeq(Partition(b)) = b
<1>0. PICK m \in Nat : \E f \in [1..m -> DOMAIN b] :
        /\ \A j, k \in 1..m : j < k => f[j] < f[k]
        /\ \A k \in 1..m : \A i \in 1..(f[k] - 1) : SubmissionOf(b[i]) # SubmissionOf(b[f[k]])
        /\ Partition(b) = [k \in 1..m |-> Within(b, Range(SubmissionOf(b[f[k]])))]
  BY PartitionOrder
<1>1. PICK first \in [1..m -> DOMAIN b] :
        /\ \A j, k \in 1..m : j < k => first[j] < first[k]
        /\ \A k \in 1..m : \A i \in 1..(first[k] - 1) : SubmissionOf(b[i]) # SubmissionOf(b[first[k]])
        /\ Partition(b) = [k \in 1..m |-> Within(b, Range(SubmissionOf(b[first[k]])))]
  BY <1>0
<1>2. PICK p : p = Partition(b)
  OBVIOUS
<1>3. p \in Seq(Seq(Events)) /\ EventsIn(Range(p)) = Range(b)
  BY <1>2, PartitionGroups
<1> DEFINE t == [k \in 1..m |-> SubmissionOf(b[first[k]])]
           U(k) == UNION {Range(t[j]) : j \in 1..k}
<1>4. \A k \in 1..m : /\ first[k] \in DOMAIN b /\ first[k] \in Nat
                      /\ t[k] \in Submissions /\ b[first[k]] \in Range(t[k])
  BY <1>1, InSubmission
<1>5. \A k \in 1..m : p[k] = Within(b, Range(t[k]))
  BY <1>1, <1>2
<1>6. Len(p) = m
  BY <1>1, <1>2, <1>3
<1>7. ASSUME NEW j \in 1..m, NEW k \in 1..m, j < k PROVE t[j] # t[k] /\ Range(t[j]) \cap Range(t[k]) = {}
  <2>1. first[j] \in 1..(first[k] - 1)
    BY <1>1, <1>4, <1>7
  <2>2. t[j] # t[k]
    BY <1>1, <2>1
  <2> HIDE DEF t
  <2> QED
    BY <1>4, <2>2, OneSubmission
<1> HIDE DEF t
<1> DEFINE G == {k \in 0..m : FlattenSeq(SubSeq(p, 1, k)) = Within(b, U(k))}
<1>8. 0 \in G
  <2>1. SubSeq(p, 1, 0) = << >> /\ FlattenSeq(<< >>) = << >>
    BY SubSeqEmpty, FlattenEmpty
  <2>2. U(0) = {}
    OBVIOUS
  <2>3. Within(b, {}) = << >>
    BY WithinNone
  <2>4. FlattenSeq(SubSeq(p, 1, 0)) = Within(b, U(0))
    <3> HIDE DEF U
    <3> QED
      BY <2>1, <2>2, <2>3, Zenon
  <2> QED
    BY <2>4
<1>9. ASSUME NEW k \in 0..(m - 1), k \in G PROVE k + 1 \in G
  <2>1. k + 1 \in 1..m /\ k + 1 \in 0..m /\ k \in Nat /\ 1 \in 1..Len(p) /\ k + 1 \in 1..Len(p)
    BY <1>6
  <2>2. PICK R : R = Range(t[k + 1])
    OBVIOUS
  <2>3. PICK X : X = U(k)
    OBVIOUS
  <2>4. U(k + 1) = X \cup R
    BY <2>1, <2>2, <2>3
  <2>5. \A j \in 1..k : j \in 1..m /\ j < k + 1
    BY <2>1
  <2>6. X \cap R = {}
    <3>1. \A j \in 1..k : Range(t[j]) \cap R = {}
      BY <1>7, <2>1, <2>2, <2>5
    <3> QED
      BY <2>3, <3>1
  <2>7. PICK u \in Seq(Events), v \in Seq(Events) :
          /\ b = (u \o Within(b, R)) \o v /\ Range(u) \cap R = {} /\ Range(v) \cap R = {}
    BY <1>4, <2>1, <2>2 DEF Together
  <2>8. PICK w : w = Within(b, R)
    OBVIOUS
  <2>9. w \in Seq(Events) /\ Range(w) \subseteq R
    BY <2>8, WithinMembers
  <2>10. b = (u \o w) \o v
    BY <2>7, <2>8
  <2>11. InParts(b, u, w, v)
    BY <2>9, <2>10, ThreeParts
  <2>12. Range(v) \cap X = {}
    <3> SUFFICES ASSUME NEW e \in Range(v), e \in X PROVE FALSE
      OBVIOUS
    <3>1. PICK j \in 1..k : e \in Range(t[j])
      BY <2>3
    <3>2. PICK q \in 1..Len(v) : v[q] = e
      BY DEF Range
    <3>3. PICK l : l = Len(u) + Len(w) + q
      OBVIOUS
    <3>4. l \in DOMAIN b /\ b[l] = e /\ l \in Nat /\ l > Len(u) + Len(w)
      BY <2>11, <3>2, <3>3 DEF InParts
    <3>5. PICK mid : mid = first[k + 1]
      OBVIOUS
    <3>6. mid \in DOMAIN b /\ b[mid] \in R /\ mid \in Nat
      BY <1>4, <2>1, <2>2, <3>5
    <3>7. mid <= Len(u) + Len(w)
      BY <2>7, <2>11, <3>6 DEF InParts
    <3>8. mid < l
      BY <2>11, <3>4, <3>6, <3>7 DEF InParts
    <3>9. PICK i : i = first[j]
      OBVIOUS
    <3>10. i \in DOMAIN b /\ b[i] \in Range(t[j]) /\ i < mid /\ t[j] \in Submissions
      BY <1>1, <1>4, <2>1, <2>5, <3>1, <3>5, <3>9
    <3>11. b[mid] \in Range(t[j])
      BY <3>1, <3>4, <3>6, <3>8, <3>10, Between
    <3>12. b[mid] \in X
      BY <2>3, <3>1, <3>11
    <3> QED
      BY <2>6, <3>6, <3>12
  <2>13. ASSUME NEW Y PROVE Within(b, Y) = (Within(u, Y) \o Within(w, Y)) \o Within(v, Y)
    <3>1. FiltersParts((u \o w) \o v, u, w, v, Y)
      BY <2>9, WithinParts
    <3>2. FiltersParts(b, u, w, v, Y)
      BY <2>10, <3>1, Zenon
    <3> QED
      BY <3>2 DEF FiltersParts
  <2>14. Within(b, X) = Within(u, X)
    <3>1. Within(w, X) = << >> /\ Within(v, X) = << >>
      BY <2>6, <2>9, <2>12, WithinNone
    <3>2. PICK z \in Seq(Events) : z = Within(u, X)
      BY WithinMembers
    <3>3. (z \o << >>) \o << >> = z
      BY ConcatEmptySeq
    <3> QED
      BY <2>13, <3>1, <3>2, <3>3
  <2>15. Within(b, X \cup R) = Within(u, X) \o w
    <3>1. Within(v, X \cup R) = << >>
      BY <2>7, <2>12, WithinNone
    <3>2. Within(w, X \cup R) = w
      BY <2>9, WithinAll
    <3>3. Within(u, X \cup R) = Within(u, X)
      BY <2>7, WithinSame
    <3>4. PICK z \in Seq(Events) : z = Within(u, X) \o w
      BY <2>9, WithinMembers, ConcatProperties
    <3>5. z \o << >> = z
      BY ConcatEmptySeq
    <3> QED
      BY <2>13, <3>1, <3>2, <3>3, <3>4, <3>5
  <2>16. FlattenSeq(SubSeq(p, 1, k + 1)) = FlattenSeq(SubSeq(p, 1, k)) \o p[k + 1]
    <3>1. PICK c : c = SubSeq(p, 1, k)
      OBVIOUS
    <3>2. c \in Seq(Seq(Events)) /\ p[k + 1] \in Seq(Events)
      <4>1. \A i \in 1..k : p[i] \in Seq(Events)
        BY <1>3, <1>6, <2>1
      <4>2. p[k + 1] \in Seq(Events)
        BY <1>3, <2>1
      <4> QED
        BY <2>1, <3>1, <4>1, <4>2, SubSeqProperties
    <3>3. SubSeq(p, 1, k + 1) = SubSeq(p, 1, (k + 1) - 1) \o <<p[k + 1]>>
      BY <1>3, <2>1, SubSeqRecursiveSecond
    <3>4. (k + 1) - 1 = k
      BY <2>1
    <3>5. SubSeq(p, 1, k + 1) = Append(c, p[k + 1])
      BY <3>1, <3>2, <3>3, <3>4, AppendIsConcat
    <3> QED
      BY <3>1, <3>2, <3>5, FlattenAppend
  <2>17. FlattenSeq(SubSeq(p, 1, k)) = Within(b, X)
    BY <1>9, <2>3
  <2>18. p[k + 1] = w
    BY <1>5, <2>1, <2>2, <2>8
  <2>19. FlattenSeq(SubSeq(p, 1, k + 1)) = Within(b, U(k + 1))
    <3> HIDE DEF U
    <3> QED
      BY <2>4, <2>14, <2>15, <2>16, <2>17, <2>18, Zenon
  <2> QED
    BY <2>1, <2>19
<1>10. FlattenSeq(SubSeq(p, 1, m)) = Within(b, U(m))
  <2>0. m \in G => FlattenSeq(SubSeq(p, 1, m)) = Within(b, U(m))
    OBVIOUS
  <2> HIDE DEF G
  <2>1. \A k \in 0..m : k \in G
    BY <1>8, <1>9, UpTo, Zenon
  <2> QED
    BY <2>0, <2>1
<1>11. SubSeq(p, 1, m) = p
  BY <1>3, <1>6, SubSeqFull
<1>12. PICK Y : Y = U(m)
  OBVIOUS
<1>13. FlattenSeq(p) = Within(b, Y)
  BY <1>10, <1>11, <1>12
<1>14. Range(FlattenSeq(p)) = Range(b) /\ Range(Within(b, Y)) = Range(b) \cap Y
  BY <1>3, FlattenMembers, WithinMembers
<1>15. Range(b) \subseteq Y
  BY <1>13, <1>14
<1> QED
  BY <1>2, <1>13, <1>15, WithinAll

LEMMA TogetherEmpty == Together(<< >>)
<1> SUFFICES ASSUME NEW s \in Submissions
             PROVE  \E u, v \in Seq(Events) :
                      /\ << >> = (u \o Within(<< >>, Range(s))) \o v
                      /\ Range(u) \cap Range(s) = {} /\ Range(v) \cap Range(s) = {}
  BY DEF Together
<1>1. Within(<< >>, Range(s)) = << >>
  BY WithinEmpty
<1>2. << >> \in Seq(Events) /\ Range(<< >>) \cap Range(s) = {}
  BY RangeNone
<1>3. (<< >> \o << >>) \o << >> = << >>
  BY ConcatEmptySeq
<1> QED
  BY <1>1, <1>2, <1>3

\* Leaving events out does not take a submission's events apart.
LEMMA TogetherWithin ==
  ASSUME NEW b \in Seq(Events), Together(b), NEW B
  PROVE  Together(Within(b, B))
<1> SUFFICES ASSUME NEW s \in Submissions
             PROVE  \E u, v \in Seq(Events) :
                      /\ Within(b, B) = (u \o Within(Within(b, B), Range(s))) \o v
                      /\ Range(u) \cap Range(s) = {} /\ Range(v) \cap Range(s) = {}
  BY DEF Together
<1>1. PICK R : R = Range(s)
  OBVIOUS
<1>2. PICK u \in Seq(Events), v \in Seq(Events) :
        b = (u \o Within(b, R)) \o v /\ Range(u) \cap R = {} /\ Range(v) \cap R = {}
  BY <1>1 DEF Together
<1>3. PICK w : w = Within(b, R)
  OBVIOUS
<1>4. w \in Seq(Events)
  BY <1>3, WithinMembers
<1>5. FiltersParts((u \o w) \o v, u, w, v, B)
  BY <1>4, WithinParts
<1>6. FiltersParts(b, u, w, v, B)
  BY <1>2, <1>3, <1>5, Zenon
<1>7. Within(b, B) = (Within(u, B) \o Within(w, B)) \o Within(v, B)
  BY <1>6 DEF FiltersParts
<1>8. Within(w, B) = Within(Within(b, B), R)
  <2>1. Within(Within(b, R), B) = Within(b, R \cap B) /\ Within(Within(b, B), R) = Within(b, B \cap R)
    BY WithinTwice
  <2>2. B \cap R = R \cap B
    OBVIOUS
  <2> QED
    BY <1>3, <2>1, <2>2, Zenon
<1>9. PICK y, z : y = Within(u, B) /\ z = Within(v, B)
  OBVIOUS
<1>10. y \in Seq(Events) /\ z \in Seq(Events) /\ Range(y) \cap R = {} /\ Range(z) \cap R = {}
  <2>1. Within(u, B) \in Seq(Events) /\ Range(Within(u, B)) = Range(u) \cap B
    BY WithinMembers
  <2>2. Within(v, B) \in Seq(Events) /\ Range(Within(v, B)) = Range(v) \cap B
    BY WithinMembers
  <2> QED
    BY <1>2, <1>9, <2>1, <2>2
<1>11. Within(b, B) = (y \o Within(Within(b, B), R)) \o z
  BY <1>7, <1>8, <1>9, Zenon
<1> QED
  BY <1>1, <1>10, <1>11, Zenon

\* A submission is queued behind what is pending, all of it.
LEMMA TogetherSubmit ==
  ASSUME NEW b \in Seq(Events), Together(b), NEW s \in Submissions, Range(b) \cap Range(s) = {}
  PROVE  Together(b \o s)
<1>0. s \in Seq(Events)
  BY EventLoopAssumption
<1> SUFFICES ASSUME NEW t \in Submissions
             PROVE  \E u, v \in Seq(Events) :
                      /\ b \o s = (u \o Within(b \o s, Range(t))) \o v
                      /\ Range(u) \cap Range(t) = {} /\ Range(v) \cap Range(t) = {}
  BY DEF Together
<1>1. PICK R : R = Range(t)
  OBVIOUS
<1>2. Within(b \o s, R) = Within(b, R) \o Within(s, R)
  BY <1>0, WithinConcat
<1>3. CASE t = s
  <2>1. Within(b, R) = << >> /\ Within(s, R) = s
    BY <1>0, <1>1, <1>3, WithinNone, WithinAll
  <2>2. << >> \o s = s /\ b \o s \in Seq(Events)
    BY <1>0, ConcatEmptySeq, ConcatProperties
  <2>3. Within(b \o s, R) = s
    BY <1>2, <2>1, <2>2, Zenon
  <2>4. (b \o s) \o << >> = b \o s
    BY <2>2, ConcatEmptySeq
  <2>5. b \o s = (b \o Within(b \o s, R)) \o << >>
    BY <2>3, <2>4, Zenon
  <2>6. << >> \in Seq(Events) /\ Range(<< >>) \cap R = {} /\ Range(b) \cap R = {}
    BY <1>1, <1>3, RangeNone
  <2> QED
    BY <1>1, <2>5, <2>6, Zenon
<1>4. CASE t # s
  <2>1. Range(s) \cap R = {}
    BY <1>1, <1>4, OneSubmission
  <2>2. PICK u \in Seq(Events), v \in Seq(Events) :
          b = (u \o Within(b, R)) \o v /\ Range(u) \cap R = {} /\ Range(v) \cap R = {}
    BY <1>1 DEF Together
  <2>3. PICK w : w = Within(b, R)
    OBVIOUS
  <2>4. w \in Seq(Events) /\ w \o << >> = w
    BY <2>3, WithinMembers, ConcatEmptySeq
  <2>5. Within(s, R) = << >>
    BY <1>0, <2>1, WithinNone
  <2>6. Within(b \o s, R) = w
    BY <1>2, <2>3, <2>4, <2>5, Zenon
  <2>7. PICK z : z = v \o s
    OBVIOUS
  <2>8. z \in Seq(Events) /\ Range(z) \cap R = {}
    BY <1>0, <2>1, <2>2, <2>7, ConcatProperties, RangeConcat
  <2>9. ((u \o w) \o v) \o s = (u \o w) \o (v \o s)
    <3>1. PICK c \in Seq(Events) : c = u \o w
      BY <2>4, ConcatProperties
    <3>2. (c \o v) \o s = c \o (v \o s)
      BY <1>0, ConcatAssociative, SMTT(30)
    <3> QED
      BY <3>1, <3>2, Zenon
  <2>10. b \o s = (u \o Within(b \o s, R)) \o z
    BY <2>2, <2>3, <2>6, <2>7, <2>9, Zenon
  <2> QED
    BY <1>1, <2>2, <2>8, <2>10, Zenon
<1> QED
  BY <1>3, <1>4

LEMMA WithoutIs ==
  ASSUME NEW T, NEW s \in Seq(T), NEW S
  PROVE  Without(s, S) = Within(s, T \ S)
<1>1. Range(s) \subseteq T
  BY MembersOf
<1>2. Within(s, Range(s) \ S) = Within(s, T \ S)
  BY <1>1, WithinSame
<1> QED
  BY <1>2 DEF Without

\* The items of each event of a batch.
ItemRuns(b) == [i \in DOMAIN b |-> [k \in 1..Items[b[i]] |-> b[i]]]

LEMMA ItemsConcat ==
  ASSUME NEW s \in Seq(Events), NEW t \in Seq(Events)
  PROVE  /\ ItemsOf(s) \in Seq(Events) /\ ItemsOf(t) \in Seq(Events)
         /\ ItemsOf(s \o t) = ItemsOf(s) \o ItemsOf(t)
<1>1. \A b : ItemsOf(b) = FlattenSeq(ItemRuns(b))
  BY DEF ItemsOf, ItemRuns
<1>2. ASSUME NEW b \in Seq(Events)
      PROVE  /\ ItemRuns(b) \in Seq(Seq(Events)) /\ Len(ItemRuns(b)) = Len(b)
             /\ FlattenSeq(ItemRuns(b)) \in Seq(Events)
  <2>1. PICK n \in Nat : DOMAIN b = 1..n /\ Len(b) = n
    BY <1>2
  <2>2. ASSUME NEW i \in 1..n PROVE [k \in 1..Items[b[i]] |-> b[i]] \in Seq(Events)
    <3>1. b[i] \in Events /\ Items[b[i]] \in Nat
      BY <1>2, <2>1, EventLoopAssumption
    <3>2. PICK e, l : e = b[i] /\ l = Items[b[i]]
      OBVIOUS
    <3>3. [k \in 1..l |-> e] \in [1..l -> Events] /\ l \in Nat
      BY <3>1, <3>2
    <3>4. [k \in 1..l |-> e] \in Seq(Events)
      BY <3>3, SeqDef
    <3> QED
      BY <3>2, <3>4, Zenon
  <2>3. ItemRuns(b) \in [1..n -> Seq(Events)]
    BY <2>1, <2>2 DEF ItemRuns
  <2>4. ItemRuns(b) \in Seq(Seq(Events)) /\ Len(ItemRuns(b)) = n
    BY <2>3
  <2> QED
    BY <2>1, <2>4, FlattenMembers
<1>3. PICK a : a = s \o t
  OBVIOUS
<1>4. /\ a \in Seq(Events) /\ Len(a) = Len(s) + Len(t) /\ Len(s) \in Nat /\ Len(t) \in Nat
      /\ DOMAIN a = 1..(Len(s) + Len(t)) /\ DOMAIN s = 1..Len(s) /\ DOMAIN t = 1..Len(t)
      /\ \A i \in 1..(Len(s) + Len(t)) : a[i] = IF i <= Len(s) THEN s[i] ELSE t[i - Len(s)]
  BY <1>3, ConcatProperties
<1>5. PICK p, q, r : p = ItemRuns(s) /\ q = ItemRuns(t) /\ r = ItemRuns(a)
  OBVIOUS
<1>6. /\ p \in Seq(Seq(Events)) /\ q \in Seq(Seq(Events)) /\ r \in Seq(Seq(Events))
      /\ Len(p) = Len(s) /\ Len(q) = Len(t) /\ Len(r) = Len(s) + Len(t)
  BY <1>2, <1>4, <1>5
<1>7. PICK c : c = p \o q
  OBVIOUS
<1>8. /\ c \in Seq(Seq(Events)) /\ Len(c) = Len(s) + Len(t)
      /\ \A i \in 1..(Len(s) + Len(t)) : c[i] = IF i <= Len(s) THEN p[i] ELSE q[i - Len(s)]
  <2>1. /\ p \o q \in Seq(Seq(Events)) /\ Len(p \o q) = Len(p) + Len(q)
        /\ \A i \in 1..(Len(p) + Len(q)) : (p \o q)[i] = IF i <= Len(p) THEN p[i] ELSE q[i - Len(p)]
    <3>1. p \in Seq(Seq(Events)) /\ q \in Seq(Seq(Events))
      BY <1>6
    <3> QED
      BY <3>1, ConcatProperties, Zenon
  <2> QED
    BY <1>6, <1>7, <2>1, Zenon
<1>9. ASSUME NEW i \in 1..(Len(s) + Len(t)) PROVE r[i] = c[i]
  <2>1. r[i] = [k \in 1..Items[a[i]] |-> a[i]]
    BY <1>4, <1>5 DEF ItemRuns
  <2>2. CASE i <= Len(s)
    <3>1. i \in DOMAIN s /\ a[i] = s[i] /\ c[i] = p[i]
      BY <1>4, <1>8, <2>2
    <3>2. p[i] = [k \in 1..Items[s[i]] |-> s[i]]
      BY <1>5, <3>1 DEF ItemRuns
    <3> QED
      BY <2>1, <3>1, <3>2, Zenon
  <2>3. CASE ~(i <= Len(s))
    <3>1. i - Len(s) \in DOMAIN t /\ a[i] = t[i - Len(s)] /\ c[i] = q[i - Len(s)]
      BY <1>4, <1>8, <2>3
    <3>2. q[i - Len(s)] = [k \in 1..Items[t[i - Len(s)]] |-> t[i - Len(s)]]
      BY <1>5, <3>1 DEF ItemRuns
    <3> QED
      BY <2>1, <3>1, <3>2, Zenon
  <2> QED
    BY <2>2, <2>3
<1>10. r = c
  BY <1>6, <1>8, <1>9, SeqEqual
<1>11. FlattenSeq(p \o q) = FlattenSeq(p) \o FlattenSeq(q)
  BY <1>6, FlattenConcat
<1>12. ItemsOf(s) \in Seq(Events) /\ ItemsOf(t) \in Seq(Events)
  <2>1. FlattenSeq(ItemRuns(s)) \in Seq(Events) /\ FlattenSeq(ItemRuns(t)) \in Seq(Events)
    BY <1>2
  <2> QED
    BY <1>1, <2>1, Zenon
<1>13. ItemsOf(s \o t) = ItemsOf(s) \o ItemsOf(t)
  BY <1>1, <1>3, <1>5, <1>7, <1>10, <1>11, Zenon
<1> QED
  BY <1>12, <1>13

LEMMA ItemsEmpty == ItemsOf(<< >>) = << >>
<1>1. [i \in DOMAIN << >> |-> [k \in 1..Items[<< >>[i]] |-> << >>[i]]] = << >>
  OBVIOUS
<1>2. ItemsOf(<< >>) = FlattenSeq(<< >>)
  BY <1>1, Zenon DEF ItemsOf
<1> QED
  BY <1>2, FlattenEmpty

-----------------------------------------------------------------------------
\* What the coordinator's steps do to the order of arrival.

\* The events known are, in order of arrival, the events x that some run has been
\* handed or that are deferred, then the ones in hand, then the ones queued; and
\* the groups are what no run has been handed of x, in its order.
Ordered(x, ids, hand, queue, groups, handed) ==
  /\ x \in Seq(Events) /\ hand \in Seq(Events) /\ queue \in Seq(Events)
  /\ groups \in Seq(Seq(Events))
  /\ ids = (x \o hand) \o queue
  /\ Range(x) = handed \cup EventsIn(Range(groups))
  /\ Within(x, Events \ handed) = FlattenSeq(groups)

LEMMA OrderedSubmit ==
  ASSUME NEW x, NEW ids, NEW h, NEW q, NEW g, NEW a, Ordered(x, ids, h, q, g, a),
         NEW s \in Seq(Events)
  PROVE  Ordered(x, ids \o s, h, q \o s, g, a)
<1>1. x \in Seq(Events) /\ h \in Seq(Events) /\ q \in Seq(Events) /\ ids = (x \o h) \o q
  BY DEF Ordered
<1>2. PICK c \in Seq(Events) : c = x \o h
  BY <1>1, ConcatProperties
<1>3. (c \o q) \o s = c \o (q \o s) /\ q \o s \in Seq(Events)
  <2>1. q \in Seq(Events)
    BY <1>1
  <2>2. (c \o q) \o s = c \o (q \o s)
    BY <2>1, ConcatAssociative
  <2> QED
    BY <2>1, <2>2, ConcatProperties, Zenon
<1>4. ids \o s = (x \o h) \o (q \o s)
  BY <1>1, <1>2, <1>3, Zenon
<1> QED
  BY <1>1, <1>3, <1>4, Zenon DEF Ordered

LEMMA OrderedTake ==
  ASSUME NEW x, NEW ids, NEW q, NEW g, NEW a, Ordered(x, ids, << >>, q, g, a)
  PROVE  Ordered(x, ids, q, << >>, g, a)
<1>1. x \in Seq(Events) /\ q \in Seq(Events) /\ ids = (x \o << >>) \o q
  BY DEF Ordered
<1>2. x \o << >> = x /\ x \o q \in Seq(Events)
  BY <1>1, ConcatEmptySeq, ConcatProperties
<1>3. (x \o q) \o << >> = x \o q
  BY <1>2, ConcatEmptySeq
<1>4. ids = (x \o q) \o << >> /\ << >> \in Seq(Events)
  BY <1>1, <1>2, <1>3, RangeNone, Zenon
<1> QED
  BY <1>1, <1>4, Zenon DEF Ordered

\* Of what is in hand, X keeps b; it keeps everything else.
LEMMA OrderedWithin ==
  ASSUME NEW x, NEW ids, NEW h, NEW q, NEW g, NEW a, Ordered(x, ids, h, q, g, a),
         NEW X, Range(x) \subseteq X, Range(q) \subseteq X
  PROVE  Within(ids, X) = (x \o Within(h, X)) \o q
<1>1. x \in Seq(Events) /\ h \in Seq(Events) /\ q \in Seq(Events) /\ ids = (x \o h) \o q
  BY DEF Ordered
<1>2. FiltersParts((x \o h) \o q, x, h, q, X)
  BY <1>1, WithinParts
<1>3. FiltersParts(ids, x, h, q, X)
  BY <1>1, <1>2, Zenon
<1>4. Within(ids, X) = (Within(x, X) \o Within(h, X)) \o Within(q, X)
  BY <1>3 DEF FiltersParts
<1>5. Within(x, X) = x /\ Within(q, X) = q
  BY <1>1, WithinAll
<1> QED
  BY <1>4, <1>5, Zenon

LEMMA OrderedKnown ==
  ASSUME NEW x, NEW ids, NEW h, NEW q, NEW g, NEW a, Ordered(x, ids, h, q, g, a)
  PROVE  ids \in Seq(Events) /\ Range(ids) = Range(x) \cup Range(h) \cup Range(q)
<1>1. x \in Seq(Events) /\ h \in Seq(Events) /\ q \in Seq(Events) /\ ids = (x \o h) \o q
  BY DEF Ordered
<1>2. PICK c : c = x \o h
  OBVIOUS
<1>3. c \in Seq(Events) /\ Range(c) = Range(x) \cup Range(h)
  BY <1>1, <1>2, ConcatProperties, RangeConcat
<1>4. c \o q \in Seq(Events) /\ Range(c \o q) = Range(c) \cup Range(q)
  BY <1>1, <1>3, ConcatProperties, RangeConcat
<1> QED
  BY <1>1, <1>2, <1>3, <1>4

LEMMA OrderedFail ==
  ASSUME NEW x, NEW ids, NEW h, NEW q, NEW g, NEW a, Ordered(x, ids, h, q, g, a),
         Range(x) \cap Range(h) = {}, Range(q) \cap Range(h) = {}
  PROVE  Ordered(x, Without(ids, Range(h)), << >>, q, g, a)
<1>1. x \in Seq(Events) /\ h \in Seq(Events) /\ q \in Seq(Events)
  BY DEF Ordered
<1>2. PICK X : X = Range(ids) \ Range(h)
  OBVIOUS
<1>3. Range(x) \subseteq X /\ Range(q) \subseteq X /\ Range(h) \cap X = {}
  BY <1>2, OrderedKnown
<1>4. Within(ids, X) = (x \o Within(h, X)) \o q
  BY <1>3, OrderedWithin
<1>5. Within(h, X) = << >>
  BY <1>1, <1>3, WithinNone
<1>6. Without(ids, Range(h)) = (x \o << >>) \o q /\ << >> \in Seq(Events)
  BY <1>2, <1>4, <1>5, RangeNone, Zenon DEF Without
<1> QED
  BY <1>1, <1>6, Zenon DEF Ordered

LEMMA WithinAfter ==
  ASSUME NEW x \in Seq(Events), NEW b \in Seq(Events), NEW Z, Range(b) \subseteq Z
  PROVE  Within(x \o b, Z) = Within(x, Z) \o b
<1>1. Within(x \o b, Z) = Within(x, Z) \o Within(b, Z)
  BY WithinConcat
<1>2. Within(b, Z) = b
  BY WithinAll
<1> QED
  BY <1>1, <1>2

LEMMA OrderedPublish ==
  ASSUME NEW x, NEW ids, NEW h, NEW q, NEW g, NEW a, Ordered(x, ids, h, q, g, a),
         Range(x) \cap Range(h) = {}, Range(q) \cap Range(h) = {},
         NEW b \in Seq(Events), b = Within(h, Range(b)), Together(b)
  PROVE  Ordered(x \o b, Without(ids, Range(h) \ Range(b)), << >>, q, g \o Partition(b), a)
<1>1. /\ x \in Seq(Events) /\ h \in Seq(Events) /\ q \in Seq(Events) /\ g \in Seq(Seq(Events))
      /\ Range(x) = a \cup EventsIn(Range(g)) /\ Within(x, Events \ a) = FlattenSeq(g)
  BY DEF Ordered
<1>2. PICK X : X = Range(ids) \ (Range(h) \ Range(b))
  OBVIOUS
<1>3. /\ Range(x) \subseteq X /\ Range(q) \subseteq X
      /\ \A e \in Range(h) : e \in X <=> e \in Range(b)
  BY <1>2, OrderedKnown
<1>4. Within(ids, X) = (x \o Within(h, X)) \o q
  BY <1>3, OrderedWithin
<1>5. Within(h, X) = Within(h, Range(b))
  BY <1>1, <1>3, WithinSame
<1>6. Within(h, X) = b
  BY <1>5
<1>7. PICK y : y = x \o b
  OBVIOUS
<1>8. y \in Seq(Events) /\ y \o << >> = y /\ Range(y) = Range(x) \cup Range(b)
  BY <1>1, <1>7, ConcatProperties, ConcatEmptySeq, RangeConcat
<1>9. Without(ids, Range(h) \ Range(b)) = (y \o << >>) \o q /\ << >> \in Seq(Events)
  BY <1>2, <1>4, <1>6, <1>7, <1>8, RangeNone, Zenon DEF Without
<1>10. PICK p : p = Partition(b)
  OBVIOUS
<1>11. p \in Seq(Seq(Events)) /\ EventsIn(Range(p)) = Range(b) /\ FlattenSeq(p) = b
  BY <1>10, PartitionGroups, FlattenPartition
<1>12. g \o p \in Seq(Seq(Events)) /\ Range(g \o p) = Range(g) \cup Range(p)
  BY <1>1, <1>11, RangeConcat, ConcatProperties
<1>13. Range(y) = a \cup EventsIn(Range(g \o p))
  <2>1. PICK G, H : G = Range(g) /\ H = Range(p)
    OBVIOUS
  <2>2. EventsIn(G \cup H) = EventsIn(G) \cup EventsIn(H)
    BY DEF EventsIn
  <2>3. Range(y) = a \cup (EventsIn(G) \cup EventsIn(H))
    BY <1>1, <1>8, <1>11, <2>1
  <2> QED
    BY <1>12, <2>1, <2>2, <2>3, Zenon
<1>14. Within(y, Events \ a) = FlattenSeq(g \o p)
  <2>1. Range(b) \subseteq Events \ a
    <3>1. Range(b) \subseteq Events
      BY MembersOf
    <3>2. Range(Within(h, Range(b))) = Range(h) \cap Range(b)
      BY <1>1, WithinMembers
    <3> QED
      BY <1>1, <3>1, <3>2
  <2>2. x \in Seq(Events)
    BY <1>1
  <2>3. Within(x \o b, Events \ a) = Within(x, Events \ a) \o b
    BY <2>1, <2>2, WithinAfter, Zenon
  <2>4. FlattenSeq(g \o p) = FlattenSeq(g) \o FlattenSeq(p)
    BY <1>1, <1>11, FlattenConcat
  <2> QED
    BY <1>1, <1>7, <1>11, <2>3, <2>4, Zenon
<1>15. Ordered(y, Without(ids, Range(h) \ Range(b)), << >>, q, g \o p, a)
  BY <1>1, <1>8, <1>9, <1>12, <1>13, <1>14, Zenon DEF Ordered
<1> QED
  BY <1>7, <1>10, <1>15, Zenon

\* A run takes whole groups, and the ones it leaves are in K.
LEMMA OrderedRun ==
  ASSUME NEW x, NEW ids, NEW h, NEW q, NEW g, NEW a, Ordered(x, ids, h, q, g, a),
         NEW K, NEW Y, Y = EventsIn(Range(g) \ K),
         \A c, d \in Range(g) : Range(c) \cap Range(d) # {} => c = d
  PROVE  Ordered(x, ids, h, q, Within(g, K), a \cup Y)
<1>1. /\ x \in Seq(Events) /\ h \in Seq(Events) /\ q \in Seq(Events) /\ g \in Seq(Seq(Events))
      /\ ids = (x \o h) \o q
      /\ Range(x) = a \cup EventsIn(Range(g)) /\ Within(x, Events \ a) = FlattenSeq(g)
  BY DEF Ordered
<1>2. PICK k : k = Within(g, K)
  OBVIOUS
<1>3. k \in Seq(Seq(Events)) /\ Range(k) = Range(g) \cap K
  BY <1>1, <1>2, WithinMembers
<1>4. Range(x) = (a \cup Y) \cup EventsIn(Range(k))
  <2>1. EventsIn(Range(g)) = EventsIn(Range(g) \ K) \cup EventsIn(Range(g) \cap K)
    BY DEF EventsIn
  <2>2. PICK A, B, C : A = EventsIn(Range(g)) /\ B = EventsIn(Range(g) \ K) /\ C = EventsIn(Range(g) \cap K)
    OBVIOUS
  <2>3. A = B \cup C /\ Range(x) = a \cup A /\ Y = B
    BY <1>1, <2>1, <2>2, Zenon
  <2>4. EventsIn(Range(k)) = C
    BY <1>3, <2>2, Zenon
  <2>5. Range(x) = (a \cup B) \cup C
    BY <2>3
  <2> QED
    BY <2>3, <2>4, <2>5, Zenon
<1>5. \A c \in Range(g) : IF c \in K THEN Range(c) \subseteq Events \ Y ELSE Range(c) \cap (Events \ Y) = {}
  <2> SUFFICES ASSUME NEW c \in Range(g)
               PROVE  IF c \in K THEN Range(c) \subseteq Events \ Y ELSE Range(c) \cap (Events \ Y) = {}
    OBVIOUS
  <2>1. c \in Seq(Events) /\ Range(c) \subseteq Events
    <3>1. Range(g) \subseteq Seq(Events)
      BY <1>1, MembersOf
    <3> QED
      BY <3>1, MembersOf
  <2>2. CASE c \in K
    <3>1. ASSUME NEW e \in Range(c), e \in Y PROVE FALSE
      <4>1. PICK d \in Range(g) \ K : e \in Range(d)
        BY <3>1 DEF EventsIn
      <4>2. c = d
        BY <3>1, <4>1
      <4> QED
        BY <2>2, <4>1, <4>2
    <3> QED
      BY <2>1, <2>2, <3>1
  <2>3. CASE c \notin K
    <3>1. Range(c) \subseteq Y
      BY <2>3 DEF EventsIn
    <3> QED
      BY <2>3, <3>1
  <2> QED
    BY <2>2, <2>3
<1>6. FlattenSeq(Within(g, K)) = Within(FlattenSeq(g), Events \ Y)
  <2>1. PICK E : E = Events \ Y
    OBVIOUS
  <2>2. \A c \in Range(g) : IF c \in K THEN Range(c) \subseteq E ELSE Range(c) \cap E = {}
    BY <1>5, <2>1, Zenon
  <2>3. FlattenSeq(Within(g, K)) = Within(FlattenSeq(g), E)
    <3>1. g \in Seq(Seq(Events))
      BY <1>1
    <3> QED
      BY <2>2, <3>1, FlattenWithin, Zenon
  <2> QED
    BY <2>1, <2>3, Zenon
<1>7. Within(x, Events \ (a \cup Y)) = FlattenSeq(k)
  <2>1. Within(Within(x, Events \ a), Events \ Y) = Within(x, (Events \ a) \cap (Events \ Y))
    <3>1. x \in Seq(Events)
      BY <1>1
    <3>2. PICK Z, E : Z = Events \ a /\ E = Events \ Y
      OBVIOUS
    <3>3. Within(Within(x, Z), E) = Within(x, Z \cap E)
      BY <3>1, WithinTwice
    <3> QED
      BY <3>2, <3>3, Zenon
  <2>2. (Events \ a) \cap (Events \ Y) = Events \ (a \cup Y)
    OBVIOUS
  <2> QED
    BY <1>1, <1>2, <1>6, <2>1, <2>2, Zenon
<1>8. Ordered(x, ids, h, q, k, a \cup Y)
  BY <1>1, <1>3, <1>4, <1>7, Zenon DEF Ordered
<1> QED
  BY <1>2, <1>8, Zenon

-----------------------------------------------------------------------------
\* The order of arrival, from the queue to the log and to the runs.

\* What a worker that is in the lane carries.
Carries(k) ==
  /\ k.pc \in Lane
  /\ k.pc = "notify" => k.queued = << >>
  /\ Together(k.queued)
  /\ k.pc # "notify" => k.batch = Within(k.queued, Range(k.batch))

HandSound ==
  /\ commitMu \in Workers \cup {Nobody}
  /\ commitMu # Nobody => Carries(work[commitMu])

\* What the log holds already of the events in hand.
Appended == IF commitMu # Nobody /\ work[commitMu].pc = "publish" THEN work[commitMu].batch ELSE << >>

Written(y, l) == l \in Seq(Events \cup {Cognition}) /\ Within(l, Events) = ItemsOf(y)

\* The inductive invariant, on top of DeliverySound.
OrderSound ==
  /\ \E x : Ordered(x, eventIDs, InHand, pending, deferred, acted) /\ Written(x \o Appended, log)
  /\ Together(pending)
  /\ HandSound

LEMMA OrderNext ==
  ASSUME NEW x, NEW h, NEW y, InHand' = h, Appended' = y,
         Ordered(x, eventIDs', h, pending', deferred', acted'), Written(x \o y, log'),
         Together(pending'), HandSound'
  PROVE  OrderSound'
BY DEF OrderSound

LEMMA HandNow ==
  ASSUME LaneSound, HandSound, NEW w \in Workers, work[w].pc \in Lane
  PROVE  /\ commitMu = w /\ InHand = work[w].queued /\ Carries(work[w])
         /\ Appended = IF work[w].pc = "publish" THEN work[w].batch ELSE << >>
<1>1. commitMu = w /\ w # Nobody
  BY EventLoopAssumption DEF LaneSound, Lane
<1> QED
  BY <1>1 DEF InHand, Appended, HandSound

LEMMA HandIs ==
  ASSUME NEW w \in Workers, commitMu' = w, Carries(work'[w])
  PROVE  /\ HandSound' /\ InHand' = work'[w].queued
         /\ Appended' = IF work'[w].pc = "publish" THEN work'[w].batch ELSE << >>
<1>1. w # Nobody
  BY EventLoopAssumption
<1> QED
  BY <1>1 DEF InHand, Appended, HandSound

LEMMA HandFree ==
  ASSUME commitMu' = Nobody
  PROVE  HandSound' /\ InHand' = << >> /\ Appended' = << >>
BY DEF InHand, Appended, HandSound

\* The one in the lane, if there is one, does not move.
LEMMA HandStays ==
  ASSUME HandSound, commitMu' = commitMu, commitMu # Nobody => work'[commitMu] = work[commitMu]
  PROVE  HandSound' /\ InHand' = InHand /\ Appended' = Appended
<1>1. CASE commitMu = Nobody
  BY <1>1 DEF HandSound, InHand, Appended
<1>2. CASE commitMu # Nobody
  <2>1. PICK c : c = commitMu
    OBVIOUS
  <2>2. commitMu' = c /\ c # Nobody /\ c \in Workers /\ work'[c] = work[c] /\ Carries(work[c])
    BY <1>2, <2>1 DEF HandSound
  <2> QED
    BY <2>1, <2>2 DEF HandSound, InHand, Appended
<1> QED
  BY <1>1, <1>2

LEMMA HandElsewhere ==
  ASSUME HandSound, NEW w \in Workers, work[w].pc \notin Lane, OthersWork(w), commitMu' = commitMu
  PROVE  HandSound' /\ InHand' = InHand /\ Appended' = Appended
<1>1. ASSUME commitMu # Nobody PROVE work'[commitMu] = work[commitMu]
  <2>1. commitMu \in Workers /\ work[commitMu].pc \in Lane
    BY <1>1 DEF HandSound, Carries
  <2> QED
    BY <2>1 DEF OthersWork
<1> QED
  BY <1>1, HandStays

LEMMA OrderKept ==
  ASSUME OrderSound, HandSound', InHand' = InHand, Appended' = Appended, UNCHANGED <<Queues, log>>
  PROVE  OrderSound'
BY DEF OrderSound, Queues

\* What is in hand is nowhere else.
LEMMA HandApart ==
  ASSUME DeliverySound, NEW w \in Workers, Holds(w),
         NEW x, Ordered(x, eventIDs, work[w].queued, pending, deferred, acted)
  PROVE  Range(x) \cap Range(work[w].queued) = {} /\ Range(pending) \cap Range(work[w].queued) = {}
<1>1. Taken = Range(work[w].queued)
  BY OnlyHolder DEF DeliverySound, Lane, Holds
<1>2. /\ Places(acted, Range(deferred), Taken, Range(pending), Range(eventIDs))
      /\ Range(eventIDs) \subseteq Events
  BY MembersOf DEF DeliverySound, PlacesSound
<1>3. acted \cap Taken = {} /\ EventsIn(Range(deferred)) \cap Taken = {} /\ Range(pending) \cap Taken = {}
  BY <1>2, PlacesDisjoint
<1>4. Range(x) = acted \cup EventsIn(Range(deferred))
  BY DEF Ordered
<1> QED
  BY <1>1, <1>3, <1>4

LEMMA WrittenMore ==
  ASSUME NEW x \in Seq(Events), NEW l, Written(x \o << >>, l), NEW b \in Seq(Events)
  PROVE  /\ Written(x \o b, l \o ItemsOf(b))
         /\ ItemsOf(b) = << >> => Written(x \o b, l)
<1>1. x \o << >> = x
  BY ConcatEmptySeq
<1>2. PICK T : T = Events \cup {Cognition}
  OBVIOUS
<1>3. l \in Seq(T) /\ Within(l, Events) = ItemsOf(x)
  BY <1>1, <1>2, Zenon DEF Written
<1>4. PICK i : i = ItemsOf(b)
  OBVIOUS
<1>5. ItemsOf(x) \in Seq(Events) /\ i \in Seq(Events) /\ ItemsOf(x \o b) = ItemsOf(x) \o i
  BY <1>4, ItemsConcat
<1>6. i \in Seq(T) /\ Range(i) \subseteq Events
  BY <1>2, <1>5, MembersOf
<1>7. Within(l \o i, Events) = Within(l, Events) \o Within(i, Events)
  <2>1. l \in Seq(T) /\ i \in Seq(T)
    BY <1>3, <1>6
  <2> QED
    BY <2>1, WithinConcat
<1>8. Within(i, Events) = i
  BY <1>6, WithinAll
<1>9. l \o i \in Seq(T)
  BY <1>3, <1>6, ConcatProperties
<1>10. Written(x \o b, l \o i)
  BY <1>2, <1>3, <1>5, <1>7, <1>8, <1>9, Zenon DEF Written
<1>11. ASSUME i = << >> PROVE l \o i = l
  BY <1>3, <1>11, ConcatEmptySeq
<1> QED
  BY <1>4, <1>10, <1>11, Zenon

LEMMA OrderSubmit ==
  ASSUME DeliverySound, OrderSound, NEW s \in Submissions, SubmitQueue(s)
  PROVE  OrderSound'
<1>1. /\ pending' = pending \o s /\ eventIDs' = eventIDs \o s /\ Range(s) \cap Range(eventIDs) = {}
      /\ UNCHANGED <<deferred, commitMu, work, acted, log>>
  BY DEF SubmitQueue, storeVars
<1>2. s \in Seq(Events)
  BY EventLoopAssumption
<1>3. HandSound' /\ InHand' = InHand /\ Appended' = Appended
  BY <1>1, HandStays DEF OrderSound
<1>4. PICK x : Ordered(x, eventIDs, InHand, pending, deferred, acted) /\ Written(x \o Appended, log)
  BY DEF OrderSound
<1>5. Ordered(x, eventIDs', InHand, pending', deferred', acted')
  BY <1>1, <1>2, <1>4, OrderedSubmit, Zenon
<1>6. Together(pending')
  <2>1. Range(pending) \cap Range(s) = {} /\ pending \in Seq(Events)
    BY <1>1 DEF DeliverySound, PlacesSound, Places
  <2>2. Together(pending \o s)
    BY <2>1, TogetherSubmit DEF OrderSound
  <2> QED
    BY <1>1, <2>2, Zenon
<1>7. Written(x \o Appended, log')
  BY <1>1, <1>4
<1> QED
  BY <1>3, <1>5, <1>6, <1>7, OrderNext

LEMMA OrderTake ==
  ASSUME DeliverySound, OrderSound, NEW w \in Workers, CommitTake(w)
  PROVE  OrderSound'
<1>1. /\ commitMu = Nobody /\ commitMu' = w /\ pending' = << >>
      /\ UNCHANGED <<eventIDs, deferred, acted, log>>
  BY DEF CommitTake, commitSame, storeVars
<1>2. work'[w].pc = "compile" /\ work'[w].queued = pending /\ work'[w].batch = pending
  BY DEF CommitTake, DeliverySound, RunInv, WorkShape, Fields
<1>3. pending \in Seq(Events) /\ Together(pending)
  BY DEF DeliverySound, PlacesSound, OrderSound
<1>4. Within(pending, Range(pending)) = pending
  BY <1>3, WithinAll
<1>5. Carries(work'[w])
  BY <1>2, <1>3, <1>4 DEF Carries, Lane
<1>6. HandSound' /\ InHand' = pending /\ Appended' = << >>
  BY <1>1, <1>2, <1>5, HandIs
<1>7. InHand = << >> /\ Appended = << >>
  BY <1>1 DEF InHand, Appended
<1>8. PICK x : Ordered(x, eventIDs, << >>, pending, deferred, acted) /\ Written(x \o << >>, log)
  BY <1>7, Zenon DEF OrderSound
<1>9. Ordered(x, eventIDs, pending, << >>, deferred, acted)
  BY <1>8, OrderedTake
<1>10. Ordered(x, eventIDs', pending, pending', deferred', acted') /\ Written(x \o << >>, log')
  BY <1>1, <1>8, <1>9, Zenon
<1>11. Together(pending')
  BY <1>1, TogetherEmpty
<1> QED
  BY <1>6, <1>10, <1>11, OrderNext

\* The state of the one who holds the lane and has events in hand.
LEMMA Handled ==
  ASSUME DeliverySound, OrderSound, NEW w \in Workers, Holds(w)
  PROVE  /\ commitMu = w /\ work[w].queued \in Seq(Events) /\ work[w].batch \in Seq(Events)
         /\ Together(work[w].queued) /\ work[w].batch = Within(work[w].queued, Range(work[w].batch))
         /\ \E x : /\ x \in Seq(Events)
                   /\ Ordered(x, eventIDs, work[w].queued, pending, deferred, acted)
                   /\ Written(x \o IF work[w].pc = "publish" THEN work[w].batch ELSE << >>, log)
<1>1. work[w].pc \in Lane /\ work[w].pc # "notify" /\ LaneSound /\ HandSound
  BY DEF Holds, Lane, DeliverySound, OrderSound
<1>2. /\ commitMu = w /\ InHand = work[w].queued /\ Carries(work[w])
      /\ Appended = IF work[w].pc = "publish" THEN work[w].batch ELSE << >>
  BY <1>1, HandNow
<1>3. work[w].queued \in Seq(Events) /\ work[w].batch \in Seq(Events)
  BY <1>1 DEF LaneSound
<1>4. PICK x : Ordered(x, eventIDs, InHand, pending, deferred, acted) /\ Written(x \o Appended, log)
  BY DEF OrderSound
<1>5. x \in Seq(Events)
  BY <1>4 DEF Ordered
<1>6. /\ Ordered(x, eventIDs, work[w].queued, pending, deferred, acted)
      /\ Written(x \o IF work[w].pc = "publish" THEN work[w].batch ELSE << >>, log)
  BY <1>2, <1>4, Zenon
<1>7. Together(work[w].queued) /\ work[w].batch = Within(work[w].queued, Range(work[w].batch))
  BY <1>1, <1>2, Zenon DEF Carries
<1> QED
  BY <1>2, <1>3, <1>5, <1>6, <1>7, Zenon

LEMMA OrderFail ==
  ASSUME DeliverySound, OrderSound, NEW w \in Workers, work[w].pc \in {"compile", "append"},
         CommitFails(w), acted' = acted
  PROVE  OrderSound'
<1>1. Holds(w) /\ work[w].pc # "publish"
  BY DEF Holds
<1>2. PICK x : /\ x \in Seq(Events) /\ Ordered(x, eventIDs, work[w].queued, pending, deferred, acted)
               /\ Written(x \o << >>, log)
  BY <1>1, Handled
<1>3. Range(x) \cap Range(work[w].queued) = {} /\ Range(pending) \cap Range(work[w].queued) = {}
  BY <1>1, <1>2, HandApart
<1>4. Ordered(x, Without(eventIDs, Range(work[w].queued)), << >>, pending, deferred, acted)
  BY <1>2, <1>3, OrderedFail
<1>5. /\ eventIDs' = Without(eventIDs, Range(work[w].queued)) /\ commitMu' = Nobody
      /\ UNCHANGED <<pending, deferred, log>>
  BY DEF CommitFails, storeVars
<1>6. /\ Ordered(x, eventIDs', << >>, pending', deferred', acted') /\ Written(x \o << >>, log')
      /\ Together(pending')
  BY <1>2, <1>4, <1>5, Zenon DEF OrderSound
<1>7. HandSound' /\ InHand' = << >> /\ Appended' = << >>
  BY <1>5, HandFree
<1> QED
  BY <1>6, <1>7, OrderNext

\* On the way through the lane, and into the log.
LEMMA OrderOn ==
  ASSUME DeliverySound, OrderSound, NEW w \in Workers, work[w].pc \in {"compile", "append"},
         UNCHANGED <<Queues, commitMu>>, work'[w].queued = work[w].queued,
         work'[w].pc \in {"compile", "append", "publish"},
         \/ work'[w].batch = work[w].batch
         \/ work'[w].pc # "publish" /\ \E B : work'[w].batch = Within(work[w].batch, B),
         IF work'[w].pc = "publish"
         THEN \/ log' = log \o ItemsOf(work[w].batch)
              \/ log' = log /\ ItemsOf(work[w].batch) = << >>
         ELSE log' = log
  PROVE  OrderSound'
<1>1. Holds(w) /\ work[w].pc # "publish"
  BY DEF Holds
<1>2. /\ commitMu = w /\ work[w].queued \in Seq(Events) /\ work[w].batch \in Seq(Events)
      /\ Together(work[w].queued) /\ work[w].batch = Within(work[w].queued, Range(work[w].batch))
  BY <1>1, Handled
<1>3. PICK x : /\ x \in Seq(Events) /\ Ordered(x, eventIDs, work[w].queued, pending, deferred, acted)
               /\ Written(x \o << >>, log)
  BY <1>1, Handled
<1>4. work'[w].batch = Within(work[w].queued, Range(work'[w].batch))
  <2>1. CASE work'[w].batch = work[w].batch
    BY <1>2, <2>1, Zenon
  <2>2. ASSUME NEW B, work'[w].batch = Within(work[w].batch, B)
        PROVE  work'[w].batch = Within(work[w].queued, Range(work'[w].batch))
    <3>1. PICK h, b, R, c : /\ h = work[w].queued /\ b = work[w].batch /\ R = Range(b)
                            /\ c = work'[w].batch
      OBVIOUS
    <3>2. h \in Seq(Events) /\ b \in Seq(Events) /\ b = Within(h, R) /\ c = Within(b, B)
      BY <1>2, <2>2, <3>1, Zenon
    <3>3. Range(c) = R \cap B
      BY <3>1, <3>2, WithinMembers
    <3>4. Within(Within(h, R), B) = Within(h, R \cap B)
      BY <3>2, WithinTwice
    <3>5. c = Within(h, Range(c))
      BY <3>2, <3>3, <3>4, Zenon
    <3> QED
      BY <3>1, <3>5, Zenon
  <2> QED
    BY <2>1, <2>2
<1>5. Carries(work'[w])
  BY <1>2, <1>4 DEF Carries, Lane
<1>6. /\ HandSound' /\ InHand' = work[w].queued
      /\ Appended' = IF work'[w].pc = "publish" THEN work'[w].batch ELSE << >>
  BY <1>2, <1>5, HandIs
<1>7. /\ Ordered(x, eventIDs', work[w].queued, pending', deferred', acted') /\ Together(pending')
  BY <1>3 DEF Queues, OrderSound
<1>8. CASE work'[w].pc # "publish"
  <2>1. Appended' = << >> /\ Written(x \o << >>, log')
    BY <1>3, <1>6, <1>8
  <2> QED
    BY <1>6, <1>7, <2>1, OrderNext
<1>9. CASE work'[w].pc = "publish"
  <2>1. Appended' = work[w].batch
    BY <1>6, <1>9
  <2>2. /\ Written(x \o work[w].batch, log \o ItemsOf(work[w].batch))
        /\ ItemsOf(work[w].batch) = << >> => Written(x \o work[w].batch, log)
    BY <1>2, <1>3, WrittenMore
  <2>3. Written(x \o work[w].batch, log')
    BY <1>9, <2>2
  <2> QED
    BY <1>6, <1>7, <2>1, <2>3, OrderNext
<1> QED
  BY <1>8, <1>9

LEMMA OrderPublish ==
  ASSUME DeliverySound, OrderSound, NEW w \in Workers, CommitPublish(w)
  PROVE  OrderSound'
<1>1. /\ work[w].pc = "publish"
      /\ eventIDs' = Without(eventIDs, Range(work[w].queued) \ Range(work[w].batch))
      /\ deferred' = deferred \o Partition(work[w].batch) /\ work' = [work EXCEPT ![w] = At("notify")]
      /\ UNCHANGED <<pending, acted, commitMu, log>>
  BY DEF CommitPublish, commitSame, storeVars
<1>2. Holds(w)
  BY <1>1 DEF Holds
<1>3. /\ commitMu = w /\ work[w].queued \in Seq(Events) /\ work[w].batch \in Seq(Events)
      /\ Together(work[w].queued) /\ work[w].batch = Within(work[w].queued, Range(work[w].batch))
  BY <1>2, Handled
<1>4. PICK x : /\ x \in Seq(Events) /\ Ordered(x, eventIDs, work[w].queued, pending, deferred, acted)
               /\ Written(x \o work[w].batch, log)
  BY <1>1, <1>2, Handled
<1>5. Range(x) \cap Range(work[w].queued) = {} /\ Range(pending) \cap Range(work[w].queued) = {}
  BY <1>2, <1>4, HandApart
<1>6. PICK h, b, y : h = work[w].queued /\ b = work[w].batch /\ y = x \o b
  OBVIOUS
<1>7. Together(b)
  <2>1. Together(Within(h, Range(b)))
    BY <1>3, <1>6, TogetherWithin
  <2> QED
    BY <1>3, <1>6, <2>1, Zenon
<1>8. Ordered(y, eventIDs', << >>, pending', deferred', acted')
  <2>1. /\ Ordered(x, eventIDs, h, pending, deferred, acted) /\ b \in Seq(Events)
        /\ Range(x) \cap Range(h) = {} /\ Range(pending) \cap Range(h) = {} /\ b = Within(h, Range(b))
    BY <1>3, <1>4, <1>5, <1>6, Zenon
  <2>2. Ordered(x \o b, Without(eventIDs, Range(h) \ Range(b)), << >>, pending, deferred \o Partition(b), acted)
    BY <1>7, <2>1, OrderedPublish, Zenon
  <2> QED
    BY <1>1, <1>6, <2>2, Zenon
<1>9. Written(y \o << >>, log')
  <2>1. y \o << >> = y
    BY <1>3, <1>4, <1>6, ConcatProperties, ConcatEmptySeq
  <2> QED
    BY <1>1, <1>4, <1>6, <2>1, Zenon
<1>10. work'[w] = At("notify")
  BY <1>1 DEF DeliverySound, RunInv, WorkShape
<1>11. work'[w].pc = "notify" /\ work'[w].queued = << >>
  BY <1>10 DEF At
<1>12. Carries(work'[w])
  BY <1>11, TogetherEmpty DEF Carries, Lane
<1>13. HandSound' /\ InHand' = << >> /\ Appended' = << >>
  BY <1>1, <1>3, <1>11, <1>12, HandIs
<1>14. Together(pending')
  BY <1>1 DEF OrderSound
<1> QED
  BY <1>8, <1>9, <1>13, <1>14, OrderNext

LEMMA OrderNotify ==
  ASSUME DeliverySound, OrderSound, NEW w \in Workers, CommitNotify(w)
  PROVE  OrderSound'
<1>1. /\ work[w].pc = "notify" /\ commitMu' = Nobody
      /\ UNCHANGED <<pending, eventIDs, deferred, acted, log>>
  BY DEF CommitNotify, commitSame, queueVars, storeVars
<1>2. /\ InHand = work[w].queued /\ Carries(work[w]) /\ Appended = << >>
  <2>1. work[w].pc \in Lane /\ LaneSound /\ HandSound
    BY <1>1 DEF Lane, DeliverySound, OrderSound
  <2> QED
    BY <1>1, <2>1, HandNow
<1>3. InHand = << >>
  BY <1>1, <1>2 DEF Carries
<1>4. HandSound' /\ InHand' = << >> /\ Appended' = << >>
  BY <1>1, HandFree
<1> QED
  BY <1>1, <1>2, <1>3, <1>4, OrderKept DEF Queues

\* Two groups share no event.
LEMMA GroupsApart ==
  ASSUME PlacesSound, NEW c \in Range(deferred), NEW d \in Range(deferred), Range(c) \cap Range(d) # {}
  PROVE  c = d
<1>1. PICK e \in Range(c) : e \in Range(d)
  OBVIOUS
<1>2. e \in Events
  BY MembersOf DEF PlacesSound
<1>3. SubmissionOf(e) \in Submissions /\ e \in Range(SubmissionOf(e))
  BY <1>2, InSubmission
<1> QED
  BY <1>1, <1>3 DEF PlacesSound, Places

LEMMA OrderRun ==
  ASSUME DeliverySound, OrderSound, NEW w \in Drivers, RunStart(w)
  PROVE  OrderSound'
<1>1. /\ work[w].pc = "start" /\ OthersWork(w) /\ w \in Workers
  BY StartStep DEF Workers
<1>2. /\ acted' = acted \cup EventsOf(Runnable) /\ deferred' = Kept
      /\ UNCHANGED <<pending, eventIDs, commitMu, log>>
  BY DEF RunStart, runSame, storeVars
<1>3. HandSound' /\ InHand' = InHand /\ Appended' = Appended
  BY <1>1, <1>2, HandElsewhere DEF OrderSound, Lane
<1>4. PICK x : Ordered(x, eventIDs, InHand, pending, deferred, acted) /\ Written(x \o Appended, log)
  BY DEF OrderSound
<1>5. deferred \in Seq(Seq(Events)) /\ PlacesSound
  BY DEF DeliverySound, PlacesSound
<1>6. PICK K : Kept = Within(deferred, K) /\ Range(Runnable) = Range(deferred) \ K
  <2>1. CASE active
    <3>1. Runnable = Within(deferred, ParallelGroups)
          /\ Kept = Within(deferred, Range(deferred) \ ParallelGroups)
      BY <2>1 DEF Runnable, Kept, Without
    <3>2. Range(Within(deferred, ParallelGroups)) = Range(deferred) \cap ParallelGroups
      BY <1>5, WithinMembers
    <3>3. Range(deferred) \cap ParallelGroups = Range(deferred) \ (Range(deferred) \ ParallelGroups)
      OBVIOUS
    <3> QED
      BY <3>1, <3>2, <3>3, Zenon
  <2>2. CASE ~active
    <3>1. Runnable = deferred /\ Kept = << >>
      BY <2>2 DEF Runnable, Kept
    <3>2. Within(deferred, {}) = << >>
      BY <1>5, WithinNone
    <3>3. Range(deferred) \ {} = Range(deferred)
      OBVIOUS
    <3> QED
      BY <3>1, <3>2, <3>3, Zenon
  <2> QED
    BY <2>1, <2>2
<1>7. EventsOf(Runnable) = EventsIn(Range(deferred) \ K)
  <2>1. EventsOf(Runnable) = EventsIn(Range(Runnable))
    BY EventsOfGroups
  <2> QED
    BY <1>6, <2>1, Zenon
<1>8. \A c, d \in Range(deferred) : Range(c) \cap Range(d) # {} => c = d
  BY <1>5, GroupsApart
<1>9. PICK Y : Y = EventsIn(Range(deferred) \ K)
  OBVIOUS
<1>10. Ordered(x, eventIDs, InHand, pending, Within(deferred, K), acted \cup Y)
  BY <1>4, <1>8, <1>9, OrderedRun, Zenon
<1>11. Ordered(x, eventIDs', InHand, pending', deferred', acted')
  BY <1>2, <1>6, <1>7, <1>9, <1>10, Zenon
<1>12. Written(x \o Appended, log') /\ Together(pending')
  BY <1>2, <1>4, Zenon DEF OrderSound
<1> QED
  BY <1>3, <1>11, <1>12, OrderNext

\* What cognition appends belongs to no event.
LEMMA OrderCognition ==
  ASSUME OrderSound, NEW w \in Drivers, ProcessAppend(w)
  PROVE  OrderSound'
<1>1. log' = Append(log, Cognition) /\ UNCHANGED <<Queues, commitMu, work>>
  BY DEF ProcessAppend, runSame, Queues
<1>2. HandSound' /\ InHand' = InHand /\ Appended' = Appended
  BY <1>1, HandStays DEF OrderSound
<1>3. PICK x : Ordered(x, eventIDs, InHand, pending, deferred, acted) /\ Written(x \o Appended, log)
  BY DEF OrderSound
<1>4. PICK T : T = Events \cup {Cognition}
  OBVIOUS
<1>5. log \in Seq(T) /\ Within(log, Events) = ItemsOf(x \o Appended) /\ Cognition \in T
  BY <1>3, <1>4 DEF Written
<1>6. Cognition \notin Events
  BY EventLoopAssumption
<1>7. Within(Append(log, Cognition), Events)
        = IF Cognition \in Events THEN Append(Within(log, Events), Cognition) ELSE Within(log, Events)
  <2>1. log \in Seq(T) /\ Cognition \in T
    BY <1>5
  <2> QED
    BY <2>1, WithinAppend
<1>8. Append(log, Cognition) \in Seq(T)
  BY <1>5
<1>9. Written(x \o Appended, log')
  BY <1>1, <1>4, <1>5, <1>6, <1>7, <1>8, Zenon DEF Written
<1>10. Ordered(x, eventIDs', InHand, pending', deferred', acted') /\ Together(pending')
  BY <1>1, <1>3 DEF Queues, OrderSound
<1> QED
  BY <1>2, <1>9, <1>10, OrderNext

LEMMA OrderCommit ==
  ASSUME DeliverySound, OrderSound, NEW w \in Workers, Commit(w)
  PROVE  OrderSound'
<1>1. acted' = acted /\ WorkShape
  BY DEF Commit, CommitIdle, CommitTake, CommitCompile, CommitConflict, CommitRefused,
         CommitAppend, CommitPublish, CommitNotify, commitSame, DeliverySound, RunInv
<1>2. CASE CommitIdle(w)
  <2>1. /\ work[w].pc = "commit" /\ To(w, AfterCommit(w))
        /\ UNCHANGED <<commitMu, pending, eventIDs, deferred, log>>
    BY <1>2 DEF CommitIdle, queueVars, storeVars
  <2>2. OthersWork(w)
    BY <1>1, <2>1, GoesTo
  <2>3. HandSound' /\ InHand' = InHand /\ Appended' = Appended
    BY <2>1, <2>2, HandElsewhere DEF OrderSound, Lane
  <2> QED
    BY <1>1, <2>1, <2>3, OrderKept DEF Queues
<1>3. CASE CommitTake(w)
  BY <1>3, OrderTake
<1>4. CASE CommitCompile(w)
  <2>1. work[w].pc = "compile"
    BY <1>4 DEF CommitCompile
  <2>2. CASE CommitFails(w)
    BY <1>1, <2>1, <2>2, OrderFail
  <2>3. CASE ~CommitFails(w)
    <3>1. PICK pc : /\ pc = IF ItemsOf(work[w].batch) = << >> THEN "publish" ELSE "append"
                    /\ work' = [work EXCEPT ![w].snapshot = Len(log), ![w].pc = pc]
                    /\ UNCHANGED <<pending, eventIDs, deferred, commitMu, log>>
      BY <1>4, <2>3 DEF CommitCompile, queueVars, storeVars
    <3>2. work'[w].pc = pc /\ work'[w].queued = work[w].queued /\ work'[w].batch = work[w].batch
      BY <1>1, <3>1 DEF WorkShape, Fields
    <3>3. /\ pc \in {"compile", "append", "publish"} /\ log' = log
          /\ pc = "publish" => ItemsOf(work[w].batch) = << >>
      BY <3>1
    <3>4. UNCHANGED <<Queues, commitMu>>
      BY <1>1, <3>1 DEF Queues
    <3> QED
      BY <2>1, <3>2, <3>3, <3>4, OrderOn
  <2> QED
    BY <2>2, <2>3
<1>5. CASE CommitConflict(w)
  <2>1. work[w].pc = "append" /\ To(w, "compile") /\ UNCHANGED <<Queues, commitMu, log>>
    BY <1>1, <1>5 DEF CommitConflict, queueVars, storeVars, Queues
  <2>2. work'[w].pc = "compile" /\ work'[w].queued = work[w].queued /\ work'[w].batch = work[w].batch
    BY <1>1, <2>1, GoesTo
  <2> QED
    BY <2>1, <2>2, OrderOn
<1>6. CASE CommitRefused(w)
  <2>1. work[w].pc = "append"
    BY <1>6 DEF CommitRefused
  <2>2. CASE CommitFails(w)
    BY <1>1, <2>1, <2>2, OrderFail
  <2>3. CASE ~CommitFails(w)
    <3>1. PICK offender :
            /\ work' = [work EXCEPT ![w].pc = "compile", ![w].batch = Without(@, {offender})]
            /\ UNCHANGED <<pending, eventIDs, deferred, commitMu, log>>
      BY <1>6, <2>3 DEF CommitRefused, queueVars, storeVars
    <3>2. /\ work'[w].pc = "compile" /\ work'[w].queued = work[w].queued
          /\ work'[w].batch = Without(work[w].batch, {offender})
      BY <1>1, <3>1 DEF WorkShape, Fields
    <3>3. \E B : work'[w].batch = Within(work[w].batch, B)
      BY <3>2, Zenon DEF Without
    <3>4. UNCHANGED <<Queues, commitMu>> /\ log' = log
      BY <1>1, <3>1 DEF Queues
    <3> QED
      BY <2>1, <3>2, <3>3, <3>4, OrderOn
  <2> QED
    BY <2>2, <2>3
<1>7. CASE CommitAppend(w)
  <2>1. /\ work[w].pc = "append" /\ To(w, "publish") /\ UNCHANGED <<Queues, commitMu>>
        /\ log' = log \o ItemsOf(work[w].batch)
    BY <1>1, <1>7 DEF CommitAppend, queueVars, Queues
  <2>2. work'[w].pc = "publish" /\ work'[w].queued = work[w].queued /\ work'[w].batch = work[w].batch
    BY <1>1, <2>1, GoesTo
  <2> QED
    BY <2>1, <2>2, OrderOn
<1>8. CASE CommitPublish(w)
  BY <1>8, OrderPublish
<1>9. CASE CommitNotify(w)
  BY <1>9, OrderNotify
<1> QED
  BY <1>2, <1>3, <1>4, <1>5, <1>6, <1>7, <1>8, <1>9 DEF Commit

LEMMA OrderStep ==
  ASSUME DeliverySound, OrderSound, [EventLoopNext]_vars
  PROVE  OrderSound'
<1>1. WorkShape
  BY DEF DeliverySound, RunInv
<1>2. ASSUME UNCHANGED <<work, commitMu, Queues, log>> PROVE OrderSound'
  <2>1. HandSound' /\ InHand' = InHand /\ Appended' = Appended
    BY <1>2, HandStays DEF OrderSound
  <2> QED
    BY <1>2, <2>1, OrderKept
<1>3. ASSUME NEW w \in Committers, CommitCall(w) PROVE OrderSound'
  <2>1. /\ work[w].pc = "idle" /\ To(w, "commit") /\ w \in Workers
        /\ UNCHANGED <<commitMu, Queues, log>>
    BY <1>3 DEF CommitCall, commitSame, queueVars, storeVars, Workers, Queues
  <2>2. OthersWork(w)
    BY <1>1, <2>1, GoesTo
  <2>3. HandSound' /\ InHand' = InHand /\ Appended' = Appended
    BY <2>1, <2>2, HandElsewhere DEF OrderSound, Lane
  <2> QED
    BY <2>1, <2>3, OrderKept
<1>4. ASSUME NEW w \in Drivers, Drive(w), ~RunStart(w) PROVE OrderSound'
  <2>1. /\ OthersWork(w) /\ work[w].pc \in Driving /\ w \in Workers
        /\ UNCHANGED <<commitMu, Queues>>
    BY <1>1, <1>4, DriveQuiet DEF Workers, Queues
  <2>2. log' = log
    BY <1>4 DEF Drive, DriveSignal, DrainLoop, RunNothing, RunSelect, AdmitRun, ProcessEnd,
                RunFinish, FinishNotify, storeVars
  <2>3. HandSound' /\ InHand' = InHand /\ Appended' = Appended
    BY <2>1, HandElsewhere DEF OrderSound, Lane, Driving
  <2> QED
    BY <2>1, <2>2, <2>3, OrderKept
<1>5. ASSUME NEW s \in Submissions, SubmitCancel(s) \/ SubmitNotify(s) PROVE OrderSound'
  BY <1>2, <1>5 DEF SubmitCancel, SubmitNotify, queueVars, ghostVars, storeVars, Queues
<1>6. ASSUME InterruptCapture \/ InterruptCancel \/ Hold \/ Relieve \/ WakeCheck \/ WakeNotify
      PROVE  OrderSound'
  BY <1>2, <1>6 DEF InterruptCapture, InterruptCancel, Hold, Relieve, WakeCheck, WakeNotify,
                    gateSame, queueVars, ghostVars, storeVars, Queues
<1>7. ASSUME UNCHANGED vars PROVE OrderSound'
  BY <1>2, <1>7 DEF vars, queueVars, ghostVars, storeVars, Queues
<1> QED
  BY <1>3, <1>4, <1>5, <1>6, <1>7, OrderSubmit, OrderCommit, OrderRun, OrderCognition
     DEF EventLoopNext, SubmitBatch

LEMMA OrderStart == EventLoopInit => OrderSound
<1> SUFFICES ASSUME EventLoopInit PROVE OrderSound
  OBVIOUS
<1>1. /\ pending = << >> /\ eventIDs = << >> /\ deferred = << >> /\ acted = {} /\ log = << >>
      /\ commitMu = Nobody
  BY DEF EventLoopInit
<1>2. InHand = << >> /\ Appended = << >> /\ HandSound
  BY <1>1 DEF InHand, Appended, HandSound
<1>3. << >> \o << >> = << >>
  BY ConcatEmptySeq
<1>4. Ordered(<< >>, << >>, << >>, << >>, << >>, {})
  <2>1. Within(<< >>, Events \ {}) = << >>
    BY WithinEmpty
  <2>2. Range(<< >>) = {} /\ EventsIn({}) = {} /\ << >> \in Seq(Events) /\ << >> \in Seq(Seq(Events))
    BY RangeNone DEF EventsIn
  <2>3. {} = {} \cup {}
    OBVIOUS
  <2> QED
    BY <1>3, <2>1, <2>2, <2>3, FlattenEmpty, Zenon DEF Ordered
<1>5. Written(<< >> \o << >>, << >>)
  BY <1>3, WithinEmpty, ItemsEmpty, RangeNone, Zenon DEF Written
<1> QED
  BY <1>1, <1>2, <1>4, <1>5, TogetherEmpty, Zenon DEF OrderSound

LEMMA HandIsTaken ==
  ASSUME DeliverySound, OrderSound
  PROVE  /\ InHand \in Seq(Events) /\ Range(InHand) = Taken
         /\ Appended \in Seq(Events) /\ Appended = Within(InHand, Range(Appended))
         /\ Range(Appended) = Publishing
<1>1. LaneSound /\ HandSound
  BY DEF DeliverySound, OrderSound
<1>2. ASSUME NEW h \in Seq(Events) PROVE Within(h, Range(<< >>)) = << >>
  BY RangeNone, WithinNone
<1>3. CASE commitMu = Nobody
  <2>1. Taken = {} /\ \A v \in Workers : work[v].pc \notin Lane
    BY <1>1, <1>3, NobodyHolds
  <2>2. InHand = << >> /\ Appended = << >> /\ Publishing = {}
    BY <1>3, <2>1 DEF InHand, Appended, Publishing, Lane
  <2>3. << >> \in Seq(Events) /\ Range(<< >>) = {}
    BY RangeNone
  <2> QED
    BY <1>2, <2>1, <2>2, <2>3, Zenon
<1>4. CASE commitMu # Nobody
  <2>1. PICK w \in Workers : w = commitMu
    BY <1>1, <1>4 DEF HandSound
  <2>2. work[w].pc \in Lane /\ Carries(work[w])
    BY <1>1, <1>4, <2>1 DEF HandSound, Carries
  <2>3. /\ InHand = work[w].queued
        /\ Appended = IF work[w].pc = "publish" THEN work[w].batch ELSE << >>
    BY <1>1, <2>2, HandNow
  <2>4. \A v \in Workers : v # w => work[v].pc # "publish"
    BY <1>1, <2>2, OnlyHolder DEF Lane
  <2>5. /\ Holds(w) => Taken = Range(work[w].queued)
        /\ ~Holds(w) => Taken = {}
    BY <1>1, <2>2, OnlyHolder
  <2>6. Range(<< >>) = {} /\ << >> \in Seq(Events)
    BY RangeNone
  <2>7. CASE ~Holds(w)
    <3>1. work[w].pc = "notify"
      BY <2>2, <2>7 DEF Holds, Lane
    <3>2. InHand = << >> /\ Appended = << >>
      BY <2>2, <2>3, <3>1 DEF Carries
    <3>3. Publishing = {}
      BY <2>4, <3>1 DEF Publishing
    <3> QED
      BY <1>2, <2>5, <2>6, <2>7, <3>2, <3>3, Zenon
  <2>8. CASE Holds(w)
    <3>1. work[w].queued \in Seq(Events) /\ work[w].batch \in Seq(Events)
      BY <1>1, <2>8 DEF LaneSound
    <3>2. CASE work[w].pc = "publish"
      <4>1. Publishing = Range(work[w].batch)
        BY <2>4, <3>2 DEF Publishing
      <4>2. Appended = work[w].batch /\ work[w].batch = Within(work[w].queued, Range(work[w].batch))
        BY <2>2, <2>3, <3>2 DEF Carries
      <4> QED
        BY <2>3, <2>5, <2>8, <3>1, <4>1, <4>2, Zenon
    <3>3. CASE work[w].pc # "publish"
      <4>1. Publishing = {} /\ Appended = << >>
        BY <2>3, <2>4, <3>3 DEF Publishing
      <4> QED
        BY <1>2, <2>3, <2>5, <2>6, <2>8, <3>1, <4>1, Zenon
    <3> QED
      BY <3>2, <3>3
  <2> QED
    BY <2>7, <2>8
<1> QED
  BY <1>3, <1>4

LEMMA OrderGivesNothingLost ==
  ASSUME DeliverySound, OrderSound
  PROVE  NothingLost
<1>1. PICK h : h = InHand
  OBVIOUS
<1>2. PICK x : Ordered(x, eventIDs, h, pending, deferred, acted)
  BY <1>1, Zenon DEF OrderSound
<1>3. /\ x \in Seq(Events) /\ h \in Seq(Events) /\ pending \in Seq(Events) /\ eventIDs = (x \o h) \o pending
      /\ Within(x, Events \ acted) = FlattenSeq(deferred)
  BY <1>2 DEF Ordered
<1>4. acted \cap Range(h) = {} /\ acted \cap Range(pending) = {}
  <2>1. Range(h) = Taken
    BY <1>1, HandIsTaken
  <2>2. /\ Places(acted, Range(deferred), Taken, Range(pending), Range(eventIDs))
        /\ Range(eventIDs) \subseteq Events
    BY MembersOf DEF DeliverySound, PlacesSound
  <2>3. acted \cap Taken = {}
    BY <2>2, PlacesDisjoint
  <2>4. Apart(acted, Range(pending)) /\ acted \subseteq Events
    BY <2>2 DEF Places
  <2>5. acted \cap Range(pending) = {}
    BY <2>4, InSubmission DEF Apart
  <2> QED
    BY <2>1, <2>3, <2>5
<1>5. PICK Z : Z = Events \ acted
  OBVIOUS
<1>6. Range(h) \subseteq Z /\ Range(pending) \subseteq Z
  <2>1. Range(h) \subseteq Events /\ Range(pending) \subseteq Events
    BY <1>3, MembersOf
  <2> QED
    BY <1>4, <1>5, <2>1
<1>7. Within(h, Z) = h /\ Within(pending, Z) = pending
  BY <1>3, <1>6, WithinAll
<1>8. FiltersParts((x \o h) \o pending, x, h, pending, Z)
  BY <1>3, WithinParts
<1>9. FiltersParts(eventIDs, x, h, pending, Z)
  BY <1>3, <1>8, Zenon
<1>10. Within(eventIDs, Z) = (FlattenSeq(deferred) \o h) \o pending
  BY <1>3, <1>5, <1>7, <1>9, Zenon DEF FiltersParts
<1>11. Without(eventIDs, acted) = Within(eventIDs, Z)
  <2>1. eventIDs \in Seq(Events)
    BY DEF DeliverySound, PlacesSound
  <2>2. Without(eventIDs, acted) = Within(eventIDs, Events \ acted)
    BY <2>1, WithoutIs
  <2> QED
    BY <1>5, <2>2, Zenon
<1> QED
  BY <1>1, <1>10, <1>11, Zenon DEF NothingLost

LEMMA OrderGivesCommitted ==
  ASSUME DeliverySound, OrderSound
  PROVE  CommittedInOrder
<1>1. PICK h, y : h = InHand /\ y = Appended
  OBVIOUS
<1>2. PICK x : Ordered(x, eventIDs, h, pending, deferred, acted) /\ Written(x \o y, log)
  BY <1>1, Zenon DEF OrderSound
<1>3. /\ x \in Seq(Events) /\ h \in Seq(Events) /\ pending \in Seq(Events) /\ eventIDs = (x \o h) \o pending
      /\ Range(x) = acted \cup EventsIn(Range(deferred))
  BY <1>2 DEF Ordered
<1>4. /\ Range(h) = Taken /\ y \in Seq(Events) /\ y = Within(h, Range(y)) /\ Range(y) = Publishing
  BY <1>1, HandIsTaken, Zenon
<1>5. Range(y) \subseteq Range(h)
  <2>1. Range(Within(h, Range(y))) = Range(h) \cap Range(y)
    BY <1>3, WithinMembers
  <2>2. Range(y) = Range(h) \cap Range(y)
    BY <1>4, <2>1, Zenon
  <2> QED
    BY <2>2
<1>6. PICK C : C = Committed
  OBVIOUS
<1>7. C = Range(x) \cup Range(y)
  <2>1. EventsOf(deferred) = EventsIn(Range(deferred))
    BY EventsOfGroups
  <2>2. Committed = acted \cup EventsIn(Range(deferred)) \cup Publishing
    BY <2>1, Zenon DEF Committed, Publishing
  <2> QED
    BY <1>3, <1>4, <1>6, <2>2, Zenon
<1>8. Range(x) \cap Range(h) = {} /\ Range(pending) \cap C = {}
  <2>1. /\ Places(acted, Range(deferred), Taken, Range(pending), Range(eventIDs))
        /\ Range(eventIDs) \subseteq Events
    BY MembersOf DEF DeliverySound, PlacesSound
  <2>2. PICK E : E = EventsIn(Range(deferred))
    OBVIOUS
  <2>3. acted \cap Taken = {} /\ E \cap Taken = {} /\ Range(pending) \cap Taken = {}
    BY <2>1, <2>2, PlacesDisjoint
  <2>4. Apart(acted, Range(pending)) /\ Apart(E, Range(pending)) /\ acted \subseteq Events /\ E \subseteq Events
    BY <2>1, <2>2 DEF Places
  <2>5. acted \cap Range(pending) = {} /\ E \cap Range(pending) = {}
    BY <2>4, InSubmission DEF Apart
  <2>6. Range(x) = acted \cup E
    BY <1>3, <2>2
  <2> QED
    BY <1>4, <1>5, <1>7, <2>3, <2>5, <2>6
<1>9. Within(x, C) = x
  BY <1>3, <1>7, WithinAll
<1>10. Within(h, C) = y
  <2>1. \A e \in Range(h) : e \in C <=> e \in Range(y)
    BY <1>7, <1>8
  <2>2. Within(h, C) = Within(h, Range(y))
    BY <1>3, <2>1, WithinSame
  <2> QED
    BY <1>4, <2>2, Zenon
<1>11. Within(pending, C) = << >>
  BY <1>3, <1>8, WithinNone
<1>12. FiltersParts((x \o h) \o pending, x, h, pending, C)
  BY <1>3, WithinParts
<1>13. FiltersParts(eventIDs, x, h, pending, C)
  BY <1>3, <1>12, Zenon
<1>14. Within(eventIDs, C) = x \o y
  <2>1. x \o y \in Seq(Events)
    BY <1>3, <1>4, ConcatProperties
  <2>2. (x \o y) \o << >> = x \o y
    BY <2>1, ConcatEmptySeq
  <2> QED
    BY <1>9, <1>10, <1>11, <1>13, <2>2, Zenon DEF FiltersParts
<1>15. Without(log, {Cognition}) = Within(log, Events)
  <2>1. PICK T : T = Events \cup {Cognition}
    OBVIOUS
  <2>2. log \in Seq(T) /\ T \ {Cognition} = Events
    BY <1>2, <2>1, EventLoopAssumption DEF Written
  <2>3. Without(log, {Cognition}) = Within(log, T \ {Cognition})
    BY <2>2, WithoutIs
  <2> QED
    BY <2>2, <2>3, Zenon
<1>16. Within(log, Events) = ItemsOf(x \o y)
  BY <1>2 DEF Written
<1> QED
  BY <1>6, <1>14, <1>15, <1>16, Zenon DEF CommittedInOrder

\* Nothing admitted is lost, duplicated or overtaken: what no run has been handed
\* is, in order of arrival, what is deferred, what is being committed and what is
\* pending, whatever commits, refusals, interruptions and runs go on.
THEOREM EventLoopNothingLost == EventLoopSpec => []NothingLost
<1>1. EventLoopInit => DeliverySound /\ OrderSound
  BY DeliveryStart, OrderStart
<1>2. DeliverySound /\ OrderSound /\ [EventLoopNext]_vars => (DeliverySound /\ OrderSound)'
  <2>1. DeliverySound /\ [EventLoopNext]_vars => DeliverySound'
    BY DeliveryStep
  <2>2. DeliverySound /\ OrderSound /\ [EventLoopNext]_vars => OrderSound'
    BY OrderStep
  <2> QED
    BY <2>1, <2>2
<1>3. DeliverySound /\ OrderSound => NothingLost
  BY OrderGivesNothingLost
<1> QED
  BY <1>1, <1>2, <1>3, PTL DEF EventLoopSpec

\* The log holds exactly the committed events, each once, in order of arrival,
\* however commits, retries after a version conflict, refused events and
\* cognition's own appends interleave.
THEOREM EventLoopCommittedInOrder == EventLoopSpec => []CommittedInOrder
<1>1. EventLoopInit => DeliverySound /\ OrderSound
  BY DeliveryStart, OrderStart
<1>2. DeliverySound /\ OrderSound /\ [EventLoopNext]_vars => (DeliverySound /\ OrderSound)'
  <2>1. DeliverySound /\ [EventLoopNext]_vars => DeliverySound'
    BY DeliveryStep
  <2>2. DeliverySound /\ OrderSound /\ [EventLoopNext]_vars => OrderSound'
    BY OrderStep
  <2> QED
    BY <2>1, <2>2
<1>3. DeliverySound /\ OrderSound => CommittedInOrder
  BY OrderGivesCommitted
<1> QED
  BY <1>1, <1>2, <1>3, PTL DEF EventLoopSpec
-----------------------------------------------------------------------------
\* Which event is blamed for a refused item.

\* t has its members in the order they have in s.
Embeds(t, s) ==
  \A i, j \in DOMAIN t : i < j => \E k, l \in DOMAIN s : k < l /\ s[k] = t[i] /\ s[l] = t[j]

\* What has been left out of the batch b of the events q so far.
Explained(q, b) ==
  /\ Embeds(b, q)
  /\ \A e \in Range(q) \ Range(b) : e \in Inadmissible \/ Behind(q, e)

\* Each event left out of a batch is a refused one or explained by one.
BlameSound == \A w \in Workers : Holds(w) => Explained(work[w].queued, work[w].batch)

\* The items of one event.
LEMMA ItemsOfOne ==
  ASSUME NEW e \in Events
  PROVE  ItemsOf(<<e>>) = [k \in 1..Items[e] |-> e]
<1>1. PICK g : g = [k \in 1..Items[e] |-> e]
  OBVIOUS
<1>2. Items[e] \in Nat
  BY EventLoopAssumption
<1>3. g \in Seq(Events)
  <2>1. PICK n \in Nat : n = Items[e]
    BY <1>2
  <2>2. [k \in 1..n |-> e] \in [1..n -> Events]
    OBVIOUS
  <2>3. [k \in 1..n |-> e] \in Seq(Events)
    BY <2>1, <2>2, SeqDef
  <2> QED
    BY <1>1, <2>1, <2>3, Zenon
<1>4. [i \in DOMAIN <<e>> |-> [k \in 1..Items[<<e>>[i]] |-> <<e>>[i]]] = <<g>>
  <2>1. DOMAIN <<e>> = 1..1 /\ \A i \in 1..1 : <<e>>[i] = e
    OBVIOUS
  <2>2. \A i \in DOMAIN <<e>> : [k \in 1..Items[<<e>>[i]] |-> <<e>>[i]] = g
    BY <1>1, <2>1, Zenon
  <2>3. [i \in DOMAIN <<e>> |-> [k \in 1..Items[<<e>>[i]] |-> <<e>>[i]]] = [i \in DOMAIN <<e>> |-> g]
    BY <2>2, Zenon
  <2>4. [i \in 1..1 |-> g] = <<g>>
    OBVIOUS
  <2> QED
    BY <2>1, <2>3, <2>4, Zenon
<1>5. ItemsOf(<<e>>) = FlattenSeq(<<g>>)
  BY <1>4, Zenon DEF ItemsOf
<1>6. <<g>> = Append(<< >>, g) /\ << >> \in Seq(Seq(Events))
  OBVIOUS
<1>7. FlattenSeq(Append(<< >>, g)) = FlattenSeq(<< >>) \o g
  BY <1>3, <1>6, FlattenAppend
<1>8. << >> \o g = g
  BY <1>3, ConcatEmptySeq
<1> QED
  BY <1>1, <1>5, <1>6, <1>7, <1>8, FlattenEmpty, Zenon

\* An item stands no earlier than its event, unless a signal is before that event;
\* and items are no fewer than events, unless one of them is a signal.
ItemsFollow(b) ==
  /\ \A m \in DOMAIN ItemsOf(b) :
       \E j \in DOMAIN b : /\ ItemsOf(b)[m] = b[j]
                           /\ m < j => \E k \in 1..(j - 1) : Items[b[k]] = 0
  /\ Len(ItemsOf(b)) < Len(b) => \E k \in DOMAIN b : Items[b[k]] = 0

LEMMA ItemsFollowEvents ==
  ASSUME NEW s \in Seq(Events)
  PROVE  ItemsFollow(s)
<1> DEFINE P == {b \in Seq(Events) : ItemsFollow(b)}
<1>1. << >> \in P
  BY ItemsEmpty DEF ItemsFollow
<1>2. ASSUME NEW b \in Seq(Events), NEW e \in Events, b \in P PROVE Append(b, e) \in P
  <2>1. PICK c : c = Append(b, e)
    OBVIOUS
  <2>2. PICK n \in Nat : n = Len(b)
    OBVIOUS
  <2>3. /\ c \in Seq(Events) /\ Len(c) = n + 1 /\ DOMAIN c = 1..(n + 1) /\ DOMAIN b = 1..n
        /\ c[n + 1] = e /\ \A i \in 1..n : c[i] = b[i]
    BY <2>1, <2>2
  <2>4. PICK p \in Seq(Events), r \in Seq(Events) : p = ItemsOf(b) /\ r = ItemsOf(<<e>>)
    <3>1. b \in Seq(Events) /\ <<e>> \in Seq(Events)
      OBVIOUS
    <3> QED
      BY <3>1, ItemsConcat
  <2>5. ItemsOf(c) = p \o r
    <3>1. <<e>> \in Seq(Events) /\ c = b \o <<e>>
      BY <2>1, AppendIsConcat
    <3> QED
      BY <2>4, <3>1, ItemsConcat
  <2>6. PICK z \in Nat : z = Items[e]
    BY EventLoopAssumption
  <2>7. Len(r) = z /\ \A i \in 1..z : r[i] = e
    <3>1. r = [k \in 1..z |-> e]
      BY <2>4, <2>6, ItemsOfOne, Zenon
    <3> QED
      BY <3>1
  <2>8. PICK l \in Nat : l = Len(p)
    OBVIOUS
  <2>9. PICK q \in Seq(Events) : q = p \o r
    <3>1. p \o r \in Seq(Events)
      BY ConcatProperties
    <3> QED
      BY <3>1
  <2>10. /\ DOMAIN q = 1..(l + z) /\ Len(q) = l + z
         /\ \A i \in 1..l : q[i] = p[i]
         /\ \A j \in (l + 1)..(l + z) : q[j] = e
    <3>1. /\ Len(q) = l + z
          /\ \A i \in 1..l : q[i] = p[i]
          /\ \A j \in (l + 1)..(l + z) : q[j] = r[j - l]
      <4>1. /\ Len(q) = Len(p) + Len(r)
            /\ \A i \in 1..(Len(p) + Len(r)) : q[i] = IF i <= Len(p) THEN p[i] ELSE r[i - Len(p)]
        BY <2>9, ConcatProperties
      <4> QED
        BY <2>7, <2>8, <4>1
    <3>2. \A j \in (l + 1)..(l + z) : j - l \in 1..z
      OBVIOUS
    <3> QED
      BY <2>7, <3>1, <3>2
  <2>11. /\ \A m \in 1..l : \E j \in 1..n : p[m] = b[j] /\ (m < j => \E k \in 1..(j - 1) : Items[b[k]] = 0)
         /\ l < n => \E k \in 1..n : Items[b[k]] = 0
    <3>1. ItemsFollow(b)
      BY <1>2
    <3>2. DOMAIN p = 1..l
      BY <2>8
    <3>3. PICK o : o = ItemsOf(b)
      OBVIOUS
    <3>4. o = p /\ DOMAIN o = 1..l /\ Len(o) = l
      BY <2>4, <2>8, <3>2, <3>3
    <3>5. /\ \A m \in DOMAIN o :
               \E j \in DOMAIN b : o[m] = b[j] /\ (m < j => \E k \in 1..(j - 1) : Items[b[k]] = 0)
          /\ Len(o) < Len(b) => \E k \in DOMAIN b : Items[b[k]] = 0
      BY <3>1, <3>3, Zenon DEF ItemsFollow
    <3>6. DOMAIN b = 1..n /\ Len(b) = n
      BY <2>2, <2>3
    <3>7. \A m \in 1..l : \E j \in 1..n : p[m] = b[j] /\ (m < j => \E k \in 1..(j - 1) : Items[b[k]] = 0)
      BY <3>4, <3>5, <3>6, Zenon
    <3>8. l < n => \E k \in 1..n : Items[b[k]] = 0
      BY <3>4, <3>5, <3>6, Zenon
    <3> QED
      BY <3>7, <3>8
  <2>12. ASSUME NEW m \in 1..(l + z)
         PROVE  \E j \in 1..(n + 1) : q[m] = c[j] /\ (m < j => \E k \in 1..(j - 1) : Items[c[k]] = 0)
    <3>1. CASE m <= l
      <4>1. m \in 1..l /\ q[m] = p[m]
        BY <2>10, <3>1
      <4>2. PICK j \in 1..n : p[m] = b[j] /\ (m < j => \E k \in 1..(j - 1) : Items[b[k]] = 0)
        BY <2>11, <4>1
      <4>3. j \in 1..(n + 1) /\ c[j] = b[j] /\ \A k \in 1..(j - 1) : c[k] = b[k]
        BY <2>3
      <4> QED
        BY <4>1, <4>2, <4>3
    <3>2. CASE m > l
      <4>1. m \in (l + 1)..(l + z) /\ q[m] = c[n + 1] /\ n + 1 \in 1..(n + 1)
        BY <2>3, <2>10, <3>2
      <4>2. ASSUME m < n + 1 PROVE \E k \in 1..((n + 1) - 1) : Items[c[k]] = 0
        <5>1. l < n /\ (n + 1) - 1 = n
          BY <3>2, <4>2
        <5> QED
          BY <2>3, <2>11, <5>1
      <4> QED
        BY <4>1, <4>2
    <3> QED
      BY <3>1, <3>2
  <2>13. ASSUME l + z < n + 1 PROVE \E k \in 1..(n + 1) : Items[c[k]] = 0
    <3>1. CASE l < n
      <4>1. PICK k \in 1..n : Items[b[k]] = 0
        BY <2>11, <3>1
      <4> QED
        BY <2>3, <4>1
    <3>2. CASE ~(l < n)
      <4>1. z = 0 /\ n + 1 \in 1..(n + 1)
        BY <2>13, <3>2
      <4> QED
        BY <2>3, <2>6, <4>1
    <3> QED
      BY <3>1, <3>2
  <2>14. ItemsOf(c) = q
    BY <2>5, <2>9
  <2>15. ItemsFollow(c)
    BY <2>3, <2>10, <2>12, <2>13, <2>14 DEF ItemsFollow
  <2> QED
    BY <2>1, <2>3, <2>15
<1>3. \A b \in Seq(Events) : b \in P
  <2> HIDE DEF P
  <2> QED
    BY <1>1, <1>2, SequenceInduction
<1> QED
  BY <1>3

\* The event blamed is one the store refuses, or stands behind one; of a batch of
\* one it is that one.
LEMMA BlamesTheRefused ==
  ASSUME NEW b \in Seq(Events), RefusedItems(b) # {}
  PROVE  /\ Offender(b) \in Inadmissible \/ Behind(b, Offender(b))
         /\ Len(b) <= 1 => Range(b) \subseteq Inadmissible
<1>1. PICK c : c = ItemsOf(b)
  OBVIOUS
<1>2. c \in Seq(Events) /\ ItemsFollow(b)
  BY <1>1, ItemsConcat, ItemsFollowEvents
<1>3. PICK N : N = RefusedItems(b)
  OBVIOUS
<1>4. N = {i \in DOMAIN c : c[i] \in Inadmissible} /\ N # {}
  BY <1>1, <1>3, Zenon DEF RefusedItems
<1>5. N \subseteq Nat
  BY <1>2, <1>4
<1>6. PICK n \in N : \A m \in N : n <= m
  BY <1>4, <1>5, FirstNumber
<1>7. Min(N) \in N
  BY <1>6 DEF Min
<1>8. PICK m : m = Min(N)
  OBVIOUS
<1>9. m \in Nat \ {0} /\ m \in DOMAIN c /\ c[m] \in Inadmissible
  BY <1>2, <1>4, <1>7, <1>8
<1>10. PICK h \in Nat : h = Len(b)
  OBVIOUS
<1>11. DOMAIN b = 1..h
  BY <1>10
<1>12. PICK j \in DOMAIN b : c[m] = b[j] /\ (m < j => \E k \in 1..(j - 1) : Items[b[k]] = 0)
  BY <1>1, <1>2, <1>9 DEF ItemsFollow
<1>13. PICK i \in {m, h} : i = Min({m, h}) /\ i <= m /\ i <= h
  <2>1. CASE m <= h
    <3>1. /\ m \in {m, h} /\ \A y \in {m, h} : m =< y
          /\ \A x \in {m, h} : (\A y \in {m, h} : x =< y) => x = m
      BY <1>9, <2>1
    <3> QED
      BY <1>9, <2>1, <3>1 DEF Min
  <2>2. CASE ~(m <= h)
    <3>1. /\ h \in {m, h} /\ \A y \in {m, h} : h =< y
          /\ \A x \in {m, h} : (\A y \in {m, h} : x =< y) => x = h
      BY <1>9, <2>2
    <3> QED
      BY <1>9, <2>2, <3>1 DEF Min
  <2> QED
    BY <2>1, <2>2
<1>14. Offender(b) = b[i]
  BY <1>3, <1>8, <1>10, <1>13, Zenon DEF Offender
<1>15. i \in DOMAIN b /\ b[j] \in Inadmissible
  BY <1>9, <1>11, <1>12, <1>13
<1>16. i = j \/ j < i \/ i < j
  BY <1>11, <1>15
<1>17. Offender(b) \in Inadmissible \/ Behind(b, Offender(b))
  <2>1. i = j => Offender(b) \in Inadmissible
    BY <1>14, <1>15
  <2>2. j < i => Behind(b, Offender(b))
    BY <1>14, <1>15, <1>12 DEF Behind
  <2>3. i < j => Behind(b, Offender(b))
    <3>1. ASSUME i < j PROVE Behind(b, b[i])
      <4>1. m < j
        BY <1>9, <1>11, <1>13, <3>1
      <4>2. \E k \in 1..(j - 1) : Items[b[k]] = 0
        BY <1>12, <4>1
      <4> QED
        BY <1>15, <1>12, <4>2 DEF Behind
    <3> QED
      BY <1>14, <3>1
  <2> QED
    BY <1>16, <2>1, <2>2, <2>3
<1>18. Len(b) <= 1 => Range(b) \subseteq Inadmissible
  <2>1. ASSUME Len(b) <= 1 PROVE \A k \in DOMAIN b : k = j
    BY <1>10, <1>11, <2>1
  <2> QED
    BY <1>15, <2>1 DEF Range
<1> QED
  BY <1>17, <1>18

\* Order is kept by what Within keeps.
LEMMA WithinEmbeds ==
  ASSUME NEW T, NEW S, NEW s \in Seq(T)
  PROVE  Embeds(Within(s, S), s)
<1> DEFINE P == {b \in Seq(T) : Embeds(Within(b, S), b)}
<1>1. << >> \in P
  BY WithinEmpty DEF Embeds
<1>2. ASSUME NEW b \in Seq(T), NEW e \in T, b \in P PROVE Append(b, e) \in P
  <2>1. PICK c \in Seq(T) : c = Append(b, e)
    <3>1. Append(b, e) \in Seq(T)
      BY AppendIsConcat
    <3> QED
      BY <3>1
  <2>2. PICK n \in Nat : n = Len(b)
    OBVIOUS
  <2>3. DOMAIN c = 1..(n + 1) /\ DOMAIN b = 1..n /\ c[n + 1] = e /\ \A i \in 1..n : c[i] = b[i]
    BY <2>1, <2>2
  <2>4. PICK t \in Seq(T) : t = Within(b, S) /\ Range(t) = Range(b) \cap S
    BY WithinMembers
  <2>5. Embeds(t, b)
    BY <1>2, <2>4
  <2>6. Within(c, S) = IF e \in S THEN Append(t, e) ELSE t
    BY <2>1, <2>4, WithinAppend
  <2>7. Embeds(t, c)
    <3>1. ASSUME NEW i \in DOMAIN t, NEW j \in DOMAIN t, i < j
          PROVE  \E k, l \in DOMAIN c : k < l /\ c[k] = t[i] /\ c[l] = t[j]
      <4>1. PICK k \in DOMAIN b, l \in DOMAIN b : k < l /\ b[k] = t[i] /\ b[l] = t[j]
        BY <2>5, <3>1 DEF Embeds
      <4>2. k \in DOMAIN c /\ l \in DOMAIN c /\ c[k] = b[k] /\ c[l] = b[l]
        BY <2>3
      <4> QED
        BY <4>1, <4>2
    <3> QED
      BY <3>1 DEF Embeds
  <2>8. Embeds(Append(t, e), c)
    <3>1. PICK m \in Nat : m = Len(t)
      OBVIOUS
    <3>2. PICK v \in Seq(T) : v = Append(t, e)
      <4>1. Append(t, e) \in Seq(T)
        BY AppendIsConcat
      <4> QED
        BY <4>1
    <3>3. DOMAIN v = 1..(m + 1) /\ v[m + 1] = e /\ DOMAIN t = 1..m /\ \A i \in 1..m : v[i] = t[i]
      BY <3>1, <3>2
    <3>4. ASSUME NEW i \in 1..(m + 1), NEW j \in 1..(m + 1), i < j
          PROVE  \E k, l \in DOMAIN c : k < l /\ c[k] = v[i] /\ c[l] = v[j]
      <4>1. i \in 1..m /\ v[i] = t[i]
        <5>1. i \in 1..m
          BY <3>4
        <5> QED
          BY <3>3, <5>1
      <4>2. CASE j = m + 1
        <5>1. t[i] \in Range(b)
          BY <2>4, <3>3, <4>1 DEF Range
        <5>2. PICK k \in 1..n : b[k] = t[i]
          BY <2>3, <5>1 DEF Range
        <5>3. k \in DOMAIN c /\ n + 1 \in DOMAIN c /\ k < n + 1 /\ c[k] = v[i] /\ c[n + 1] = v[j]
          BY <2>3, <3>3, <4>1, <4>2, <5>2
        <5> QED
          BY <5>3
      <4>3. CASE j # m + 1
        <5>1. j \in 1..m /\ v[j] = t[j]
          BY <3>3, <4>3
        <5> QED
          BY <2>7, <3>3, <3>4, <4>1, <5>1 DEF Embeds
      <4> QED
        BY <4>2, <4>3
    <3>5. Embeds(v, c)
      <4>1. \A i, j \in DOMAIN v : i < j => \E k, l \in DOMAIN c : k < l /\ c[k] = v[i] /\ c[l] = v[j]
        BY <3>3, <3>4
      <4> QED
        BY <4>1, Zenon DEF Embeds
    <3> QED
      BY <3>2, <3>5
  <2> QED
    BY <2>1, <2>6, <2>7, <2>8
<1>3. \A b \in Seq(T) : b \in P
  <2> HIDE DEF P
  <2> QED
    BY <1>1, <1>2, SequenceInduction
<1> QED
  BY <1>3

\* Order is kept by what Without keeps, and what it leaves out is explained.
LEMMA ExplainedOn ==
  ASSUME NEW q \in Seq(Events), NEW b \in Seq(Events), Explained(q, b),
         NEW x, x \in Inadmissible \/ Behind(b, x)
  PROVE  Explained(q, Without(b, {x}))
<1>1. PICK c \in Seq(Events) : c = Without(b, {x}) /\ Range(c) = Range(b) \ {x}
  BY WithoutMembers
<1>2. Embeds(c, b)
  BY <1>1, WithinEmbeds, Zenon DEF Without
<1>3. ASSUME NEW i \in DOMAIN c, NEW j \in DOMAIN c, i < j
      PROVE  \E k, l \in DOMAIN q : k < l /\ q[k] = c[i] /\ q[l] = c[j]
  <2>1. PICK k \in DOMAIN b, l \in DOMAIN b : k < l /\ b[k] = c[i] /\ b[l] = c[j]
    BY <1>2, <1>3 DEF Embeds
  <2>2. PICK g \in DOMAIN q, h \in DOMAIN q : g < h /\ q[g] = b[k] /\ q[h] = b[l]
    BY <2>1 DEF Explained, Embeds
  <2> QED
    BY <2>1, <2>2
<1>4. Embeds(c, q)
  BY <1>3, Zenon DEF Embeds
<1>5. ASSUME Behind(b, x) PROVE Behind(q, x)
  <2>1. PICK i \in DOMAIN b, j \in DOMAIN b :
          b[i] = x /\ b[j] \in Inadmissible /\ (j < i \/ \E k \in 1..(j - 1) : Items[b[k]] = 0)
    BY <1>5 DEF Behind
  <2>2. CASE j < i
    <3>1. PICK g \in DOMAIN q, h \in DOMAIN q : g < h /\ q[g] = b[j] /\ q[h] = b[i]
      BY <2>2 DEF Explained, Embeds
    <3> QED
      BY <2>1, <3>1 DEF Behind
  <2>3. CASE \E k \in 1..(j - 1) : Items[b[k]] = 0
    <3>1. PICK k \in 1..(j - 1) : Items[b[k]] = 0
      BY <2>3
    <3>2. k \in DOMAIN b /\ k < j
      OBVIOUS
    <3>3. PICK g \in DOMAIN q, h \in DOMAIN q : g < h /\ q[g] = b[k] /\ q[h] = b[j]
      BY <3>2 DEF Explained, Embeds
    <3>4. g \in 1..(h - 1) /\ Items[q[g]] = 0 /\ q[h] \in Inadmissible
      BY <2>1, <3>1, <3>3
    <3>5. PICK m \in DOMAIN q : q[m] = x
      <4>1. DOMAIN b = 1..Len(b) /\ Len(b) \in Nat
        OBVIOUS
      <4>2. i \in Int /\ j \in Int
        BY <4>1
      <4>3. i < j \/ j < i \/ i = j
        BY <4>2
      <4>4. CASE i < j
        BY <2>1, <4>4 DEF Explained, Embeds
      <4>5. CASE j < i
        BY <2>1, <4>5 DEF Explained, Embeds
      <4>6. CASE i = j
        BY <2>1, <3>3, <4>6
      <4> QED
        BY <4>3, <4>4, <4>5, <4>6
    <3> QED
      BY <3>3, <3>4, <3>5 DEF Behind
  <2> QED
    BY <2>1, <2>2, <2>3
<1>6. \A e \in Range(q) \ Range(c) : e \in Inadmissible \/ Behind(q, e)
  BY <1>1, <1>5 DEF Explained
<1> QED
  BY <1>1, <1>4, <1>6 DEF Explained

\* A worker that holds nothing afterwards, or holds what it held, is no harm.
LEMMA BlameKept ==
  ASSUME BlameSound, NEW w \in Workers, OthersWork(w),
         Holds(w)' => Explained(work'[w].queued, work'[w].batch)
  PROVE  BlameSound'
<1>1. ASSUME NEW v \in Workers, v # w
      PROVE  Holds(v)' => Explained(work'[v].queued, work'[v].batch)
  BY <1>1 DEF BlameSound, OthersWork, Holds
<1>2. ASSUME NEW v \in Workers PROVE Holds(v)' => Explained(work'[v].queued, work'[v].batch)
  BY <1>1
<1> QED
  BY <1>2, Zenon DEF BlameSound, Explained, Embeds, Behind

\* What a step gives up is a bad event, stands behind one, or goes with its group.
LossExplained ==
  \A e \in (dropped' \ dropped) \ Inadmissible :
    \E w \in Workers :
      /\ e \in Range(work[w].queued)
      /\ Behind(work[w].queued, e) \/ Range(work[w].batch) \cap Uncompilable # {}

LEMMA BlameFails ==
  ASSUME BlameSound, WorkShape, NEW w \in Workers, Holds(w), CommitFails(w),
         Range(work[w].batch) \subseteq Inadmissible \/ Range(work[w].batch) \cap Uncompilable # {}
  PROVE  BlameSound' /\ LossExplained
<1>1. OthersWork(w) /\ work'[w].pc \in {"wait", "idle"}
  BY StartsOver DEF CommitFails, AfterError
<1>2. BlameSound'
  BY <1>1, BlameKept DEF Holds
<1>3. dropped' \ dropped \subseteq Range(work[w].queued)
  BY DEF CommitFails
<1>4. \A e \in Range(work[w].queued) \ Range(work[w].batch) :
        e \in Inadmissible \/ Behind(work[w].queued, e)
  BY DEF BlameSound, Explained
<1> QED
  BY <1>2, <1>3, <1>4 DEF LossExplained

LEMMA BlameCommit ==
  ASSUME DeliverySound, BlameSound, NEW w \in Workers, Commit(w)
  PROVE  BlameSound' /\ LossExplained
<1>1. WorkShape
  BY DEF DeliverySound, RunInv
<1>2. Holds(w) => /\ work[w].batch \in Seq(Events) /\ work[w].queued \in Seq(Events)
                  /\ Explained(work[w].queued, work[w].batch)
  BY DEF DeliverySound, LaneSound, BlameSound
<1>3. ASSUME dropped' = dropped PROVE LossExplained
  BY <1>3 DEF LossExplained
<1>4. CASE CommitIdle(w) \/ CommitNotify(w)
  <2>1. dropped' = dropped /\ To(w, AfterCommit(w)) /\ AfterCommit(w) \notin {"compile", "append", "publish"}
    BY <1>4 DEF CommitIdle, CommitNotify, AfterCommit, commitSame
  <2> QED
    BY <1>1, <1>3, <2>1, GoesTo, BlameKept DEF Holds
<1>5. CASE CommitTake(w)
  <2>1. dropped' = dropped /\ OthersWork(w) /\ work'[w].queued = pending /\ work'[w].batch = pending
    BY <1>1, <1>5 DEF CommitTake, OthersWork, WorkShape, Fields
  <2>2. Explained(pending, pending)
    BY DEF Explained, Embeds
  <2> QED
    BY <1>3, <2>1, <2>2, BlameKept
<1>6. CASE CommitCompile(w)
  <2>1. Holds(w)
    BY <1>6 DEF CommitCompile, Holds
  <2>2. CASE Range(work[w].batch) \cap Uncompilable # {}
    BY <1>1, <1>6, <2>1, <2>2, BlameFails DEF CommitCompile
  <2>3. CASE Range(work[w].batch) \cap Uncompilable = {}
    <3>1. /\ dropped' = dropped /\ OthersWork(w)
          /\ work'[w].queued = work[w].queued /\ work'[w].batch = work[w].batch
      BY <1>1, <1>6, <2>3 DEF CommitCompile, OthersWork, WorkShape, Fields
    <3> QED
      BY <1>2, <1>3, <2>1, <3>1, BlameKept
  <2> QED
    BY <2>2, <2>3
<1>7. CASE CommitConflict(w) \/ CommitAppend(w)
  <2>1. /\ Holds(w) /\ dropped' = dropped /\ \E pc : To(w, pc)
    BY <1>7 DEF CommitConflict, CommitAppend, Holds
  <2>2. OthersWork(w) /\ work'[w].queued = work[w].queued /\ work'[w].batch = work[w].batch
    BY <1>1, <2>1, GoesTo
  <2> QED
    BY <1>2, <1>3, <2>1, <2>2, BlameKept
<1>8. CASE CommitRefused(w)
  <2>1. Holds(w) /\ RefusedItems(work[w].batch) # {}
    BY <1>8 DEF CommitRefused, Holds
  <2>2. PICK b \in Seq(Events), q \in Seq(Events) : b = work[w].batch /\ q = work[w].queued
    BY <1>2, <2>1
  <2>3. /\ Offender(b) \in Inadmissible \/ Behind(b, Offender(b))
        /\ Len(b) <= 1 => Range(b) \subseteq Inadmissible
    BY <2>1, <2>2, BlamesTheRefused
  <2>4. CASE Len(b) <= 1
    <3>1. CommitFails(w)
      BY <1>8, <2>2, <2>4 DEF CommitRefused
    <3> QED
      BY <1>1, <2>1, <2>2, <2>3, <2>4, <3>1, BlameFails
  <2>5. CASE ~(Len(b) <= 1)
    <3>1. /\ work' = [work EXCEPT ![w].pc = "compile", ![w].batch = Without(@, {Offender(@)})]
          /\ dropped' = dropped
      BY <1>8, <2>2, <2>5 DEF CommitRefused
    <3>2. /\ OthersWork(w) /\ work'[w].queued = q
          /\ work'[w].batch = Without(b, {Offender(b)})
      BY <1>1, <2>2, <3>1 DEF OthersWork, WorkShape, Fields
    <3>3. Explained(q, Without(b, {Offender(b)}))
      BY <1>2, <2>1, <2>2, <2>3, ExplainedOn
    <3> QED
      BY <1>3, <3>1, <3>2, <3>3, BlameKept
  <2> QED
    BY <2>4, <2>5
<1>9. CASE CommitPublish(w)
  <2>1. /\ Holds(w) /\ dropped' = dropped \cup (Range(work[w].queued) \ Range(work[w].batch))
        /\ work' = [work EXCEPT ![w] = At("notify")]
    BY <1>9 DEF CommitPublish, Holds
  <2>2. OthersWork(w) /\ work'[w].pc = "notify"
    BY <1>1, <2>1, StartsOver
  <2>3. LossExplained
    BY <1>2, <2>1 DEF LossExplained, Explained
  <2> QED
    BY <2>2, <2>3, BlameKept DEF Holds
<1> QED
  BY <1>4, <1>5, <1>6, <1>7, <1>8, <1>9 DEF Commit

LEMMA BlameStep ==
  ASSUME DeliverySound, BlameSound, [EventLoopNext]_vars
  PROVE  BlameSound' /\ LossExplained
<1>1. WorkShape
  BY DEF DeliverySound, RunInv
<1>2. ASSUME dropped' \subseteq dropped PROVE LossExplained
  BY <1>2 DEF LossExplained
<1>3. ASSUME work' = work, dropped' \subseteq dropped PROVE BlameSound' /\ LossExplained
  <2>1. \A w \in Workers : Holds(w)' => Explained(work'[w].queued, work'[w].batch)
    BY <1>3 DEF BlameSound, Holds
  <2>2. BlameSound'
    BY <2>1, Zenon DEF BlameSound, Explained, Embeds, Behind
  <2> QED
    BY <1>2, <1>3, <2>2
<1>4. ASSUME NEW s \in Submissions, SubmitBatch(s) PROVE BlameSound' /\ LossExplained
  <2>1. work' = work /\ dropped' \subseteq dropped
    <3>1. CASE SubmitQueue(s)
      BY <3>1 DEF SubmitQueue
    <3>2. CASE SubmitCancel(s) \/ SubmitNotify(s)
      BY <3>2 DEF SubmitCancel, SubmitNotify, ghostVars
    <3> QED
      BY <1>4, <3>1, <3>2 DEF SubmitBatch
  <2> QED
    BY <1>3, <2>1
<1>5. ASSUME NEW w \in Committers, CommitCall(w) PROVE BlameSound' /\ LossExplained
  <2>1. To(w, "commit") /\ w \in Workers /\ dropped' = dropped
    BY <1>5 DEF CommitCall, commitSame, Workers
  <2> QED
    BY <1>1, <1>2, <2>1, GoesTo, BlameKept DEF Holds
<1>6. ASSUME NEW w \in Drivers, Drive(w) PROVE BlameSound' /\ LossExplained
  <2>1. dropped' = dropped /\ w \in Workers
    BY <1>6 DEF Drive, DriveSignal, DrainLoop, RunNothing, RunSelect, AdmitRun, RunStart, ProcessEnd,
                RunFinish, FinishNotify, runSame, Workers
  <2>2. OthersWork(w) /\ work'[w].pc \notin {"compile", "append", "publish"}
    <3>1. CASE RunStart(w)
      BY <3>1, StartStep
    <3>2. CASE ~RunStart(w)
      BY <1>1, <1>6, <3>2, DriveQuiet DEF Driving
    <3> QED
      BY <3>1, <3>2
  <2> QED
    BY <1>2, <2>1, <2>2, BlameKept DEF Holds
<1>7. ASSUME NEW w \in Drivers, ProcessAppend(w) PROVE BlameSound' /\ LossExplained
  BY <1>3, <1>7 DEF ProcessAppend, runSame
<1>8. ASSUME InterruptCapture \/ InterruptCancel \/ Hold \/ Relieve \/ WakeCheck \/ WakeNotify
      PROVE  BlameSound' /\ LossExplained
  BY <1>3, <1>8 DEF InterruptCapture, InterruptCancel, Hold, Relieve, WakeCheck, WakeNotify,
                    gateSame, ghostVars
<1>9. ASSUME UNCHANGED vars PROVE BlameSound' /\ LossExplained
  BY <1>3, <1>9 DEF vars, ghostVars
<1> QED
  BY <1>4, <1>5, <1>6, <1>7, <1>8, <1>9, BlameCommit DEF EventLoopNext

\* What one inadmissible event may cost: whatever the events compile to, however
\* many are refused and whatever is committed in between, an event the log would
\* accept is given up only behind a bad one of its group, because of a signal
\* before that one, or with a group that does not compile.
THEOREM EventLoopLoss == EventLoopSpec => LossFollowsABadEvent
<1>1. EventLoopInit => DeliverySound /\ BlameSound
  <2>1. EventLoopInit => BlameSound
    BY AtShape DEF EventLoopInit, BlameSound, Holds
  <2> QED
    BY <2>1, DeliveryStart
<1>2. DeliverySound /\ BlameSound /\ [EventLoopNext]_vars => (DeliverySound /\ BlameSound)'
  <2>1. DeliverySound /\ [EventLoopNext]_vars => DeliverySound'
    BY DeliveryStep
  <2>2. DeliverySound /\ BlameSound /\ [EventLoopNext]_vars => BlameSound'
    BY BlameStep
  <2> QED
    BY <2>1, <2>2
<1>3. DeliverySound /\ BlameSound /\ [EventLoopNext]_vars => [LossExplained]_vars
  BY BlameStep
<1>4. EventLoopSpec => [][LossExplained]_vars
  BY <1>1, <1>2, <1>3, PTL DEF EventLoopSpec
<1> QED
  BY <1>4 DEF LossFollowsABadEvent, LossExplained

-----------------------------------------------------------------------------
\* Who looks at what waits.

PendingSeen == pending # << >> => Looking

EverythingIsAccepted == Uncompilable \cup Inadmissible = {}

DeferredOwed == EverythingIsAccepted /\ deferred # << >> => Owing

Looks(w) == w \in Drivers /\ work[w].pc \in {"loop", "commit"}

Answers(w) ==
  \/ work[w].pc = "notify"
  \/ w \in Drivers /\ work[w].pc \in {"loop", "commit", "compile", "append", "publish", "select",
                                      "gate", "start", "wake"}

OwedSound == PendingSeen /\ DeferredOwed

LEMMA LookingIs ==
  /\ Looking <=> signal \/ (\E s \in Submissions : sub[s].pc # "idle") \/ \E w \in Workers : Looks(w)
  /\ Looking' <=> signal' \/ (\E s \in Submissions : sub'[s].pc # "idle") \/ \E w \in Workers : Looks(w)'
BY DEF Looking, Looks, Workers

LEMMA OwingIs ==
  /\ Owing <=> \/ signal \/ (\E s \in Submissions : sub[s].pc # "idle")
               \/ active \/ held \/ waker # "idle" \/ \E w \in Workers : Answers(w)
  /\ Owing' <=> \/ signal' \/ (\E s \in Submissions : sub'[s].pc # "idle")
                \/ active' \/ held' \/ waker' # "idle" \/ \E w \in Workers : Answers(w)'
BY DEF Owing, Looking, Answers, Workers

\* One worker moves, and those it leaves waiting are looked at by someone else.
LEMMA SeenOn ==
  ASSUME PendingSeen, NEW w \in Workers, OthersWork(w), UNCHANGED <<pending, sub>>, signal => signal',
         Looks(w) => pending = << >> \/ Looks(w)' \/ signal'
  PROVE  PendingSeen'
<1>1. \A v \in Workers : v # w => (Looks(v)' <=> Looks(v))
  BY DEF Looks, OthersWork
<1>2. (\E s \in Submissions : sub'[s].pc # "idle") <=> \E s \in Submissions : sub[s].pc # "idle"
  OBVIOUS
<1> QED
  BY <1>1, <1>2, LookingIs DEF PendingSeen

LEMMA OwedOn ==
  ASSUME DeferredOwed, NEW w \in Workers, OthersWork(w), UNCHANGED <<deferred, sub, held, waker>>,
         signal => signal', active => active' \/ Answers(w)',
         Answers(w) => deferred = << >> \/ Answers(w)' \/ signal' \/ active' \/ held
  PROVE  DeferredOwed'
<1>1. \A v \in Workers : v # w => (Answers(v)' <=> Answers(v))
  BY DEF Answers, OthersWork
<1> QED
  BY <1>1, OwingIs DEF DeferredOwed, EverythingIsAccepted

\* Whoever moves to where it answers leaves nothing that waits unnoticed.
LEMMA OwedByAnswer ==
  ASSUME NEW w \in Workers, Answers(w)' \/ signal' \/ active'
  PROVE  DeferredOwed'
BY OwingIs DEF DeferredOwed

LEMMA SeenByLooking ==
  ASSUME NEW w \in Workers, Looks(w)' \/ signal'
  PROVE  PendingSeen'
BY LookingIs DEF PendingSeen

LEMMA OwedCommit ==
  ASSUME WorkShape, OwedSound, NEW w \in Workers, Commit(w)
  PROVE  OwedSound'
<1> USE DEF OwedSound, commitSame
<1>1. ASSUME NEW pc, To(w, pc) PROVE OthersWork(w) /\ work'[w].pc = pc
  BY <1>1, GoesTo
<1>2. ASSUME CommitFails(w), work[w].pc \in {"compile", "append"}, UNCHANGED sub
      PROVE  PendingSeen'
  <2>1. OthersWork(w) /\ ~Looks(w) /\ UNCHANGED <<pending, sub, signal>>
    <3>1. work' = [work EXCEPT ![w] = At(AfterError(w))]
      BY <1>2 DEF CommitFails
    <3> QED
      BY <1>2, <3>1, StartsOver DEF CommitFails, Looks
  <2> QED
    BY <2>1, SeenOn
<1>3. ASSUME OthersWork(w), work[w].pc \in {"compile", "append", "publish"},
             work'[w].pc \in {"compile", "append", "publish"},
             UNCHANGED <<pending, deferred, signal, active, sub, held, waker>>
      PROVE  OwedSound'
  <2>1. ~Looks(w) /\ (Answers(w) => Answers(w)')
    BY <1>3 DEF Looks, Answers
  <2>2. PendingSeen'
    BY <1>3, <2>1, SeenOn
  <2>3. DeferredOwed'
    BY <1>3, <2>1, OwedOn
  <2> QED
    BY <2>2, <2>3
<1>4. CASE CommitIdle(w)
  <2>1. OthersWork(w) /\ work'[w].pc = AfterCommit(w) /\ pending = << >>
    BY <1>1, <1>4 DEF CommitIdle
  <2>2. UNCHANGED <<pending, deferred, signal, active, sub, held, waker>>
    BY <1>4 DEF CommitIdle, queueVars, runVars, gateVars
  <2>3. Answers(w) => Answers(w)'
    BY <1>4, <2>1 DEF CommitIdle, Answers, AfterCommit
  <2> QED
    BY <2>1, <2>2, <2>3, OwedOn DEF PendingSeen
<1>5. CASE CommitTake(w)
  <2>1. OthersWork(w) /\ work'[w].pc = "compile"
    BY <1>5 DEF CommitTake, OthersWork, WorkShape, Fields
  <2>2. UNCHANGED <<deferred, signal, active, sub, held, waker>> /\ pending' = << >> /\ work[w].pc = "commit"
    BY <1>5 DEF CommitTake, runVars, gateVars
  <2>3. Answers(w) => Answers(w)'
    BY <2>1, <2>2 DEF Answers
  <2> QED
    BY <2>1, <2>2, <2>3, OwedOn DEF PendingSeen
<1>6. CASE CommitCompile(w)
  <2>1. work[w].pc = "compile" /\ UNCHANGED <<sub, active, held, waker>>
    BY <1>6 DEF CommitCompile, runVars, gateVars
  <2>2. CASE Range(work[w].batch) \cap Uncompilable # {}
    <3>1. ~EverythingIsAccepted
      BY <2>2 DEF EverythingIsAccepted
    <3> QED
      BY <1>2, <1>6, <2>1, <2>2, <3>1 DEF CommitCompile, DeferredOwed, EverythingIsAccepted
  <2>3. CASE Range(work[w].batch) \cap Uncompilable = {}
    <3>1. PICK s \in {"publish", "append"} :
            work' = [work EXCEPT ![w].snapshot = Len(log), ![w].pc = s]
      BY <1>6, <2>3 DEF CommitCompile
    <3>2. OthersWork(w) /\ work'[w].pc = s
      BY <3>1 DEF OthersWork, WorkShape, Fields
    <3>3. UNCHANGED <<pending, deferred, signal>>
      BY <1>6, <2>3 DEF CommitCompile, queueVars
    <3> QED
      BY <1>3, <2>1, <3>2, <3>3
  <2> QED
    BY <2>2, <2>3
<1>7. CASE CommitConflict(w) \/ CommitAppend(w)
  <2>1. OthersWork(w) /\ work[w].pc = "append" /\ work'[w].pc \in {"compile", "publish"}
    BY <1>1, <1>7 DEF CommitConflict, CommitAppend
  <2>2. UNCHANGED <<pending, deferred, signal, active, sub, held, waker>>
    BY <1>7 DEF CommitConflict, CommitAppend, queueVars, runVars, gateVars
  <2> QED
    BY <1>3, <2>1, <2>2
<1>8. CASE CommitRefused(w)
  <2>1. work[w].pc = "append" /\ UNCHANGED <<sub, active, held, waker>>
    BY <1>8 DEF CommitRefused, runVars, gateVars
  <2>2. ~EverythingIsAccepted
    BY <1>8 DEF CommitRefused, EverythingIsAccepted, RefusedItems
  <2>3. CASE CommitFails(w)
    BY <1>2, <2>1, <2>2, <2>3 DEF DeferredOwed, EverythingIsAccepted
  <2>4. CASE ~CommitFails(w)
    <3>1. work' = [work EXCEPT ![w].pc = "compile", ![w].batch = Without(@, {Offender(@)})]
      BY <1>8, <2>4, Zenon DEF CommitRefused
    <3>2. OthersWork(w) /\ work'[w].pc = "compile"
      BY <3>1 DEF OthersWork, WorkShape, Fields
    <3>3. UNCHANGED <<pending, deferred, signal>>
      BY <1>8, <2>4 DEF CommitRefused, queueVars
    <3> QED
      BY <1>3, <2>1, <3>2, <3>3
  <2> QED
    BY <2>3, <2>4
<1>9. CASE CommitPublish(w)
  <2>1. OthersWork(w) /\ work'[w].pc = "notify" /\ ~Looks(w)
    BY <1>9, StartsOver DEF CommitPublish, Looks
  <2>2. UNCHANGED <<pending, signal, sub>>
    BY <1>9 DEF CommitPublish
  <2>3. Answers(w)'
    BY <2>1 DEF Answers
  <2> QED
    BY <2>1, <2>2, <2>3, SeenOn, OwedByAnswer
<1>10. CASE CommitNotify(w)
  BY <1>10, SeenByLooking, OwedByAnswer DEF CommitNotify
<1> QED
  BY <1>4, <1>5, <1>6, <1>7, <1>8, <1>9, <1>10 DEF Commit

LEMMA OwedDrive ==
  ASSUME RunInv, OwedSound, NEW w \in Drivers, Drive(w)
  PROVE  OwedSound'
<1> USE DEF OwedSound, runSame
<1>1. w \in Workers /\ WorkShape
  BY DEF Workers, RunInv
<1>2. ASSUME NEW pc, To(w, pc) PROVE OthersWork(w) /\ work'[w].pc = pc
  BY <1>1, <1>2, GoesTo
<1>3. ASSUME NEW pc, work' = [work EXCEPT ![w] = At(pc)] PROVE OthersWork(w) /\ work'[w].pc = pc
  BY <1>1, <1>3, StartsOver
<1>4. ASSUME OthersWork(w), ~Looks(w), Answers(w) => Answers(w)' \/ active' \/ held,
             UNCHANGED <<pending, deferred, signal, active, sub, held, waker>>
      PROVE  OwedSound'
  <2>1. PendingSeen'
    BY <1>1, <1>4, SeenOn
  <2>2. DeferredOwed'
    BY <1>1, <1>4, OwedOn
  <2> QED
    BY <2>1, <2>2
<1>5. CASE DriveSignal(w)
  <2>1. Looks(w)' /\ Answers(w)'
    BY <1>2, <1>5 DEF DriveSignal, Looks, Answers
  <2> QED
    BY <1>1, <2>1, SeenByLooking, OwedByAnswer
<1>6. CASE DrainLoop(w)
  <2>1. CASE Waiting
    <3>1. Looks(w)' /\ Answers(w)'
      BY <1>2, <1>6, <2>1 DEF DrainLoop, Looks, Answers
    <3> QED
      BY <1>1, <3>1, SeenByLooking, OwedByAnswer
  <2>2. CASE ~Waiting
    BY <1>6, <2>2 DEF DrainLoop, Waiting, PendingSeen, DeferredOwed
  <2> QED
    BY <2>1, <2>2
<1>7. CASE RunNothing(w)
  <2>1. work[w].pc \in {"select", "start"} /\ Runnable = << >>
        /\ UNCHANGED <<pending, deferred, signal, active, sub, held, waker>>
    BY <1>7 DEF RunNothing, runVars, gateVars
  <2>2. OthersWork(w) /\ ~Looks(w)
    BY <1>3, <1>7, <2>1 DEF RunNothing, Looks
  <2>3. CASE active
    BY <1>4, <2>1, <2>2, <2>3
  <2>4. CASE ~active
    <3>1. deferred = << >>
      BY <2>1, <2>4 DEF Runnable
    <3>2. PendingSeen'
      BY <1>1, <2>1, <2>2, SeenOn
    <3> QED
      BY <2>1, <3>1, <3>2 DEF DeferredOwed
  <2> QED
    BY <2>3, <2>4
<1>8. CASE RunSelect(w)
  <2>1. OthersWork(w) /\ ~Looks(w) /\ Answers(w)'
    BY <1>1, <1>8 DEF RunSelect, OthersWork, WorkShape, Fields, Looks, Answers
  <2> QED
    BY <1>4, <1>8, <2>1 DEF RunSelect, runVars, gateVars
<1>9. CASE AdmitRun(w)
  <2>1. work[w].pc = "gate" /\ UNCHANGED <<pending, deferred, signal, active, sub, held, waker>>
    BY <1>9 DEF AdmitRun, runVars, gateVars
  <2>2. CASE Admits(work[w].offered)
    <3>1. OthersWork(w) /\ ~Looks(w) /\ Answers(w)'
      BY <1>2, <1>9, <2>1, <2>2 DEF AdmitRun, To, Looks, Answers
    <3> QED
      BY <1>4, <2>1, <3>1
  <2>3. CASE ~Admits(work[w].offered)
    <3>1. OthersWork(w) /\ ~Looks(w) /\ held
      BY <1>3, <1>9, <2>1, <2>3 DEF AdmitRun, Admits, Looks
    <3> QED
      BY <1>4, <2>1, <3>1
  <2> QED
    BY <2>2, <2>3
<1>10. CASE RunStart(w)
  <2>1. OthersWork(w) /\ ~Looks(w) /\ UNCHANGED <<pending, signal, sub>> /\ active'
    BY <1>1, <1>10 DEF RunStart, OthersWork, WorkShape, Fields, Looks
  <2> QED
    BY <1>1, <2>1, SeenOn, OwedByAnswer
<1>11. CASE ProcessEnd(w)
  <2>1. OthersWork(w) /\ ~Looks(w) /\ ~Answers(w)
    BY <1>1, <1>11 DEF ProcessEnd, OthersWork, WorkShape, Fields, Looks, Answers
  <2> QED
    BY <1>4, <1>11, <2>1 DEF ProcessEnd, runVars, gateVars
<1>12. CASE RunFinish(w)
  <2>1. work[w].pc = "finish" /\ UNCHANGED <<pending, deferred, signal, sub, held, waker>>
    BY <1>12 DEF RunFinish, gateVars
  <2>2. OthersWork(w) /\ ~Looks(w) /\ ~Answers(w)
    <3>1. ~RunStart(w)
      BY <2>1 DEF RunStart
    <3>2. OthersWork(w)
      BY <1>1, <3>1, DriveQuiet
    <3> QED
      BY <2>1, <3>2 DEF Looks, Answers
  <2>3. PendingSeen'
    BY <1>1, <2>1, <2>2, SeenOn
  <2>4. CASE work[w].epoch = 0
    <3>1. active' = active
      BY <1>12, <2>4 DEF RunFinish
    <3> QED
      BY <1>4, <2>1, <2>2, <3>1
  <2>5. CASE work[w].epoch # 0 /\ Waiting
    <3>1. Answers(w)'
      BY <1>1, <1>12, <2>5 DEF RunFinish, Answers, WorkShape, Fields
    <3> QED
      BY <1>1, <2>3, <3>1, OwedByAnswer
  <2>6. CASE ~Waiting
    BY <2>1, <2>3, <2>6 DEF Waiting, DeferredOwed
  <2> QED
    BY <2>4, <2>5, <2>6
<1>13. CASE FinishNotify(w)
  BY <1>1, <1>13, SeenByLooking, OwedByAnswer DEF FinishNotify
<1> QED
  BY <1>5, <1>6, <1>7, <1>8, <1>9, <1>10, <1>11, <1>12, <1>13 DEF Drive

LEMMA OwedSubmit ==
  ASSUME sub \in [Submissions -> [pc : {"idle", "cancel", "notify"}, epoch : Nat]], OwedSound,
         NEW s \in Submissions, SubmitBatch(s)
  PROVE  OwedSound'
<1>1. CASE SubmitNotify(s)
  BY <1>1, LookingIs, OwingIs DEF SubmitNotify, OwedSound, PendingSeen, DeferredOwed
<1>2. CASE SubmitQueue(s) \/ SubmitCancel(s)
  <2>1. sub'[s].pc # "idle"
    BY <1>2 DEF SubmitQueue, SubmitCancel
  <2>2. Looking' /\ Owing'
    BY <2>1, LookingIs, OwingIs
  <2> QED
    BY <2>2 DEF OwedSound, PendingSeen, DeferredOwed
<1> QED
  BY <1>1, <1>2 DEF SubmitBatch

LEMMA OwedStep ==
  ASSUME RunInv, InterruptsSound, OwedSound, [EventLoopNext]_vars
  PROVE  OwedSound'
<1>1. ASSUME UNCHANGED <<pending, deferred, sub, work>>, signal => signal', active => active',
             held => held' \/ waker' # "idle", waker # "idle" => waker' # "idle" \/ signal' \/ deferred = << >>
      PROVE  OwedSound'
  <2>1. (\E w \in Workers : Looks(w)') <=> \E w \in Workers : Looks(w)
    BY <1>1 DEF Looks
  <2>2. (\E w \in Workers : Answers(w)') <=> \E w \in Workers : Answers(w)
    BY <1>1 DEF Answers
  <2> QED
    BY <1>1, <2>1, <2>2, LookingIs, OwingIs DEF OwedSound, PendingSeen, DeferredOwed, EverythingIsAccepted
<1>2. ASSUME NEW w \in Committers, CommitCall(w) PROVE OwedSound'
  <2>1. w \in Workers /\ OthersWork(w) /\ ~Looks(w) /\ ~Answers(w)
    <3>1. w \in Workers /\ w \notin Drivers /\ work[w].pc = "idle"
      BY <1>2, EventLoopAssumption DEF CommitCall, Workers
    <3>2. OthersWork(w)
      BY <1>2, <3>1, GoesTo DEF CommitCall, RunInv
    <3> QED
      BY <3>1, <3>2 DEF Looks, Answers
  <2>2. UNCHANGED <<pending, deferred, signal, active, sub, held, waker>>
    BY <1>2 DEF CommitCall, commitSame, queueVars, runVars, gateVars
  <2>3. PendingSeen'
    BY <2>1, <2>2, SeenOn DEF OwedSound
  <2>4. DeferredOwed'
    BY <2>1, <2>2, OwedOn DEF OwedSound
  <2> QED
    BY <2>3, <2>4 DEF OwedSound
<1>3. ASSUME NEW w \in Drivers, ProcessAppend(w) PROVE OwedSound'
  BY <1>1, <1>3 DEF ProcessAppend, runSame, runVars, gateVars
<1>4. CASE InterruptCapture \/ InterruptCancel
  BY <1>1, <1>4 DEF InterruptCapture, InterruptCancel, queueVars, runVars, gateVars
<1>5. CASE Hold \/ Relieve \/ WakeCheck \/ WakeNotify
  BY <1>1, <1>5 DEF Hold, Relieve, WakeCheck, WakeNotify, gateSame, queueVars, runVars, Waiting
<1>6. CASE UNCHANGED vars
  BY <1>1, <1>6 DEF vars, queueVars, runVars, gateVars
<1> QED
  BY <1>2, <1>3, <1>4, <1>5, <1>6, OwedCommit, OwedDrive, OwedSubmit
     DEF EventLoopNext, RunInv, InterruptsSound

\* No event waits unnoticed, for any submissions, drivers and committers: whoever
\* spends the token, finds nothing to run, is held back by the gate or ends a
\* run has left or owes another look at what still waits.
THEOREM EventLoopOwesALook == EventLoopSpec => []WaitingIsOwed
<1>1. EventLoopInit => OwedSound
  BY DEF EventLoopInit, OwedSound, PendingSeen, DeferredOwed
<1>2. DeliverySound /\ OwedSound /\ [EventLoopNext]_vars => OwedSound'
  BY OwedStep DEF DeliverySound
<1>3. OwedSound => WaitingIsOwed
  BY DEF OwedSound, PendingSeen, DeferredOwed, EverythingIsAccepted, WaitingIsOwed
<1>4. EventLoopInit => DeliverySound
  BY DeliveryStart
<1>5. DeliverySound /\ [EventLoopNext]_vars => DeliverySound'
  BY DeliveryStep
<1> QED
  BY <1>1, <1>2, <1>3, <1>4, <1>5, PTL DEF EventLoopSpec

-----------------------------------------------------------------------------
\* The types of the coordinator.

\* What a goroutine keeps is typed.
WorkTyped == work \in [Workers -> Worker]

\* A context that is cancelled, or is about to be, belongs to a run that began.
EpochsSound ==
  /\ cancelled \subseteq 1..activeEpoch
  /\ \A s \in Submissions : sub[s].pc = "cancel" => sub[s].epoch # 0
  /\ intr \in [pc : {"idle", "cancel"}, epoch : Nat]
  /\ intr.pc = "cancel" => intr.epoch \in 1..activeEpoch

\* The queue never holds more than it may, the reserve included.
QueueBounded == Len(pending) <= MaxPending

Switches ==
  /\ signal \in BOOLEAN /\ held \in BOOLEAN /\ holds \in 0..MaxHolds
  /\ waker \in {"idle", "check", "notify"} /\ dropped \subseteq Events

LEMMA AtTyped == \A pc \in Pcs : At(pc) \in Worker
<1>1. << >> \in Seq(Events)
  OBVIOUS
<1> QED
  BY <1>1 DEF At, Worker

LEMMA ToTyped ==
  ASSUME WorkTyped, NEW w \in Workers, NEW pc \in Pcs, To(w, pc)
  PROVE  WorkTyped'
BY DEF WorkTyped, To, Worker

LEMMA StartsTyped ==
  ASSUME WorkTyped, NEW w \in Workers, NEW pc \in Pcs, work' = [work EXCEPT ![w] = At(pc)]
  PROVE  WorkTyped'
BY AtTyped DEF WorkTyped

LEMMA WorkerTyped ==
  ASSUME WorkTyped, NEW w \in Workers, NEW x \in Worker, work' = [work EXCEPT ![w] = x]
  PROVE  WorkTyped'
BY DEF WorkTyped

\* What is offered or run is events.
LEMMA RunnableTyped ==
  ASSUME PlacesSound
  PROVE  EventsOf(Runnable) \subseteq Events
<1>1. EventsOf(Runnable) = EventsIn(Range(Runnable))
  BY EventsOfGroups
<1>2. Range(Runnable) \subseteq Range(deferred)
  BY Selection
<1>3. deferred \in Seq(Seq(Events))
  BY DEF PlacesSound
<1>4. Range(deferred) \subseteq Seq(Events)
  BY <1>3, MembersOf
<1>5. ASSUME NEW g \in Range(Runnable) PROVE Range(g) \subseteq Events
  <2>1. g \in Seq(Events)
    BY <1>2, <1>4
  <2> QED
    BY <2>1, MembersOf
<1> QED
  BY <1>1, <1>5 DEF EventsIn

LEMMA CommitTyped ==
  ASSUME WorkTyped, PlacesSound, log \in Seq(Events \cup {Cognition}), NEW w \in Workers, Commit(w)
  PROVE  WorkTyped'
<1>1. AfterCommit(w) \in Pcs /\ AfterError(w) \in Pcs /\ {"compile", "append", "publish", "notify"} \subseteq Pcs
  BY DEF AfterCommit, AfterError, Pcs
<1>2. ASSUME CommitFails(w) PROVE WorkTyped'
  BY <1>1, <1>2, StartsTyped DEF CommitFails
<1>3. CASE CommitIdle(w) \/ CommitConflict(w) \/ CommitAppend(w) \/ CommitNotify(w)
  BY <1>1, <1>3, ToTyped DEF CommitIdle, CommitConflict, CommitAppend, CommitNotify
<1>4. CASE CommitTake(w)
  <2>1. PICK q \in Seq(Events) : q = pending
    BY DEF PlacesSound
  <2>2. work' = [work EXCEPT ![w].pc = "compile", ![w].queued = q, ![w].batch = q]
    BY <1>4, <2>1 DEF CommitTake
  <2>3. PICK x : x = [work[w] EXCEPT !.pc = "compile", !.queued = q, !.batch = q]
    OBVIOUS
  <2>4. work' = [work EXCEPT ![w] = x]
    BY <2>2, <2>3 DEF WorkTyped
  <2>5. work[w] \in Worker
    BY DEF WorkTyped
  <2>6. x \in Worker
    BY <1>1, <2>3, <2>5 DEF Worker
  <2> QED
    BY <2>4, <2>6 DEF WorkTyped
<1>5. CASE CommitCompile(w)
  <2>1. CASE ~CommitFails(w)
    <3>1. PICK n \in Nat : n = Len(log)
      OBVIOUS
    <3>2. PICK pc \in {"publish", "append"} : work' = [work EXCEPT ![w].snapshot = n, ![w].pc = pc]
      BY <1>5, <2>1, <3>1 DEF CommitCompile
    <3>3. PICK x : x = [work[w] EXCEPT !.snapshot = n, !.pc = pc]
      OBVIOUS
    <3>4. work[w] \in Worker /\ work' = [work EXCEPT ![w] = x]
      BY <3>2, <3>3 DEF WorkTyped
    <3>5. x \in Worker
      BY <1>1, <3>1, <3>3, <3>4 DEF Worker
    <3> QED
      BY <3>4, <3>5, WorkerTyped
  <2> QED
    BY <1>2, <2>1
<1>6. CASE CommitRefused(w)
  <2>1. CASE ~CommitFails(w)
    <3>1. PICK b \in Seq(Events) : b = work[w].batch
      BY DEF WorkTyped, Worker
    <3>2. PICK c : c = Without(b, {Offender(b)})
      OBVIOUS
    <3>3. c \in Seq(Events)
      BY <3>2, WithoutMembers
    <3>4. work' = [work EXCEPT ![w].pc = "compile", ![w].batch = Without(@, {Offender(@)})]
      BY <1>6, <2>1, Zenon DEF CommitRefused
    <3>5. work' = [work EXCEPT ![w].pc = "compile", ![w].batch = c]
      BY <3>1, <3>2, <3>4 DEF WorkTyped, Worker
    <3>6. PICK x : x = [work[w] EXCEPT !.pc = "compile", !.batch = c]
      OBVIOUS
    <3>7. work[w] \in Worker /\ work' = [work EXCEPT ![w] = x]
      BY <3>5, <3>6 DEF WorkTyped
    <3>8. x \in Worker
      BY <1>1, <3>3, <3>6, <3>7 DEF Worker
    <3> QED
      BY <3>7, <3>8, WorkerTyped
  <2> QED
    BY <1>2, <2>1
<1>7. CASE CommitPublish(w)
  BY <1>1, <1>7, StartsTyped DEF CommitPublish
<1> QED
  BY <1>3, <1>4, <1>5, <1>6, <1>7 DEF Commit

LEMMA DriveTyped ==
  ASSUME WorkTyped, PlacesSound, activeEpoch \in Nat, NEW w \in Drivers, Drive(w)
  PROVE  WorkTyped'
<1>1. w \in Workers
  BY DEF Workers
<1>2. {"wait", "loop", "commit", "gate", "start", "process", "finish", "wake"} \subseteq Pcs
  BY DEF Pcs
<1>3. EventsOf(Runnable) \subseteq Events
  BY RunnableTyped
<1>4. CASE DriveSignal(w) \/ DrainLoop(w)
  BY <1>1, <1>2, <1>4, ToTyped DEF DriveSignal, DrainLoop
<1>5. CASE RunNothing(w)
  BY <1>1, <1>2, <1>5, StartsTyped DEF RunNothing
<1>6. CASE RunSelect(w)
  <2>1. PICK E \in SUBSET Events : E = EventsOf(Runnable)
    BY <1>3
  <2>2. work' = [work EXCEPT ![w].pc = "gate", ![w].offered = E]
    BY <1>6, <2>1 DEF RunSelect
  <2>3. PICK x : x = [work[w] EXCEPT !.pc = "gate", !.offered = E]
    OBVIOUS
  <2>4. work[w] \in Worker /\ work' = [work EXCEPT ![w] = x]
    BY <1>1, <2>2, <2>3 DEF WorkTyped
  <2>5. x \in Worker
    BY <1>2, <2>1, <2>3, <2>4 DEF Worker
  <2> QED
    BY <1>1, <2>4, <2>5, WorkerTyped
<1>7. CASE AdmitRun(w)
  <2>1. To(w, "start") \/ work' = [work EXCEPT ![w] = At("wait")]
    BY <1>7 DEF AdmitRun, To
  <2> QED
    BY <1>1, <1>2, <2>1, StartsTyped, ToTyped
<1>8. CASE RunStart(w)
  <2>1. PICK E \in SUBSET Events : E = EventsOf(Runnable)
    BY <1>3
  <2>2. PICK n \in Nat : n = IF active THEN 0 ELSE activeEpoch + 1
    OBVIOUS
  <2>3. work' = [work EXCEPT ![w].pc = "process", ![w].run = E, ![w].epoch = n]
    BY <1>8, <2>1, <2>2 DEF RunStart
  <2>4. PICK x : x = [work[w] EXCEPT !.pc = "process", !.run = E, !.epoch = n]
    OBVIOUS
  <2>5. work' = [work EXCEPT ![w] = x]
    BY <1>1, <2>3, <2>4 DEF WorkTyped
  <2>6. work[w] \in Worker
    BY <1>1 DEF WorkTyped
  <2>7. x \in Worker
    BY <1>2, <2>4, <2>6 DEF Worker
  <2> QED
    BY <1>1, <2>5, <2>7 DEF WorkTyped
<1>9. CASE ProcessEnd(w)
  <2>1. PICK f \in BOOLEAN : work' = [work EXCEPT ![w].pc = "finish", ![w].failed = f]
    BY <1>9 DEF ProcessEnd
  <2>2. PICK x : x = [work[w] EXCEPT !.pc = "finish", !.failed = f]
    OBVIOUS
  <2>3. work[w] \in Worker /\ work' = [work EXCEPT ![w] = x]
    BY <1>1, <2>1, <2>2 DEF WorkTyped
  <2>4. x \in Worker
    BY <1>2, <2>2, <2>3 DEF Worker
  <2> QED
    BY <1>1, <2>3, <2>4, WorkerTyped
<1>10. AfterRun(w) = At("wait") \/ AfterRun(w) = At("loop")
  BY DEF AfterRun
<1>11. CASE RunFinish(w)
  <2>1. CASE work' = [work EXCEPT ![w].pc = "wake", ![w].run = {}]
    <3>1. PICK x : x = [work[w] EXCEPT !.pc = "wake", !.run = {}]
      OBVIOUS
    <3>2. work[w] \in Worker /\ work' = [work EXCEPT ![w] = x]
      BY <1>1, <2>1, <3>1 DEF WorkTyped
    <3>3. x \in Worker
      BY <1>2, <3>1, <3>2 DEF Worker
    <3> QED
      BY <1>1, <3>2, <3>3, WorkerTyped
  <2>2. CASE work' = [work EXCEPT ![w] = AfterRun(w)]
    BY <1>1, <1>2, <1>10, <2>2, StartsTyped
  <2> QED
    BY <1>11, <2>1, <2>2, Zenon DEF RunFinish
<1>12. CASE FinishNotify(w)
  BY <1>1, <1>2, <1>10, <1>12, StartsTyped DEF FinishNotify
<1> QED
  BY <1>4, <1>5, <1>6, <1>7, <1>8, <1>9, <1>11, <1>12 DEF Drive

LEMMA WorkTypedStep ==
  ASSUME WorkTyped, PlacesSound, activeEpoch \in Nat, log \in Seq(Events \cup {Cognition}), [EventLoopNext]_vars
  PROVE  WorkTyped'
<1>1. ASSUME UNCHANGED work PROVE WorkTyped'
  BY <1>1 DEF WorkTyped
<1>2. ASSUME NEW w \in Committers, CommitCall(w) PROVE WorkTyped'
  BY <1>2, ToTyped DEF CommitCall, Workers, Pcs
<1>3. ASSUME NEW s \in Submissions, SubmitBatch(s) PROVE WorkTyped'
  BY <1>1, <1>3 DEF SubmitBatch, SubmitQueue, SubmitCancel, SubmitNotify
<1>4. ASSUME NEW w \in Drivers, ProcessAppend(w) PROVE WorkTyped'
  BY <1>1, <1>4 DEF ProcessAppend
<1>5. CASE InterruptCapture \/ InterruptCancel \/ Hold \/ Relieve \/ WakeCheck \/ WakeNotify \/ UNCHANGED vars
  BY <1>1, <1>5 DEF InterruptCapture, InterruptCancel, Hold, Relieve, WakeCheck, WakeNotify, gateSame, vars
<1> QED
  BY <1>2, <1>3, <1>4, <1>5, CommitTyped, DriveTyped DEF EventLoopNext

\* The last event of a submission that is accepted had room too.
LEMMA RoomForAll ==
  ASSUME pending \in Seq(Events), QueueBounded, NEW s \in Submissions, HasRoom(s)
  PROVE  Len(pending \o s) <= MaxPending
<1>1. s \in Seq(Events) /\ s # << >> /\ MaxPending \in Nat /\ Reserved \in Nat
  BY EventLoopAssumption
<1>2. PICK m, n \in Nat : m = Len(pending) /\ n = Len(s) /\ n # 0 /\ DOMAIN s = 1..n
  BY <1>1
<1>3. m + n - 1 < Limit(s[n])
  <2>1. n \in DOMAIN s
    BY <1>2
  <2> QED
    BY <1>2, <2>1 DEF HasRoom
<1>4. Limit(s[n]) <= MaxPending
  BY <1>1 DEF Limit
<1>5. Limit(s[n]) \in Int
  BY <1>1 DEF Limit
<1>6. Len(pending \o s) = m + n
  BY <1>1, <1>2
<1> QED
  BY <1>1, <1>2, <1>3, <1>4, <1>5, <1>6

LEMMA QueueStaysBounded ==
  ASSUME PlacesSound, QueueBounded, [EventLoopNext]_vars
  PROVE  QueueBounded'
<1> USE DEF QueueBounded, PlacesSound
<1>0. MaxPending \in Nat /\ Len(<< >>) = 0
  BY EventLoopAssumption
<1>1. ASSUME NEW s \in Submissions, SubmitBatch(s) PROVE QueueBounded'
  <2>1. CASE SubmitQueue(s)
    BY <2>1, RoomForAll DEF SubmitQueue
  <2> QED
    BY <1>1, <2>1 DEF SubmitBatch, SubmitCancel, SubmitNotify, queueVars
<1>2. ASSUME NEW w \in Workers, Commit(w) PROVE pending' = pending \/ pending' = << >>
  BY <1>2 DEF Commit, CommitIdle, CommitTake, CommitCompile, CommitConflict, CommitRefused, CommitAppend,
     CommitPublish, CommitNotify, CommitFails, queueVars
<1>3. ASSUME NEW w \in Drivers, Drive(w) \/ ProcessAppend(w) PROVE pending' = pending
  BY <1>3 DEF Drive, DriveSignal, DrainLoop, RunNothing, RunSelect, AdmitRun, RunStart, ProcessEnd, RunFinish,
     FinishNotify, ProcessAppend, runSame
<1>4. ASSUME NEW w \in Committers, CommitCall(w) PROVE pending' = pending
  BY <1>4 DEF CommitCall, queueVars
<1>5. CASE InterruptCapture \/ InterruptCancel \/ Hold \/ Relieve \/ WakeCheck \/ WakeNotify \/ UNCHANGED vars
  BY <1>5 DEF InterruptCapture, InterruptCancel, Hold, Relieve, WakeCheck, WakeNotify, gateSame, vars, queueVars
<1> QED
  BY <1>0, <1>1, <1>2, <1>3, <1>4, <1>5 DEF EventLoopNext

\* Only a run that began is cancelled, however late.
LEMMA EpochsStep ==
  ASSUME RunInv, InterruptsSound, EpochsSound, [EventLoopNext]_vars
  PROVE  EpochsSound'
<1> USE DEF EpochsSound
<1>1. activeEpoch \in Nat /\ (active => activeEpoch # 0)
  BY DEF RunInv, OneActiveRun, Continues
<1>2. ASSUME UNCHANGED <<cancelled, sub, intr>>, activeEpoch' \in Nat, activeEpoch <= activeEpoch' PROVE EpochsSound'
  BY <1>1, <1>2
<1>3. ASSUME NEW s \in Submissions, SubmitBatch(s) PROVE EpochsSound'
  <2>1. sub \in [Submissions -> [pc : {"idle", "cancel", "notify"}, epoch : Nat]] /\ sub[s].epoch <= activeEpoch
    BY DEF InterruptsSound
  <2>2. UNCHANGED <<intr, activeEpoch>>
    BY <1>3 DEF SubmitBatch, SubmitQueue, SubmitCancel, SubmitNotify, runVars
  <2>3. CASE SubmitQueue(s)
    <3>1. PICK pc \in {"cancel", "notify"} :
            sub' = [sub EXCEPT ![s] = [pc |-> pc, epoch |-> activeEpoch]] /\ (pc = "cancel" => active)
      BY <2>3 DEF SubmitQueue
    <3>2. cancelled' = cancelled
      BY <2>3 DEF SubmitQueue, runVars
    <3> QED
      BY <1>1, <2>1, <2>2, <3>1, <3>2
  <2>4. CASE SubmitCancel(s)
    <3>1. sub[s].pc = "cancel" /\ cancelled' = cancelled \cup {sub[s].epoch}
      BY <2>4 DEF SubmitCancel
    <3>2. sub[s].epoch \in 1..activeEpoch
      BY <1>1, <2>1, <3>1
    <3>3. \A t \in Submissions : sub'[t].pc = "cancel" => sub'[t] = sub[t]
      BY <2>1, <2>4 DEF SubmitCancel
    <3> QED
      BY <2>2, <3>1, <3>2, <3>3
  <2>5. CASE SubmitNotify(s)
    <3>1. cancelled' = cancelled /\ sub' = [sub EXCEPT ![s] = [pc |-> "idle", epoch |-> 0]]
      BY <2>5 DEF SubmitNotify, runVars
    <3> QED
      BY <2>1, <2>2, <3>1
  <2> QED
    BY <1>3, <2>3, <2>4, <2>5 DEF SubmitBatch
<1>4. ASSUME NEW w \in Workers, Commit(w) PROVE UNCHANGED <<cancelled, sub, intr, activeEpoch>>
  BY <1>4 DEF Commit, CommitIdle, CommitTake, CommitCompile, CommitConflict, CommitRefused, CommitAppend,
     CommitPublish, CommitNotify, commitSame, runVars
<1>5. ASSUME NEW w \in Drivers, Drive(w) \/ ProcessAppend(w)
      PROVE  UNCHANGED <<cancelled, sub, intr>> /\ activeEpoch' \in {activeEpoch, activeEpoch + 1}
  BY <1>5 DEF Drive, DriveSignal, DrainLoop, RunNothing, RunSelect, AdmitRun, RunStart, ProcessEnd, RunFinish,
     FinishNotify, ProcessAppend, runSame, runVars
<1>6. ASSUME NEW w \in Committers, CommitCall(w) PROVE UNCHANGED <<cancelled, sub, intr, activeEpoch>>
  BY <1>6 DEF CommitCall, commitSame, runVars
<1>7. CASE InterruptCapture
  <2>1. intr' = [pc |-> "cancel", epoch |-> activeEpoch] /\ active /\ UNCHANGED <<cancelled, sub, activeEpoch>>
    BY <1>7 DEF InterruptCapture, runVars
  <2> QED
    BY <1>1, <2>1
<1>8. CASE InterruptCancel
  BY <1>8 DEF InterruptCancel
<1>9. CASE Hold \/ Relieve \/ WakeCheck \/ WakeNotify \/ UNCHANGED vars
  <2>1. UNCHANGED <<cancelled, sub, intr, activeEpoch>>
    BY <1>9 DEF Hold, Relieve, WakeCheck, WakeNotify, gateSame, vars, runVars
  <2> QED
    BY <1>1, <1>2, <2>1
<1>10. ASSUME UNCHANGED <<cancelled, sub, intr>>, activeEpoch' \in {activeEpoch, activeEpoch + 1} PROVE EpochsSound'
  BY <1>1, <1>2, <1>10
<1> QED
  BY <1>3, <1>4, <1>5, <1>6, <1>7, <1>8, <1>9, <1>10 DEF EventLoopNext

LEMMA SwitchesStep ==
  ASSUME Switches, WorkTyped, [EventLoopNext]_vars
  PROVE  Switches'
<1> USE DEF Switches
<1>1. ASSUME UNCHANGED gateVars, signal' \in BOOLEAN, dropped' \subseteq Events PROVE Switches'
  BY <1>1 DEF gateVars
<1>2. ASSUME NEW s \in Submissions, SubmitBatch(s) PROVE Switches'
  BY <1>1, <1>2 DEF SubmitBatch, SubmitQueue, SubmitCancel, SubmitNotify, ghostVars
<1>3. ASSUME NEW w \in Workers, Commit(w) PROVE Switches'
  <2>1. Range(work[w].queued) \subseteq Events
    <3>1. work[w].queued \in Seq(Events)
      BY DEF WorkTyped, Worker
    <3> QED
      BY <3>1, MembersOf
  <2>2. UNCHANGED gateVars /\ signal' \in BOOLEAN
    BY <1>3 DEF Commit, CommitIdle, CommitTake, CommitCompile, CommitConflict, CommitRefused, CommitAppend,
       CommitPublish, CommitNotify, CommitFails, commitSame
  <2>3. dropped' \subseteq Events
    BY <1>3, <2>1 DEF Commit, CommitIdle, CommitTake, CommitCompile, CommitConflict, CommitRefused, CommitAppend,
       CommitPublish, CommitNotify, CommitFails
  <2> QED
    BY <1>1, <2>2, <2>3
<1>4. ASSUME NEW w \in Drivers, Drive(w) \/ ProcessAppend(w) PROVE Switches'
  <2>1. UNCHANGED gateVars /\ signal' \in BOOLEAN /\ dropped' = dropped
    BY <1>4 DEF Drive, DriveSignal, DrainLoop, RunNothing, RunSelect, AdmitRun, RunStart, ProcessEnd, RunFinish,
       FinishNotify, ProcessAppend, runSame
  <2> QED
    BY <1>1, <2>1
<1>5. ASSUME NEW w \in Committers, CommitCall(w) PROVE Switches'
  BY <1>1, <1>5 DEF CommitCall, commitSame
<1>6. CASE InterruptCapture \/ InterruptCancel \/ UNCHANGED vars
  BY <1>1, <1>6 DEF InterruptCapture, InterruptCancel, vars, ghostVars
<1>7. CASE Hold \/ Relieve \/ WakeCheck \/ WakeNotify
  <2>1. MaxHolds \in Nat /\ dropped' = dropped
    BY <1>7, EventLoopAssumption DEF Hold, Relieve, WakeCheck, WakeNotify, gateSame, ghostVars
  <2>2. signal' \in BOOLEAN /\ held' \in BOOLEAN
    BY <1>7 DEF Hold, Relieve, WakeCheck, WakeNotify
  <2>3. holds' \in 0..MaxHolds
    BY <1>7, <2>1 DEF Hold, Relieve, WakeCheck, WakeNotify
  <2>4. waker' \in {"idle", "check", "notify"}
    BY <1>7 DEF Hold, Relieve, WakeCheck, WakeNotify
  <2> QED
    BY <2>1, <2>2, <2>3, <2>4
<1> QED
  BY <1>2, <1>3, <1>4, <1>5, <1>6, <1>7 DEF EventLoopNext

\* Type correctness of the coordinator: the queue never exceeds its capacity, and
\* only the context of a run that began is ever cancelled (coordinator.go:
\* SubmitBatch, Interrupt).
THEOREM EventLoopTypeCorrect == EventLoopSpec => []EventLoopTypeOK
<1> DEFINE Known == DeliverySound /\ OrderSound
           Typed == WorkTyped /\ QueueBounded /\ EpochsSound /\ Switches
<1>1. EventLoopInit => Typed
  <2> SUFFICES ASSUME EventLoopInit PROVE Typed
    OBVIOUS
  <2>1. WorkTyped
    <3>1. work = [w \in Workers |-> At(IF w \in Drivers THEN "wait" ELSE "idle")]
      BY DEF EventLoopInit
    <3>2. {"wait", "idle"} \subseteq Pcs
      BY DEF Pcs
    <3> QED
      BY <3>1, <3>2, AtTyped DEF WorkTyped
  <2>2. QueueBounded
    BY EventLoopAssumption DEF EventLoopInit, QueueBounded
  <2>3. EpochsSound
    BY DEF EventLoopInit, EpochsSound
  <2>4. Switches
    <3>1. signal \in BOOLEAN /\ held \in BOOLEAN /\ waker \in {"idle", "check", "notify"} /\ dropped \subseteq Events
      BY DEF EventLoopInit
    <3>2. holds \in 0..MaxHolds
      BY EventLoopAssumption DEF EventLoopInit
    <3> QED
      BY <3>1, <3>2 DEF Switches
  <2> QED
    BY <2>1, <2>2, <2>3, <2>4
<1>2. Known => /\ RunInv /\ InterruptsSound /\ PlacesSound /\ activeEpoch \in Nat
               /\ log \in Seq(Events \cup {Cognition})
  BY DEF DeliverySound, OrderSound, Written, RunInv
<1>3. Known /\ Typed /\ [EventLoopNext]_vars => Typed'
  BY <1>2, WorkTypedStep, QueueStaysBounded, EpochsStep, SwitchesStep
<1>4. Known /\ Typed => EventLoopTypeOK
  <2> SUFFICES ASSUME Known, Typed PROVE EventLoopTypeOK
    OBVIOUS
  <2>1. /\ pending \in Seq(Events) /\ eventIDs \in Seq(Events) /\ deferred \in Seq(Seq(Events))
        /\ acted \subseteq Range(eventIDs)
    BY DEF DeliverySound, PlacesSound, Places
  <2>2. acted \subseteq Events
    BY <2>1, MembersOf
  <2>3. commitMu \in Workers \cup {Nobody}
    BY DEF OrderSound, HandSound
  <2>4. active \in BOOLEAN /\ sub \in [Submissions -> [pc : {"idle", "cancel", "notify"}, epoch : Nat]]
    BY DEF DeliverySound, RunInv, InterruptsSound
  <2> QED
    BY <1>2, <2>1, <2>2, <2>3, <2>4 DEF EventLoopTypeOK, WorkTyped, QueueBounded, EpochsSound, Switches
<1>5. EventLoopSpec => []Known
  BY DeliveryStart, DeliveryStep, OrderStart, OrderStep, PTL DEF EventLoopSpec
<1> QED
  BY <1>1, <1>3, <1>4, <1>5, PTL DEF EventLoopSpec
=============================================================================
