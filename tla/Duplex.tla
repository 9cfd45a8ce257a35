------------------------------- MODULE Duplex -------------------------------
(***************************************************************************)
(* The duplex state, session/duplex.go: who is producing audio, and the    *)
(* timer that notices that the audio handed to the client has played out.  *)
(*                                                                         *)
(* Goroutines: the audio input path reports the user's speech, the speech  *)
(* planner hands audio off and stops it, a cancellation stops it, and each *)
(* timer runs playoutElapsed on a goroutine of its own.  A step is one     *)
(* critical section of duplex.mu, one read of the clock that precedes it,  *)
(* or one call of publish, which is made after the lock is released.       *)
(*                                                                         *)
(* Time is relative: PlayoutHorizonNS is kept as the ticks left until it   *)
(* (Past when it lies behind), a clock value read by a call as its age.    *)
(* Phase, the timestamps and Generation follow from these and are left     *)
(* out.  A transition awaiting publication is its kind, kept with the      *)
(* goroutine that made it; goroutines publish in any order.                *)
(***************************************************************************)
EXTENDS Integers, FiniteSetsExt

CONSTANTS
  User, Speaker, Canceller,   \* the goroutines that call in
  Durations,   \* durations of the frames handed off
  MaxAhead,    \* bound on how far audio runs ahead of the clock
  MaxStale,    \* bound on the ticks between reading the clock and the lock
  MaxTimers    \* bound on the timers alive at once

TimerIds == 1..MaxTimers

Callers == {User, Speaker, Canceller}

ASSUME DuplexAssumption ==
  /\ Durations \subseteq Nat \ {0}
  /\ User # Speaker /\ Canceller \notin {User, Speaker}
  /\ Callers \cap TimerIds = {}
  /\ MaxAhead \in Nat /\ MaxStale \in Nat /\ MaxTimers \in Nat \ {0}

VARIABLES
  userSpeaking, agentSpeaking,
  left,         \* PlayoutHorizonNS, relative to now
  closed,
  timer,        \* Duplex.timer: a timer, or 0 for nil
  slot,         \* [TimerIds -> an armed timer's time to go, a fired one's age]
  speaker,      \* AgentAudioHandedOff: has it read the clock, and how long ago
  unpublished   \* transitions made and not yet published

duplexVars == <<userSpeaking, agentSpeaking, left, closed, timer, slot, speaker, unpublished>>

\* What an observer sees of it.
F == INSTANCE Floor WITH Playback <- {Speaker, Canceller} \cup TimerIds

Past == -MaxStale

Slot == [st : {"idle", "armed", "fired"}, n : 0..(MaxAhead + MaxStale)]

IdleSlot == [st |-> "idle", n |-> 0]

IdleSpeaker == [pc |-> "idle", age |-> 0, duration |-> 0]

DuplexTypeOK ==
  /\ userSpeaking \in BOOLEAN /\ agentSpeaking \in BOOLEAN /\ closed \in BOOLEAN
  /\ left \in Past..MaxAhead
  /\ timer \in TimerIds \cup {0}
  /\ timer # 0 => slot[timer].st # "idle"
  /\ slot \in [TimerIds -> Slot]
  /\ speaker \in [pc : {"idle", "read"}, age : 0..MaxStale, duration : Durations \cup {0}]
  /\ unpublished \subseteq [who : Callers \cup TimerIds, kind : F!TransitionKinds]

DuplexInit ==
  /\ userSpeaking = FALSE /\ agentSpeaking = FALSE /\ closed = FALSE
  /\ left = Past /\ timer = 0
  /\ slot = [t \in TimerIds |-> IdleSlot]
  /\ speaker = IdleSpeaker
  /\ unpublished = {}

-----------------------------------------------------------------------------
\* A goroutine makes its next call once it has published the last one.
Ready(who) == F!Ready(who)

Transition(who, kind) == F!Transition(who, kind)

\* timer.Stop: it stops an armed timer, not a callback that is on its way.
Stopped(slots, handle) ==
  IF handle # 0 /\ slots[handle].st = "armed" THEN [slots EXCEPT ![handle] = IdleSlot]
                                              ELSE slots

\* rearmLocked: one timer for the horizon, from a clock read age ticks ago.
Rearm(slots, handle, horizon, age) ==
  LET stopped == Stopped(slots, handle)
  IN  \E t \in TimerIds :
        /\ stopped[t].st = "idle" /\ Ready(t)
        /\ \A u \in 1..(t - 1) : ~(stopped[u].st = "idle" /\ Ready(u))
        /\ slot' = [stopped EXCEPT ![t] = [st |-> "armed", n |-> Max({0, horizon + age})]]
        /\ timer' = t

\* Mutant of UserSpeech: every transition stops the playout timer.
UserSpeechStopsTimer ==
  /\ ~closed /\ Ready(User)
  /\ userSpeaking' = ~userSpeaking
  /\ Transition(User, IF userSpeaking THEN "userStopped" ELSE "userStarted")
  /\ slot' = Stopped(slot, timer) /\ timer' = 0
  /\ UNCHANGED <<agentSpeaking, left, closed, speaker>>

\* UserSpeechStarted and UserSpeechStopped; repeating one changes nothing.
UserSpeech ==
  /\ ~closed /\ Ready(User)
  /\ userSpeaking' = ~userSpeaking
  /\ Transition(User, IF userSpeaking THEN "userStopped" ELSE "userStarted")
  /\ UNCHANGED <<agentSpeaking, left, closed, timer, slot, speaker>>

HandOffRead ==
  /\ Ready(Speaker) /\ speaker.pc = "idle"
  /\ \E d \in Durations :
       /\ Max({left, 0}) + d <= MaxAhead
       /\ speaker' = [pc |-> "read", age |-> 0, duration |-> d]
  /\ UNCHANGED <<userSpeaking, agentSpeaking, left, closed, timer, slot, unpublished>>

\* The horizon extends from the later of the clock that was read and the end
\* of the audio already handed off.
HandOffApply ==
  /\ speaker.pc = "read"
  /\ ~closed
  /\ LET horizon == Max({left, -speaker.age}) + speaker.duration
     IN  /\ left' = horizon
         /\ Rearm(slot, timer, horizon, speaker.age)
  /\ agentSpeaking' = TRUE
  /\ IF agentSpeaking THEN UNCHANGED unpublished ELSE Transition(Speaker, "agentStarted")
  /\ speaker' = IdleSpeaker
  /\ UNCHANGED <<userSpeaking, closed>>

HandOffClosed ==
  /\ speaker.pc = "read"
  /\ closed
  /\ speaker' = IdleSpeaker
  /\ UNCHANGED <<userSpeaking, agentSpeaking, left, closed, timer, slot, unpublished>>

\* AgentAudioStopped; when the agent is not speaking it changes nothing.
AgentAudioStopped(who) ==
  /\ ~closed /\ Ready(who)
  /\ who = Speaker => speaker.pc = "idle"
  /\ agentSpeaking
  /\ agentSpeaking' = FALSE /\ left' = Past
  /\ slot' = Stopped(slot, timer) /\ timer' = 0
  /\ Transition(who, "agentStopped")
  /\ UNCHANGED <<userSpeaking, closed, speaker>>

\* The timer's goroutine starts and reads the clock.
TimerFires(t) ==
  /\ slot[t].st = "armed" /\ slot[t].n = 0
  /\ slot' = [slot EXCEPT ![t].st = "fired"]
  /\ UNCHANGED <<userSpeaking, agentSpeaking, left, closed, timer, speaker, unpublished>>

\* Mutant of PlayoutElapsed: it does not look at the horizon.
PlayoutElapsedBlind(t) ==
  /\ slot[t].st = "fired"
  /\ slot' = [slot EXCEPT ![t] = IdleSlot] /\ timer' = 0
  /\ IF closed \/ ~agentSpeaking
     THEN UNCHANGED <<agentSpeaking, left, unpublished>>
     ELSE agentSpeaking' = FALSE /\ left' = Past /\ Transition(t, "agentStopped")
  /\ UNCHANGED <<userSpeaking, closed, speaker>>

\* Mutant of PlayoutElapsed: the end of the playout is not published.
PlayoutElapsedQuiet(t) ==
  /\ slot[t].st = "fired"
  /\ LET gone == [slot EXCEPT ![t] = IdleSlot]
     IN  IF ~closed /\ agentSpeaking /\ left > -slot[t].n
         THEN Rearm(gone, 0, left, slot[t].n) /\ UNCHANGED <<agentSpeaking, left>>
         ELSE /\ slot' = gone /\ timer' = 0
              /\ agentSpeaking' = (agentSpeaking /\ closed)
              /\ left' = IF closed THEN left ELSE Past
  /\ UNCHANGED <<userSpeaking, closed, speaker, unpublished>>

\* playoutElapsed under the lock: the playout is over, or more audio arrived
\* while the timer was in flight and it is armed again.
PlayoutElapsed(t) ==
  /\ slot[t].st = "fired"
  /\ LET gone == [slot EXCEPT ![t] = IdleSlot]
     IN  \/ /\ closed \/ ~agentSpeaking
            /\ slot' = gone /\ timer' = 0
            /\ UNCHANGED <<agentSpeaking, left, unpublished>>
         \/ /\ ~closed /\ agentSpeaking /\ left > -slot[t].n
            /\ Rearm(gone, 0, left, slot[t].n)
            /\ UNCHANGED <<agentSpeaking, left, unpublished>>
         \/ /\ ~closed /\ agentSpeaking /\ left <= -slot[t].n
            /\ slot' = gone /\ timer' = 0
            /\ agentSpeaking' = FALSE /\ left' = Past
            /\ Transition(t, "agentStopped")
  /\ UNCHANGED <<userSpeaking, closed, speaker>>

\* publish: without a lock, in whatever order the goroutines get there.
Publish(t) ==
  /\ unpublished' = unpublished \ {t}
  /\ UNCHANGED <<userSpeaking, agentSpeaking, left, closed, timer, slot, speaker>>

Close ==
  /\ ~closed
  /\ closed' = TRUE
  /\ slot' = Stopped(slot, timer) /\ timer' = 0
  /\ UNCHANGED <<userSpeaking, agentSpeaking, left, speaker, unpublished>>

Tick ==
  /\ speaker.pc = "read" => speaker.age < MaxStale
  /\ \A t \in TimerIds : slot[t].st = "fired" => slot[t].n < MaxStale
  /\ left' = Max({Past, left - 1})
  /\ slot' = [t \in TimerIds |->
                CASE slot[t].st = "armed" -> [slot[t] EXCEPT !.n = Max({0, @ - 1})]
                  [] slot[t].st = "fired" -> [slot[t] EXCEPT !.n = @ + 1]
                  [] OTHER -> slot[t]]
  /\ speaker' = IF speaker.pc = "read" THEN [speaker EXCEPT !.age = @ + 1] ELSE speaker
  /\ UNCHANGED <<userSpeaking, agentSpeaking, closed, timer, unpublished>>

DuplexNext ==
  \/ UserSpeech \/ HandOffRead \/ HandOffApply \/ HandOffClosed
  \/ \E who \in {Speaker, Canceller} : AgentAudioStopped(who)
  \/ \E t \in TimerIds : TimerFires(t) \/ PlayoutElapsed(t)
  \/ \E t \in unpublished : Publish(t)
  \/ Close \/ Tick

DuplexSpec == DuplexInit /\ [][DuplexNext]_duplexVars

\* Time passes, a timer that is due fires, and a call that has begun ends.
DuplexFairness ==
  /\ WF_duplexVars(Tick)
  /\ WF_duplexVars(HandOffApply \/ HandOffClosed)
  /\ \A t \in TimerIds : WF_duplexVars(TimerFires(t) \/ PlayoutElapsed(t))
  /\ WF_duplexVars(\E t \in unpublished : Publish(t))

FairDuplexSpec == DuplexSpec /\ DuplexFairness

-----------------------------------------------------------------------------
\* Playback that is not stopped is not cut short: a callback left over from an
\* earlier horizon, or from an earlier utterance, never ends the current one.
NeverCutShort ==
  [][agentSpeaking /\ ~agentSpeaking' /\ left > 0 =>
       \E who \in Callers : Transition(who, "agentStopped")]_duplexVars

\* For an observer every change of who is speaking is one transition, and every
\* transition one change, whatever timers and callers overtook each other.
ImplementsFloor == F!FloorSpec

\* The end of the playout does not go unnoticed, whatever timer was stopped,
\* overtaken or forgotten: while the agent speaks, the callback of a timer is on
\* its way or one is armed for no later than the audio lasts, but for the ticks
\* between reading a clock and arming.
PlayoutIsTimed ==
  agentSpeaking /\ ~closed =>
    \E t \in TimerIds : \/ slot[t].st = "fired"
                        \/ slot[t].st = "armed" /\ slot[t].n <= Max({0, left}) + MaxStale

\* An agent that hands off nothing more falls silent.
AgentFallsSilent ==
  (agentSpeaking /\ ~closed) ~> (~agentSpeaking \/ closed \/ speaker.pc = "read")
=============================================================================
