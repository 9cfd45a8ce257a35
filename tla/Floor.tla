------------------------------- MODULE Floor --------------------------------
(***************************************************************************)
(* What the duplex state promises its observers: who is speaking, and one  *)
(* transition for every change of it, published after the change by the    *)
(* goroutine that made it, in any order.  Duplex implements it; the gate   *)
(* is composed with it.                                                    *)
(***************************************************************************)
CONSTANTS
  User,      \* the goroutine that reports the user's speech
  Playback   \* those that start and stop the agent's audio, and its timers

VARIABLES
  userSpeaking, agentSpeaking,
  unpublished   \* transitions made and not yet published

floorVars == <<userSpeaking, agentSpeaking, unpublished>>

TransitionKinds == {"userStarted", "userStopped", "agentStarted", "agentStopped"}

FloorTypeOK ==
  /\ userSpeaking \in BOOLEAN /\ agentSpeaking \in BOOLEAN
  /\ unpublished \subseteq [who : Playback \cup {User}, kind : TransitionKinds]

FloorInit == userSpeaking = FALSE /\ agentSpeaking = FALSE /\ unpublished = {}

\* A goroutine goes on once it has published.
Ready(who) == \A t \in unpublished : t.who # who

Transition(who, kind) == unpublished' = unpublished \cup {[who |-> who, kind |-> kind]}

\* UserSpeechStarted and UserSpeechStopped; repeating one changes nothing.
UserTurns ==
  /\ Ready(User)
  /\ userSpeaking' = ~userSpeaking
  /\ Transition(User, IF userSpeaking THEN "userStopped" ELSE "userStarted")
  /\ UNCHANGED agentSpeaking

\* Audio is handed off while the agent is silent.
AgentStarts(who) ==
  /\ Ready(who) /\ ~agentSpeaking
  /\ agentSpeaking' = TRUE
  /\ Transition(who, "agentStarted")
  /\ UNCHANGED userSpeaking

\* Playback is stopped, or has come to its end.
AgentStops(who) ==
  /\ Ready(who) /\ agentSpeaking
  /\ agentSpeaking' = FALSE
  /\ Transition(who, "agentStopped")
  /\ UNCHANGED userSpeaking

Published(t) ==
  /\ unpublished' = unpublished \ {t}
  /\ UNCHANGED <<userSpeaking, agentSpeaking>>

FloorMoves ==
  \/ UserTurns
  \/ \E who \in Playback : AgentStarts(who) \/ AgentStops(who)

FloorNext == FloorMoves \/ \E t \in unpublished : Published(t)

FloorSpec == FloorInit /\ [][FloorNext]_floorVars
=============================================================================
