SPECIFICATION FairSpeechSpec
CONSTANTS
  a = a
  c = c
  x = x
  y = y
  None = none
  Ids = {a, c}
  CallIds = {}
  NoCall = nocall
  Revisions = {1}
  MaxMS = 1
  MaxFrames = 1
  MaxObligations = 3
  Superseded = {a}
  Cancellers = {x, y}
  CancelKinds <- StopAndMatch
  QueueDepth = 1
INVARIANTS CancelledNeverHeard ReservationDischargedOnce
PROPERTY AcceptedIsSettled
CHECK_DEADLOCK FALSE
