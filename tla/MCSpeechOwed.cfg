SPECIFICATION SpeechSpec
CONSTANTS
  a = a
  c = c
  x = x
  y = y
  None = none
  Ids = {a}
  CallIds = {}
  NoCall = nocall
  Revisions = {1}
  MaxMS = 1
  MaxFrames = 1
  MaxObligations = 3
  Superseded = {a}
  Cancellers = {y}
  CancelKinds <- MatchOnly
  QueueDepth = 1
INVARIANT SupersededIsStoppedOrOwed
CHECK_DEADLOCK FALSE
