SPECIFICATION FairDuplexSpec
CONSTANTS
  User = user
  Speaker = speaker
  Canceller = canceller
  Durations = {1, 2}
  MaxAhead = 2
  MaxStale = 1
  MaxTimers = 3
PROPERTIES NeverCutShort ImplementsFloor AgentFallsSilent
