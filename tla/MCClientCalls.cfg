SPECIFICATION FairClientCallsSpec
CONSTANTS
  split = split
  remote = remote
  l = l
  m = m
  n = n
  o = o
  Invocations = {split, remote}
  Calls <- Both
  Local = {l}
  Timed = TRUE
  MaxFailures = 1
INVARIANTS BatchCommittedOnce BatchIsComplete
PROPERTIES AnswersAreKept InvocationSettles
CHECK_DEADLOCK FALSE
