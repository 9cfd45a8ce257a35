SPECIFICATION FairSupervisorSpec
CONSTANTS
  w1 = w1
  w2 = w2
  NNodes = 2
  Workers = {w1, w2}
  NodeOf <- Owners
  MaxEffects <- Effects
  Closers = {c1}
INVARIANTS UnwoundInReverse NothingRunsOnDisposed FailureReported
PROPERTY AlwaysUnwinds
CHECK_DEADLOCK FALSE
