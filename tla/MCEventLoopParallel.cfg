SPECIFICATION EventLoopSpec
CONSTANTS
  r = r
  q = q
  u = u
  p = p
  n = n
  d1 = d1
  d2 = d2
  Cognition = cognition
  Nobody = nobody
  Submissions <- WithParallelAndBad
  Priority <- PriorityOf
  Items <- ItemsOfEach
  Uncompilable = {}
  Inadmissible = {n}
  Deliberation = {}
  Drivers = {d1, d2}
  Committers = {}
  MaxPending = 4
  Reserved = 1
  MaxAppends = 0
  MaxHolds = 0
INVARIANTS NothingLost OneActiveRun
PROPERTIES LossFollowsABadEvent
SYMMETRY Interchangeable
CHECK_DEADLOCK FALSE
