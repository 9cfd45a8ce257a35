SPECIFICATION FairEventLoopSpec
CONSTANTS
  r = r
  q = q
  u = u
  p = p
  n = n
  d1 = d1
  d2 = d2
  Cognition = cognition
  Nobody = nobody
  Submissions <- PairAndInterrupt
  Priority <- PriorityOf
  Items <- OneItemEach
  Uncompilable = {}
  Inadmissible = {}
  Deliberation = {}
  Drivers = {d1}
  Committers = {c1}
  MaxPending = 2
  Reserved = 0
  MaxAppends = 1
  MaxHolds = 1
INVARIANTS CommittedInOrder InterruptSparesItsOwnRun
PROPERTIES ImplementsDelivery EventuallyActed
CHECK_DEADLOCK FALSE
