SPECIFICATION FairRouterSpec
CONSTANTS
  Senders = {s1}
  Receivers = {r1}
  Impatient = {s1}
  NLanes = 2
  LossyLanes = {1}
  Depth = 1
  MaxGen = 2
  MaxItems = 2
  MaxReplace = 1
INVARIANTS DeliveredOnce ConservedAcrossCutover
PROPERTIES OperationsReturn TerminalOutputDrains
CHECK_DEADLOCK FALSE
