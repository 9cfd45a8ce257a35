SPECIFICATION FairGovernorSpec
CONSTANTS
  bg = bg
  spec = spec
  inter = inter
  urgent = urgent
  Requests = {bg, spec, inter, urgent}
  Class <- Classes
  Cost <- Costs
  Preemptible = {bg, spec, inter}
  Deadline <- Deadlines
  Capacity = 3
  ReservedInteractive = 1
  MaxTime = 2
INVARIANTS CapacityRespected LeaseIsOwned WorkConserving
PROPERTY UrgentIsServed
CHECK_DEADLOCK FALSE
