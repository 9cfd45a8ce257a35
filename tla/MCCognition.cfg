SPECIFICATION CognitionSpec
CONSTANTS
  Driver = driver
  Runners = {driver, live}
  CallNames = {c}
  Texts = {t1, t2}
  Phases = {"fast", "slow"}
  Partials = {2}
  MaxRev = 2
  MaxInv = 2
  MaxReports = 2
  NoText = none
INVARIANTS ToolHistorySound  AnswersTheEvidence
PROPERTY DischargedIsCorrected
CHECK_DEADLOCK FALSE
SYMMETRY Renamings
