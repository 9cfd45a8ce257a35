SPECIFICATION ToolsSpec
CONSTANTS
  l = l
  r = r
  p = p
  l1 = l1
  l2 = l2
  r1 = r1
  r2 = r2
  p1 = p1
  Ids = {l, r, p, s}
  CallIds = {l, r, p}
  NoCall = nocall
  Revisions = {1}
  MaxMS = 1
  MaxObligations = 2
  Attempts = {l1, l2, r1, r2, p1}
  CallOf <- Targets
  Remote = {r}
  Authoritative = {l, r}
  NeedsConfirm = {l}
INVARIANTS ObligationsSound EffectAtMostOnce EffectIsAuthorized
PROPERTY ImplementsBoundary
CHECK_DEADLOCK FALSE
