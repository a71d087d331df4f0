SPECIFICATION Spec
CONSTANTS
  PlanRuns = {p1}
  DebugRuns = {d1}
  NumItems = 2
  Limit = 1
  SerialTx = FALSE
  DispatchMayFail = TRUE
  MaxRestarts = 0
  NoRun = NoRun
  p1 = p1
  d1 = d1
INVARIANTS
  QuotaRespected
PROPERTIES
  AnnouncedOutcomeFinal
CHECK_DEADLOCK FALSE
