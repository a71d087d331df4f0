SPECIFICATION Spec
CONSTANTS
  PlanRuns = {p1}
  DebugRuns = {}
  NumItems = 2
  Limit = 0
  SerialTx = TRUE
  DispatchMayFail = FALSE
  MaxRestarts = 0
  NoRun = NoRun
  p1 = p1
INVARIANTS
  PassedRunHasNoFailedCase
CHECK_DEADLOCK FALSE
