SPECIFICATION FairSpec
CONSTANTS
  PlanRuns = {p1}
  DebugRuns = {d1}
  NumItems = 2
  Limit = 0
  SerialTx = TRUE
  DispatchMayFail = TRUE
  MaxRestarts = 1
  NoRun = NoRun
  p1 = p1
  d1 = d1
INVARIANTS
  LastReportEndsRun
PROPERTIES
  ImplementsContract
  ReportedVerdictFinal
  PassedOnlyIfAllPassed
  EveryRunEnds
CHECK_DEADLOCK FALSE
