SPECIFICATION FairSpec
CONSTANTS
  Tasks = {t1, t2}
  MaxConcurrency = 1
  OutboxMax = 3
  MaxSessions = 3
  NoTask = NoTask
  t1 = t1
  t2 = t2
INVARIANTS
  PermitsAccounted
  CancellableOrCancelled
PROPERTIES
  ResultSurvivesCancel
  EveryTaskEnds
CHECK_DEADLOCK FALSE
