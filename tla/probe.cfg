SPECIFICATION HubFairSpec
CONSTANTS
  SessionIds = {s1, s2}
  Workers = {w1}
  Calls = {c1, c2}
  MaxPerTenant = 2
  MaxPerWorker = 1
  MaxOwed = 2
  Sweeper = Sweeper
  None = None
  s1 = s1
  s2 = s2
  w1 = w1
  c1 = c1
  c2 = c2
INVARIANTS
  WorkerLimit
  NoPendingLeak
PROPERTIES
  EverySessionEnds
CHECK_DEADLOCK FALSE
