SPECIFICATION Spec
CONSTANTS
  Tasks = {t1, t2, t3}
  Runs = {r1, r2}
  Watched = {w1}
  w1 = w1
  Cancellable = {r1}
  RunOf <- MCRunOf
  Workers = {w1, w2}
  MaxConcurrency = 1
  Capacity = 2
  NoSet = NoSet
  NoWorker = NoWorker
  t1 = t1
  t2 = t2
  t3 = t3
  r1 = r1
  r2 = r2
SYMMETRY DispatchSymmetry
INVARIANTS
  TypeOK
  NothingLeft
  CancelsOnlyUnfinished
  CancelFollowsTask
CHECK_DEADLOCK FALSE
