SPECIFICATION Spec
CONSTANTS
  Runs = {r1, r2, r3}
  Conns = {w1, w2}
  Reconnects = {w1, w2}
  WorkerId <- MCWorkerId
  WorkerCount = 1
  Online = {w1}
  Ageing = {}
  MaxRestarts = 1
  DbMayFail = TRUE
  NoConn = NoConn
  r1 = r1
  r2 = r2
  r3 = r3
  w1 = w1
  w2 = w2
SYMMETRY StressSymmetry
INVARIANTS
  ExclusiveWorker
  ReservationHasHolder
CHECK_DEADLOCK FALSE
