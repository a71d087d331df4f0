SPECIFICATION FairSpec
CONSTANTS
  Runs = {r1}
  Conns = {w1, w2, w3, w4}
  Reconnects = {w1, w4}
  WorkerId <- MCWorkerId
  WorkerCount = 2
  Online = {w1, w2, w3}
  Ageing = {r1}
  MaxRestarts = 1
  DbMayFail = TRUE
  NoConn = NoConn
  r1 = r1
  w1 = w1
  w2 = w2
  w3 = w3
  w4 = w4
INVARIANTS
  CounterAgrees
PROPERTIES
  OutcomeFinal
  ImplementsContract
  PassedHasNoFailure
  EveryRunEnds
CHECK_DEADLOCK FALSE
