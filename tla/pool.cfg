SPECIFICATION FairSpec
CONSTANTS
  Conns = {c1, c2, c3, c4}
  Ids = {i1, i2, i3}
  IdOf <- MCIdOf
  Slots = 2
  NoConn = NoConn
  c1 = c1
  c2 = c2
  c3 = c3
  c4 = c4
  i1 = i1
  i2 = i2
  i3 = i3
INVARIANTS
  LiveConnIsPooled
  SlotsRespected
PROPERTIES
  ClosedIsLetGo
  HungLeavesPool
  ImplementsPresence
CHECK_DEADLOCK FALSE
