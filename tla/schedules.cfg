SPECIFICATION FairSpec
CONSTANTS
  Schedules = {s1}
  Plans = {p1}
  Exprs = {e1, bad}
  Invalid = {bad}
  Requests = {r1, r2}
  Jobs = {j1}
  Main = Main
  Policies = {1}
  MaxRunning = 1
  MaxRestarts = 1
  None = None
  Gone = Gone
INVARIANTS
  EntriesAgree
  MissedAreMadeUp
PROPERTIES
  KeepsRunning
CHECK_DEADLOCK FALSE
