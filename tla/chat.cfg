SPECIFICATION FairSpec
CONSTANTS
  Tabs = {t1}
  MaxReqs = 3
  MaxHit = 1
  Calls = {c1}
  Texts = {hi}
  NoText = NoText
  NoCall = NoCall
  t1 = t1
  c1 = c1
  hi = hi
INVARIANTS
  ExecutedOnce
  ExecutedIsOnRecord
  NoEcho
PROPERTIES
  RequestsEnd
CHECK_DEADLOCK FALSE
