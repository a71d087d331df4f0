SPECIFICATION Spec
CONSTANTS
  Requests = {r1, r2}
  Apis = {a1}
  Indexes <- Places
  MaxId = 3
  MaxOrder = 2
  MaxRequests = 6
  None = None
SYMMETRY TreeSymmetry
PROPERTIES
  PathsFollowParents
  DeletesTheSubtree
  InsertionKeepsNumbering
CHECK_DEADLOCK FALSE
