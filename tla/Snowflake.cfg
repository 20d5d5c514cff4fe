SPECIFICATION Spec
CONSTANTS
  p1 = p1
  p2 = p2
  Processes = {p1, p2}
  NodeId <- MCNodeId
  NodeCount = 2
  SeqCount = 2
  MaxClock = 3
  MaxIssued = 5
INVARIANTS
  UniqueUnlessSetBack
CHECK_DEADLOCK FALSE
