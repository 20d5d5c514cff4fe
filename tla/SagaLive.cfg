SPECIFICATION FairSpec
CONSTANTS
  o1 = o1
  o2 = o2
  o3 = o3
  Orders = {o2}
  Quantity <- MCQuantity
  Total = 3
  MaxDup = 2
  MaxLoss = 0
  MaxConflict = 0
INVARIANTS
  ChargedPerCopy
PROPERTIES
  Settles
  ResultAgrees
CHECK_DEADLOCK FALSE
