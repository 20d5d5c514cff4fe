SPECIFICATION Spec
CONSTANTS
  o1 = o1
  o2 = o2
  o3 = o3
  Orders = {o1, o2, o3}
  Quantity <- MCQuantity
  Total = 2
  MaxDup = 0
  MaxLoss = 0
  MaxConflict = 0
INVARIANTS
  NoOversell
CHECK_DEADLOCK FALSE
