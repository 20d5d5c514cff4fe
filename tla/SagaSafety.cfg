SPECIFICATION Spec
CONSTANTS
  o1 = o1
  o2 = o2
  o3 = o3
  Orders = {o1, o2, o3}
  Quantity <- MCQuantity
  Total = 2
  MaxDup = 0
  MaxLoss = 1
  MaxConflict = 1
SYMMETRY MCSymmetry
INVARIANTS
  SagaInv
  StockConserved
  PaidIsCharged
  HeldIsCovered
  OversellCovered
  ResultSound
PROPERTIES
  StateMachine
  FlowSafe
CHECK_DEADLOCK FALSE
