SPECIFICATION FairSpec
CONSTANTS
  u1 = u1
  u2 = u2
  u3 = u3
  n1 = n1
  n2 = n2
  n3 = n3
  x1 = x1
  x2 = x2
  x3 = x3
  Users = {u1, u2, u3}
  Buyers = {u1}
  Creates = {n1, n2, n3}
  Cancels = {x1, x2, x3}
  Owner <- MCOwner
  Target <- MCTarget
  Quantity <- MCQuantity
  Total = 2
  None = None
  MaxFault = 1
INVARIANTS
  TypeOK
  StockHeld
  KeyExplained
PROPERTY
  EveryRequestEnds
CHECK_DEADLOCK FALSE
