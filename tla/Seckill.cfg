SPECIFICATION FairSpec
CONSTANTS
  u1 = u1
  u2 = u2
  a1 = a1
  a2 = a2
  a3 = a3
  b1 = b1
  Users = {u1, u2}
  Requests = {a1, a2, a3, b1}
  Owner <- MCOwner
  Want <- MCWant
  None = None
  RedisStock = 2
  MaxFault = 1
  MaxExcess = 1
INVARIANTS
  TypeOK
  StockBalanced
  NeverOverAdmitted
  OneAtATime
PROPERTY
  NotLockedOut
CHECK_DEADLOCK FALSE
