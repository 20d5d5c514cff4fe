SPECIFICATION FairCacheSpec
CONSTANTS
  g1 = g1
  g2 = g2
  new = new
  price = price
  status = status
  drop = drop
  Readers = {g1, g2}
  Writers = {new, price, status, drop}
  Op <- MCOp
  NoRow = NoRow
  Absent = Absent
  Unknown = Unknown
  MaxErrors = 1
INVARIANTS
  CacheTypeOK
  Coherent
  UpdatesKept
PROPERTIES
  EventuallyFresh
  EveryGetAnswers
CHECK_DEADLOCK FALSE
