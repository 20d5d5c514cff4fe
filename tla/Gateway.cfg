CONSTANTS
  Instances = {i1, i2}
  Requests = {r1}
  Idle = Idle
  MaxFaults = 2
SPECIFICATION Spec
INVARIANTS FreshOnceTold
PROPERTIES PoolSettles HalfOpenEnds
CHECK_DEADLOCK FALSE
