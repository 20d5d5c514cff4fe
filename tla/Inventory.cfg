SPECIFICATION Spec
CONSTANTS
  d1 = d1
  d2 = d2
  r1 = r1
  c1 = c1
  s1 = s1
  s2 = s2
  Calls = {d1, d2, r1, c1, s1, s2}
  Kind <- MCKind
  Amount <- MCAmount
  Initials = {0, 3}
  maxDeductRetries = 3
INVARIANTS
  LockedAccountedUnlessClobbered
  RefusedOnlyUnderContention
  RowAddsUpUnlessClobbered
CHECK_DEADLOCK FALSE
