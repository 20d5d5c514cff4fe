SPECIFICATION Spec
CONSTANTS
  Names = {n1, n2}
  Emails = {e1, e2, e3}
  Requests = {r1, r2, r3, r4}
  None = None
  Omitted = Omitted
SYMMETRY MCSymmetry
INVARIANTS
  AccountKept
  EmailKeptUnlessReverted
  ConflictIsReal
CHECK_DEADLOCK FALSE
