CONSTANTS
  Procs = {p1, p2, p3, p4}
  MaxAttempts = 1
  Masked = {}
  Patient = {p1, p2, p3, p4}
SPECIFICATION LockSpec
SYMMETRY Symmetry
CHECK_DEADLOCK FALSE
INVARIANTS
  MutualExclusion
