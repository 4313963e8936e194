CONSTANTS
  Procs = {p1, p2, p3}
  MaxAttempts = 1
  Masked = {p2}
  Patient = {p3}
SPECIFICATION FairSpec
CHECK_DEADLOCK FALSE
INVARIANTS
  MutexUnlessMisjudged
  NoLostUpdate
PROPERTIES
  AttemptEnds
  DeadHolderIsReplaced
