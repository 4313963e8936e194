CONSTANTS
  writer = writer
  reader = reader
  Kids <- MCKids
  ReadOnly <- MCReadOnly
  Capacity = 1
SPECIFICATION Spec
INVARIANT ParentWorkCharged
CHECK_DEADLOCK FALSE
