CONSTANTS
  writer = writer
  reader = reader
  Kids <- MCKids
  ReadOnly <- MCReadOnly
  Capacity = 1
  MaxTurns = 2
  Plans <- MCPlans
SPECIFICATION MCSpec
CHECK_DEADLOCK FALSE
INVARIANTS
  ChildWorkCharged
  NothingLeftBehind
  OwnAnswer
  EndIsSeen
PROPERTIES
  WorkStops
