CONSTANTS
  N = 4
  Type <- MCType
  Expected <- MCExpected
  p1 = p1
  p2 = p2
  Publishers <- MCPublishers
  Writes <- MCWrites
  Self = Self
  Mortal <- MCMortal
  Kinds = {"batch", "managed"}
  MaxStarts = 2
SPECIFICATION FairSpec
CHECK_DEADLOCK FALSE
PROPERTIES
  ExitLeavesNothing
  ShutdownAnswers
  KeepsContract
  Served
