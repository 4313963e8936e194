CONSTANTS
  api = api
  ui = ui
  N = 3
  DependsOn <- MCDependsOn
  WorkerOf <- MCWorkerOf
  MaxForeign = 1
  MaxCrashes = 1
  s1 = s1
  s2 = s2
  Callers = {s1, s2}
  HasGemini = TRUE
  MaxDepth = 6
SPECIFICATION MCSpec
CHECK_DEADLOCK FALSE
INVARIANTS
  LaunchedOnce
  MergesOnRecord
  CompletedIsVerified
  OneReplacement
  OneInside
PROPERTIES
  EndIsFinal
  NoWorkAfterAnswer
  WorkEnds
