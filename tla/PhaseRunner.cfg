SPECIFICATION FairSpec
CONSTANTS
  Pipelines <- MCPipelines
  Reasons <- MCReasons
  Codes = {"stalled"}
  Rewinders = {1, 2}
  MaxMishaps = 1
  Length = 5
  Attempts = 3
  Grants = 1
INVARIANTS
  TailIsFresh
  ChargedOnce
  VerdictIsBacked
PROPERTIES
  KeepsPromise
  RunEnds
CHECK_DEADLOCK FALSE
