CONSTANTS
  c1 = c1 c2 = c2 c3 = c3 r1 = r1 r2 = r2
  claude = claude codex = codex
  Tools = {c1, c2, c3}
  Runs = {r1}
  Providers = {claude, codex}
  ProviderOf <- MCProviderOf
  ProviderLimit <- MCProviderLimit
  GlobalLimit = 2
  StaleAge = 2
  LaunchTime = 1
  MaxTime = 5
  MaxCorruptions = 0
  StopEvents = TRUE
SPECIFICATION Spec
CHECK_DEADLOCK FALSE
INVARIANTS
  WorkWithinLimits
