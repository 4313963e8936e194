CONSTANTS
  Procs = {"p", "q"}
  Locks <- MCLocks
  MaxRuns = 2
  MaxRequests = 2
  Plans <- MCPlans
  Lossy = {"athena"}
  s1 = s1
  t1 = t1
  t2 = t2
  Base = Base
  None = None
  Hosts = {"p", "q"}
  Stories = {s1}
  Trees = {t1, t2}
  Scenes <- MCScenes
SPECIFICATION MCSpec
CHECK_DEADLOCK FALSE
INVARIANTS
  RequestsSurvive
PROPERTIES
  KeepsRegistry
  ClosedIsPutAway
  KeepsReview
  ReviewEnds
