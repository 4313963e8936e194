CONSTANTS
  p1 = p1
  p2 = p2
  p3 = p3
  a = a
  b = b
  old = old
  new = new
  run = run
  None = None
  Procs = {p1, p2, p3}
  Stories = {a, b}
  Requires <- MCRequires
  TextOf <- MCTextOf
  Scenes <- MCScenes
SPECIFICATION StoreFairSpec
CHECK_DEADLOCK FALSE
PROPERTIES
  KeepsPair
  PlanSettles
