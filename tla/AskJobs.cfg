CONSTANTS
  MaxCommands = 2
  MaxMishaps = 1
SPECIFICATION FairSpec
CHECK_DEADLOCK FALSE
INVARIANTS
  OneVerdict
  FailureIsTrue
  AnswerSurvives
  AdapterReachable
PROPERTIES
  JobEnds
