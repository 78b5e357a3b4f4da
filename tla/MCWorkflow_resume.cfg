SPECIFICATION LiveSpec
CONSTANTS
  r1 = r1
  r2 = r2
  Resumers <- MCResumers
  NumCalls = 1
  MaxLaunches = 3
  MaxAgents = 1
  MaxEdits = 0
  MaxCancels = 1
  MaxCrashes = 0
  MaxTorn = 0
INVARIANT RunningIsCurrent
PROPERTY RunSettles
CHECK_DEADLOCK FALSE
