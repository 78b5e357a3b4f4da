SPECIFICATION Spec
CONSTANTS
  r1 = r1
  r2 = r2
  Resumers = {r1}
  NumCalls = 2
  MaxLaunches = 3
  MaxAgents = 1
  MaxEdits = 2
  MaxCancels = 1
  MaxCrashes = 1
  MaxTorn = 1
PROPERTY ReplayMissesTornOnly
CHECK_DEADLOCK FALSE
