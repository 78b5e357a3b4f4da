SPECIFICATION Spec
CONSTANTS
  r1 = r1
  r2 = r2
  Resumers <- MCResumers
  NumCalls = 2
  MaxLaunches = 3
  MaxAgents = 1
  MaxEdits = 0
  MaxCancels = 1
  MaxCrashes = 2
  MaxTorn = 1
\* Two promises the code does not keep: TLC stops at the first, so check one
\* at a time.
PROPERTY ReplayIsComplete
\* PROPERTY EndStopsTheWork
CHECK_DEADLOCK FALSE
