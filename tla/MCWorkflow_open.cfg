SPECIFICATION Spec
CONSTANTS
  r1 = r1
  r2 = r2
  Resumers <- MCResumers
  NumCalls = 1
  MaxLaunches = 3
  MaxAgents = 1
  MaxEdits = 1
  MaxCancels = 1
  MaxCrashes = 2
  MaxTorn = 0
\* Four promises the code does not keep: TLC stops at the first, so check one
\* at a time.
INVARIANT ReplayIsOfThisScript
\* INVARIANT ToldIsRecorded
\* INVARIANT RowSaysRunning
\* INVARIANT RunningHasAFiber
CHECK_DEADLOCK FALSE
