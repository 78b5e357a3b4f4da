SPECIFICATION Spec
CONSTANTS
  a1 = a1
  Actors = {a1}
  MaxPre = 3
  MaxGate = 2
  MaxPost = 3
  MaxCrashes = 0
\* Four promises the code does not keep: TLC stops at the first, so check one
\* at a time.
PROPERTY CancelSticks
\* INVARIANT OutcomeReached
\* INVARIANT PostStopIsForgotten
\* INVARIANT PostStopIsContained
CHECK_DEADLOCK FALSE
