SPECIFICATION LiveSpec
CONSTANTS
  a1 = a1
  Actors = {a1}
  MaxPre = 3
  MaxGate = 2
  MaxPost = 3
  MaxCrashes = 1
INVARIANT ActiveRowHasFiber
INVARIANT AwaitedIsSettled
PROPERTY OneVerdict
PROPERTY WaitHearsTheEnd
PROPERTY CallComesBack
CHECK_DEADLOCK FALSE
