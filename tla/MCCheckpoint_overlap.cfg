SPECIFICATION Spec
CONSTANTS
  b1 = b1
  b2 = b2
  b3 = b3
  r1 = r1
  none = none
  Batches = {b1, b2}
  Redrives = {r1}
  None = none
  Top = 2
  MaxFailures = 2
  MaxMessages = 3
  MaxRebuilds = 0
  MaxCrashes = 0
INVARIANT OneWriter
CHECK_DEADLOCK FALSE
