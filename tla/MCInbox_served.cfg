SPECIFICATION LiveSpec
CONSTANTS
  Notes = {1, 2, 3}
  Time <- ThreeTimes
  MaxDrain = 2
  MaxInterrupts = 0
  MaxPrompts = 2
PROPERTY RowIsServed
CHECK_DEADLOCK FALSE
