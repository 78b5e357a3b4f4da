SPECIFICATION LiveSpec
CONSTANTS
  Notes = {1, 2, 3, 4}
  Time <- FourTimes
  MaxDrain = 2
  MaxInterrupts = 2
  MaxPrompts = 2
INVARIANT NothingLost
PROPERTY ImplementsDurableQueue
INVARIANT InOrder
PROPERTY FirstRowsAreDrained
CHECK_DEADLOCK FALSE
