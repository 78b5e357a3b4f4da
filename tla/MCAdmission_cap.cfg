SPECIFICATION LiveSpec
CONSTANTS
  t1 = t1
  t2 = t2
  t3 = t3
  Threads = {t1, t2, t3}
  Ranks = {0, 1}
  Limit = 1
  MaxTickets = 4
  MaxDepth = 2
INVARIANT CapHolds
PROPERTY InTurn
PROPERTY EveryCallerProceeds
PROPERTY TimeoutFreesCaller
CHECK_DEADLOCK FALSE
