SPECIFICATION LiveSpec
CONSTANTS
  t1 = t1
  t2 = t2
  l1 = l1
  b1 = b1
  s1 = s1
  s2 = s2
  p1 = p1
  p2 = p2
  Asks <- MCAsks
  Patterns <- MCPatterns
  SessionOf <- MCSessionOf
  KindOf <- MCKindOf
  RulesetOf <- MCRulesetOf
  MaxDisposals = 1
INVARIANT PendingIsWaiting
INVARIANT DenyWins
PROPERTY OneGrantByHand
PROPERTY CancelledAskReturns
CHECK_DEADLOCK FALSE
