SPECIFICATION FairSpec
CONSTANTS
  Runners = {r1}
  Callers = {c1, c2}
  Cancellers = {k1}
  NoOne = NoOne
INVARIANTS
  NoLostFiber
  ExclusiveWork
  WaitersAreServed
  InterruptedOnlyByCancel
PROPERTIES
  ImplementsSingleFlight
  CallsReturn
  CancelReturns
  CancelReleases
