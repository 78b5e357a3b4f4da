SPECIFICATION Spec
CONSTANTS
  Runners = {r1}
  Callers = {c1, c2, c3}
  Cancellers = {k1, k2}
  NoOne = NoOne
SYMMETRY Symmetry
INVARIANTS
  TypeOK
  NoLostFiber
  ExclusiveWork
  JoinableIsOpen
  WaitersAreServed
  InterruptedOnlyByCancel
