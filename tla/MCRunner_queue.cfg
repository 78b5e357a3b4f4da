SPECIFICATION Spec
CONSTANTS
  Runners = {r1}
  Callers = {c1, c2}
  Cancellers = {k1}
  NoOne = NoOne
INVARIANTS
  QueuedWorkIsDone
