SPECIFICATION RSpec
CONSTANTS
  Runners = {r1, r2}
  Callers = {c1, c2}
  Cancellers = {k1, k2}
  Agents = {main, sub}
  Editors = {e1}
  Main = main
  NoOne = NoOne
SYMMETRY RSymmetry
INVARIANTS
  RTypeOK
  RestLeavesNothing
  BusyIsOwed
PROPERTIES
  OverlooksOnlyDisowned
