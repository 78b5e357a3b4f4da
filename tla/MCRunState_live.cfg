SPECIFICATION RLiveSpec
CONSTANTS
  Runners = {r1, r2}
  Callers = {c1, c2}
  Cancellers = {k1}
  Agents = {main}
  Editors = {e1}
  Main = main
  NoOne = NoOne
INVARIANTS
  RestLeavesNothing
PROPERTIES
  OverlooksOnlyDisowned
  BusyEnds
