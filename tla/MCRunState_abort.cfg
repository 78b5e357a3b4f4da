SPECIFICATION UnpreemptedSpec
CONSTANTS
  Runners = {r1, r2, r3}
  Callers = {c1, c2, c3}
  Cancellers = {k1, k2}
  Agents = {main}
  Editors = {}
  Main = main
  NoOne = NoOne
SYMMETRY RSymmetry
PROPERTIES
  AbortReachesLoop
