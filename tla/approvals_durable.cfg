SPECIFICATION Spec
CONSTANTS
  h1 = h1
  h2 = h2
  c1 = c1
  c2 = c2
  c3 = c3
  Helpers = {h1, h2}
  Callers = {c1, c2, c3}
  HelperOf <- MCHelperOf
  Approvals = {a1}
  Contents = {x, y}
  Absent = Absent
  MaxTime = 2
  MaxAge = 1
  Durable = TRUE
  MayRestart = TRUE
SYMMETRY Symmetry
INVARIANTS TypeOK OneTime ClosedSinceDecision
