SPECIFICATION Spec
CONSTANTS
  Procs = {p1, p2}
  Scopes <- TurnsOrOverlap
  Inputs = {i1, i2}
  Middle <- OneMiddle
  Bytes = {b1, b2}
  MaxAttempts = 2
  MaxLitter = 1
  Absent = Absent
  Torn = Torn
SYMMETRY Symmetry
CHECK_DEADLOCK FALSE
INVARIANTS TypeOK ChainsHold SupersededFailed OneInput
PROPERTIES AppendOnly
