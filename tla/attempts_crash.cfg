SPECIFICATION Spec
CONSTANTS
  Procs = {p1}
  Scopes <- OnlyTurns
  Inputs = {i1, i2}
  Middle <- OneMiddle
  Bytes = {b1}
  MaxAttempts = 2
  MaxLitter = 1
  Absent = Absent
  Torn = Torn
CHECK_DEADLOCK FALSE
INVARIANT Resumable
