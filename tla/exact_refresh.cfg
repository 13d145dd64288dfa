SPECIFICATION Spec
CONSTANTS
  p1 = p1
  p2 = p2
  k1 = k1
  r1 = r1
  Procs = {p1, p2}
  Providers = {"v"}
  Units = {1, 2}
  Files = {"manifest"}
  Contents = {c1, c2}
  Keys = {k1}
  Rows = {r1}
  Absent = Absent
  ProviderOf <- OneProvider
  Desired <- MCDesired
SYMMETRY Symmetry
CHECK_DEADLOCK FALSE
INVARIANTS TypeOK
PROPERTIES ReviewedInputs AtomicSwap
