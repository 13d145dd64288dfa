SPECIFICATION Spec
CONSTANTS
  p1 = p1
  p2 = p2
  build = build
  probes = probes
  t1 = t1
  t2 = t2
  t3 = t3
  Procs = {p1}
  Plugins = {build, probes}
  Works <- OnBoth
  Tx = {t1, t2, t3}
  Trees = {v1, v2}
  Absent = Absent
  Torn = Torn
  MaxFaults = 0
SYMMETRY Symmetry
INVARIANT ReceiptRestorable
CHECK_DEADLOCK FALSE
