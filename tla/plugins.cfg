SPECIFICATION Spec
CONSTANTS
  p1 = p1
  p2 = p2
  build = build
  probes = probes
  t1 = t1
  t2 = t2
  t3 = t3
  Procs = {p1, p2}
  Plugins = {build, probes}
  Works <- AloneOrApiece
  Tx = {t1, t2, t3}
  Trees = {v1, v2}
  Absent = Absent
  Torn = Torn
  MaxFaults = 1
SYMMETRY Symmetry
INVARIANTS TypeOK BackupsMatch CatalogAgrees PriorKept InstalledKept
CHECK_DEADLOCK FALSE
