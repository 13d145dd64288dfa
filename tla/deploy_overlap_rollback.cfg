SPECIFICATION Spec
CONSTANTS
  Procs = {p1, p2}
  Tx <- TwoTx
  Mods <- OneMod
  Trees <- MCTrees
  Originals <- MCOriginals
  Orders <- OneModOrders
  StartOrders <- OneModStart
  ModOf <- SameMod
  Candidate <- MCCandidate
  Absent = Absent
  Partial = Partial
  Isolated = FALSE
SYMMETRY ProcSymmetry
CHECK_DEADLOCK FALSE
INVARIANT RecoveryCopyKept
