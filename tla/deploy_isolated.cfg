SPECIFICATION Spec
CONSTANTS
  Procs = {p1}
  Tx <- ThreeTx
  Mods <- TwoMods
  Trees <- MCTrees
  Originals <- MCOriginals
  Orders <- TwoModOrders
  StartOrders <- TwoModStart
  ModOf <- OwnMod
  Candidate <- MCCandidate
  Absent = Absent
  Partial = Partial
  Isolated = TRUE
CHECK_DEADLOCK FALSE
INVARIANTS RecoveryCopyKept
PROPERTIES AllOrNothing
