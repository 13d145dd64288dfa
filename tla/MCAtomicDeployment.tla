------------------------- MODULE MCAtomicDeployment -------------------------
(***************************************************************************)
(* Instances of AtomicDeployment for TLC: two or three transactions over   *)
(* one or two mods.                                                        *)
(***************************************************************************)
EXTENDS AtomicDeployment, TLC

TwoTx == {1, 2}
ThreeTx == {1, 2, 3}
MCTrees == {"user", "new1", "new2"}
MCOriginals == {"user"}

\* Transactions 1 and 3 install the same candidate.
MCCandidate == [t \in Tx |-> IF t = 2 THEN "new2" ELSE "new1"]

OneMod == {"a"}
TwoMods == {"a", "b"}

\* All transactions on one folder, or transaction 2 on a folder of its own.
SameMod == [t \in Tx |-> "a"]
OwnMod == [t \in Tx |-> IF t = 2 THEN "b" ELSE "a"]

\* The start documents and what the code makes of them.
Reach(S) ==
  LET step(D) == D \cup {EnsureExactlyOneOrderEntry(o, m) : o \in D, m \in Mods}
  IN  step(step(S))

\* Mod "a" missing from the load order, or listed twice.
OneModStart == {<<>>, <<"a", "a">>}
OneModOrders == Reach(OneModStart)

\* Both mods missing, or "b" listed and "a" listed twice around it.
TwoModStart == {<<>>, <<"a", "b", "a">>}
TwoModOrders == Reach(TwoModStart)

ProcSymmetry == Permutations(Procs)
=============================================================================
