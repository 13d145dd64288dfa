------------------------- MODULE MCPluginDeployment -------------------------
(***************************************************************************)
(* Instances of PluginDeployment for TLC: one process with one plugin and  *)
(* three transactions, or two processes with a plugin each; and one        *)
(* process with two plugins.                                               *)
(***************************************************************************)
EXTENDS PluginDeployment, TLC

CONSTANTS p1, p2, build, probes, t1, t2, t3

Alone == [p \in Procs |-> IF p = p1 THEN Tx \X {build} ELSE {}]
Apiece == [p \in Procs |-> {t1, t2} \X (IF p = p1 THEN {build} ELSE {probes})]
AloneOrApiece == {Alone, Apiece}
OnBoth == {[p \in Procs |-> Tx \X Plugins]}

Symmetry == Permutations(Trees) \cup Permutations({t1, t2})
=============================================================================
