---------------------------- MODULE MCApprovals ----------------------------
(***************************************************************************)
(* Instances of Approvals for TLC: two threads of one helper, with or      *)
(* without a third caller in another helper.                               *)
(***************************************************************************)
EXTENDS Approvals, TLC

CONSTANTS h1, h2, c1, c2, c3

\* c1 and c2 are threads of h1, c3 is a thread of h2.
MCHelperOf == [c \in Callers |-> IF c = c3 THEN h2 ELSE h1]

Symmetry == Permutations({c1, c2}) \cup Permutations(Contents)
=============================================================================
