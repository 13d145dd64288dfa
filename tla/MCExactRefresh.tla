--------------------------- MODULE MCExactRefresh ---------------------------
(***************************************************************************)
(* The instance of ExactRefresh for TLC: two processes and two requests    *)
(* over one provider of one file and one record key.                       *)
(***************************************************************************)
EXTENDS ExactRefresh, TLC

CONSTANTS p1, p2, k1, r1

OneProvider == [u \in Units |-> "v"]

\* The first request removes the record, the second wants it.
MCDesired == [u \in Units |-> [k \in Keys |-> IF u = 1 THEN Absent ELSE r1]]

Symmetry == Permutations(Contents) \cup Permutations(Procs)
=============================================================================
