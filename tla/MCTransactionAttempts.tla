----------------------- MODULE MCTransactionAttempts -----------------------
(***************************************************************************)
(* Instances of TransactionAttempts for TLC: helpers that take turns over  *)
(* artifacts of two contents, helpers that overlap with two inputs, or one *)
(* helper alone; one middle phase, two attempts.                           *)
(***************************************************************************)
EXTENDS TransactionAttempts, TLC

OneMiddle == {20}

TakingTurns == [isolated : {TRUE}, inputs : {{i} : i \in Inputs}, bytes : {Bytes}]
Overlapping == [isolated |-> FALSE, inputs |-> Inputs, bytes |-> {}]
TurnsOrOverlap == TakingTurns \cup {Overlapping}
OnlyTurns == {[isolated |-> TRUE, inputs |-> Inputs, bytes |-> Bytes]}

\* Helpers, inputs and artifact contents are interchangeable.
Symmetry == Permutations(Procs) \cup Permutations(Inputs) \cup Permutations(Bytes)
=============================================================================
