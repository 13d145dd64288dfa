---------------------------- MODULE AttemptLedger ----------------------------
(***************************************************************************)
(* What transaction attempts promise: an append-only ledger.  An entry is  *)
(* an attempt, bound to one input, and the phases it went through; only    *)
(* the last attempt grows, a new one starts only after a failure, and the  *)
(* artifacts an attempt lists never contradict one another.                *)
(***************************************************************************)
EXTENDS Integers, Sequences

CONSTANTS Inputs, Middle, Bytes, MaxAttempts, Absent

VARIABLE ledger

CREATED == 0
VERIFIED == 70
FAILED == 999

\* The attempt at the end of the ledger, and the phase it is in.
Last == ledger[Len(ledger)]
Phase == Last.chain[Len(Last.chain)].phase

Init == ledger = <<>>

\* Nothing yet, or the last attempt failed: a new attempt for any input.
Start(input) ==
  /\ Len(ledger) < MaxAttempts
  /\ ledger = <<>> \/ Phase = FAILED
  /\ ledger' = Append(ledger,
       [input |-> input, chain |-> <<[phase |-> CREATED, artifact |-> Absent]>>])

\* The last attempt moves to a later phase; an artifact it lists has the
\* bytes of every artifact it listed before.
Advance(phase, artifact) ==
  /\ ledger # <<>>
  /\ Phase \notin {VERIFIED, FAILED}
  /\ phase > Phase
  /\ artifact # Absent =>
       \A i \in 1..Len(Last.chain) : Last.chain[i].artifact \in {Absent, artifact}
  /\ ledger' = [ledger EXCEPT ![Len(ledger)].chain =
       Append(@, [phase |-> phase, artifact |-> artifact])]

Next ==
  \/ \E input \in Inputs : Start(input)
  \/ \E phase \in Middle \cup {VERIFIED, FAILED}, artifact \in Bytes \cup {Absent} :
       Advance(phase, artifact)

Spec == Init /\ [][Next]_ledger
=============================================================================
