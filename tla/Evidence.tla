------------------------------ MODULE Evidence ------------------------------
(***************************************************************************)
(* Much of the toolchain decides on evidence that a caller brings: gates,  *)
(* audits, validators.  The modules of such decisions share one variable:  *)
(* a record of what the evidence says, whose field "topic" names the       *)
(* decision.  A behaviour starts with evidence that is in order and goes   *)
(* on with one defect or change after another; what must hold is said of   *)
(* the decision that the code takes in each of its states.                 *)
(***************************************************************************)
EXTENDS Naturals, FiniteSets

VARIABLE facts

About(topic) == facts.topic = topic

\* No decision is under way.
Unasked == [topic |-> "none"]

\* One more of the defects in the field `flaws`, up to a bound.
GetsWorse(topic, defects, bound) ==
  /\ About(topic)
  /\ Cardinality(facts.flaws) < bound
  /\ \E d \in defects \ facts.flaws : facts' = [facts EXCEPT !.flaws = @ \cup {d}]
=============================================================================
