------------------------- MODULE DeploymentContract -------------------------
(***************************************************************************)
(* What installation and rollback promise to an operator who runs one at a *)
(* time: the mod folders and the load order change only as a whole, when   *)
(* the receipt of the operation is written; a rollback brings back exactly *)
(* what the installation found; an operation that fails changes nothing.   *)
(* The promise ends when an operation dies or reports that it could not    *)
(* restore (broken).                                                       *)
(***************************************************************************)
CONSTANTS
  Tx, Mods, Originals, StartOrders, ModOf, Candidate, Absent,
  Listing(_, _),   \* a load order in which a mod gets its one entry
  ListsOnce(_, _)  \* whether a load order lists a mod exactly once

VARIABLES
  folders,   \* the mod folders an operator may rely on
  listed,    \* the load order an operator may rely on
  ledger,    \* ledger[t]: Absent, or what the installation of t found
  reverted,  \* transactions rolled back
  broken

contract == <<folders, listed, ledger, reverted, broken>>

Init ==
  /\ folders \in [Mods -> Originals \cup {Absent}]
  /\ listed \in StartOrders
  /\ ledger = [t \in Tx |-> Absent]
  /\ reverted = {}
  /\ broken = FALSE

\* t is installed in one step.
Install(t) ==
  /\ ledger[t] = Absent
  /\ ledger' = [ledger EXCEPT ![t] = [tree |-> folders[ModOf[t]], before |-> listed]]
  /\ folders' = [folders EXCEPT ![ModOf[t]] = Candidate[t]]
  /\ listed' = Listing(listed, ModOf[t])
  /\ ListsOnce(listed', ModOf[t])
  /\ UNCHANGED <<reverted, broken>>

\* t, installed and untouched since, is rolled back in one step, once.
Rollback(t) ==
  /\ ledger[t] # Absent
  /\ t \notin reverted
  /\ folders[ModOf[t]] = Candidate[t]
  /\ listed = Listing(ledger[t].before, ModOf[t])
  /\ folders' = [folders EXCEPT ![ModOf[t]] = ledger[t].tree]
  /\ listed' = ledger[t].before
  /\ reverted' = reverted \cup {t}
  /\ UNCHANGED <<ledger, broken>>

\* From here on nothing is promised.
Break == broken'

Next ==
  \/ ~broken /\ \E t \in Tx : Install(t) \/ Rollback(t)
  \/ Break

Spec == Init /\ [][Next]_contract
=============================================================================
