--------------------------- MODULE RefreshContract ---------------------------
(***************************************************************************)
(* What the exact refresh of the Index promises: the rows of a provider    *)
(* change only by a swap of the rows a dry run has shown for the rows it   *)
(* has announced, or by the swap back; neither happens to other rows than  *)
(* those.  Plans and journals may be forgotten at any time.                *)
(***************************************************************************)
CONSTANTS Providers, Tables

Swaps == [provider : Providers, before : Tables, after : Tables]

VARIABLES
  table,    \* the rows of each provider
  shown,    \* the swaps dry runs have shown
  done      \* the swaps that were made and may be taken back

cvars == <<table, shown, done>>

Init ==
  /\ table \in [Providers -> Tables]
  /\ shown = {}
  /\ done = {}

Forget ==
  /\ shown' \subseteq shown
  /\ done' \subseteq done
  /\ UNCHANGED table

Show(s) ==
  /\ table[s.provider] = s.before
  /\ shown' \subseteq shown \cup {s}
  /\ UNCHANGED <<table, done>>

Swap(s) ==
  /\ s \in shown
  /\ table[s.provider] = s.before
  /\ table' = [table EXCEPT ![s.provider] = s.after]
  /\ done' \subseteq done \cup {s}
  /\ UNCHANGED shown

Undo(s) ==
  /\ s \in done
  /\ table[s.provider] = s.after
  /\ table' = [table EXCEPT ![s.provider] = s.before]
  /\ shown' \subseteq shown
  /\ done' \subseteq done

Next == Forget \/ \E s \in Swaps : Show(s) \/ Swap(s) \/ Undo(s)

Spec == Init /\ [][Next]_cvars
=============================================================================
