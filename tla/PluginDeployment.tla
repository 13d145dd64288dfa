-------------------------- MODULE PluginDeployment --------------------------
(***************************************************************************)
(* Installing and restoring the toolkit's own plugins                      *)
(* (plugin_deployment.py of mod-build-deploy and of native-probes, which   *)
(* are one program twice).  An install copies the active plugin folder and *)
(* the shared catalog into its transaction, swaps the staged tree in and   *)
(* lists it in the catalog; a restore takes both back from an install      *)
(* receipt.  Every file operation is a step; up to MaxFaults of them fail, *)
(* and a process may die between any two.                                  *)
(***************************************************************************)
EXTENDS Naturals

CONSTANTS
  Procs,      \* processes that install and restore
  Plugins,    \* plugins, each with its active folder and its catalog entry
  Tx,         \* transaction ids
  Works,      \* the ways to share work: a process has installs <<transaction, plugin>>
  Trees,      \* valid plugin trees
  Absent,     \* no folder, no file
  Torn,       \* what a failed write or removal leaves behind
  MaxFaults   \* bound on failing file operations

ASSUME ConstantsOK ==
  /\ Works \subseteq [Procs -> SUBSET (Tx \X Plugins)]
  /\ Absent \notin Trees /\ Torn \notin Trees /\ Absent # Torn
  /\ MaxFaults \in Nat

VARIABLES
  work,     \* work[p]: the installs that p may carry out, and their restores
  active,   \* active[g]: tree in the active folder of plugin g
  catalog,  \* the catalog file
  side,     \* side[t]: the temporary folders beside the active one
  unit,     \* unit[t]: the transaction folder: backups and receipts
  pc,       \* pc[p]: next step of process p
  loc,      \* loc[p]: local variables of the operation p runs
  faults,   \* how many file operations failed
  kept,     \* history: kept[t]: the tree that the install of t displaced
  shelved   \* history: shelved[t]: the tree that the restore of t took away

vars == <<work, active, catalog, side, unit, pc, loc, faults, kept, shelved>>

Folders == Trees \cup {Absent, Torn}

\* A catalog lists a tree for every plugin it has an entry of; Torn is an entry
\* that mixes the identities of two trees.
Catalogs == [Plugins -> Folders]
NoEntries == [g \in Plugins |-> Absent]
CatalogFiles == Catalogs \cup {Absent, Torn}

\* _read_catalog: a missing file has no entries.
Entries == IF catalog = Absent THEN NoEntries ELSE catalog

NoSide == [incoming |-> Absent, displaced |-> Absent,
           restore_incoming |-> Absent, restore_displaced |-> Absent]

NoUnit == [made |-> FALSE, plugin |-> Absent, tree |-> Absent, catalog |-> Absent,
           receipt |-> Absent, restored |-> FALSE, failed |-> Absent]

NoOp == [t |-> Absent, g |-> Absent, stage |-> Absent, tree |-> Absent, catalog |-> Absent,
         read |-> NoEntries, entry |-> Absent, displaced |-> FALSE, swapped |-> FALSE,
         errors |-> FALSE]

Init ==
  /\ work \in Works
  /\ active \in [Plugins -> Trees \cup {Absent}]
  /\ catalog = IF \A g \in Plugins : active[g] = Absent THEN Absent ELSE active
  /\ side = [t \in Tx |-> NoSide]
  /\ unit = [t \in Tx |-> NoUnit]
  /\ pc = [p \in Procs |-> "idle"]
  /\ loc = [p \in Procs |-> NoOp]
  /\ faults = 0
  /\ kept = [t \in Tx |-> Absent]
  /\ shelved = [t \in Tx |-> Absent]

Goto(p, step) == pc' = [pc EXCEPT ![p] = step]

\* The operation returns or raises.
Return(p) ==
  /\ Goto(p, "idle")
  /\ loc' = [loc EXCEPT ![p] = NoOp]

Fault == faults < MaxFaults /\ faults' = faults + 1

\* The active folder and the catalog agree on plugin g (verify_installed_catalog).
Agrees(g) == active[g] \in Trees /\ catalog \in Catalogs /\ catalog[g] = active[g]

-----------------------------------------------------------------------------
(***************************************************************************)
(* install_plugin_atomic.                                                  *)
(***************************************************************************)

\* The transaction folder is made; that it exists already is an error.
BeginInstall(p, t, g, stage) ==
  /\ pc[p] = "idle"
  /\ <<t, g>> \in work[p]
  /\ ~unit[t].made
  /\ unit' = [unit EXCEPT ![t].made = TRUE, ![t].plugin = g]
  /\ loc' = [loc EXCEPT ![p] = [NoOp EXCEPT !.t = t, !.g = g, !.stage = stage]]
  /\ Goto(p, "observe_active")
  /\ UNCHANGED <<active, catalog, side, faults, kept, shelved>>

ObserveActive(p) ==
  /\ pc[p] = "observe_active"
  /\ loc' = [loc EXCEPT ![p].tree = active[loc[p].g]]
  /\ Goto(p, "observe_catalog")
  /\ UNCHANGED <<active, catalog, side, unit, faults, kept, shelved>>

ObserveCatalog(p) ==
  /\ pc[p] = "observe_catalog"
  /\ loc' = [loc EXCEPT ![p].catalog = catalog]
  /\ Goto(p, "backup_plugin")
  /\ UNCHANGED <<active, catalog, side, unit, faults, kept, shelved>>

\* Mutant: the backup is not compared with what was observed.
BackupPluginUnverified(p) ==
  /\ pc[p] = "backup_plugin"
  /\ \E copy \in {active[loc[p].g], Torn} :
       unit' = [unit EXCEPT ![loc[p].t].tree = copy]
  /\ Goto(p, "backup_catalog")
  /\ UNCHANGED <<active, catalog, side, loc, faults, kept, shelved>>

\* The copy of the active plugin must be the tree that was observed.
BackupPlugin(p) ==
  LET now == active[loc[p].g]
  IN  /\ pc[p] = "backup_plugin"
      /\ IF loc[p].tree = Absent
         THEN UNCHANGED unit /\ Goto(p, "backup_catalog")
         ELSE /\ unit' = [unit EXCEPT ![loc[p].t].tree = now]
              /\ Goto(p, IF now = loc[p].tree THEN "backup_catalog" ELSE "undo_catalog")
      /\ UNCHANGED <<active, catalog, side, loc, faults, kept, shelved>>

\* Mutant: the catalog is backed up on the first install only.
BackupCatalogOnce(p) ==
  /\ pc[p] = "backup_catalog"
  /\ unit' = IF \A t \in Tx : unit[t].receipt = Absent
             THEN [unit EXCEPT ![loc[p].t].catalog = catalog] ELSE unit
  /\ Goto(p, "copy_incoming")
  /\ UNCHANGED <<active, catalog, side, loc, faults, kept, shelved>>

BackupCatalog(p) ==
  /\ pc[p] = "backup_catalog"
  /\ IF loc[p].catalog = Absent
     THEN UNCHANGED unit /\ Goto(p, "copy_incoming")
     ELSE /\ unit' = [unit EXCEPT ![loc[p].t].catalog = catalog]
          /\ Goto(p, IF catalog = Absent THEN "undo_catalog" ELSE "copy_incoming")
  /\ UNCHANGED <<active, catalog, side, loc, faults, kept, shelved>>

CopyIncoming(p) ==
  /\ pc[p] = "copy_incoming"
  /\ side' = [side EXCEPT ![loc[p].t].incoming = loc[p].stage]
  /\ Goto(p, "displace")
  /\ UNCHANGED <<active, catalog, unit, loc, faults, kept, shelved>>

Displace(p) ==
  LET g == loc[p].g
      t == loc[p].t
  IN  /\ pc[p] = "displace"
      /\ CASE loc[p].tree = Absent ->
                Goto(p, "swap") /\ UNCHANGED <<active, side, loc, kept>>
           [] loc[p].tree # Absent /\ active[g] = Absent ->
                Goto(p, "undo_catalog") /\ UNCHANGED <<active, side, loc, kept>>
           [] OTHER ->
                /\ side' = [side EXCEPT ![t].displaced = active[g]]
                /\ active' = [active EXCEPT ![g] = Absent]
                /\ kept' = [kept EXCEPT ![t] = active[g]]
                /\ loc' = [loc EXCEPT ![p].displaced = TRUE]
                /\ Goto(p, "swap")
      /\ UNCHANGED <<catalog, unit, faults, shelved>>

Swap(p) ==
  LET g == loc[p].g
      t == loc[p].t
  IN  /\ pc[p] = "swap"
      /\ IF active[g] # Absent
         THEN Goto(p, "undo_catalog") /\ UNCHANGED <<active, side, loc>>
         ELSE /\ active' = [active EXCEPT ![g] = side[t].incoming]
              /\ side' = [side EXCEPT ![t].incoming = Absent]
              /\ loc' = [loc EXCEPT ![p].swapped = TRUE]
              /\ Goto(p, "read_catalog")
      /\ UNCHANGED <<catalog, unit, faults, kept, shelved>>

\* _refresh_catalog reads the catalog ...
ReadCatalog(p) ==
  LET g == loc[p].g
      l == [loc[p] EXCEPT !.read = Entries,
                          !.entry = IF active[g] = loc[p].stage THEN loc[p].stage ELSE Torn]
  IN  /\ pc[p] = "read_catalog"
      /\ IF catalog = Torn \/ active[g] = Absent
         THEN Goto(p, "undo_catalog") /\ UNCHANGED loc
         ELSE loc' = [loc EXCEPT ![p] = l] /\ Goto(p, "write_catalog")
      /\ UNCHANGED <<active, catalog, side, unit, faults, kept, shelved>>

\* ... and replaces it with its own entry exchanged.
WriteCatalog(p) ==
  /\ pc[p] = "write_catalog"
  /\ catalog' = [loc[p].read EXCEPT ![loc[p].g] = loc[p].entry]
  /\ Goto(p, "verify")
  /\ UNCHANGED <<active, side, unit, loc, faults, kept, shelved>>

Verify(p) ==
  /\ pc[p] = "verify"
  /\ Goto(p, IF Agrees(loc[p].g) THEN "write_receipt" ELSE "undo_catalog")
  /\ UNCHANGED <<active, catalog, side, unit, loc, faults, kept, shelved>>

WriteReceipt(p) ==
  /\ pc[p] = "write_receipt"
  /\ unit' = [unit EXCEPT ![loc[p].t].receipt =
       [tree |-> loc[p].tree, catalog |-> loc[p].catalog, installed |-> loc[p].stage]]
  /\ Goto(p, "drop_displaced")
  /\ UNCHANGED <<active, catalog, side, loc, faults, kept, shelved>>

DropDisplaced(p) ==
  /\ pc[p] = "drop_displaced"
  /\ side' = [side EXCEPT ![loc[p].t].displaced = Absent]
  /\ Return(p)
  /\ UNCHANGED <<active, catalog, unit, faults, kept, shelved>>

\* The steps inside install's try statement.
InstallTry == {"backup_plugin", "backup_catalog", "copy_incoming", "displace", "swap",
               "read_catalog", "write_catalog", "verify", "write_receipt"}

\* A step raises (or a failure is injected) and leaves a copy or write unfinished.
InstallRaises(p) ==
  LET t == loc[p].t
  IN  /\ pc[p] \in InstallTry
      /\ Fault
      /\ \/ UNCHANGED <<side, unit>>
         \/ /\ pc[p] = "backup_plugin" /\ loc[p].tree # Absent
            /\ unit' = [unit EXCEPT ![t].tree = Torn] /\ UNCHANGED side
         \/ /\ pc[p] = "backup_catalog" /\ loc[p].catalog # Absent
            /\ unit' = [unit EXCEPT ![t].catalog = Torn] /\ UNCHANGED side
         \/ /\ pc[p] = "copy_incoming"
            /\ side' = [side EXCEPT ![t].incoming = Torn] /\ UNCHANGED unit
      /\ Goto(p, "undo_catalog")
      /\ UNCHANGED <<active, catalog, loc, kept, shelved>>

\* Outside the try statement an error ends the install: while observing, writing
\* the failure receipt, or removing the displaced folder.
InstallStops(p) ==
  /\ pc[p] \in {"observe_active", "observe_catalog", "write_failure", "drop_displaced"}
  /\ Fault
  /\ \/ UNCHANGED side
     \/ /\ pc[p] = "drop_displaced" /\ side[loc[p].t].displaced # Absent
        /\ side' = [side EXCEPT ![loc[p].t].displaced = Torn]
  /\ Return(p)
  /\ UNCHANGED <<active, catalog, unit, kept, shelved>>

-----------------------------------------------------------------------------
(***************************************************************************)
(* The except clause of install_plugin_atomic.                             *)
(***************************************************************************)

\* _restore_catalog_bytes: a missing backup raises.
UndoCatalog(p) ==
  LET backup == unit[loc[p].t].catalog
  IN  /\ pc[p] = "undo_catalog"
      /\ CASE loc[p].catalog = Absent -> catalog' = Absent /\ UNCHANGED loc
           [] loc[p].catalog # Absent /\ backup = Absent ->
                loc' = [loc EXCEPT ![p].errors = TRUE] /\ UNCHANGED catalog
           [] OTHER -> catalog' = backup /\ UNCHANGED loc
      /\ Goto(p, "undo_active")
      /\ UNCHANGED <<active, side, unit, faults, kept, shelved>>

UndoActive(p) ==
  /\ pc[p] = "undo_active"
  /\ active' = IF loc[p].swapped THEN [active EXCEPT ![loc[p].g] = Absent] ELSE active
  /\ Goto(p, "undo_displaced")
  /\ UNCHANGED <<catalog, side, unit, loc, faults, kept, shelved>>

\* Mutant: the displaced tree is copied back and its folder forgotten.
UndoDisplacedCopied(p) ==
  LET g == loc[p].g
      t == loc[p].t
  IN  /\ pc[p] = "undo_displaced"
      /\ active' = IF loc[p].displaced THEN [active EXCEPT ![g] = side[t].displaced] ELSE active
      /\ Goto(p, "undo_incoming")
      /\ UNCHANGED <<catalog, side, unit, loc, faults, kept, shelved>>

UndoDisplaced(p) ==
  LET g == loc[p].g
      t == loc[p].t
  IN  /\ pc[p] = "undo_displaced"
      /\ CASE ~loc[p].displaced \/ side[t].displaced = Absent ->
                Goto(p, "undo_incoming") /\ UNCHANGED <<active, side, loc>>
           [] loc[p].displaced /\ side[t].displaced # Absent /\ active[g] # Absent ->
                /\ loc' = [loc EXCEPT ![p].errors = TRUE]
                /\ Goto(p, "write_failure") /\ UNCHANGED <<active, side>>
           [] OTHER ->
                /\ active' = [active EXCEPT ![g] = side[t].displaced]
                /\ side' = [side EXCEPT ![t].displaced = Absent]
                /\ Goto(p, "undo_incoming") /\ UNCHANGED loc
      /\ UNCHANGED <<catalog, unit, faults, kept, shelved>>

UndoIncoming(p) ==
  /\ pc[p] = "undo_incoming"
  /\ side' = [side EXCEPT ![loc[p].t].incoming = Absent]
  /\ Goto(p, "write_failure")
  /\ UNCHANGED <<active, catalog, unit, loc, faults, kept, shelved>>

\* An error of the undo is noted; the later parts of its try statement are skipped.
UndoRaises(p) ==
  /\ pc[p] \in {"undo_catalog", "undo_active", "undo_displaced", "undo_incoming"}
  /\ Fault
  /\ loc' = [loc EXCEPT ![p].errors = TRUE]
  /\ \/ UNCHANGED active
     \/ /\ pc[p] = "undo_active" /\ loc[p].swapped
        /\ active' = [active EXCEPT ![loc[p].g] = Torn]
  /\ Goto(p, IF pc[p] = "undo_catalog" THEN "undo_active" ELSE "write_failure")
  /\ UNCHANGED <<catalog, side, unit, kept, shelved>>

\* The failure receipt tells whether both are as they were; the finally clause
\* removes the incoming folder.
WriteFailure(p) ==
  LET t == loc[p].t
      restored == active[loc[p].g] = loc[p].tree /\ catalog = loc[p].catalog /\ ~loc[p].errors
  IN  /\ pc[p] = "write_failure"
      /\ unit' = [unit EXCEPT ![t].failed = IF restored THEN "rolled_back" ELSE "rollback_failed"]
      /\ side' = [side EXCEPT ![t].incoming = Absent]
      /\ Return(p)
      /\ UNCHANGED <<active, catalog, faults, kept, shelved>>

-----------------------------------------------------------------------------
(***************************************************************************)
(* restore_plugin_atomic.                                                  *)
(***************************************************************************)

\* The receipt is of an install that was not restored, the installed tree is
\* active and listed, and no earlier restore left its folders.
BeginRestore(p, t) ==
  LET g == unit[t].plugin
  IN  /\ pc[p] = "idle"
      /\ unit[t].receipt # Absent
      /\ ~unit[t].restored
      /\ g \in {w[2] : w \in work[p]}
      /\ active[g] = unit[t].receipt.installed
      /\ Agrees(g)
      /\ side[t].restore_displaced = Absent
      /\ side[t].restore_incoming = Absent
      /\ loc' = [loc EXCEPT ![p] = [NoOp EXCEPT !.t = t, !.g = g]]
      /\ Goto(p, "r_displace")
      /\ UNCHANGED <<active, catalog, side, unit, faults, kept, shelved>>

RestoreDisplace(p) ==
  LET g == loc[p].g
      t == loc[p].t
  IN  /\ pc[p] = "r_displace"
      /\ IF active[g] = Absent
         THEN Return(p) /\ UNCHANGED <<active, side, shelved>>
         ELSE /\ side' = [side EXCEPT ![t].restore_displaced = active[g]]
              /\ shelved' = [shelved EXCEPT ![t] = active[g]]
              /\ active' = [active EXCEPT ![g] = Absent]
              /\ Goto(p, "r_copy") /\ UNCHANGED loc
      /\ UNCHANGED <<catalog, unit, faults, kept>>

RestoreCopy(p) ==
  LET t == loc[p].t
      prior == unit[t].receipt.tree
  IN  /\ pc[p] = "r_copy"
      /\ IF prior = Absent
         THEN Goto(p, "r_catalog") /\ UNCHANGED side
         ELSE /\ side' = [side EXCEPT ![t].restore_incoming = unit[t].tree]
              /\ Goto(p, IF unit[t].tree = prior THEN "r_swap" ELSE "r_undo_active")
      /\ UNCHANGED <<active, catalog, unit, loc, faults, kept, shelved>>

RestoreSwap(p) ==
  LET g == loc[p].g
      t == loc[p].t
  IN  /\ pc[p] = "r_swap"
      /\ IF active[g] # Absent
         THEN Goto(p, "r_undo_active") /\ UNCHANGED <<active, side>>
         ELSE /\ active' = [active EXCEPT ![g] = side[t].restore_incoming]
              /\ side' = [side EXCEPT ![t].restore_incoming = Absent]
              /\ Goto(p, "r_catalog")
      /\ UNCHANGED <<catalog, unit, loc, faults, kept, shelved>>

RestoreCatalog(p) ==
  LET u == unit[loc[p].t]
  IN  /\ pc[p] = "r_catalog"
      /\ CASE u.receipt.catalog = Absent -> catalog' = Absent /\ Goto(p, "r_receipt")
           [] u.receipt.catalog # Absent /\ u.catalog = Absent ->
                UNCHANGED catalog /\ Goto(p, "r_undo_active")
           [] OTHER -> catalog' = u.catalog /\ Goto(p, "r_receipt")
      /\ UNCHANGED <<active, side, unit, loc, faults, kept, shelved>>

\* Tree and catalog must be those of the receipt before the restore counts.
RestoreReceipt(p) ==
  LET t == loc[p].t
      r == unit[t].receipt
  IN  /\ pc[p] = "r_receipt"
      /\ IF active[loc[p].g] = r.tree /\ catalog = r.catalog
         THEN /\ unit' = [unit EXCEPT ![t].restored = TRUE]
              /\ shelved' = [shelved EXCEPT ![t] = Absent]
              /\ Goto(p, "r_drop")
         ELSE Goto(p, "r_undo_active") /\ UNCHANGED <<unit, shelved>>
      /\ UNCHANGED <<active, catalog, side, loc, faults, kept>>

RestoreDrop(p) ==
  /\ pc[p] = "r_drop"
  /\ side' = [side EXCEPT ![loc[p].t].restore_displaced = Absent]
  /\ Return(p)
  /\ UNCHANGED <<active, catalog, unit, faults, kept, shelved>>

RestoreTry == {"r_copy", "r_swap", "r_catalog", "r_receipt"}

RestoreRaises(p) ==
  /\ pc[p] \in RestoreTry
  /\ Fault
  /\ \/ UNCHANGED side
     \/ /\ pc[p] = "r_copy" /\ unit[loc[p].t].receipt.tree # Absent
        /\ side' = [side EXCEPT ![loc[p].t].restore_incoming = Torn]
  /\ Goto(p, "r_undo_active")
  /\ UNCHANGED <<active, catalog, unit, loc, kept, shelved>>

-----------------------------------------------------------------------------
(***************************************************************************)
(* The except clause of restore_plugin_atomic, which raises in the end.    *)
(***************************************************************************)

RestoreUndoActive(p) ==
  /\ pc[p] = "r_undo_active"
  /\ active' = [active EXCEPT ![loc[p].g] = Absent]
  /\ Goto(p, "r_undo_incoming")
  /\ UNCHANGED <<catalog, side, unit, loc, faults, kept, shelved>>

RestoreUndoIncoming(p) ==
  /\ pc[p] = "r_undo_incoming"
  /\ side' = [side EXCEPT ![loc[p].t].restore_incoming = Absent]
  /\ Goto(p, "r_undo_displaced")
  /\ UNCHANGED <<active, catalog, unit, loc, faults, kept, shelved>>

\* Mutant: the shelved tree is dropped instead of being put back.
RestoreUndoDropped(p) ==
  LET t == loc[p].t
  IN  /\ pc[p] = "r_undo_displaced"
      /\ side' = [side EXCEPT ![t].restore_displaced = Absent]
      /\ Goto(p, "r_undo_read")
      /\ UNCHANGED <<active, catalog, unit, loc, faults, kept, shelved>>

RestoreUndoDisplaced(p) ==
  LET g == loc[p].g
      t == loc[p].t
  IN  /\ pc[p] = "r_undo_displaced"
      /\ CASE side[t].restore_displaced = Absent ->
                Goto(p, "r_undo_read") /\ UNCHANGED <<active, side, loc, shelved>>
           [] side[t].restore_displaced # Absent /\ active[g] # Absent ->
                Return(p) /\ UNCHANGED <<active, side, shelved>>
           [] OTHER ->
                /\ active' = [active EXCEPT ![g] = side[t].restore_displaced]
                /\ side' = [side EXCEPT ![t].restore_displaced = Absent]
                /\ shelved' = [shelved EXCEPT ![t] = Absent]
                /\ Goto(p, "r_undo_read") /\ UNCHANGED loc
      /\ UNCHANGED <<catalog, unit, faults, kept>>

RestoreUndoRead(p) ==
  LET g == loc[p].g
  IN  /\ pc[p] = "r_undo_read"
      /\ IF active[g] \notin Trees \/ catalog = Torn
         THEN Return(p)
         ELSE /\ loc' = [loc EXCEPT ![p].read = Entries, ![p].entry = active[g]]
              /\ Goto(p, "r_undo_catalog")
      /\ UNCHANGED <<active, catalog, side, unit, faults, kept, shelved>>

\* Mutant: the catalog of the failed restore stays.
RestoreUndoNoCatalog(p) ==
  /\ pc[p] = "r_undo_catalog"
  /\ Return(p)
  /\ UNCHANGED <<active, catalog, side, unit, faults, kept, shelved>>

RestoreUndoCatalog(p) ==
  /\ pc[p] = "r_undo_catalog"
  /\ catalog' = [loc[p].read EXCEPT ![loc[p].g] = loc[p].entry]
  /\ Return(p)
  /\ UNCHANGED <<active, side, unit, faults, kept, shelved>>

RestoreUndo == {"r_undo_active", "r_undo_incoming", "r_undo_displaced", "r_undo_read",
                "r_undo_catalog"}

\* Outside the try statement an error ends the restore.
RestoreStops(p) ==
  /\ pc[p] \in RestoreUndo \cup {"r_displace", "r_drop"}
  /\ Fault
  /\ \/ UNCHANGED <<active, side>>
     \/ /\ pc[p] = "r_undo_active" /\ active[loc[p].g] # Absent
        /\ active' = [active EXCEPT ![loc[p].g] = Torn] /\ UNCHANGED side
     \/ /\ pc[p] = "r_drop"
        /\ side' = [side EXCEPT ![loc[p].t].restore_displaced = Torn] /\ UNCHANGED active
  /\ Return(p)
  /\ UNCHANGED <<catalog, unit, kept, shelved>>

-----------------------------------------------------------------------------
\* Several processes are at work; a process that works alone lives.
Shared == \E p, q \in Procs : p # q /\ work[p] # {} /\ work[q] # {}

Crash(p) ==
  /\ Shared
  /\ pc[p] # "idle"
  /\ Return(p)
  /\ UNCHANGED <<active, catalog, side, unit, faults, kept, shelved>>

Install(p) ==
  \/ ObserveActive(p) \/ ObserveCatalog(p) \/ BackupPlugin(p) \/ BackupCatalog(p)
  \/ CopyIncoming(p) \/ Displace(p) \/ Swap(p) \/ ReadCatalog(p) \/ WriteCatalog(p)
  \/ Verify(p) \/ WriteReceipt(p) \/ DropDisplaced(p)
  \/ UndoCatalog(p) \/ UndoActive(p) \/ UndoDisplaced(p) \/ UndoIncoming(p) \/ WriteFailure(p)

Restore(p) ==
  \/ RestoreDisplace(p) \/ RestoreCopy(p) \/ RestoreSwap(p) \/ RestoreCatalog(p)
  \/ RestoreReceipt(p) \/ RestoreDrop(p) \/ RestoreUndoActive(p) \/ RestoreUndoIncoming(p)
  \/ RestoreUndoDisplaced(p) \/ RestoreUndoRead(p) \/ RestoreUndoCatalog(p)

Fails(p) ==
  InstallRaises(p) \/ InstallStops(p) \/ UndoRaises(p) \/ RestoreRaises(p) \/ RestoreStops(p)

Next ==
  /\ \E p \in Procs :
       \/ \E t \in Tx, g \in Plugins, stage \in Trees : BeginInstall(p, t, g, stage)
       \/ \E t \in Tx : BeginRestore(p, t)
       \/ Install(p) \/ Restore(p) \/ Fails(p) \/ Crash(p)
  /\ UNCHANGED work

Spec == Init /\ [][Next]_vars

-----------------------------------------------------------------------------
(***************************************************************************)
(* Correctness.                                                            *)
(***************************************************************************)

Steps == InstallTry \cup RestoreTry \cup RestoreUndo \cup
         {"idle", "observe_active", "observe_catalog", "drop_displaced", "undo_catalog",
          "undo_active", "undo_displaced", "undo_incoming", "write_failure",
          "r_displace", "r_drop"}

Receipts == [tree : Folders, catalog : CatalogFiles, installed : Trees]

\* A file that is there is told from one that is not, or that is torn.
ASSUME AbsentIsNoRecord ==
  /\ Absent \notin Receipts \cup {"rolled_back", "rollback_failed"}
  /\ {Absent, Torn} \cap Catalogs = {}

Units == [made : BOOLEAN, plugin : Plugins \cup {Absent}, tree : Folders,
          catalog : CatalogFiles, receipt : Receipts \cup {Absent}, restored : BOOLEAN,
          failed : {Absent, "rolled_back", "rollback_failed"}]

Sides == [incoming : Folders, displaced : Folders,
          restore_incoming : Folders, restore_displaced : Folders]

\* Type invariant; a finished restore has a receipt, and a displaced tree is
\* never left by an operation that is over with a failure reported as rolled back.
TypeOK ==
  /\ work \in Works
  /\ active \in [Plugins -> Folders]
  /\ catalog \in CatalogFiles
  /\ side \in [Tx -> Sides]
  /\ unit \in [Tx -> Units]
  /\ pc \in [Procs -> Steps]
  /\ faults \in 0..MaxFaults
  /\ kept \in [Tx -> Folders]
  /\ shelved \in [Tx -> Folders]
  /\ \A t \in Tx : unit[t].restored => unit[t].receipt # Absent
  /\ \A t \in Tx : unit[t].failed = "rolled_back" => side[t].displaced = Absent

\* "Restore exact prior plugin and catalog bytes from one successful install
\* receipt": the backups of an installed transaction are what its receipt says
\* was there before, when one process works.  (install_plugin_atomic)
BackupsMatch ==
  ~Shared => \A t \in Tx :
    LET u == unit[t]
    IN  u.receipt # Absent =>
          u.tree = u.receipt.tree /\ u.catalog = u.receipt.catalog

\* When one process works on one plugin: between operations the catalog lists exactly the active trees, unless an
\* install reported that its rollback failed.  (restore_plugin_atomic's except
\* clause, which must list the reinstated tree again)
CatalogAgrees ==
  ~Shared /\ (\A p \in Procs : pc[p] = "idle") /\ (\A t \in Tx : unit[t].failed # "rollback_failed") =>
    catalog # Torn /\ \A g \in Plugins : Entries[g] = active[g]

\* A tree that an install displaced is still active, displaced, or backed up.
PriorKept ==
  \A t \in Tx :
    kept[t] # Absent => kept[t] \in {active[unit[t].plugin], side[t].displaced, unit[t].tree}

\* A tree that a restore took away exists until the restore succeeded: a failed,
\* interrupted or repeated restore never leaves the plugin without both trees.
InstalledKept ==
  \A t \in Tx :
    shelved[t] # Absent => shelved[t] \in {active[unit[t].plugin], side[t].restore_displaced}

\* "Restore exact prior plugin and catalog bytes from one successful install
\* receipt": while the installed tree is active and nothing is under way, the
\* catalog still lists it, without which restore refuses the receipt.
\* (restore_plugin_atomic)
ReceiptRestorable ==
  (\A p \in Procs : pc[p] = "idle") =>
    \A t \in Tx :
      LET u == unit[t]
      IN  u.receipt # Absent /\ ~u.restored /\ active[u.plugin] = u.receipt.installed =>
            Agrees(u.plugin)
=============================================================================
