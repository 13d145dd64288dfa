----------------------- MODULE PluginDeploymentProofs -----------------------
(***************************************************************************)
(* Proofs about PluginDeployment: any processes, plugins, transactions and *)
(* trees, any number of failing file operations, and crashes.              *)
(***************************************************************************)
EXTENDS PluginDeployment, TLAPS

\* The steps of an install with its except clause, and of a restore.
InstallSteps ==
  InstallTry \cup {"observe_active", "observe_catalog", "drop_displaced", "undo_catalog",
                   "undo_active", "undo_displaced", "undo_incoming", "write_failure"}
RestoreSteps == RestoreTry \cup RestoreUndo \cup {"r_displace", "r_drop"}

\* What the steps of each do, failing or not.
InstallMove(p) == Install(p) \/ InstallRaises(p) \/ InstallStops(p) \/ UndoRaises(p)
RestoreMove(p) == Restore(p) \/ RestoreRaises(p) \/ RestoreStops(p)

Begins(p) ==
  \/ \E t \in Tx, g \in Plugins, stage \in Trees : BeginInstall(p, t, g, stage)
  \/ \E t \in Tx : BeginRestore(p, t)

Moves(p) == Begins(p) \/ InstallMove(p) \/ RestoreMove(p) \/ Crash(p)

LEMMA NextMoves == Next => UNCHANGED work /\ \E p \in Procs : Moves(p)
  BY DEF Next, Moves, Begins, InstallMove, RestoreMove, Fails

-----------------------------------------------------------------------------
(***************************************************************************)
(* Types.                                                                  *)
(***************************************************************************)

Locals ==
  [t : Tx \cup {Absent}, g : Plugins \cup {Absent}, stage : Trees \cup {Absent}, tree : Folders,
   catalog : CatalogFiles, read : Catalogs, entry : Folders, displaced : BOOLEAN,
   swapped : BOOLEAN, errors : BOOLEAN]

\* An operation works on a transaction folder of its own plugin.
Bound(p) ==
  pc[p] # "idle" =>
    /\ loc[p].t \in Tx /\ loc[p].g \in Plugins
    /\ loc[p].g \in {w[2] : w \in work[p]}
    /\ unit[loc[p].t].made /\ unit[loc[p].t].plugin = loc[p].g

\* An install writes its verdict last; a restore starts from a receipt.
Verdicts(p) ==
  /\ pc[p] \in InstallSteps => loc[p].stage \in Trees /\ unit[loc[p].t].failed = Absent
  /\ pc[p] \in InstallSteps \ {"drop_displaced"} => unit[loc[p].t].receipt = Absent
  /\ pc[p] \in RestoreSteps => unit[loc[p].t].receipt # Absent

\* What was displaced is back before the failure receipt can say so.
PutBack(p) ==
  /\ pc[p] \in InstallSteps /\ ~loc[p].displaced => side[loc[p].t].displaced = Absent
  /\ pc[p] = "undo_incoming" \/ (pc[p] = "write_failure" /\ ~loc[p].errors)
       => side[loc[p].t].displaced = Absent

\* Nothing is recorded of a transaction without a folder.
Fresh(t) ==
  ~unit[t].made =>
    unit[t] = NoUnit /\ side[t] = NoSide /\ kept[t] = Absent /\ shelved[t] = Absent

\* mkdir gives each transaction one installer.
OneInstaller ==
  \A p, q \in Procs :
    pc[p] \in InstallSteps /\ pc[q] \in InstallSteps /\ loc[p].t = loc[q].t => p = q

TypeInv ==
  /\ TypeOK
  /\ loc \in [Procs -> Locals]
  /\ \A p \in Procs : Bound(p) /\ Verdicts(p) /\ PutBack(p)
  /\ \A t \in Tx : Fresh(t)
  /\ OneInstaller

\* The part of it that only says where values come from.
Typed ==
  /\ work \in Works /\ active \in [Plugins -> Folders] /\ catalog \in CatalogFiles
  /\ side \in [Tx -> Sides] /\ unit \in [Tx -> Units] /\ pc \in [Procs -> Steps]
  /\ faults \in 0..MaxFaults /\ kept \in [Tx -> Folders] /\ shelved \in [Tx -> Folders]
  /\ loc \in [Procs -> Locals]

LEMMA NoEntriesType == NoEntries \in Catalogs /\ Absent \in CatalogFiles
  BY DEF NoEntries, Catalogs, CatalogFiles, Folders

LEMMA NoOpType == NoOp \in Locals
  BY NoEntriesType DEF NoOp, Locals, Folders

LEMMA EntriesType == ASSUME Typed, catalog # Torn PROVE Entries \in Catalogs
  BY NoEntriesType DEF Typed, Entries, CatalogFiles

LEMMA SideUpdate ==
  ASSUME NEW s \in Sides, NEW f \in Folders
  PROVE  /\ [s EXCEPT !.incoming = f] \in Sides
         /\ [s EXCEPT !.displaced = f] \in Sides
         /\ [s EXCEPT !.restore_incoming = f] \in Sides
         /\ [s EXCEPT !.restore_displaced = f] \in Sides
  BY DEF Sides

LEMMA BeginUpdate ==
  ASSUME NEW t \in Tx, NEW g \in Plugins
  PROVE  /\ \A stage \in Trees : [NoOp EXCEPT !.t = t, !.g = g, !.stage = stage] \in Locals
         /\ [NoOp EXCEPT !.t = t, !.g = g] \in Locals
  BY NoOpType DEF Locals

LEMMA UnitsUpdate ==
  ASSUME Typed, NEW t \in Tx
  PROVE  /\ \A g \in Plugins :
              [unit EXCEPT ![t].made = TRUE, ![t].plugin = g] \in [Tx -> Units]
         /\ \A f \in Folders : [unit EXCEPT ![t].tree = f] \in [Tx -> Units]
         /\ \A c \in CatalogFiles : [unit EXCEPT ![t].catalog = c] \in [Tx -> Units]
         /\ \A r \in Receipts : [unit EXCEPT ![t].receipt = r] \in [Tx -> Units]
         /\ [unit EXCEPT ![t].restored = TRUE] \in [Tx -> Units]
         /\ \A v \in {Absent, "rolled_back", "rollback_failed"} :
              [unit EXCEPT ![t].failed = v] \in [Tx -> Units]
<1>1. unit \in [Tx -> Units] /\ unit[t] \in Units
  BY DEF Typed
<1>2. /\ \A f \in Folders : [unit[t] EXCEPT !.tree = f] \in Units
      /\ \A c \in CatalogFiles : [unit[t] EXCEPT !.catalog = c] \in Units
      /\ \A r \in Receipts : [unit[t] EXCEPT !.receipt = r] \in Units
      /\ [unit[t] EXCEPT !.restored = TRUE] \in Units
      /\ \A v \in {Absent, "rolled_back", "rollback_failed"} :
           [unit[t] EXCEPT !.failed = v] \in Units
  BY <1>1 DEF Units
<1>3. \A g \in Plugins : [unit EXCEPT ![t].made = TRUE, ![t].plugin = g] \in [Tx -> Units]
  BY <1>1 DEF Units
<1> QED
  BY <1>1, <1>2, <1>3

LEMMA SidesUpdate ==
  ASSUME Typed, NEW t \in Tx, NEW f \in Folders
  PROVE  /\ [side EXCEPT ![t].incoming = f] \in [Tx -> Sides]
         /\ [side EXCEPT ![t].displaced = f] \in [Tx -> Sides]
         /\ [side EXCEPT ![t].restore_incoming = f] \in [Tx -> Sides]
         /\ [side EXCEPT ![t].restore_displaced = f] \in [Tx -> Sides]
<1>1. side \in [Tx -> Sides] /\ side[t] \in Sides
  BY DEF Typed
<1>2. /\ [side[t] EXCEPT !.incoming = f] \in Sides
      /\ [side[t] EXCEPT !.displaced = f] \in Sides
      /\ [side[t] EXCEPT !.restore_incoming = f] \in Sides
      /\ [side[t] EXCEPT !.restore_displaced = f] \in Sides
  BY <1>1, SideUpdate
<1> QED
  BY <1>1, <1>2

LEMMA LocalsUpdate ==
  ASSUME Typed, NEW p \in Procs
  PROVE  /\ \A f \in Folders : [loc EXCEPT ![p].tree = f] \in [Procs -> Locals]
         /\ \A c \in CatalogFiles : [loc EXCEPT ![p].catalog = c] \in [Procs -> Locals]
         /\ [loc EXCEPT ![p].displaced = TRUE] \in [Procs -> Locals]
         /\ [loc EXCEPT ![p].swapped = TRUE] \in [Procs -> Locals]
         /\ [loc EXCEPT ![p].errors = TRUE] \in [Procs -> Locals]
         /\ \A k \in Catalogs, f \in Folders :
              /\ [loc EXCEPT ![p] = [loc[p] EXCEPT !.read = k, !.entry = f]] \in [Procs -> Locals]
              /\ [loc EXCEPT ![p].read = k, ![p].entry = f] \in [Procs -> Locals]
<1>1. loc \in [Procs -> Locals] /\ loc[p] \in Locals
  BY DEF Typed
<1>2. /\ \A f \in Folders : [loc[p] EXCEPT !.tree = f] \in Locals
      /\ \A c \in CatalogFiles : [loc[p] EXCEPT !.catalog = c] \in Locals
      /\ [loc[p] EXCEPT !.displaced = TRUE] \in Locals
      /\ [loc[p] EXCEPT !.swapped = TRUE] \in Locals
      /\ [loc[p] EXCEPT !.errors = TRUE] \in Locals
      /\ \A k \in Catalogs, f \in Folders : [loc[p] EXCEPT !.read = k, !.entry = f] \in Locals
  BY <1>1 DEF Locals
<1>3. \A k \in Catalogs, f \in Folders :
        [loc EXCEPT ![p].read = k, ![p].entry = f] \in [Procs -> Locals]
  BY <1>1 DEF Locals
<1> QED
  BY <1>1, <1>2, <1>3

LEMMA StepNames ==
  /\ "idle" \in Steps /\ InstallSteps \subseteq Steps /\ RestoreSteps \subseteq Steps
  /\ \A s \in InstallSteps : s # "idle" /\ s \notin RestoreSteps
  /\ \A s \in RestoreSteps : s # "idle" /\ s \notin InstallSteps
  BY DEF Steps, InstallSteps, RestoreSteps, InstallTry, RestoreTry, RestoreUndo

LEMMA PcUpdate ==
  ASSUME Typed, NEW p \in Procs, NEW s \in Steps, Goto(p, s)
  PROVE  pc' \in [Procs -> Steps] /\ pc'[p] = s /\ \A q \in Procs : q # p => pc'[q] = pc[q]
  BY DEF Typed, Goto

LEMMA ReturnUpdate ==
  ASSUME Typed, NEW p \in Procs, Return(p)
  PROVE  /\ pc' \in [Procs -> Steps] /\ pc'[p] = "idle"
         /\ loc' \in [Procs -> Locals]
         /\ \A q \in Procs : q # p => pc'[q] = pc[q] /\ loc'[q] = loc[q]
  BY NoOpType DEF Return, Goto, Typed, Steps

LEMMA FaultUpdate == ASSUME Typed, Fault PROVE faults' \in 0..MaxFaults
  BY ConstantsOK DEF Typed, Fault

LEMMA InstallTyped ==
  ASSUME Typed, UNCHANGED work, NEW p \in Procs, Bound(p), Verdicts(p), Install(p)
  PROVE  Typed'
<1> DEFINE t == loc[p].t
           g == loc[p].g
<1>1. pc[p] \in InstallSteps /\ pc[p] # "idle"
  BY DEF Install, ObserveActive, ObserveCatalog, BackupPlugin, BackupCatalog, CopyIncoming,
         Displace, Swap, ReadCatalog, WriteCatalog, Verify, WriteReceipt, DropDisplaced,
         UndoCatalog, UndoActive, UndoDisplaced, UndoIncoming, WriteFailure, InstallSteps,
         InstallTry
<1>2. /\ t \in Tx /\ g \in Plugins /\ loc[p].stage \in Trees /\ active[g] \in Folders
      /\ loc[p] \in Locals /\ side[t] \in Sides /\ unit[t] \in Units
      /\ loc[p].tree \in Folders /\ loc[p].catalog \in CatalogFiles /\ loc[p].read \in Catalogs
      /\ loc[p].entry \in Folders /\ loc[p].stage \in Folders
      /\ side[t].incoming \in Folders /\ side[t].displaced \in Folders
      /\ unit[t].tree \in Folders /\ unit[t].catalog \in CatalogFiles
      /\ Absent \in Folders /\ Torn \in Folders
  BY <1>1 DEF Typed, Bound, Verdicts, Locals, Sides, Units, Folders
<1> HIDE DEF t, g
<1>3. CASE ObserveActive(p)
  <2>1. [loc EXCEPT ![p].tree = active[g]] \in [Procs -> Locals]
    BY <1>2, LocalsUpdate
  <2> QED
    BY <1>2, <1>3, <2>1, StepNames, PcUpdate DEF ObserveActive, Typed, g, InstallSteps, InstallTry
<1>4. CASE ObserveCatalog(p)
  BY <1>2, <1>4, StepNames, PcUpdate, LocalsUpdate
     DEF ObserveCatalog, Typed, InstallSteps, InstallTry
<1>5. CASE BackupPlugin(p)
  <2>1. [unit EXCEPT ![t].tree = active[g]] \in [Tx -> Units]
    BY <1>2, UnitsUpdate
  <2> QED
    BY <1>5, <2>1, StepNames, PcUpdate DEF BackupPlugin, Typed, t, g, InstallSteps, InstallTry
<1>6. CASE BackupCatalog(p)
  <2>1. [unit EXCEPT ![t].catalog = catalog] \in [Tx -> Units]
    BY <1>2, UnitsUpdate DEF Typed
  <2> QED
    BY <1>6, <2>1, StepNames, PcUpdate DEF BackupCatalog, Typed, t, InstallSteps, InstallTry
<1>7. CASE CopyIncoming(p)
  <2>1. [side EXCEPT ![t].incoming = loc[p].stage] \in [Tx -> Sides]
    BY <1>2, SidesUpdate
  <2> QED
    BY <1>7, <2>1, StepNames, PcUpdate DEF CopyIncoming, Typed, t, InstallSteps, InstallTry
<1>8. CASE Displace(p)
  <2>1. /\ [side EXCEPT ![t].displaced = active[g]] \in [Tx -> Sides]
        /\ [active EXCEPT ![g] = Absent] \in [Plugins -> Folders]
        /\ [kept EXCEPT ![t] = active[g]] \in [Tx -> Folders]
        /\ [loc EXCEPT ![p].displaced = TRUE] \in [Procs -> Locals]
    BY <1>2, SidesUpdate, LocalsUpdate, NoEntriesType DEF Typed
  <2> QED
    BY <1>8, <2>1, StepNames, PcUpdate DEF Displace, Typed, t, g, InstallSteps, InstallTry
<1>9. CASE Swap(p)
  <2>1. /\ [side EXCEPT ![t].incoming = Absent] \in [Tx -> Sides]
        /\ [active EXCEPT ![g] = side[t].incoming] \in [Plugins -> Folders]
        /\ [loc EXCEPT ![p].swapped = TRUE] \in [Procs -> Locals]
    BY <1>2, SidesUpdate, LocalsUpdate, NoEntriesType DEF Typed
  <2> QED
    BY <1>9, <2>1, StepNames, PcUpdate DEF Swap, Typed, t, g, InstallSteps, InstallTry
<1>10. CASE ReadCatalog(p)
  <2>1. catalog # Torn => \A f \in Folders :
          [loc EXCEPT ![p] = [loc[p] EXCEPT !.read = Entries, !.entry = f]] \in [Procs -> Locals]
    BY EntriesType, LocalsUpdate
  <2>2. PICK f \in Folders : f = IF active[g] = loc[p].stage THEN loc[p].stage ELSE Torn
    BY <1>2
  <2>3. loc' = loc \/ (/\ catalog # Torn
                      /\ loc' = [loc EXCEPT ![p] = [loc[p] EXCEPT !.read = Entries, !.entry = f]])
    BY <1>10, <2>2 DEF ReadCatalog, g
  <2>4. loc' \in [Procs -> Locals]
    BY <2>1, <2>3 DEF Typed
  <2> QED
    BY <1>10, <2>4, StepNames, PcUpdate DEF ReadCatalog, Typed, InstallSteps, InstallTry
<1>11. CASE WriteCatalog(p)
  <2>1. [loc[p].read EXCEPT ![loc[p].g] = loc[p].entry] \in CatalogFiles
    BY <1>2 DEF Catalogs, CatalogFiles
  <2> QED
    BY <1>11, <2>1, StepNames, PcUpdate DEF WriteCatalog, Typed, InstallSteps, InstallTry
<1>12. CASE Verify(p)
  BY <1>12, StepNames, PcUpdate DEF Verify, Typed, InstallSteps, InstallTry
<1>13. CASE WriteReceipt(p)
  <2>1. [tree |-> loc[p].tree, catalog |-> loc[p].catalog, installed |-> loc[p].stage] \in Receipts
    BY <1>2 DEF Receipts
  <2>2. PICK r \in Receipts :
          r = [tree |-> loc[p].tree, catalog |-> loc[p].catalog, installed |-> loc[p].stage]
    BY <2>1
  <2>3. [unit EXCEPT ![t].receipt = r] \in [Tx -> Units]
    BY <1>2, <2>2, UnitsUpdate, NoEntriesType
  <2> QED
    BY <1>13, <2>2, <2>3, StepNames, PcUpdate DEF WriteReceipt, Typed, t, InstallSteps, InstallTry
<1>14. CASE DropDisplaced(p)
  <2>1. [side EXCEPT ![t].displaced = Absent] \in [Tx -> Sides]
    BY <1>2, SidesUpdate, NoEntriesType
  <2> QED
    BY <1>14, <2>1, ReturnUpdate DEF DropDisplaced, Typed, t
<1>15. CASE UndoCatalog(p)
  <2>1. [loc EXCEPT ![p].errors = TRUE] \in [Procs -> Locals]
    BY LocalsUpdate
  <2> QED
    BY <1>2, <1>15, <2>1, StepNames, PcUpdate, NoEntriesType
       DEF UndoCatalog, Typed, t, InstallSteps, InstallTry
<1>16. CASE UndoActive(p)
  BY <1>2, <1>16, StepNames, PcUpdate DEF UndoActive, Typed, t, g, InstallSteps, InstallTry
<1>17. CASE UndoDisplaced(p)
  <2>1. /\ [side EXCEPT ![t].displaced = Absent] \in [Tx -> Sides]
        /\ [active EXCEPT ![g] = side[t].displaced] \in [Plugins -> Folders]
        /\ [loc EXCEPT ![p].errors = TRUE] \in [Procs -> Locals]
    BY <1>2, SidesUpdate, LocalsUpdate, NoEntriesType DEF Typed
  <2> QED
    BY <1>17, <2>1, StepNames, PcUpdate DEF UndoDisplaced, Typed, t, g, InstallSteps, InstallTry
<1>18. CASE UndoIncoming(p)
  <2>1. [side EXCEPT ![t].incoming = Absent] \in [Tx -> Sides]
    BY <1>2, SidesUpdate, NoEntriesType
  <2> QED
    BY <1>18, <2>1, StepNames, PcUpdate DEF UndoIncoming, Typed, t, InstallSteps, InstallTry
<1>19. CASE WriteFailure(p)
  <2>1. [side EXCEPT ![t].incoming = Absent] \in [Tx -> Sides]
    BY <1>2, SidesUpdate, NoEntriesType
  <2>2. PICK v \in {Absent, "rolled_back", "rollback_failed"} :
          unit' = [unit EXCEPT ![t].failed = v]
    BY <1>19 DEF WriteFailure, t
  <2>3. unit' \in [Tx -> Units]
    BY <1>2, <2>2, UnitsUpdate
  <2> QED
    BY <1>19, <2>1, <2>3, ReturnUpdate DEF WriteFailure, Typed, t
<1> QED
  BY <1>3, <1>4, <1>5, <1>6, <1>7, <1>8, <1>9, <1>10, <1>11, <1>12, <1>13, <1>14, <1>15, <1>16,
     <1>17, <1>18, <1>19 DEF Install

LEMMA InstallFailsTyped ==
  ASSUME Typed, UNCHANGED work, NEW p \in Procs, Bound(p), Verdicts(p),
         InstallRaises(p) \/ InstallStops(p) \/ UndoRaises(p)
  PROVE  Typed'
<1> DEFINE t == loc[p].t
           g == loc[p].g
<1>1. pc[p] \in InstallSteps /\ pc[p] # "idle"
  BY DEF InstallRaises, InstallStops, UndoRaises, InstallSteps, InstallTry
<1>2. t \in Tx /\ g \in Plugins /\ Absent \in Folders /\ Torn \in Folders /\ Torn \in CatalogFiles
  BY <1>1 DEF Bound, Folders, CatalogFiles
<1> HIDE DEF t, g
<1>3. CASE InstallRaises(p)
  <2>1. /\ [unit EXCEPT ![t].tree = Torn] \in [Tx -> Units]
        /\ [unit EXCEPT ![t].catalog = Torn] \in [Tx -> Units]
        /\ [side EXCEPT ![t].incoming = Torn] \in [Tx -> Sides]
    BY <1>2, UnitsUpdate, SidesUpdate
  <2> QED
    BY <1>3, <2>1, StepNames, PcUpdate, FaultUpdate DEF InstallRaises, Typed, t, InstallSteps
<1>4. CASE InstallStops(p)
  <2>1. [side EXCEPT ![t].displaced = Torn] \in [Tx -> Sides]
    BY <1>2, SidesUpdate
  <2> QED
    BY <1>4, <2>1, ReturnUpdate, FaultUpdate DEF InstallStops, Typed, t
<1>5. CASE UndoRaises(p)
  <2>1. /\ [loc EXCEPT ![p].errors = TRUE] \in [Procs -> Locals]
        /\ [active EXCEPT ![g] = Torn] \in [Plugins -> Folders]
    BY <1>2, LocalsUpdate DEF Typed
  <2> QED
    BY <1>5, <2>1, StepNames, PcUpdate, FaultUpdate DEF UndoRaises, Typed, g, InstallSteps
<1> QED
  BY <1>3, <1>4, <1>5

LEMMA RestoreTyped ==
  ASSUME Typed, UNCHANGED work, NEW p \in Procs, Bound(p), Verdicts(p), RestoreMove(p)
  PROVE  Typed'
<1> DEFINE t == loc[p].t
           g == loc[p].g
<1>1. pc[p] \in RestoreSteps /\ pc[p] # "idle"
  BY DEF RestoreMove, Restore, RestoreDisplace, RestoreCopy, RestoreSwap, RestoreCatalog,
         RestoreReceipt, RestoreDrop, RestoreUndoActive, RestoreUndoIncoming,
         RestoreUndoDisplaced, RestoreUndoRead, RestoreUndoCatalog, RestoreRaises, RestoreStops,
         RestoreSteps, RestoreTry, RestoreUndo
<1>2. /\ t \in Tx /\ g \in Plugins /\ active[g] \in Folders
      /\ loc[p] \in Locals /\ side[t] \in Sides /\ unit[t] \in Units
      /\ loc[p].read \in Catalogs /\ loc[p].entry \in Folders
      /\ side[t].restore_incoming \in Folders /\ side[t].restore_displaced \in Folders
      /\ unit[t].tree \in Folders /\ unit[t].catalog \in CatalogFiles
      /\ Absent \in Folders /\ Torn \in Folders
  BY <1>1 DEF Typed, Bound, Locals, Sides, Units, Folders
<1> HIDE DEF t, g
<1> USE DEF RestoreSteps, RestoreTry, RestoreUndo
<1>3. CASE RestoreDisplace(p)
  <2>1. /\ [side EXCEPT ![t].restore_displaced = active[g]] \in [Tx -> Sides]
        /\ [shelved EXCEPT ![t] = active[g]] \in [Tx -> Folders]
        /\ [active EXCEPT ![g] = Absent] \in [Plugins -> Folders]
    BY <1>2, SidesUpdate DEF Typed
  <2> QED
    BY <1>3, <2>1, StepNames, PcUpdate, ReturnUpdate DEF RestoreDisplace, Typed, t, g
<1>4. CASE RestoreCopy(p)
  <2>1. [side EXCEPT ![t].restore_incoming = unit[t].tree] \in [Tx -> Sides]
    BY <1>2, SidesUpdate
  <2> QED
    BY <1>4, <2>1, StepNames, PcUpdate DEF RestoreCopy, Typed, t
<1>5. CASE RestoreSwap(p)
  <2>1. /\ [side EXCEPT ![t].restore_incoming = Absent] \in [Tx -> Sides]
        /\ [active EXCEPT ![g] = side[t].restore_incoming] \in [Plugins -> Folders]
    BY <1>2, SidesUpdate DEF Typed
  <2> QED
    BY <1>5, <2>1, StepNames, PcUpdate DEF RestoreSwap, Typed, t, g
<1>6. CASE RestoreCatalog(p)
  BY <1>2, <1>6, StepNames, PcUpdate, NoEntriesType DEF RestoreCatalog, Typed, t
<1>7. CASE RestoreReceipt(p)
  <2>1. /\ [unit EXCEPT ![t].restored = TRUE] \in [Tx -> Units]
        /\ [shelved EXCEPT ![t] = Absent] \in [Tx -> Folders]
    BY <1>2, UnitsUpdate DEF Typed
  <2> QED
    BY <1>7, <2>1, StepNames, PcUpdate DEF RestoreReceipt, Typed, t
<1>8. CASE RestoreDrop(p)
  <2>1. [side EXCEPT ![t].restore_displaced = Absent] \in [Tx -> Sides]
    BY <1>2, SidesUpdate
  <2> QED
    BY <1>8, <2>1, ReturnUpdate DEF RestoreDrop, Typed, t
<1>9. CASE RestoreUndoActive(p)
  BY <1>2, <1>9, StepNames, PcUpdate DEF RestoreUndoActive, Typed, g
<1>10. CASE RestoreUndoIncoming(p)
  <2>1. [side EXCEPT ![t].restore_incoming = Absent] \in [Tx -> Sides]
    BY <1>2, SidesUpdate
  <2> QED
    BY <1>10, <2>1, StepNames, PcUpdate DEF RestoreUndoIncoming, Typed, t
<1>11. CASE RestoreUndoDisplaced(p)
  <2>1. /\ [side EXCEPT ![t].restore_displaced = Absent] \in [Tx -> Sides]
        /\ [active EXCEPT ![g] = side[t].restore_displaced] \in [Plugins -> Folders]
        /\ [shelved EXCEPT ![t] = Absent] \in [Tx -> Folders]
    BY <1>2, SidesUpdate DEF Typed
  <2> QED
    BY <1>11, <2>1, StepNames, PcUpdate, ReturnUpdate DEF RestoreUndoDisplaced, Typed, t, g
<1>12. CASE RestoreUndoRead(p)
  <2>1. catalog # Torn =>
          [loc EXCEPT ![p].read = Entries, ![p].entry = active[g]] \in [Procs -> Locals]
    BY <1>2, EntriesType, LocalsUpdate
  <2> QED
    BY <1>12, <2>1, StepNames, PcUpdate, ReturnUpdate DEF RestoreUndoRead, Typed, g
<1>13. CASE RestoreUndoCatalog(p)
  <2>1. [loc[p].read EXCEPT ![loc[p].g] = loc[p].entry] \in CatalogFiles
    BY <1>2 DEF Catalogs, CatalogFiles
  <2> QED
    BY <1>13, <2>1, ReturnUpdate DEF RestoreUndoCatalog, Typed
<1>14. CASE RestoreRaises(p)
  <2>1. [side EXCEPT ![t].restore_incoming = Torn] \in [Tx -> Sides]
    BY <1>2, SidesUpdate
  <2> QED
    BY <1>14, <2>1, StepNames, PcUpdate, FaultUpdate DEF RestoreRaises, Typed, t
<1>15. CASE RestoreStops(p)
  <2>1. /\ [side EXCEPT ![t].restore_displaced = Torn] \in [Tx -> Sides]
        /\ [active EXCEPT ![g] = Torn] \in [Plugins -> Folders]
    BY <1>2, SidesUpdate DEF Typed
  <2> QED
    BY <1>15, <2>1, ReturnUpdate, FaultUpdate DEF RestoreStops, Typed, t, g
<1> QED
  BY <1>3, <1>4, <1>5, <1>6, <1>7, <1>8, <1>9, <1>10, <1>11, <1>12, <1>13, <1>14, <1>15
     DEF RestoreMove, Restore

LEMMA BeginsTyped ==
  ASSUME Typed, UNCHANGED work, NEW p \in Procs, Begins(p) \/ Crash(p)
  PROVE  Typed'
<1>1. ASSUME NEW t \in Tx, NEW g \in Plugins, NEW stage \in Trees, BeginInstall(p, t, g, stage)
      PROVE  Typed'
  <2>1. /\ [NoOp EXCEPT !.t = t, !.g = g, !.stage = stage] \in Locals
        /\ [unit EXCEPT ![t].made = TRUE, ![t].plugin = g] \in [Tx -> Units]
    BY BeginUpdate, UnitsUpdate
  <2>2. loc' \in [Procs -> Locals]
    BY <1>1, <2>1 DEF BeginInstall, Typed
  <2> QED
    BY <1>1, <2>1, <2>2, PcUpdate, StepNames DEF BeginInstall, Typed, InstallSteps
<1>2. ASSUME NEW t \in Tx, BeginRestore(p, t)
      PROVE  Typed'
  <2> DEFINE g == unit[t].plugin
  <2>1. g \in Plugins
    <3>1. g \in {w[2] : w \in work[p]} /\ work[p] \subseteq Tx \X Plugins
      BY <1>2, ConstantsOK DEF BeginRestore, Typed
    <3> QED
      BY <3>1
  <2>2. [NoOp EXCEPT !.t = t, !.g = g] \in Locals
    BY <2>1, BeginUpdate
  <2>3. loc' \in [Procs -> Locals]
    BY <1>2, <2>2 DEF BeginRestore, Typed
  <2> QED
    BY <1>2, <2>3, PcUpdate, StepNames DEF BeginRestore, Typed, RestoreSteps
<1>3. CASE Crash(p)
  BY <1>3, ReturnUpdate DEF Crash, Typed
<1> QED
  BY <1>1, <1>2, <1>3 DEF Begins

-----------------------------------------------------------------------------
(***************************************************************************)
(* What a step leaves alone.                                               *)
(***************************************************************************)

\* An install changes its own transaction, the folder of its own plugin and the
\* catalog; its receipt and its failure receipt are written by one step each.
InstallFrame(p) ==
  LET t == loc[p].t
      g == loc[p].g
  IN  /\ pc[p] \in InstallSteps
      /\ \A q \in Procs : q # p => pc'[q] = pc[q] /\ loc'[q] = loc[q]
      /\ \A u \in Tx : u # t => unit'[u] = unit[u] /\ side'[u] = side[u] /\ kept'[u] = kept[u]
      /\ \A h \in Plugins : h # g => active'[h] = active[h]
      /\ shelved' = shelved
      /\ unit'[t].made = unit[t].made /\ unit'[t].plugin = unit[t].plugin
      /\ unit'[t].restored = unit[t].restored
      /\ side'[t].restore_incoming = side[t].restore_incoming
      /\ side'[t].restore_displaced = side[t].restore_displaced
      /\ pc[p] # "write_failure" => unit'[t].failed = unit[t].failed
      /\ pc[p] = "drop_displaced" => unit' = unit
      /\ pc[p] \in {"write_failure", "drop_displaced"} => pc'[p] = "idle"
      /\ \/ unit'[t].receipt = unit[t].receipt /\ pc'[p] # "drop_displaced"
         \/ /\ pc[p] = "write_receipt" /\ pc'[p] = "drop_displaced"
            /\ unit'[t].receipt =
                 [tree |-> loc[p].tree, catalog |-> loc[p].catalog, installed |-> loc[p].stage]
      /\ \/ pc'[p] = "idle" /\ loc'[p] = NoOp
         \/ /\ pc'[p] \in InstallSteps
            /\ loc'[p].t = t /\ loc'[p].g = g /\ loc'[p].stage = loc[p].stage
            /\ pc[p] # "displace" => loc'[p].displaced = loc[p].displaced

LEMMA InstallFrames ==
  ASSUME Typed, NEW p \in Procs, Bound(p), InstallMove(p)
  PROVE  InstallFrame(p)
<1> USE DEF Typed, Goto, Return, InstallSteps, InstallTry, InstallFrame, Units, Sides, Locals
<1>1. pc[p] # "idle" => loc[p].t \in Tx /\ loc[p].g \in Plugins
  BY DEF Bound
<1>2. CASE ObserveActive(p)
  BY <1>1, <1>2 DEF ObserveActive
<1>3. CASE ObserveCatalog(p)
  BY <1>1, <1>3 DEF ObserveCatalog
<1>4. CASE BackupPlugin(p)
  BY <1>1, <1>4 DEF BackupPlugin
<1>5. CASE BackupCatalog(p)
  BY <1>1, <1>5 DEF BackupCatalog
<1>6. CASE CopyIncoming(p)
  BY <1>1, <1>6 DEF CopyIncoming
<1>7. CASE Displace(p)
  BY <1>1, <1>7 DEF Displace
<1>8. CASE Swap(p)
  BY <1>1, <1>8 DEF Swap
<1>9. CASE ReadCatalog(p)
  <2>1. loc' = loc \/ \E k, f : loc' = [loc EXCEPT ![p] = [loc[p] EXCEPT !.read = k, !.entry = f]]
    BY <1>9 DEF ReadCatalog
  <2>2. /\ \A q \in Procs : q # p => loc'[q] = loc[q]
        /\ loc'[p].t = loc[p].t /\ loc'[p].g = loc[p].g /\ loc'[p].stage = loc[p].stage
        /\ loc'[p].displaced = loc[p].displaced
    <3>1. loc[p] \in Locals
      OBVIOUS
    <3>2. ASSUME NEW k, NEW f, loc' = [loc EXCEPT ![p] = [loc[p] EXCEPT !.read = k, !.entry = f]]
          PROVE  /\ \A q \in Procs : q # p => loc'[q] = loc[q]
                 /\ loc'[p].t = loc[p].t /\ loc'[p].g = loc[p].g /\ loc'[p].stage = loc[p].stage
                 /\ loc'[p].displaced = loc[p].displaced
      <4>1. loc'[p] = [loc[p] EXCEPT !.read = k, !.entry = f]
        BY <3>2
      <4> QED
        BY <3>1, <3>2, <4>1
    <3> QED
      BY <2>1, <3>2
  <2>3. /\ pc[p] = "read_catalog" /\ pc' \in {[pc EXCEPT ![p] = "undo_catalog"],
                                            [pc EXCEPT ![p] = "write_catalog"]}
        /\ UNCHANGED <<active, side, unit, kept, shelved>>
    BY <1>9 DEF ReadCatalog
  <2> QED
    BY <2>2, <2>3
<1>10. CASE WriteCatalog(p)
  BY <1>1, <1>10 DEF WriteCatalog
<1>11. CASE Verify(p)
  BY <1>1, <1>11 DEF Verify
<1>12. CASE WriteReceipt(p)
  BY <1>1, <1>12 DEF WriteReceipt
<1>13. CASE DropDisplaced(p)
  BY <1>1, <1>13 DEF DropDisplaced
<1>14. CASE UndoCatalog(p)
  BY <1>1, <1>14 DEF UndoCatalog
<1>15. CASE UndoActive(p)
  BY <1>1, <1>15 DEF UndoActive
<1>16. CASE UndoDisplaced(p)
  BY <1>1, <1>16 DEF UndoDisplaced
<1>17. CASE UndoIncoming(p)
  BY <1>1, <1>17 DEF UndoIncoming
<1>18. CASE WriteFailure(p)
  BY <1>1, <1>18 DEF WriteFailure
<1>19. CASE InstallRaises(p)
  BY <1>1, <1>19 DEF InstallRaises
<1>20. CASE InstallStops(p)
  BY <1>1, <1>20 DEF InstallStops
<1>21. CASE UndoRaises(p)
  BY <1>1, <1>21 DEF UndoRaises
<1> QED
  BY <1>2, <1>3, <1>4, <1>5, <1>6, <1>7, <1>8, <1>9, <1>10, <1>11, <1>12, <1>13, <1>14, <1>15,
     <1>16, <1>17, <1>18, <1>19, <1>20, <1>21
     DEF InstallMove, Install

\* A restore changes its own transaction, the folder of its own plugin and the
\* catalog; of the transaction, neither backups nor verdicts.
RestoreFrame(p) ==
  LET t == loc[p].t
      g == loc[p].g
  IN  /\ pc[p] \in RestoreSteps
      /\ \A q \in Procs : q # p => pc'[q] = pc[q] /\ loc'[q] = loc[q]
      /\ \A u \in Tx : u # t => /\ unit'[u] = unit[u] /\ side'[u] = side[u]
                                /\ shelved'[u] = shelved[u]
      /\ \A h \in Plugins : h # g => active'[h] = active[h]
      /\ kept' = kept
      /\ unit'[t] \in {unit[t], [unit[t] EXCEPT !.restored = TRUE]}
      /\ side'[t].incoming = side[t].incoming /\ side'[t].displaced = side[t].displaced
      /\ \/ pc'[p] = "idle" /\ loc'[p] = NoOp
         \/ pc'[p] \in RestoreSteps /\ loc'[p].t = t /\ loc'[p].g = g

LEMMA RestoreFrames ==
  ASSUME Typed, NEW p \in Procs, Bound(p), RestoreMove(p)
  PROVE  RestoreFrame(p)
<1> USE DEF Typed, Goto, Return, RestoreSteps, RestoreTry, RestoreUndo, RestoreFrame, Units, Sides,
            Locals
<1>1. pc[p] # "idle" => loc[p].t \in Tx /\ loc[p].g \in Plugins
  BY DEF Bound
<1>2. CASE RestoreDisplace(p)
  <2>1. CASE active[loc[p].g] = Absent
    BY <1>1, <1>2, <2>1 DEF RestoreDisplace
  <2>2. CASE active[loc[p].g] # Absent
    <3>1. /\ pc[p] = "r_displace" /\ pc' = [pc EXCEPT ![p] = "r_copy"]
          /\ UNCHANGED <<loc, unit, kept>>
          /\ active' = [active EXCEPT ![loc[p].g] = Absent]
      BY <1>2, <2>2 DEF RestoreDisplace
    <3>2. /\ side' = [side EXCEPT ![loc[p].t].restore_displaced = active[loc[p].g]]
          /\ shelved' = [shelved EXCEPT ![loc[p].t] = active[loc[p].g]]
      BY <1>2, <2>2 DEF RestoreDisplace
    <3> QED
      BY <1>1, <3>1, <3>2
  <2> QED
    BY <2>1, <2>2
<1>3. CASE RestoreCopy(p)
  <2>1. CASE unit[loc[p].t].receipt.tree = Absent
    <3>1. /\ pc[p] = "r_copy" /\ pc' = [pc EXCEPT ![p] = "r_catalog"]
          /\ UNCHANGED <<active, side, unit, loc, kept, shelved>>
      BY <1>3, <2>1 DEF RestoreCopy
    <3> QED
      BY <1>1, <3>1
  <2>2. CASE unit[loc[p].t].receipt.tree # Absent
    <3>1. /\ pc[p] = "r_copy" /\ UNCHANGED <<active, unit, loc, kept, shelved>>
          /\ \/ pc' = [pc EXCEPT ![p] = "r_swap"]
             \/ pc' = [pc EXCEPT ![p] = "r_undo_active"]
      BY <1>3, <2>2 DEF RestoreCopy
    <3>2. side' = [side EXCEPT ![loc[p].t].restore_incoming = unit[loc[p].t].tree]
      BY <1>3, <2>2 DEF RestoreCopy
    <3> QED
      BY <1>1, <3>1, <3>2
  <2> QED
    BY <2>1, <2>2
<1>4. CASE RestoreSwap(p)
  BY <1>1, <1>4 DEF RestoreSwap
<1>5. CASE RestoreCatalog(p)
  BY <1>1, <1>5 DEF RestoreCatalog
<1>6. CASE RestoreReceipt(p)
  BY <1>1, <1>6 DEF RestoreReceipt
<1>7. CASE RestoreDrop(p)
  BY <1>1, <1>7 DEF RestoreDrop
<1>8. CASE RestoreUndoActive(p)
  BY <1>1, <1>8 DEF RestoreUndoActive
<1>9. CASE RestoreUndoIncoming(p)
  BY <1>1, <1>9 DEF RestoreUndoIncoming
<1>10. CASE RestoreUndoDisplaced(p)
  <2>1. CASE side[loc[p].t].restore_displaced = Absent
    BY <1>1, <1>10, <2>1 DEF RestoreUndoDisplaced
  <2>2. CASE side[loc[p].t].restore_displaced # Absent /\ active[loc[p].g] # Absent
    BY <1>1, <1>10, <2>2 DEF RestoreUndoDisplaced
  <2>3. CASE side[loc[p].t].restore_displaced # Absent /\ active[loc[p].g] = Absent
    <3>1. /\ pc[p] = "r_undo_displaced" /\ pc' = [pc EXCEPT ![p] = "r_undo_read"]
          /\ UNCHANGED <<loc, unit, kept>>
      BY <1>10, <2>3 DEF RestoreUndoDisplaced
    <3>2. /\ active' = [active EXCEPT ![loc[p].g] = side[loc[p].t].restore_displaced]
          /\ side' = [side EXCEPT ![loc[p].t].restore_displaced = Absent]
          /\ shelved' = [shelved EXCEPT ![loc[p].t] = Absent]
      BY <1>10, <2>3 DEF RestoreUndoDisplaced
    <3> QED
      BY <1>1, <3>1, <3>2
  <2> QED
    BY <2>1, <2>2, <2>3
<1>11. CASE RestoreUndoRead(p)
  BY <1>1, <1>11 DEF RestoreUndoRead
<1>12. CASE RestoreUndoCatalog(p)
  BY <1>1, <1>12 DEF RestoreUndoCatalog
<1>13. CASE RestoreRaises(p)
  BY <1>1, <1>13 DEF RestoreRaises
<1>14. CASE RestoreStops(p)
  BY <1>1, <1>14 DEF RestoreStops
<1> QED
  BY <1>2, <1>3, <1>4, <1>5, <1>6, <1>7, <1>8, <1>9, <1>10, <1>11, <1>12, <1>13, <1>14
     DEF RestoreMove, Restore

-----------------------------------------------------------------------------
(***************************************************************************)
(* The type invariant.                                                     *)
(***************************************************************************)

LEMMA InstallGoesOn ==
  ASSUME NEW p \in Procs, InstallFrame(p), pc'[p] # "idle"
  PROVE  /\ pc'[p] \in InstallSteps
         /\ loc'[p].t = loc[p].t /\ loc'[p].g = loc[p].g /\ loc'[p].stage = loc[p].stage
         /\ pc[p] # "displace" => loc'[p].displaced = loc[p].displaced
  BY DEF InstallFrame

LEMMA PutBackStays ==
  ASSUME Typed, NEW p \in Procs, Bound(p), PutBack(p), InstallMove(p)
  PROVE  PutBack(p)'
<1> USE DEF Typed, Goto, Return, InstallSteps, InstallTry, PutBack, Units, Sides,
            Locals
<1>1. pc[p] # "idle" => loc[p].t \in Tx /\ loc[p].g \in Plugins
  BY DEF Bound
<1>2. InstallFrame(p)
  BY InstallFrames
<1>3. CASE ObserveActive(p)
  BY <1>1, <1>2, <1>3 DEF ObserveActive
<1>4. CASE ObserveCatalog(p)
  BY <1>1, <1>2, <1>4 DEF ObserveCatalog
<1>5. CASE BackupPlugin(p)
  BY <1>1, <1>2, <1>5 DEF BackupPlugin
<1>6. CASE BackupCatalog(p)
  BY <1>1, <1>2, <1>6 DEF BackupCatalog
<1>7. CASE CopyIncoming(p)
  BY <1>1, <1>2, <1>7 DEF CopyIncoming
<1>8. CASE Displace(p)
  BY <1>1, <1>2, <1>8 DEF Displace
<1>9. CASE Swap(p)
  <2>1. side' = side \/ side' = [side EXCEPT ![loc[p].t].incoming = Absent]
    BY <1>9 DEF Swap
  <2>2. pc[p] = "swap" /\ pc'[p] \in {"undo_catalog", "read_catalog"}
    BY <1>9 DEF Swap
  <2>3. loc'[p].t = loc[p].t /\ loc'[p].displaced = loc[p].displaced
    BY <1>2, <2>2, InstallGoesOn
  <2>4. side'[loc[p].t].displaced = side[loc[p].t].displaced
    BY <1>1, <2>1, <2>2
  <2> HIDE DEF InstallFrame, Typed
  <2> QED
    BY <2>2, <2>3, <2>4
<1>10. CASE ReadCatalog(p)
  <2>1. pc[p] = "read_catalog" /\ side' = side /\ pc'[p] \in {"undo_catalog", "write_catalog"}
    BY <1>10 DEF ReadCatalog
  <2>2. loc'[p].t = loc[p].t /\ loc'[p].displaced = loc[p].displaced
    BY <1>2, <2>1, InstallGoesOn
  <2> HIDE DEF InstallFrame, Typed
  <2> QED
    BY <2>1, <2>2
<1>11. CASE WriteCatalog(p)
  BY <1>1, <1>2, <1>11 DEF WriteCatalog
<1>12. CASE Verify(p)
  BY <1>1, <1>2, <1>12 DEF Verify
<1>13. CASE WriteReceipt(p)
  BY <1>1, <1>2, <1>13 DEF WriteReceipt
<1>14. CASE DropDisplaced(p)
  BY <1>1, <1>2, <1>14 DEF DropDisplaced
<1>15. CASE UndoCatalog(p)
  <2>1. pc[p] = "undo_catalog" /\ side' = side /\ pc'[p] = "undo_active"
    BY <1>15 DEF UndoCatalog
  <2>2. loc'[p].t = loc[p].t /\ loc'[p].displaced = loc[p].displaced
    BY <1>2, <2>1, InstallGoesOn
  <2> HIDE DEF InstallFrame, Typed
  <2> QED
    BY <2>1, <2>2
<1>16. CASE UndoActive(p)
  BY <1>1, <1>2, <1>16 DEF UndoActive
<1>17. CASE UndoDisplaced(p)
  BY <1>1, <1>2, <1>17 DEF UndoDisplaced
<1>18. CASE UndoIncoming(p)
  BY <1>1, <1>2, <1>18 DEF UndoIncoming
<1>19. CASE WriteFailure(p)
  BY <1>1, <1>2, <1>19 DEF WriteFailure
<1>20. CASE InstallRaises(p)
  <2>1. /\ pc[p] \in InstallTry /\ pc'[p] = "undo_catalog" /\ loc' = loc
        /\ side' = side \/ side' = [side EXCEPT ![loc[p].t].incoming = Torn]
    BY <1>20 DEF InstallRaises
  <2>2. pc[p] # "idle" /\ pc[p] \in InstallSteps
    BY <2>1
  <2>3. side'[loc[p].t].displaced = side[loc[p].t].displaced
    BY <1>1, <2>1, <2>2
  <2> HIDE DEF InstallFrame, Typed
  <2> QED
    BY <2>1, <2>2, <2>3
<1>21. CASE InstallStops(p)
  BY <1>1, <1>2, <1>21 DEF InstallStops
<1>22. CASE UndoRaises(p)
  BY <1>1, <1>2, <1>22 DEF UndoRaises
<1> QED
  BY <1>3, <1>4, <1>5, <1>6, <1>7, <1>8, <1>9, <1>10, <1>11, <1>12, <1>13, <1>14, <1>15, <1>16,
     <1>17, <1>18, <1>19, <1>20, <1>21, <1>22
     DEF InstallMove, Install

LEMMA InstallKeepsType ==
  ASSUME TypeInv, UNCHANGED work, NEW p \in Procs, InstallMove(p)
  PROVE  TypeInv'
<1> DEFINE t == loc[p].t
           g == loc[p].g
<1>0. Typed /\ Bound(p) /\ Verdicts(p) /\ PutBack(p) /\ OneInstaller
  BY DEF TypeInv, TypeOK, Typed
<1>1. InstallFrame(p)
  BY <1>0, InstallFrames
<1>2. Typed'
  BY <1>0, InstallTyped, InstallFailsTyped DEF InstallMove
<1>3. pc[p] \in InstallSteps /\ pc[p] # "idle" /\ t \in Tx /\ g \in Plugins
  BY <1>0, <1>1, StepNames DEF InstallFrame, Bound
<1>4. unit'[t].receipt # Absent \/ unit'[t].receipt = unit[t].receipt
  <2>1. [tree |-> loc[p].tree, catalog |-> loc[p].catalog, installed |-> loc[p].stage] \in Receipts
    BY <1>0, <1>3 DEF Typed, Locals, Receipts, Verdicts
  <2> QED
    BY <1>1, <2>1, AbsentIsNoRecord DEF InstallFrame
<1>5. \A u \in Tx : unit'[u].restored => unit'[u].receipt # Absent
  BY <1>1, <1>3, <1>4 DEF InstallFrame, TypeInv, TypeOK
<1>6. unit'[t].failed = "rolled_back" => side'[t].displaced = Absent
  <2>1. CASE pc[p] # "write_failure"
    BY <1>0, <1>1, <1>3, <2>1, AbsentIsNoRecord DEF InstallFrame, Verdicts
  <2>2. CASE pc[p] = "write_failure" /\ WriteFailure(p)
    <3>1. loc[p].errors \/ side[t].displaced = Absent
      BY <1>0, <2>2 DEF PutBack
    <3>2. side'[t].displaced = side[t].displaced
      BY <1>0, <1>3, <2>2 DEF WriteFailure, Typed, Sides
    <3>3. loc[p].errors => unit'[t].failed = "rollback_failed"
      BY <1>0, <1>3, <2>2 DEF WriteFailure, Typed, Units
    <3> QED
      BY <3>1, <3>2, <3>3
  <2>3. CASE pc[p] = "write_failure" /\ ~WriteFailure(p)
    <3>1. InstallStops(p)
      BY <2>3 DEF InstallMove, Install, ObserveActive, ObserveCatalog, BackupPlugin,
         BackupCatalog, CopyIncoming, Displace, Swap, ReadCatalog, WriteCatalog, Verify,
         WriteReceipt, DropDisplaced, UndoCatalog, UndoActive, UndoDisplaced, UndoIncoming,
         InstallRaises, UndoRaises, InstallTry
    <3>2. UNCHANGED <<side, unit>>
      BY <2>3, <3>1 DEF InstallStops
    <3> QED
      BY <1>3, <3>2 DEF TypeInv, TypeOK
  <2> QED
    BY <2>1, <2>2, <2>3
<1>7. \A u \in Tx : unit'[u].failed = "rolled_back" => side'[u].displaced = Absent
  BY <1>1, <1>6 DEF InstallFrame, TypeInv, TypeOK
<1>8. \A q \in Procs : Bound(q)'
  <2>1. \A u \in Tx : unit'[u].made = unit[u].made /\ unit'[u].plugin = unit[u].plugin
    BY <1>1 DEF InstallFrame
  <2>2. \A q \in Procs : Bound(q)
    BY DEF TypeInv
  <2>3. Bound(p)'
    BY <1>0, <1>1, <1>3, <2>1 DEF Bound, InstallFrame
  <2>4. \A q \in Procs : q # p => Bound(q)'
    BY <1>1, <2>1, <2>2 DEF Bound, InstallFrame
  <2> QED
    BY <2>3, <2>4
<1>9. \A q \in Procs : Verdicts(q)'
  <2>1. Verdicts(p)'
    <3>1. pc'[p] \in RestoreSteps => FALSE
      BY <1>1, StepNames DEF InstallFrame
    <3>2. pc'[p] \in InstallSteps =>
            /\ loc'[p].t = t /\ loc'[p].stage = loc[p].stage
            /\ unit'[t].failed = unit[t].failed
            /\ pc'[p] # "drop_displaced" => unit'[t].receipt = unit[t].receipt
      BY <1>1, StepNames DEF InstallFrame
    <3>3. pc'[p] \in InstallSteps => pc[p] # "drop_displaced"
      BY <1>1, StepNames DEF InstallFrame
    <3> QED
      BY <1>0, <1>3, <3>1, <3>2, <3>3 DEF Verdicts
  <2>2. ASSUME NEW q \in Procs, q # p
        PROVE  Verdicts(q)'
    <3>1. Verdicts(q) /\ Bound(q)
      BY DEF TypeInv
    <3>2. CASE pc[q] \in InstallSteps
      <4>1. loc[q].t # t /\ loc[q].t \in Tx
        BY <1>0, <1>3, <2>2, <3>1, <3>2, StepNames DEF OneInstaller, Bound
      <4> QED
        BY <1>1, <2>2, <3>1, <3>2, <4>1, StepNames DEF Verdicts, InstallFrame
    <3>3. CASE pc[q] \in RestoreSteps
      <4>1. loc[q].t \in Tx /\ unit[loc[q].t].receipt # Absent
        BY <3>1, <3>3, StepNames DEF Bound, Verdicts
      <4>2. unit'[loc[q].t].receipt # Absent
        BY <1>1, <1>4, <4>1 DEF InstallFrame
      <4> QED
        BY <1>1, <2>2, <3>1, <3>3, <4>2, StepNames DEF Verdicts, InstallFrame
    <3> QED
      BY <1>1, <2>2, <3>2, <3>3 DEF Verdicts, InstallFrame
  <2> QED
    BY <2>1, <2>2
<1>10. \A q \in Procs : PutBack(q)'
  <2>1. PutBack(p)'
    BY <1>0, PutBackStays
  <2>2. ASSUME NEW q \in Procs, q # p
        PROVE  PutBack(q)'
    <3>1. PutBack(q) /\ Bound(q)
      BY DEF TypeInv
    <3>2. pc[q] \in InstallSteps => loc[q].t # t /\ loc[q].t \in Tx
      BY <1>0, <1>3, <2>2, <3>1, StepNames DEF OneInstaller, Bound
    <3>3. "undo_incoming" \in InstallSteps /\ "write_failure" \in InstallSteps
      BY DEF InstallSteps
    <3> QED
      BY <1>1, <2>2, <3>1, <3>2, <3>3 DEF PutBack, InstallFrame
  <2> QED
    BY <2>1, <2>2
<1>11. \A u \in Tx : Fresh(u)'
  <2> SUFFICES ASSUME NEW u \in Tx PROVE Fresh(u)'
    OBVIOUS
  <2>1. CASE u = t
    BY <1>0, <1>1, <1>3, <2>1 DEF Fresh, InstallFrame, Bound
  <2>2. CASE u # t
    BY <1>1, <2>2 DEF Fresh, InstallFrame, TypeInv
  <2> QED
    BY <2>1, <2>2
<1>12. OneInstaller'
  BY <1>0, <1>1, <1>3, StepNames DEF OneInstaller, InstallFrame
<1> QED
  BY <1>2, <1>5, <1>7, <1>8, <1>9, <1>10, <1>11, <1>12 DEF TypeInv, TypeOK, Typed

LEMMA RestoreKeepsType ==
  ASSUME TypeInv, UNCHANGED work, NEW p \in Procs, RestoreMove(p)
  PROVE  TypeInv'
<1> DEFINE t == loc[p].t
           g == loc[p].g
<1>0. Typed /\ Bound(p) /\ Verdicts(p) /\ OneInstaller
  BY DEF TypeInv, TypeOK, Typed
<1>1. RestoreFrame(p)
  BY <1>0, RestoreFrames
<1>2. Typed'
  BY <1>0, RestoreTyped
<1>3. /\ pc[p] \in RestoreSteps /\ pc[p] # "idle" /\ pc[p] \notin InstallSteps
      /\ pc'[p] \notin InstallSteps /\ t \in Tx /\ g \in Plugins
  BY <1>0, <1>1, StepNames DEF RestoreFrame, Bound
<1>4. /\ \A u \in Tx : /\ unit'[u].made = unit[u].made /\ unit'[u].plugin = unit[u].plugin
                       /\ unit'[u].receipt = unit[u].receipt /\ unit'[u].failed = unit[u].failed
                       /\ side'[u].displaced = side[u].displaced
      /\ \A u \in Tx : unit'[u].restored => unit[u].restored \/ u = t
  <2>1. ASSUME NEW u \in Tx
        PROVE  /\ unit'[u].made = unit[u].made /\ unit'[u].plugin = unit[u].plugin
               /\ unit'[u].receipt = unit[u].receipt /\ unit'[u].failed = unit[u].failed
               /\ side'[u].displaced = side[u].displaced
               /\ unit'[u].restored => unit[u].restored \/ u = t
    <3>1. CASE u = t
      BY <1>0, <1>1, <2>1, <3>1 DEF RestoreFrame, Typed, Units
    <3>2. CASE u # t
      BY <1>1, <3>2 DEF RestoreFrame
    <3> QED
      BY <3>1, <3>2
  <2> QED
    BY <2>1
<1>5. unit[t].receipt # Absent
  BY <1>0, <1>3 DEF Verdicts
<1>6. /\ \A u \in Tx : unit'[u].restored => unit'[u].receipt # Absent
      /\ \A u \in Tx : unit'[u].failed = "rolled_back" => side'[u].displaced = Absent
  BY <1>4, <1>5 DEF TypeInv, TypeOK
<1>7. ASSUME NEW q \in Procs
      PROVE  Bound(q)' /\ Verdicts(q)' /\ PutBack(q)'
  <2>1. Bound(q) /\ Verdicts(q) /\ PutBack(q)
    BY DEF TypeInv
  <2>2. "undo_incoming" \in InstallSteps /\ "write_failure" \in InstallSteps
    BY DEF InstallSteps
  <2>3. CASE q = p
    <3>1. pc'[p] = "idle" \/ (pc'[p] \in RestoreSteps /\ loc'[p].t = t /\ loc'[p].g = g)
      BY <1>1 DEF RestoreFrame
    <3> QED
      BY <1>0, <1>3, <1>4, <1>5, <2>2, <2>3, <3>1, StepNames DEF Bound, Verdicts, PutBack
  <2>4. CASE q # p
    <3>1. pc'[q] = pc[q] /\ loc'[q] = loc[q]
      BY <1>1, <2>4 DEF RestoreFrame
    <3>2. pc[q] # "idle" => loc[q].t \in Tx
      BY <2>1 DEF Bound
    <3> QED
      BY <1>4, <2>1, <2>2, <3>1, <3>2, StepNames DEF Bound, Verdicts, PutBack
  <2> QED
    BY <2>3, <2>4
<1>8. \A u \in Tx : Fresh(u)'
  <2> SUFFICES ASSUME NEW u \in Tx PROVE Fresh(u)'
    OBVIOUS
  <2>1. CASE u = t
    BY <1>0, <1>3, <1>4, <2>1 DEF Fresh, Bound
  <2>2. CASE u # t
    BY <1>1, <2>2 DEF Fresh, RestoreFrame, TypeInv
  <2> QED
    BY <2>1, <2>2
<1>9. OneInstaller'
  BY <1>0, <1>1, <1>3 DEF OneInstaller, RestoreFrame
<1> QED
  BY <1>2, <1>6, <1>7, <1>8, <1>9 DEF TypeInv, TypeOK, Typed

\* What the beginning and the end of an operation leave alone.
LEMMA BeginsFrame ==
  ASSUME Typed, NEW p \in Procs, Begins(p) \/ Crash(p)
  PROVE  /\ UNCHANGED <<active, catalog, side, faults, kept, shelved>>
         /\ \A q \in Procs : q # p => pc'[q] = pc[q] /\ loc'[q] = loc[q]
<1>1. ASSUME NEW t \in Tx, NEW g \in Plugins, NEW stage \in Trees, BeginInstall(p, t, g, stage)
      PROVE  /\ UNCHANGED <<active, catalog, side, faults, kept, shelved>>
             /\ \A q \in Procs : q # p => pc'[q] = pc[q] /\ loc'[q] = loc[q]
  BY <1>1 DEF BeginInstall, Goto, Typed
<1>2. ASSUME NEW t \in Tx, BeginRestore(p, t)
      PROVE  /\ UNCHANGED <<active, catalog, side, faults, kept, shelved>>
             /\ \A q \in Procs : q # p => pc'[q] = pc[q] /\ loc'[q] = loc[q]
  BY <1>2 DEF BeginRestore, Goto, Typed
<1>3. CASE Crash(p)
  BY <1>3 DEF Crash, Return, Goto, Typed
<1> QED
  BY <1>1, <1>2, <1>3 DEF Begins

LEMMA BeginKeepsType ==
  ASSUME TypeInv, UNCHANGED work, NEW p \in Procs, Begins(p) \/ Crash(p)
  PROVE  TypeInv'
<1>0. Typed /\ OneInstaller /\ \A u \in Tx : Fresh(u)
  BY DEF TypeInv, TypeOK, Typed
<1>1. Typed'
  BY <1>0, BeginsTyped
<1>2. /\ UNCHANGED <<active, catalog, side, faults, kept, shelved>>
      /\ \A q \in Procs : q # p => pc'[q] = pc[q] /\ loc'[q] = loc[q]
  BY <1>0, BeginsFrame
<1>3. /\ \A q \in Procs : Bound(q) /\ Verdicts(q) /\ PutBack(q)
      /\ \A u \in Tx : unit[u].restored => unit[u].receipt # Absent
      /\ \A u \in Tx : unit[u].failed = "rolled_back" => side[u].displaced = Absent
  BY DEF TypeInv, TypeOK
<1> "undo_incoming" \in InstallSteps /\ "write_failure" \in InstallSteps
  BY DEF InstallSteps
<1>4. ASSUME NEW t \in Tx, NEW g \in Plugins, NEW stage \in Trees, BeginInstall(p, t, g, stage)
      PROVE  TypeInv'
  <2>1. /\ ~unit[t].made /\ unit[t] = NoUnit /\ side[t] = NoSide /\ <<t, g>> \in work[p]
        /\ pc'[p] = "observe_active" /\ loc'[p].t = t /\ loc'[p].g = g /\ loc'[p].stage = stage
        /\ loc'[p].displaced = FALSE
    BY <1>0, <1>4 DEF BeginInstall, Goto, Typed, Fresh, NoOp
  <2>2. /\ \A u \in Tx : u # t => unit'[u] = unit[u]
        /\ unit'[t].made /\ unit'[t].plugin = g /\ unit'[t].failed = Absent
        /\ unit'[t].receipt = Absent /\ ~unit'[t].restored
    <3>1. unit' = [unit EXCEPT ![t].made = TRUE, ![t].plugin = g] /\ unit \in [Tx -> Units]
      BY <1>0, <1>4 DEF BeginInstall, Typed
    <3>2. unit[t].failed = Absent /\ unit[t].receipt = Absent /\ ~unit[t].restored
      BY <2>1 DEF NoUnit
    <3> QED
      BY <3>1, <3>2 DEF Units
  <2>3. "observe_active" \in InstallSteps /\ "observe_active" # "idle"
    BY DEF InstallSteps
  <2>4. \A q \in Procs : pc[q] # "idle" => loc[q].t # t /\ loc[q].t \in Tx
    BY <1>3, <2>1 DEF Bound
  <2>5. ASSUME NEW q \in Procs
        PROVE  Bound(q)' /\ Verdicts(q)' /\ PutBack(q)'
    <3>1. CASE q = p
      BY <1>2, <2>1, <2>2, <2>3, <3>1, StepNames DEF Bound, Verdicts, PutBack, NoSide
    <3>2. CASE q # p
      BY <1>2, <1>3, <2>2, <2>4, <3>2, StepNames DEF Bound, Verdicts, PutBack
    <3> QED
      BY <3>1, <3>2
  <2>6. \A u \in Tx : Fresh(u)'
    BY <1>0, <1>2, <2>2 DEF Fresh
  <2>7. OneInstaller'
    BY <1>0, <1>2, <2>1, <2>4, StepNames DEF OneInstaller
  <2>8. /\ \A u \in Tx : unit'[u].restored => unit'[u].receipt # Absent
        /\ \A u \in Tx : unit'[u].failed = "rolled_back" => side'[u].displaced = Absent
    BY <1>2, <1>3, <2>2, AbsentIsNoRecord
  <2> QED
    BY <1>1, <2>5, <2>6, <2>7, <2>8 DEF TypeInv, TypeOK, Typed
<1>5. ASSUME NEW t \in Tx, BeginRestore(p, t)
      PROVE  TypeInv'
  <2> DEFINE g == unit[t].plugin
  <2>1. /\ unit' = unit /\ pc'[p] = "r_displace" /\ loc'[p].t = t /\ loc'[p].g = g
        /\ unit[t].receipt # Absent /\ g \in {w[2] : w \in work[p]}
    BY <1>0, <1>5 DEF BeginRestore, Goto, Typed, NoOp
  <2>2. unit[t].made
    BY <1>0, <2>1 DEF Fresh, NoUnit
  <2>3. g \in Plugins
    <3>1. work[p] \subseteq Tx \X Plugins
      BY <1>0, ConstantsOK DEF Typed
    <3> QED
      BY <2>1, <3>1
  <2>4. "r_displace" \in RestoreSteps
    BY DEF RestoreSteps
  <2>5. ASSUME NEW q \in Procs
        PROVE  Bound(q)' /\ Verdicts(q)' /\ PutBack(q)'
    <3>1. CASE q = p
      BY <1>2, <2>1, <2>2, <2>3, <2>4, <3>1, StepNames DEF Bound, Verdicts, PutBack
    <3>2. CASE q # p
      BY <1>2, <1>3, <2>1, <3>2, StepNames DEF Bound, Verdicts, PutBack
    <3> QED
      BY <3>1, <3>2
  <2>6. \A u \in Tx : Fresh(u)'
    BY <1>0, <1>2, <2>1 DEF Fresh
  <2>7. OneInstaller'
    BY <1>0, <1>2, <2>1, <2>4, StepNames DEF OneInstaller
  <2> QED
    BY <1>1, <1>2, <1>3, <2>1, <2>5, <2>6, <2>7 DEF TypeInv, TypeOK, Typed
<1>6. CASE Crash(p)
  <2>1. unit' = unit /\ pc'[p] = "idle"
    BY <1>0, <1>6 DEF Crash, Return, Goto, Typed
  <2>2. ASSUME NEW q \in Procs
        PROVE  Bound(q)' /\ Verdicts(q)' /\ PutBack(q)'
    <3>1. CASE q = p
      BY <2>1, <3>1, StepNames DEF Bound, Verdicts, PutBack
    <3>2. CASE q # p
      BY <1>2, <1>3, <2>1, <3>2, StepNames DEF Bound, Verdicts, PutBack
    <3> QED
      BY <3>1, <3>2
  <2>3. \A u \in Tx : Fresh(u)'
    BY <1>0, <1>2, <2>1 DEF Fresh
  <2>4. OneInstaller'
    BY <1>0, <1>2, <2>1, StepNames DEF OneInstaller
  <2> QED
    BY <1>1, <1>2, <1>3, <2>1, <2>2, <2>3, <2>4 DEF TypeInv, TypeOK, Typed
<1> QED
  BY <1>4, <1>5, <1>6 DEF Begins

LEMMA InitType == Init => TypeInv
<1> SUFFICES ASSUME Init PROVE TypeInv
  OBVIOUS
<1> USE DEF Init
<1>1. NoUnit \in Units /\ NoSide \in Sides
  BY NoEntriesType DEF NoUnit, NoSide, Units, Sides, Folders
<1>2. active \in Catalogs /\ catalog \in CatalogFiles
  BY DEF Catalogs, CatalogFiles, Folders
<1>3. /\ work \in Works /\ active \in [Plugins -> Folders]
      /\ side \in [Tx -> Sides] /\ unit \in [Tx -> Units] /\ pc \in [Procs -> Steps]
      /\ faults \in 0..MaxFaults /\ kept \in [Tx -> Folders] /\ shelved \in [Tx -> Folders]
      /\ loc \in [Procs -> Locals]
  BY <1>1, <1>2, StepNames, NoOpType, ConstantsOK DEF Catalogs, Folders
<1>4. /\ \A t \in Tx : unit[t].restored => unit[t].receipt # Absent
      /\ \A t \in Tx : unit[t].failed = "rolled_back" => side[t].displaced = Absent
      /\ \A t \in Tx : Fresh(t)
  BY DEF NoUnit, NoSide, Fresh
<1>5. \A p \in Procs : pc[p] = "idle"
  OBVIOUS
<1>6. \A p \in Procs : Bound(p) /\ Verdicts(p) /\ PutBack(p)
  <2>1. "undo_incoming" \in InstallSteps /\ "write_failure" \in InstallSteps
    BY DEF InstallSteps
  <2> QED
    BY <1>5, <2>1, StepNames DEF Bound, Verdicts, PutBack
<1>7. OneInstaller
  BY <1>5, StepNames DEF OneInstaller
<1> QED
  BY <1>2, <1>3, <1>4, <1>6, <1>7 DEF TypeInv, TypeOK

LEMMA NextType == TypeInv /\ [Next]_vars => TypeInv'
<1> SUFFICES ASSUME TypeInv, [Next]_vars PROVE TypeInv'
  OBVIOUS
<1>1. CASE Next
  BY <1>1, NextMoves, InstallKeepsType, RestoreKeepsType, BeginKeepsType DEF Moves
<1>2. CASE UNCHANGED vars
  BY <1>2 DEF vars, TypeInv, TypeOK, Bound, Verdicts, PutBack, Fresh, OneInstaller
<1> QED
  BY <1>1, <1>2

\* Whatever overlaps, fails or dies, every value is well typed, a restore that
\* counts had a receipt, and a failure receipt that says the install was rolled
\* back leaves no displaced tree behind.
THEOREM TypeCorrect == Spec => []TypeOK
<1>1. TypeInv => TypeOK
  BY DEF TypeInv
<1> QED
  BY <1>1, InitType, NextType, PTL DEF Spec

-----------------------------------------------------------------------------
(***************************************************************************)
(* No tree is lost, when no two processes work on one plugin.              *)
(***************************************************************************)

\* Each process has plugins of its own.
Apart ==
  \A w \in Works, p, q \in Procs :
    p # q => {x[2] : x \in w[p]} \cap {x[2] : x \in w[q]} = {}

LEMMA DifferentWork ==
  ASSUME TypeInv, Apart, NEW p \in Procs, NEW q \in Procs, p # q, pc[p] # "idle", pc[q] # "idle"
  PROVE  loc[q].g # loc[p].g /\ loc[q].t # loc[p].t
<1>1. Bound(p) /\ Bound(q) /\ work \in Works
  BY DEF TypeInv, TypeOK
<1>2. {x[2] : x \in work[p]} \cap {x[2] : x \in work[q]} = {}
  BY <1>1 DEF Apart
<1> QED
  BY <1>1, <1>2 DEF Bound

BeforeDisplace == {"observe_catalog", "backup_plugin", "backup_catalog", "copy_incoming", "displace"}

\* Until it displaces the active tree, an install has the tree it observed
\* before it, and after the backup also in the backup.
Observed(p) ==
  /\ pc[p] \in BeforeDisplace => active[loc[p].g] = loc[p].tree
  /\ pc[p] \in {"backup_catalog", "copy_incoming", "displace"} /\ loc[p].tree # Absent
       => unit[loc[p].t].tree = loc[p].tree
  /\ pc[p] \in {"observe_active"} \cup BeforeDisplace => kept[loc[p].t] = Absent

BackedUp(t) == kept[t] # Absent => unit[t].tree = kept[t]

PriorInv ==
  /\ \A p \in Procs : Observed(p)
  /\ \A t \in Tx : BackedUp(t)

LEMMA InstallKeepsPrior ==
  ASSUME Typed, NEW p \in Procs, Bound(p), Observed(p), NEW t \in Tx, t = loc[p].t, BackedUp(t),
         InstallMove(p)
  PROVE  Observed(p)' /\ BackedUp(t)'
<1> USE DEF Typed, Goto, Return, InstallTry, Observed, BackedUp, Units, Sides, Locals,
            BeforeDisplace
<1>1. pc[p] # "idle" => loc[p].t \in Tx /\ loc[p].g \in Plugins
  BY DEF Bound
<1>2. CASE ObserveActive(p)
  BY <1>1, <1>2 DEF ObserveActive
<1>3. CASE ObserveCatalog(p)
  BY <1>1, <1>3 DEF ObserveCatalog
<1>4. CASE BackupPlugin(p)
  BY <1>1, <1>4 DEF BackupPlugin
<1>5. CASE BackupCatalog(p)
  BY <1>1, <1>5 DEF BackupCatalog
<1>6. CASE CopyIncoming(p)
  BY <1>1, <1>6 DEF CopyIncoming
<1>7. CASE Displace(p)
  BY <1>1, <1>7 DEF Displace
<1>8. CASE Swap(p)
  BY <1>1, <1>8 DEF Swap
<1>9. CASE ReadCatalog(p)
  BY <1>1, <1>9 DEF ReadCatalog
<1>10. CASE WriteCatalog(p)
  BY <1>1, <1>10 DEF WriteCatalog
<1>11. CASE Verify(p)
  BY <1>1, <1>11 DEF Verify
<1>12. CASE WriteReceipt(p)
  BY <1>1, <1>12 DEF WriteReceipt
<1>13. CASE DropDisplaced(p)
  BY <1>1, <1>13 DEF DropDisplaced
<1>14. CASE UndoCatalog(p)
  BY <1>1, <1>14 DEF UndoCatalog
<1>15. CASE UndoActive(p)
  BY <1>1, <1>15 DEF UndoActive
<1>16. CASE UndoDisplaced(p)
  BY <1>1, <1>16 DEF UndoDisplaced
<1>17. CASE UndoIncoming(p)
  BY <1>1, <1>17 DEF UndoIncoming
<1>18. CASE WriteFailure(p)
  BY <1>1, <1>18 DEF WriteFailure
<1>19. CASE InstallRaises(p)
  BY <1>1, <1>19 DEF InstallRaises
<1>20. CASE InstallStops(p)
  BY <1>1, <1>20 DEF InstallStops
<1>21. CASE UndoRaises(p)
  BY <1>1, <1>21 DEF UndoRaises
<1> QED
  BY <1>2, <1>3, <1>4, <1>5, <1>6, <1>7, <1>8, <1>9, <1>10, <1>11, <1>12, <1>13, <1>14, <1>15,
     <1>16, <1>17, <1>18, <1>19, <1>20, <1>21
     DEF InstallMove, Install

LEMMA PriorStep ==
  ASSUME TypeInv, PriorInv, Apart, UNCHANGED work, NEW p \in Procs, Moves(p)
  PROVE  PriorInv'
<1>0. /\ Typed /\ \A q \in Procs : Bound(q) /\ Observed(q)
      /\ \A u \in Tx : BackedUp(u) /\ Fresh(u)
  BY DEF TypeInv, TypeOK, Typed, PriorInv
<1> "observe_active" \in InstallSteps /\ BeforeDisplace \subseteq InstallSteps
    /\ {"backup_catalog", "copy_incoming", "displace"} \subseteq BeforeDisplace
    /\ "observe_active" \notin BeforeDisplace
  BY DEF InstallSteps, InstallTry, BeforeDisplace
<1>1. CASE InstallMove(p)
  <2>1. InstallFrame(p)
    BY <1>0, <1>1, InstallFrames
  <2>2. pc[p] # "idle" /\ loc[p].t \in Tx
    BY <1>0, <2>1, StepNames DEF InstallFrame, Bound
  <2>3. PICK t \in Tx : t = loc[p].t
    BY <2>2
  <2>4. Observed(p)' /\ BackedUp(t)'
    BY <1>0, <1>1, <2>3, InstallKeepsPrior
  <2>5. ASSUME NEW q \in Procs, q # p
        PROVE  Observed(q)'
    <3>1. pc'[q] = pc[q] /\ loc'[q] = loc[q]
      BY <2>1, <2>5 DEF InstallFrame
    <3>2. CASE pc[q] \in InstallSteps
      <4>1. /\ loc[q].g # loc[p].g /\ loc[q].t # loc[p].t
            /\ loc[q].t \in Tx /\ loc[q].g \in Plugins
        BY <1>0, <2>2, <2>5, <3>2, DifferentWork, StepNames DEF Bound
      <4> QED
        BY <1>0, <2>1, <3>1, <4>1 DEF InstallFrame, Observed
    <3> QED
      BY <3>1, <3>2 DEF Observed
  <2>6. ASSUME NEW u \in Tx, u # t
        PROVE  BackedUp(u)'
    BY <1>0, <2>1, <2>3, <2>6 DEF InstallFrame, BackedUp
  <2> QED
    BY <2>4, <2>5, <2>6 DEF PriorInv
<1>2. CASE RestoreMove(p)
  <2>1. RestoreFrame(p)
    BY <1>0, <1>2, RestoreFrames
  <2>2. pc[p] # "idle" /\ loc[p].t \in Tx /\ pc'[p] \notin InstallSteps
    BY <1>0, <2>1, StepNames DEF RestoreFrame, Bound
  <2>3. \A u \in Tx : unit'[u].tree = unit[u].tree
    BY <1>0, <2>1, <2>2 DEF RestoreFrame, Typed, Units
  <2>4. ASSUME NEW q \in Procs
        PROVE  Observed(q)'
    <3>1. CASE q = p
      BY <2>2, <3>1 DEF Observed
    <3>2. CASE q # p /\ pc[q] \in InstallSteps
      <4>1. loc[q].g # loc[p].g /\ loc[q].t \in Tx /\ loc[q].g \in Plugins
        BY <1>0, <2>2, <3>2, DifferentWork, StepNames DEF Bound
      <4> QED
        BY <1>0, <2>1, <2>3, <3>2, <4>1 DEF RestoreFrame, Observed
    <3>3. CASE q # p /\ pc[q] \notin InstallSteps
      BY <2>1, <3>3 DEF RestoreFrame, Observed
    <3> QED
      BY <3>1, <3>2, <3>3
  <2>5. \A u \in Tx : BackedUp(u)'
    BY <1>0, <2>1, <2>3 DEF RestoreFrame, BackedUp
  <2> QED
    BY <2>4, <2>5 DEF PriorInv
<1>3. CASE Begins(p) \/ Crash(p)
  <2>1. /\ UNCHANGED <<active, kept>>
        /\ \A q \in Procs : q # p => pc'[q] = pc[q] /\ loc'[q] = loc[q]
    BY <1>0, <1>3, BeginsFrame
  <2>2. ASSUME NEW t \in Tx, NEW g \in Plugins, NEW stage \in Trees, BeginInstall(p, t, g, stage)
        PROVE  PriorInv'
    <3>1. /\ pc'[p] = "observe_active" /\ loc'[p].t = t /\ kept[t] = Absent
          /\ \A u \in Tx : unit'[u].tree = unit[u].tree
      BY <1>0, <2>2 DEF BeginInstall, Goto, Typed, Fresh, NoOp, Units
    <3>2. Observed(p)'
      BY <2>1, <3>1 DEF Observed
    <3>3. \A q \in Procs : q # p => Observed(q)'
      BY <1>0, <2>1, <3>1, StepNames DEF Observed, Bound
    <3> QED
      BY <1>0, <2>1, <3>1, <3>2, <3>3 DEF PriorInv, BackedUp
  <2>3. CASE (\E t \in Tx : BeginRestore(p, t)) \/ Crash(p)
    <3>1. unit' = unit /\ pc'[p] \in {"r_displace", "idle"}
      BY <1>0, <2>3 DEF BeginRestore, Crash, Return, Goto, Typed
    <3>2. pc'[p] \notin InstallSteps
      BY <3>1, StepNames DEF RestoreSteps
    <3>3. \A q \in Procs : Observed(q)'
      BY <1>0, <2>1, <3>1, <3>2 DEF Observed
    <3> QED
      BY <1>0, <2>1, <3>1, <3>3 DEF PriorInv, BackedUp
  <2> QED
    BY <1>3, <2>2, <2>3 DEF Begins
<1> QED
  BY <1>1, <1>2, <1>3 DEF Moves

LEMMA PriorInit == Init => PriorInv
<1> SUFFICES ASSUME Init PROVE PriorInv
  OBVIOUS
<1>1. \A p \in Procs : pc[p] = "idle"
  BY DEF Init
<1>2. \A t \in Tx : kept[t] = Absent
  BY DEF Init
<1> QED
  BY <1>1, <1>2 DEF PriorInv, Observed, BackedUp, BeforeDisplace

\* When no two processes work on one plugin, a tree that an install displaced
\* is active, displaced or in the backup, at every step and after any number of
\* failures and crashes.
THEOREM PriorTreeKept == ASSUME Apart PROVE Spec => []PriorKept
<1>1. PriorInv => PriorKept
  BY DEF PriorInv, BackedUp, PriorKept
<1>2. TypeInv /\ PriorInv /\ [Next]_vars => PriorInv'
  <2> SUFFICES ASSUME TypeInv, PriorInv, [Next]_vars PROVE PriorInv'
    OBVIOUS
  <2>1. CASE Next
    BY <2>1, NextMoves, PriorStep
  <2>2. CASE UNCHANGED vars
    BY <2>2 DEF vars, PriorInv, Observed, BackedUp
  <2> QED
    BY <2>1, <2>2
<1> QED
  BY <1>1, <1>2, PriorInit, InitType, NextType, PTL DEF Spec

\* A tree that a restore took away stays in its folder until the restore
\* succeeded or put it back.
Shelved(t) == shelved[t] # Absent => side[t].restore_displaced = shelved[t]
Dropped(p) == pc[p] = "r_drop" => shelved[loc[p].t] = Absent

ShelfInv ==
  /\ \A t \in Tx : Shelved(t)
  /\ \A p \in Procs : Dropped(p)

LEMMA RestoreKeepsShelf ==
  ASSUME Typed, NEW p \in Procs, Bound(p), NEW t \in Tx, t = loc[p].t, Shelved(t), Dropped(p),
         RestoreMove(p)
  PROVE  Shelved(t)' /\ Dropped(p)'
<1> USE DEF Typed, Goto, Return, RestoreTry, RestoreUndo, Shelved, Dropped, Units, Sides, Locals
<1>1. pc[p] # "idle" => loc[p].g \in Plugins
  BY DEF Bound
<1>2. CASE RestoreDisplace(p)
  BY <1>1, <1>2 DEF RestoreDisplace
<1>3. CASE RestoreCopy(p)
  BY <1>1, <1>3 DEF RestoreCopy
<1>4. CASE RestoreSwap(p)
  BY <1>1, <1>4 DEF RestoreSwap
<1>5. CASE RestoreCatalog(p)
  BY <1>1, <1>5 DEF RestoreCatalog
<1>6. CASE RestoreReceipt(p)
  BY <1>1, <1>6 DEF RestoreReceipt
<1>7. CASE RestoreDrop(p)
  BY <1>1, <1>7 DEF RestoreDrop
<1>8. CASE RestoreUndoActive(p)
  BY <1>1, <1>8 DEF RestoreUndoActive
<1>9. CASE RestoreUndoIncoming(p)
  BY <1>1, <1>9 DEF RestoreUndoIncoming
<1>10. CASE RestoreUndoDisplaced(p)
  BY <1>1, <1>10 DEF RestoreUndoDisplaced
<1>11. CASE RestoreUndoRead(p)
  BY <1>1, <1>11 DEF RestoreUndoRead
<1>12. CASE RestoreUndoCatalog(p)
  BY <1>1, <1>12 DEF RestoreUndoCatalog
<1>13. CASE RestoreRaises(p)
  BY <1>1, <1>13 DEF RestoreRaises
<1>14. CASE RestoreStops(p)
  BY <1>1, <1>14 DEF RestoreStops
<1> QED
  BY <1>2, <1>3, <1>4, <1>5, <1>6, <1>7, <1>8, <1>9, <1>10, <1>11, <1>12, <1>13, <1>14
     DEF RestoreMove, Restore

LEMMA ShelfStep ==
  ASSUME TypeInv, ShelfInv, Apart, UNCHANGED work, NEW p \in Procs, Moves(p)
  PROVE  ShelfInv'
<1>0. /\ Typed /\ \A q \in Procs : Bound(q) /\ Dropped(q)
      /\ \A u \in Tx : Shelved(u)
  BY DEF TypeInv, TypeOK, Typed, ShelfInv
<1>d. "r_drop" \in RestoreSteps
  BY DEF RestoreSteps, RestoreTry, RestoreUndo
<1>1. CASE InstallMove(p)
  <2>1. InstallFrame(p)
    BY <1>0, <1>1, InstallFrames
  <2>2. \A u \in Tx : side'[u].restore_displaced = side[u].restore_displaced
    BY <2>1 DEF InstallFrame
  <2>3. pc'[p] # "r_drop"
    BY <1>d, <2>1, StepNames DEF InstallFrame
  <2> QED
    BY <1>0, <2>1, <2>2, <2>3 DEF InstallFrame, ShelfInv, Shelved, Dropped
<1>2. CASE RestoreMove(p)
  <2>1. RestoreFrame(p)
    BY <1>0, <1>2, RestoreFrames
  <2>2. pc[p] # "idle" /\ loc[p].t \in Tx
    BY <1>0, <2>1, StepNames DEF RestoreFrame, Bound
  <2>3. PICK t \in Tx : t = loc[p].t
    BY <2>2
  <2>4. Shelved(t)' /\ Dropped(p)'
    BY <1>0, <1>2, <2>3, RestoreKeepsShelf
  <2>5. ASSUME NEW q \in Procs, q # p
        PROVE  Dropped(q)'
    <3>1. pc'[q] = pc[q] /\ loc'[q] = loc[q]
      BY <2>1, <2>5 DEF RestoreFrame
    <3>2. CASE pc[q] = "r_drop"
      <4>1. loc[q].t # loc[p].t /\ loc[q].t \in Tx
        BY <1>0, <2>2, <2>5, <3>2, DifferentWork DEF Bound
      <4> QED
        BY <1>0, <2>1, <3>1, <4>1 DEF RestoreFrame, Dropped
    <3> QED
      BY <3>1, <3>2 DEF Dropped
  <2>6. ASSUME NEW u \in Tx, u # t
        PROVE  Shelved(u)'
    BY <1>0, <2>1, <2>3, <2>6 DEF RestoreFrame, Shelved
  <2> QED
    BY <2>4, <2>5, <2>6 DEF ShelfInv
<1>3. CASE Begins(p) \/ Crash(p)
  <2>1. /\ UNCHANGED <<side, shelved>>
        /\ \A q \in Procs : q # p => pc'[q] = pc[q] /\ loc'[q] = loc[q]
    BY <1>0, <1>3, BeginsFrame
  <2>2. pc'[p] # "r_drop"
    BY <1>0, <1>3 DEF Begins, BeginInstall, BeginRestore, Crash, Return, Goto, Typed
  <2> QED
    BY <1>0, <2>1, <2>2 DEF ShelfInv, Shelved, Dropped
<1> QED
  BY <1>1, <1>2, <1>3 DEF Moves

LEMMA ShelfInit == Init => ShelfInv
<1> SUFFICES ASSUME Init PROVE ShelfInv
  OBVIOUS
<1>1. \A p \in Procs : pc[p] = "idle"
  BY DEF Init
<1>2. \A t \in Tx : shelved[t] = Absent
  BY DEF Init
<1> QED
  BY <1>1, <1>2 DEF ShelfInv, Shelved, Dropped

\* When no two processes work on one plugin, a failed, interrupted or repeated
\* restore never leaves the plugin without the tree that it took away.
THEOREM InstalledTreeKept == ASSUME Apart PROVE Spec => []InstalledKept
<1>1. ShelfInv => InstalledKept
  BY DEF ShelfInv, Shelved, InstalledKept
<1>2. TypeInv /\ ShelfInv /\ [Next]_vars => ShelfInv'
  <2> SUFFICES ASSUME TypeInv, ShelfInv, [Next]_vars PROVE ShelfInv'
    OBVIOUS
  <2>1. CASE Next
    BY <2>1, NextMoves, ShelfStep
  <2>2. CASE UNCHANGED vars
    BY <2>2 DEF vars, ShelfInv, Shelved, Dropped
  <2> QED
    BY <2>1, <2>2
<1> QED
  BY <1>1, <1>2, ShelfInit, InitType, NextType, PTL DEF Spec

-----------------------------------------------------------------------------
(***************************************************************************)
(* Receipts tell what their backups hold, when one process works.          *)
(***************************************************************************)

\* How far the backups have got at each step of an install.
Backed(p) ==
  LET u == unit[loc[p].t]
  IN  /\ pc[p] \in {"observe_active", "observe_catalog", "backup_plugin"} => u.tree = Absent
      /\ pc[p] \in {"observe_active", "observe_catalog", "backup_plugin", "backup_catalog"}
           => u.catalog = Absent
      /\ pc[p] \in {"backup_plugin", "backup_catalog"} => catalog = loc[p].catalog
      /\ pc[p] \in InstallTry \ {"backup_plugin"} => u.tree = loc[p].tree
      /\ pc[p] \in InstallTry \ {"backup_plugin", "backup_catalog"} => u.catalog = loc[p].catalog

Matches(t) ==
  unit[t].receipt # Absent =>
    unit[t].tree = unit[t].receipt.tree /\ unit[t].catalog = unit[t].receipt.catalog

MatchInv == ~Shared => (\A p \in Procs : Backed(p)) /\ (\A t \in Tx : Matches(t))

\* A process that works alone is the only one in an operation.
LEMMA OneAtWork ==
  ASSUME TypeInv, ~Shared, NEW p \in Procs, work[p] # {}
  PROVE  \A q \in Procs : q # p => work[q] = {} /\ pc[q] = "idle"
<1>1. \A q \in Procs : q # p => work[q] = {}
  BY DEF Shared
<1>2. \A q \in Procs : Bound(q)
  BY DEF TypeInv
<1> QED
  BY <1>1, <1>2 DEF Bound

LEMMA MovesAtWork ==
  ASSUME TypeInv, NEW p \in Procs, Moves(p)
  PROVE  work[p] # {}
<1>1. Typed /\ Bound(p)
  BY DEF TypeInv, TypeOK, Typed
<1>2. CASE pc[p] # "idle"
  BY <1>1, <1>2 DEF Bound
<1>3. CASE pc[p] = "idle"
  <2>1. pc[p] \notin InstallSteps /\ pc[p] \notin RestoreSteps
    BY <1>3, StepNames
  <2>2. ~InstallMove(p)
    BY <1>1, <2>1, InstallFrames DEF InstallFrame
  <2>3. ~RestoreMove(p)
    BY <1>1, <2>1, RestoreFrames DEF RestoreFrame
  <2>4. Begins(p)
    BY <1>3, <2>2, <2>3 DEF Moves, Crash
  <2> QED
    BY <2>4 DEF Begins, BeginInstall, BeginRestore
<1> QED
  BY <1>2, <1>3

\* Reading the catalog changes what was read, and the entry to write.
LEMMA ReadLocals ==
  ASSUME Typed, NEW p \in Procs, ReadCatalog(p)
  PROVE  /\ loc'[p].t = loc[p].t /\ loc'[p].g = loc[p].g /\ loc'[p].stage = loc[p].stage
         /\ loc'[p].tree = loc[p].tree /\ loc'[p].catalog = loc[p].catalog
         /\ loc'[p].displaced = loc[p].displaced /\ loc'[p].swapped = loc[p].swapped
         /\ pc[p] = "read_catalog" /\ pc'[p] \in {"undo_catalog", "write_catalog"}
         /\ UNCHANGED <<active, catalog, side, unit, faults, kept, shelved>>
<1>1. loc[p] \in Locals
  BY DEF Typed
<1>2. PICK f \in {loc[p].stage, Torn} : f = IF active[loc[p].g] = loc[p].stage THEN loc[p].stage ELSE Torn
  OBVIOUS
<1>3. loc' = loc \/ loc' = [loc EXCEPT ![p] = [loc[p] EXCEPT !.read = Entries, !.entry = f]]
  BY <1>2 DEF ReadCatalog
<1>4. loc'[p] = loc[p] \/ loc'[p] = [loc[p] EXCEPT !.read = Entries, !.entry = f]
  BY <1>3 DEF Typed
<1>5. /\ pc[p] = "read_catalog" /\ pc'[p] \in {"undo_catalog", "write_catalog"}
      /\ UNCHANGED <<active, catalog, side, unit, faults, kept, shelved>>
  BY DEF ReadCatalog, Goto, Typed
<1> QED
  BY <1>1, <1>4, <1>5 DEF Locals

LEMMA InstallKeepsMatch ==
  ASSUME Typed, NEW p \in Procs, Bound(p), Verdicts(p), Backed(p),
         NEW t \in Tx, t = loc[p].t, Matches(t), InstallMove(p)
  PROVE  Backed(p)' /\ Matches(t)'
<1> USE DEF Typed, Goto, Return, InstallTry, Backed, Matches, Units, Locals, Receipts
<1>1. /\ pc[p] # "idle" => loc[p].t \in Tx /\ loc[p].g \in Plugins
      /\ pc[p] \in InstallTry => unit[t].receipt = Absent
  BY DEF Bound, Verdicts, InstallSteps
<1>2. CASE ObserveActive(p)
  BY <1>1, <1>2 DEF ObserveActive
<1>3. CASE ObserveCatalog(p)
  BY <1>1, <1>3 DEF ObserveCatalog
<1>4. CASE BackupPlugin(p)
  BY <1>1, <1>4 DEF BackupPlugin
<1>5. CASE BackupCatalog(p)
  BY <1>1, <1>5 DEF BackupCatalog
<1>6. CASE CopyIncoming(p)
  BY <1>1, <1>6 DEF CopyIncoming
<1>7. CASE Displace(p)
  <2>1. unit' = unit /\ pc[p] = "displace" /\ pc'[p] \in {"swap", "undo_catalog"}
    BY <1>7 DEF Displace
  <2>2. loc' = loc \/ loc' = [loc EXCEPT ![p].displaced = TRUE]
    BY <1>7 DEF Displace
  <2>3. loc'[p].t = t /\ loc'[p].tree = loc[p].tree /\ loc'[p].catalog = loc[p].catalog
    BY <2>2
  <2> QED
    BY <2>1, <2>3
<1>8. CASE Swap(p)
  <2>1. unit' = unit /\ pc[p] = "swap" /\ pc'[p] \in {"read_catalog", "undo_catalog"}
    BY <1>8 DEF Swap
  <2>2. loc' = loc \/ loc' = [loc EXCEPT ![p].swapped = TRUE]
    BY <1>8 DEF Swap
  <2>3. loc'[p].t = t /\ loc'[p].tree = loc[p].tree /\ loc'[p].catalog = loc[p].catalog
    BY <2>2
  <2> QED
    BY <2>1, <2>3
<1>9. CASE ReadCatalog(p)
  BY <1>9, ReadLocals
<1>10. CASE WriteCatalog(p)
  BY <1>1, <1>10 DEF WriteCatalog
<1>11. CASE Verify(p)
  BY <1>1, <1>11 DEF Verify
<1>12. CASE WriteReceipt(p)
  BY <1>1, <1>12 DEF WriteReceipt
<1>13. CASE DropDisplaced(p)
  BY <1>1, <1>13 DEF DropDisplaced
<1>14. CASE UndoCatalog(p)
  BY <1>1, <1>14 DEF UndoCatalog
<1>15. CASE UndoActive(p)
  BY <1>1, <1>15 DEF UndoActive
<1>16. CASE UndoDisplaced(p)
  BY <1>1, <1>16 DEF UndoDisplaced
<1>17. CASE UndoIncoming(p)
  BY <1>1, <1>17 DEF UndoIncoming
<1>18. CASE WriteFailure(p)
  BY <1>1, <1>18 DEF WriteFailure
<1>19. CASE InstallRaises(p)
  BY <1>1, <1>19 DEF InstallRaises
<1>20. CASE InstallStops(p)
  BY <1>1, <1>20 DEF InstallStops
<1>21. CASE UndoRaises(p)
  BY <1>1, <1>21 DEF UndoRaises
<1> QED
  BY <1>2, <1>3, <1>4, <1>5, <1>6, <1>7, <1>8, <1>9, <1>10, <1>11, <1>12, <1>13, <1>14, <1>15,
     <1>16, <1>17, <1>18, <1>19, <1>20, <1>21
     DEF InstallMove, Install

LEMMA MatchStep ==
  ASSUME TypeInv, MatchInv, UNCHANGED work, NEW p \in Procs, Moves(p)
  PROVE  MatchInv'
<1> SUFFICES ASSUME ~Shared PROVE (\A q \in Procs : Backed(q))' /\ (\A t \in Tx : Matches(t))'
  BY DEF MatchInv, Shared
<1>0. /\ Typed /\ \A q \in Procs : Bound(q) /\ Verdicts(q) /\ Backed(q)
      /\ \A u \in Tx : Matches(u) /\ Fresh(u)
  BY DEF TypeInv, TypeOK, Typed, MatchInv
<1>1. \A q \in Procs : q # p => pc[q] = "idle"
  BY OneAtWork, MovesAtWork
<1>2. \A q \in Procs : pc'[q] = "idle" => Backed(q)'
  BY DEF Backed, InstallTry
<1>3. CASE InstallMove(p)
  <2>1. InstallFrame(p)
    BY <1>0, <1>3, InstallFrames
  <2>2. PICK t \in Tx : t = loc[p].t
    BY <1>0, <2>1, StepNames DEF InstallFrame, Bound
  <2>3. Backed(p)' /\ Matches(t)'
    BY <1>0, <1>3, <2>2, InstallKeepsMatch
  <2>4. \A u \in Tx : u # t => Matches(u)'
    BY <1>0, <2>1, <2>2 DEF InstallFrame, Matches
  <2> QED
    BY <1>1, <1>2, <2>1, <2>3, <2>4 DEF InstallFrame
<1>4. CASE RestoreMove(p)
  <2>1. RestoreFrame(p)
    BY <1>0, <1>4, RestoreFrames
  <2>2. \A u \in Tx : /\ unit'[u].tree = unit[u].tree /\ unit'[u].catalog = unit[u].catalog
                      /\ unit'[u].receipt = unit[u].receipt
    BY <1>0, <2>1 DEF RestoreFrame, Typed, Units
  <2>3. pc'[p] \notin InstallSteps
    BY <2>1, StepNames DEF RestoreFrame
  <2>4. Backed(p)'
    BY <2>3 DEF Backed, InstallSteps, InstallTry
  <2> QED
    BY <1>0, <1>1, <1>2, <2>1, <2>2, <2>4 DEF RestoreFrame, Matches
<1>5. CASE Begins(p) \/ Crash(p)
  <2>1. \A q \in Procs : q # p => pc'[q] = pc[q] /\ loc'[q] = loc[q]
    BY <1>0, <1>5, BeginsFrame
  <2>2. ASSUME NEW t \in Tx, NEW g \in Plugins, NEW stage \in Trees, BeginInstall(p, t, g, stage)
        PROVE  Backed(p)' /\ \A u \in Tx : Matches(u)'
    <3>1. /\ pc'[p] = "observe_active" /\ loc'[p].t = t
          /\ \A u \in Tx : /\ unit'[u].tree = unit[u].tree /\ unit'[u].catalog = unit[u].catalog
                           /\ unit'[u].receipt = unit[u].receipt
          /\ unit[t] = NoUnit
      BY <1>0, <2>2 DEF BeginInstall, Goto, Typed, Fresh, NoOp, Units
    <3>2. Backed(p)'
      BY <3>1 DEF Backed, NoUnit, InstallTry
    <3> QED
      BY <1>0, <3>1, <3>2 DEF Matches
  <2>3. CASE (\E t \in Tx : BeginRestore(p, t)) \/ Crash(p)
    <3>1. unit' = unit /\ pc'[p] \in {"r_displace", "idle"}
      BY <1>0, <2>3 DEF BeginRestore, Crash, Return, Goto, Typed
    <3>2. Backed(p)'
      BY <3>1 DEF Backed, InstallTry
    <3>3. \A u \in Tx : Matches(u)'
      BY <1>0, <3>1 DEF Matches
    <3> QED
      BY <1>1, <1>2, <2>1, <3>2, <3>3
  <2> QED
    BY <1>1, <1>2, <1>5, <2>1, <2>2, <2>3 DEF Begins
<1> QED
  BY <1>3, <1>4, <1>5 DEF Moves

LEMMA MatchInit == Init => MatchInv
<1> SUFFICES ASSUME Init PROVE (\A p \in Procs : Backed(p)) /\ (\A t \in Tx : Matches(t))
  BY DEF MatchInv
<1>1. \A p \in Procs : pc[p] = "idle"
  BY DEF Init
<1>2. \A t \in Tx : unit[t].receipt = Absent
  BY DEF Init, NoUnit
<1> QED
  BY <1>1, <1>2 DEF Backed, Matches, InstallTry

LEMMA MatchNext == TypeInv /\ MatchInv /\ [Next]_vars => MatchInv'
<1> SUFFICES ASSUME TypeInv, MatchInv, [Next]_vars PROVE MatchInv'
  OBVIOUS
<1>1. CASE Next
  BY <1>1, NextMoves, MatchStep
<1>2. CASE UNCHANGED vars
  BY <1>2 DEF vars, MatchInv, Backed, Matches, Shared
<1> QED
  BY <1>1, <1>2

\* When one process works, the backups of an installed transaction are what its
\* receipt says was there before, whatever fails.
THEOREM BackupsStayMatched == Spec => []BackupsMatch
<1>1. MatchInv => BackupsMatch
  BY DEF MatchInv, Matches, BackupsMatch
<1> QED
  BY <1>1, InitType, NextType, MatchInit, MatchNext, PTL DEF Spec

-----------------------------------------------------------------------------
(***************************************************************************)
(* Catalog and active trees agree after every operation, when one process  *)
(* works on one plugin and at most one file operation fails.               *)
(***************************************************************************)

\* One process has work, and it is on plugin g.
Only(g) == ~Shared /\ \A p \in Procs : \A x \in work[p] : x[2] = g

\* The entries of a catalog c (Entries are those of the catalog file).
EntriesOf(c) == IF c = Absent THEN NoEntries ELSE c

\* Catalog c lists f for plugin g, and what is active of every other plugin.
Lists(c, f, g, now) ==
  c # Torn /\ \A h \in Plugins : EntriesOf(c)[h] = IF h = g THEN f ELSE now[h]

\* Whatever it lists for g, it lists what is active of every other plugin.
Others(c, g, now) == c # Torn /\ \A h \in Plugins : h # g => EntriesOf(c)[h] = now[h]

Agree(g) == Lists(catalog, active[g], g, active)

Failed == \E t \in Tx : unit[t].failed = "rollback_failed"

InstallUndo == {"undo_catalog", "undo_active", "undo_displaced", "undo_incoming", "write_failure"}

\* The operation of p on plugin g at each step of an install ...
InstallStage(p, g) ==
  LET l == loc[p]
      Untouched == {"backup_plugin", "backup_catalog", "copy_incoming", "displace"}
      Unlisted == Untouched \cup {"swap", "read_catalog", "write_catalog"}
      Listed == {"verify", "write_receipt", "drop_displaced"}
  IN  /\ pc[p] \in {"observe_active", "observe_catalog"} => Agree(g)
      /\ pc[p] \in Untouched \cup {"observe_catalog"} => active[g] = l.tree
      /\ pc[p] \in Unlisted => catalog = l.catalog
      /\ pc[p] \in InstallTry \cup InstallUndo => Lists(l.catalog, l.tree, g, active)
      /\ pc[p] \in {"displace", "swap"} => side[l.t].incoming = l.stage
      /\ pc[p] = "swap" => active[g] = Absent
      /\ pc[p] \in {"read_catalog", "write_catalog"} \cup Listed => active[g] = l.stage
      /\ pc[p] = "write_catalog" => l.read = Entries /\ l.entry = l.stage
      /\ pc[p] \in Listed => Lists(catalog, l.stage, g, active)
      /\ pc[p] = "verify" => catalog \in Catalogs
      /\ pc[p] \in InstallUndo => faults > 0

\* ... and of a restore.
RestoreStage(p, g) ==
  LET t == loc[p].t
      r == unit[t].receipt
  IN  /\ pc[p] \in {"r_displace", "r_drop"} => Agree(g)
      /\ pc[p] \in {"r_displace", "r_undo_read", "r_undo_catalog"} => active[g] \in Trees
      /\ pc[p] \in RestoreTry \cup RestoreUndo => Others(catalog, g, active)
      /\ pc[p] \in RestoreTry \cup {"r_undo_active", "r_undo_incoming", "r_undo_displaced"}
           => side[t].restore_displaced \in Trees
      /\ pc[p] \in {"r_copy", "r_swap", "r_undo_incoming", "r_undo_displaced"} => active[g] = Absent
      /\ pc[p] = "r_swap" => side[t].restore_incoming = r.tree
      /\ pc[p] \in {"r_catalog", "r_receipt"} => active[g] = r.tree
      /\ pc[p] = "r_receipt" => catalog = r.catalog
      /\ pc[p] = "r_undo_catalog" => loc[p].read = Entries /\ loc[p].entry = active[g]
      /\ pc[p] \in RestoreUndo => faults > 0

\* A receipt lists what was active before its install.
Remembers(t, g) ==
  unit[t].receipt # Absent => Lists(unit[t].receipt.catalog, unit[t].receipt.tree, g, active)

AgreeInv(g) ==
  /\ (\A p \in Procs : pc[p] = "idle") => Agree(g)
  /\ \A p \in Procs : InstallStage(p, g) /\ RestoreStage(p, g)
  /\ \A t \in Tx : Remembers(t, g)

SoloInv == \A g \in Plugins \cup {Absent} : Only(g) => Failed \/ AgreeInv(g)

LEMMA ListsFacts ==
  ASSUME NEW c, NEW f, NEW g, NEW now, NEW later, \A h \in Plugins : h # g => later[h] = now[h]
  PROVE  /\ Lists(c, f, g, now) => Lists(c, f, g, later) /\ Others(c, g, now)
         /\ Others(c, g, now) => Others(c, g, later)
  BY DEF Lists, Others

\* Exchanging the entry of g lists g, whatever the catalog had there.
LEMMA ExchangeLists ==
  ASSUME NEW c \in CatalogFiles, NEW f \in Folders, NEW g \in Plugins, NEW now, Others(c, g, now)
  PROVE  LET new == [EntriesOf(c) EXCEPT ![g] = f]
         IN  Lists(new, f, g, now) /\ new \in Catalogs
<1> DEFINE new == [EntriesOf(c) EXCEPT ![g] = f]
<1>1. EntriesOf(c) \in Catalogs
  BY NoEntriesType DEF EntriesOf, CatalogFiles, Others
<1>2. \A h \in Plugins : new[h] = IF h = g THEN f ELSE now[h]
  BY <1>1 DEF Catalogs, Others
<1>3. new \in Catalogs
  BY <1>1 DEF Catalogs
<1>4. EntriesOf(new) = new /\ new # Torn
  BY <1>3, AbsentIsNoRecord DEF EntriesOf
<1> HIDE DEF new
<1>5. Lists(new, f, g, now)
  BY <1>2, <1>4 DEF Lists
<1> QED
  BY <1>3, <1>5 DEF new

\* A step of an install goes on to the next stage with the one failure there
\* may be spent, or ends in agreement, or reports that its undo failed.
LEMMA InstallKeepsAgree ==
  ASSUME Typed, MaxFaults <= 1, NEW p \in Procs, NEW g \in Plugins, NEW t \in Tx,
         t = loc[p].t, g = loc[p].g, Bound(p), Verdicts(p), InstallStage(p, g), InstallMove(p)
  PROVE  \/ /\ InstallStage(p, g)'
            /\ pc'[p] = "idle" => Agree(g)'
            /\ pc[p] = "write_receipt" /\ pc'[p] = "drop_displaced"
                 => Lists(loc[p].catalog, loc[p].tree, g, active)'
         \/ unit'[t].failed = "rollback_failed"
<1>0. pc[p] # "idle"
  BY InstallFrames, StepNames DEF InstallFrame
<1>1. faults \in 0..1 /\ MaxFaults \in 0..1 /\ Absent \notin Trees
  <2>1. MaxFaults \in Nat /\ Absent \notin Trees
    BY ConstantsOK
  <2>2. faults \in 0..MaxFaults
    BY DEF Typed
  <2> QED
    BY <2>1, <2>2
<1> USE DEF Typed, Goto, Return, Fault, InstallTry, InstallUndo, Units, Sides, Locals
<1>2. CASE ObserveActive(p)
  <2>1. /\ pc[p] = "observe_active" /\ pc' = [pc EXCEPT ![p] = "observe_catalog"]
        /\ loc' = [loc EXCEPT ![p].tree = active[g]]
        /\ UNCHANGED <<active, catalog, side, unit, faults>>
    BY <1>2 DEF ObserveActive
  <2>2. pc'[p] = "observe_catalog" /\ loc'[p].tree = active[g]
    BY <2>1
  <2>3. Agree(g)'
    BY <2>1 DEF InstallStage, Agree
  <2> QED
    BY <2>1, <2>2, <2>3 DEF InstallStage
<1>3. CASE ObserveCatalog(p)
  BY <1>0, <1>1, <1>3 DEF ObserveCatalog, InstallStage, Agree
<1>4. CASE BackupPlugin(p)
  BY <1>0, <1>1, <1>4 DEF BackupPlugin, InstallStage
<1>5. CASE BackupCatalog(p)
  BY <1>0, <1>1, <1>5 DEF BackupCatalog, InstallStage
<1>6. CASE CopyIncoming(p)
  BY <1>0, <1>1, <1>6 DEF CopyIncoming, InstallStage
<1>7. CASE Displace(p)
  <2>1. /\ pc[p] = "displace" /\ pc'[p] = "swap" /\ UNCHANGED <<catalog, unit, faults>>
        /\ side'[t].incoming = side[t].incoming
        /\ active' = [active EXCEPT ![g] = Absent]
    BY <1>0, <1>1, <1>7 DEF Displace, InstallStage
  <2>2. loc'[p].t = t /\ loc'[p].tree = loc[p].tree /\ loc'[p].catalog = loc[p].catalog
        /\ loc'[p].stage = loc[p].stage
    BY <1>0, <1>7 DEF Displace
  <2>3. Lists(loc[p].catalog, loc[p].tree, g, active) /\ catalog = loc[p].catalog
    BY <2>1 DEF InstallStage
  <2>4. active'[g] = Absent /\ \A h \in Plugins : h # g => active'[h] = active[h]
    BY <2>1
  <2>5. Lists(loc[p].catalog, loc[p].tree, g, active')
    BY <2>3, <2>4, ListsFacts
  <2> QED
    BY <2>1, <2>2, <2>3, <2>4, <2>5 DEF InstallStage
<1>8. CASE Swap(p)
  <2>1. /\ pc[p] = "swap" /\ pc'[p] = "read_catalog" /\ UNCHANGED <<catalog, unit, faults>>
        /\ active' = [active EXCEPT ![g] = loc[p].stage]
    BY <1>0, <1>1, <1>8 DEF Swap, InstallStage
  <2>2. loc'[p].t = t /\ loc'[p].tree = loc[p].tree /\ loc'[p].catalog = loc[p].catalog
        /\ loc'[p].stage = loc[p].stage
    BY <1>0, <1>8 DEF Swap
  <2>3. Lists(loc[p].catalog, loc[p].tree, g, active) /\ catalog = loc[p].catalog
    BY <2>1 DEF InstallStage
  <2>4. active'[g] = loc[p].stage /\ \A h \in Plugins : h # g => active'[h] = active[h]
    BY <2>1
  <2>5. Lists(loc[p].catalog, loc[p].tree, g, active')
    BY <2>3, <2>4, ListsFacts
  <2> QED
    BY <2>1, <2>2, <2>3, <2>4, <2>5 DEF InstallStage
<1>9. CASE ReadCatalog(p)
  <2>1. active[g] = loc[p].stage /\ active[g] # Absent /\ catalog # Torn /\ pc[p] = "read_catalog"
        /\ Lists(loc[p].catalog, loc[p].tree, g, active) /\ catalog = loc[p].catalog
    BY <1>0, <1>1, <1>9 DEF ReadCatalog, InstallStage, Lists, Verdicts, InstallSteps
  <2>2. /\ pc'[p] = "write_catalog"
        /\ loc'[p] = [loc[p] EXCEPT !.read = Entries, !.entry = loc[p].stage]
    BY <1>9, <2>1 DEF ReadCatalog
  <2>3. loc'[p].read = Entries /\ loc'[p].entry = loc[p].stage
    BY <2>2
  <2> QED
    BY <1>9, <2>1, <2>2, <2>3, ReadLocals DEF InstallStage, Entries
<1>10. CASE WriteCatalog(p)
  <2>1. /\ pc[p] = "write_catalog" /\ pc'[p] = "verify" /\ UNCHANGED <<active, side, unit, loc, faults>>
        /\ catalog' = [loc[p].read EXCEPT ![g] = loc[p].entry]
    BY <1>10 DEF WriteCatalog
  <2>2. /\ loc[p].read = EntriesOf(catalog) /\ loc[p].entry = loc[p].stage
        /\ Lists(loc[p].catalog, loc[p].tree, g, active) /\ catalog = loc[p].catalog
        /\ active[g] = loc[p].stage
    BY <2>1 DEF InstallStage, Entries, EntriesOf
  <2>3. Others(catalog, g, active)
    BY <2>2, ListsFacts
  <2>4. loc[p].stage \in Folders /\ g \in Plugins
    BY <1>0, <2>2 DEF Bound
  <2>5. Lists(catalog', loc[p].stage, g, active) /\ catalog' \in Catalogs
    BY <2>1, <2>2, <2>3, <2>4, ExchangeLists
  <2> QED
    BY <2>1, <2>2, <2>5 DEF InstallStage
<1>11. CASE Verify(p)
  <2>1. /\ pc[p] = "verify" /\ loc[p].stage \in Trees /\ g \in Plugins
        /\ catalog \in Catalogs /\ Lists(catalog, loc[p].stage, g, active)
        /\ active[g] = loc[p].stage
    BY <1>0, <1>11 DEF Verify, InstallStage, Verdicts, Bound, InstallSteps
  <2>2. Agrees(g)
    BY <2>1, AbsentIsNoRecord DEF Agrees, Lists, EntriesOf
  <2> QED
    BY <1>11, <2>1, <2>2 DEF Verify, InstallStage
<1>12. CASE WriteReceipt(p)
  BY <1>0, <1>1, <1>12 DEF WriteReceipt, InstallStage
<1>13. CASE DropDisplaced(p)
  BY <1>0, <1>1, <1>13 DEF DropDisplaced, InstallStage, Agree
<1>14. CASE UndoCatalog(p)
  <2>1. /\ pc[p] = "undo_catalog" /\ pc'[p] = "undo_active" /\ UNCHANGED <<active, faults>>
    BY <1>14 DEF UndoCatalog
  <2>2. loc'[p].tree = loc[p].tree /\ loc'[p].catalog = loc[p].catalog
    BY <1>0, <1>14 DEF UndoCatalog
  <2> QED
    BY <2>1, <2>2 DEF InstallStage
<1>15. CASE UndoActive(p)
  <2>1. /\ pc[p] = "undo_active" /\ pc'[p] = "undo_displaced" /\ UNCHANGED <<loc, faults>>
        /\ \A h \in Plugins : h # g => active'[h] = active[h]
    BY <1>15 DEF UndoActive
  <2>2. Lists(loc[p].catalog, loc[p].tree, g, active)
    BY <2>1 DEF InstallStage
  <2>3. Lists(loc[p].catalog, loc[p].tree, g, active')
    BY <2>1, <2>2, ListsFacts
  <2> QED
    BY <2>1, <2>3 DEF InstallStage
<1>16. CASE UndoDisplaced(p)
  <2>1. /\ pc[p] = "undo_displaced" /\ pc'[p] \in {"undo_incoming", "write_failure"}
        /\ UNCHANGED faults /\ \A h \in Plugins : h # g => active'[h] = active[h]
    BY <1>16 DEF UndoDisplaced
  <2>2. loc'[p].tree = loc[p].tree /\ loc'[p].catalog = loc[p].catalog
    BY <1>0, <1>16 DEF UndoDisplaced
  <2>3. Lists(loc[p].catalog, loc[p].tree, g, active)
    BY <2>1 DEF InstallStage
  <2>4. Lists(loc[p].catalog, loc[p].tree, g, active')
    BY <2>1, <2>3, ListsFacts
  <2> QED
    BY <2>1, <2>2, <2>4 DEF InstallStage
<1>17. CASE UndoIncoming(p)
  BY <1>0, <1>1, <1>17 DEF UndoIncoming, InstallStage
<1>18. CASE WriteFailure(p)
  BY <1>0, <1>1, <1>18 DEF WriteFailure, InstallStage, Agree
<1>19. CASE InstallRaises(p)
  BY <1>0, <1>1, <1>19 DEF InstallRaises, InstallStage
<1>20. CASE InstallStops(p)
  <2>1. /\ pc[p] \in {"observe_active", "observe_catalog", "write_failure", "drop_displaced"}
        /\ faults < MaxFaults /\ pc'[p] = "idle" /\ UNCHANGED <<active, catalog>>
    BY <1>20 DEF InstallStops
  <2>2. pc[p] # "write_failure"
    BY <1>1, <2>1 DEF InstallStage
  <2>3. Agree(g)
    BY <2>1, <2>2 DEF InstallStage, Agree
  <2> QED
    BY <2>1, <2>3 DEF InstallStage, Agree
<1>21. CASE UndoRaises(p)
  <2>1. pc[p] \in InstallUndo /\ faults < MaxFaults
    BY <1>21 DEF UndoRaises
  <2> QED
    BY <1>1, <2>1 DEF InstallStage
<1> QED
  BY <1>2, <1>3, <1>4, <1>5, <1>6, <1>7, <1>8, <1>9, <1>10, <1>11, <1>12, <1>13, <1>14, <1>15,
     <1>16, <1>17, <1>18, <1>19, <1>20, <1>21
     DEF InstallMove, Install

\* A step of a restore goes on to the next stage, or ends in agreement.
LEMMA RestoreKeepsAgree ==
  ASSUME Typed, MaxFaults <= 1, NEW p \in Procs, NEW g \in Plugins, NEW t \in Tx,
         t = loc[p].t, g = loc[p].g, Verdicts(p), Matches(t), Remembers(t, g),
         RestoreStage(p, g), RestoreMove(p), pc[p] \in RestoreSteps
  PROVE  RestoreStage(p, g)' /\ (pc'[p] = "idle" => Agree(g)')
<1> DEFINE r == unit[t].receipt
<1>1. faults \in 0..1 /\ MaxFaults \in 0..1 /\ Absent \notin Trees
  BY ConstantsOK DEF Typed
<1>2. /\ r # Absent /\ unit[t].tree = r.tree /\ unit[t].catalog = r.catalog
      /\ Lists(r.catalog, r.tree, g, active)
  BY DEF Verdicts, Matches, Remembers
<1>3. ASSUME \A h \in Plugins : h # g => active'[h] = active[h]
      PROVE  /\ Others(catalog, g, active) => Others(catalog, g, active')
             /\ Lists(catalog, active[g], g, active) => Others(catalog, g, active')
  BY <1>3, ListsFacts
<1> USE DEF Typed, Goto, Return, Fault, RestoreTry, RestoreUndo, Sides, Units, Receipts
<1>4. CASE RestoreDisplace(p)
  <2>1. /\ pc[p] = "r_displace" /\ pc'[p] = "r_copy" /\ UNCHANGED <<catalog, unit, faults, loc>>
        /\ side' = [side EXCEPT ![t].restore_displaced = active[g]] /\ active[g] \in Trees
        /\ active' = [active EXCEPT ![g] = Absent] /\ Agree(g)
    BY <1>1, <1>4 DEF RestoreDisplace, RestoreStage
  <2>2. side'[t].restore_displaced \in Trees /\ active'[g] = Absent
        /\ \A h \in Plugins : h # g => active'[h] = active[h]
    BY <2>1
  <2>3. Others(catalog, g, active')
    BY <1>3, <2>1, <2>2 DEF Agree
  <2> QED
    BY <2>1, <2>2, <2>3 DEF RestoreStage
<1>5. CASE RestoreCopy(p)
  <2>1. /\ pc[p] = "r_copy" /\ UNCHANGED <<active, catalog, unit, loc, faults>>
        /\ \/ r.tree = Absent /\ pc'[p] = "r_catalog" /\ side' = side
           \/ /\ pc'[p] = "r_swap" /\ side' = [side EXCEPT ![t].restore_incoming = r.tree]
    BY <1>2, <1>5 DEF RestoreCopy
  <2>2. side'[t].restore_displaced = side[t].restore_displaced
        /\ (pc'[p] = "r_swap" => side'[t].restore_incoming = r.tree)
    BY <2>1
  <2> QED
    BY <2>1, <2>2 DEF RestoreStage
<1>6. CASE RestoreSwap(p)
  <2>1. /\ pc[p] = "r_swap" /\ pc'[p] = "r_catalog" /\ UNCHANGED <<catalog, unit, loc, faults>>
        /\ active' = [active EXCEPT ![g] = r.tree]
        /\ side' = [side EXCEPT ![t].restore_incoming = Absent]
    BY <1>6 DEF RestoreSwap, RestoreStage
  <2>2. side'[t].restore_displaced = side[t].restore_displaced /\ active'[g] = r.tree
        /\ \A h \in Plugins : h # g => active'[h] = active[h]
    BY <2>1
  <2>3. Others(catalog, g, active')
    BY <1>3, <2>1, <2>2 DEF RestoreStage
  <2> QED
    BY <2>1, <2>2, <2>3 DEF RestoreStage
<1>7. CASE RestoreCatalog(p)
  <2>1. /\ pc[p] = "r_catalog" /\ pc'[p] = "r_receipt" /\ UNCHANGED <<active, side, unit, loc, faults>>
        /\ catalog' = r.catalog
    BY <1>2, <1>7 DEF RestoreCatalog
  <2>2. Others(r.catalog, g, active)
    BY <1>2, ListsFacts
  <2> QED
    BY <2>1, <2>2 DEF RestoreStage
<1>8. CASE RestoreReceipt(p)
  <2>1. /\ pc[p] = "r_receipt" /\ pc'[p] = "r_drop" /\ UNCHANGED <<active, side, catalog, loc, faults>>
        /\ catalog = r.catalog /\ active[g] = r.tree
    BY <1>8 DEF RestoreReceipt, RestoreStage
  <2> QED
    BY <1>2, <2>1 DEF RestoreStage, Agree
<1>9. CASE RestoreDrop(p)
  BY <1>9 DEF RestoreDrop, RestoreStage, Agree
<1>10. CASE RestoreUndoActive(p)
  <2>1. /\ pc[p] = "r_undo_active" /\ pc'[p] = "r_undo_incoming"
        /\ UNCHANGED <<catalog, side, unit, loc, faults>>
        /\ active' = [active EXCEPT ![g] = Absent]
    BY <1>10 DEF RestoreUndoActive
  <2>2. active'[g] = Absent /\ \A h \in Plugins : h # g => active'[h] = active[h]
    BY <2>1
  <2>3. Others(catalog, g, active')
    BY <1>3, <2>1, <2>2 DEF RestoreStage
  <2> QED
    BY <2>1, <2>2, <2>3 DEF RestoreStage
<1>11. CASE RestoreUndoIncoming(p)
  <2>1. /\ pc[p] = "r_undo_incoming" /\ pc'[p] = "r_undo_displaced"
        /\ UNCHANGED <<active, catalog, unit, loc, faults>>
        /\ side'[t].restore_displaced = side[t].restore_displaced
    BY <1>11 DEF RestoreUndoIncoming
  <2> QED
    BY <2>1 DEF RestoreStage
<1>12. CASE RestoreUndoDisplaced(p)
  <2>1. /\ pc[p] = "r_undo_displaced" /\ pc'[p] = "r_undo_read"
        /\ UNCHANGED <<catalog, unit, loc, faults>>
        /\ active' = [active EXCEPT ![g] = side[t].restore_displaced]
        /\ side[t].restore_displaced \in Trees
    BY <1>1, <1>12 DEF RestoreUndoDisplaced, RestoreStage
  <2>2. active'[g] \in Trees /\ \A h \in Plugins : h # g => active'[h] = active[h]
    BY <2>1
  <2>3. Others(catalog, g, active')
    BY <1>3, <2>1, <2>2 DEF RestoreStage
  <2> QED
    BY <2>1, <2>2, <2>3 DEF RestoreStage
<1>13. CASE RestoreUndoRead(p)
  <2>1. /\ pc[p] = "r_undo_read" /\ active[g] \in Trees /\ Others(catalog, g, active)
    BY <1>13 DEF RestoreUndoRead, RestoreStage
  <2>2. /\ pc'[p] = "r_undo_catalog" /\ UNCHANGED <<active, catalog, side, unit, faults>>
        /\ loc' = [loc EXCEPT ![p].read = Entries, ![p].entry = active[g]]
    BY <1>13, <2>1 DEF RestoreUndoRead, Others
  <2>3. loc'[p].read = Entries /\ loc'[p].entry = active[g] /\ loc'[p].t = t
    <3>1. loc[p] \in Locals
      OBVIOUS
    <3> QED
      BY <2>2, <3>1 DEF Locals
  <2> QED
    BY <2>1, <2>2, <2>3 DEF RestoreStage, Entries
<1>14. CASE RestoreUndoCatalog(p)
  <2>1. /\ pc[p] = "r_undo_catalog" /\ pc'[p] = "idle" /\ UNCHANGED <<active>>
        /\ catalog' = [EntriesOf(catalog) EXCEPT ![g] = active[g]]
        /\ Others(catalog, g, active) /\ active[g] \in Folders
    BY <1>14 DEF RestoreUndoCatalog, RestoreStage, Entries, EntriesOf
  <2>2. Lists(catalog', active[g], g, active)
    BY <2>1, ExchangeLists
  <2> QED
    BY <2>1, <2>2 DEF RestoreStage, Agree
<1>15. CASE RestoreRaises(p)
  <2>1. /\ pc[p] \in RestoreTry /\ pc'[p] = "r_undo_active" /\ faults' > 0
        /\ UNCHANGED <<active, catalog, unit, loc>>
        /\ side'[t].restore_displaced = side[t].restore_displaced
    BY <1>1, <1>15 DEF RestoreRaises
  <2> QED
    BY <2>1 DEF RestoreStage
<1>16. CASE RestoreStops(p)
  <2>1. pc[p] \in RestoreUndo \cup {"r_displace", "r_drop"} /\ faults < MaxFaults /\ pc'[p] = "idle"
    BY <1>16 DEF RestoreStops
  <2>2. pc[p] \in {"r_displace", "r_drop"}
    BY <1>1, <2>1 DEF RestoreStage
  <2>3. UNCHANGED <<active, catalog>> /\ Agree(g)
    BY <1>16, <2>2 DEF RestoreStops, RestoreStage
  <2> QED
    BY <2>1, <2>3 DEF RestoreStage, Agree
<1> QED
  BY <1>4, <1>5, <1>6, <1>7, <1>8, <1>9, <1>10, <1>11, <1>12, <1>13, <1>14, <1>15, <1>16
     DEF RestoreMove, Restore

LEMMA ReceiptKeepsLocals ==
  ASSUME Typed, NEW p \in Procs, InstallMove(p), pc[p] = "write_receipt", pc'[p] = "drop_displaced"
  PROVE  loc' = loc
<1>1. InstallRaises(p) => pc'[p] = "undo_catalog"
  BY DEF InstallRaises, Goto, Typed
<1>2. ~InstallStops(p) /\ ~UndoRaises(p)
  BY DEF InstallStops, UndoRaises
<1>3. WriteReceipt(p)
  BY <1>1, <1>2 DEF InstallMove, Install, ObserveActive, ObserveCatalog, BackupPlugin,
     BackupCatalog, CopyIncoming, Displace, Swap, ReadCatalog, WriteCatalog, Verify,
     DropDisplaced, UndoCatalog, UndoActive, UndoDisplaced, UndoIncoming, WriteFailure
<1> QED
  BY <1>3 DEF WriteReceipt

LEMMA FailedStays ==
  ASSUME TypeInv, NEW p \in Procs, Moves(p), Failed
  PROVE  Failed'
<1>0. Typed /\ Bound(p) /\ Verdicts(p) /\ \A u \in Tx : Fresh(u)
  BY DEF TypeInv, TypeOK, Typed
<1>1. PICK u \in Tx : unit[u].failed = "rollback_failed"
  BY DEF Failed
<1>2. unit[u].failed # Absent
  BY <1>1, AbsentIsNoRecord
<1>3. CASE InstallMove(p)
  <2>1. InstallFrame(p)
    BY <1>0, <1>3, InstallFrames
  <2>2. CASE u = loc[p].t
    BY <1>0, <1>1, <1>2, <2>1, <2>2 DEF InstallFrame, Verdicts, Failed
  <2>3. CASE u # loc[p].t
    BY <1>1, <2>1, <2>3 DEF InstallFrame, Failed
  <2> QED
    BY <2>2, <2>3
<1>4. CASE RestoreMove(p)
  <2>1. RestoreFrame(p)
    BY <1>0, <1>4, RestoreFrames
  <2>2. unit'[u].failed = unit[u].failed
    BY <1>0, <2>1 DEF RestoreFrame, Typed, Units
  <2> QED
    BY <1>1, <2>2 DEF Failed
<1>5. ASSUME NEW t \in Tx, NEW g \in Plugins, NEW stage \in Trees, BeginInstall(p, t, g, stage)
      PROVE  Failed'
  <2>1. u # t
    BY <1>0, <1>2, <1>5 DEF BeginInstall, Fresh, NoUnit
  <2>2. unit'[u] = unit[u]
    BY <1>0, <1>5, <2>1 DEF BeginInstall, Typed
  <2> QED
    BY <1>1, <2>2 DEF Failed
<1>6. CASE (\E t \in Tx : BeginRestore(p, t)) \/ Crash(p)
  BY <1>1, <1>6 DEF BeginRestore, Crash, Failed
<1> QED
  BY <1>3, <1>4, <1>5, <1>6 DEF Moves, Begins

\* Outside its steps an operation is in no stage.
LEMMA NoStage ==
  ASSUME NEW p \in Procs, NEW g
  PROVE  /\ pc[p] \notin InstallSteps => InstallStage(p, g)
         /\ pc[p] \notin RestoreSteps => RestoreStage(p, g)
  BY DEF InstallStage, RestoreStage, InstallSteps, RestoreSteps, InstallTry, InstallUndo,
         RestoreTry, RestoreUndo

LEMMA NoStageNext ==
  ASSUME NEW p \in Procs, NEW g
  PROVE  /\ pc'[p] \notin InstallSteps => InstallStage(p, g)'
         /\ pc'[p] \notin RestoreSteps => RestoreStage(p, g)'
  BY DEF InstallStage, RestoreStage, InstallSteps, RestoreSteps, InstallTry, InstallUndo,
         RestoreTry, RestoreUndo

LEMMA SoloStep ==
  ASSUME TypeInv, MatchInv, SoloInv, MaxFaults <= 1, UNCHANGED work, NEW p \in Procs, Moves(p)
  PROVE  SoloInv'
<1> SUFFICES ASSUME NEW g \in Plugins \cup {Absent}, Only(g), ~Failed, AgreeInv(g), ~Failed'
             PROVE  AgreeInv(g)'
  <2>1. ASSUME NEW g \in Plugins \cup {Absent}, Only(g)' PROVE Only(g)
    BY <2>1 DEF Only, Shared
  <2> QED
    BY <2>1, FailedStays DEF SoloInv
<1>0. /\ Typed /\ \A q \in Procs : Bound(q) /\ Verdicts(q)
      /\ \A u \in Tx : Matches(u) /\ Remembers(u, g)
      /\ \A q \in Procs : InstallStage(q, g) /\ RestoreStage(q, g)
  BY DEF TypeInv, TypeOK, Typed, MatchInv, AgreeInv, Only
<1>1. \A q \in Procs : q # p => pc[q] = "idle"
  BY OneAtWork, MovesAtWork DEF Only
<1>2. pc[p] # "idle" => loc[p].g = g /\ g \in Plugins
  BY <1>0 DEF Bound, Only
<1>3. CASE InstallMove(p)
  <2>1. InstallFrame(p)
    BY <1>0, <1>3, InstallFrames
  <2>2. PICK t \in Tx : t = loc[p].t
    BY <1>0, <2>1, StepNames DEF InstallFrame, Bound
  <2>3. g \in Plugins /\ loc[p].g = g
    BY <1>2, <2>1, StepNames DEF InstallFrame
  <2>4. /\ InstallStage(p, g)'
        /\ pc'[p] = "idle" => Agree(g)'
        /\ pc[p] = "write_receipt" /\ pc'[p] = "drop_displaced"
             => Lists(loc[p].catalog, loc[p].tree, g, active)'
    BY <1>0, <1>3, <2>2, <2>3, InstallKeepsAgree DEF Failed
  <2>5. RestoreStage(p, g)'
    BY <2>1, NoStageNext, StepNames DEF InstallFrame
  <2>6. \A q \in Procs : q # p => InstallStage(q, g)' /\ RestoreStage(q, g)'
    BY <1>1, <2>1, NoStageNext, StepNames DEF InstallFrame
  <2>7. ASSUME NEW u \in Tx
        PROVE  Remembers(u, g)'
    <3>1. \A h \in Plugins : h # g => active'[h] = active[h]
      BY <2>1, <2>3 DEF InstallFrame
    <3>2. CASE unit'[u].receipt = unit[u].receipt
      <4>1. unit[u].receipt # Absent =>
              Lists(unit[u].receipt.catalog, unit[u].receipt.tree, g, active')
        BY <1>0, <3>1, ListsFacts DEF Remembers
      <4> QED
        BY <3>2, <4>1 DEF Remembers
    <3>3. CASE unit'[u].receipt # unit[u].receipt
      <4>1. /\ u = t /\ pc[p] = "write_receipt" /\ pc'[p] = "drop_displaced"
            /\ unit'[u].receipt =
                 [tree |-> loc[p].tree, catalog |-> loc[p].catalog, installed |-> loc[p].stage]
        BY <2>1, <2>2, <3>3 DEF InstallFrame
      <4>2. loc'[p].catalog = loc[p].catalog /\ loc'[p].tree = loc[p].tree
        BY <1>0, <1>3, <4>1, ReceiptKeepsLocals
      <4>3. Lists(loc'[p].catalog, loc'[p].tree, g, active')
        BY <2>4, <4>1
      <4>4. unit'[u].receipt.catalog = loc'[p].catalog /\ unit'[u].receipt.tree = loc'[p].tree
        BY <4>1, <4>2
      <4> QED
        BY <4>3, <4>4 DEF Remembers
    <3> QED
      BY <3>2, <3>3
  <2> QED
    BY <2>4, <2>5, <2>6, <2>7 DEF AgreeInv
<1>4. CASE RestoreMove(p)
  <2>1. RestoreFrame(p)
    BY <1>0, <1>4, RestoreFrames
  <2>2. PICK t \in Tx : t = loc[p].t
    BY <1>0, <2>1, StepNames DEF RestoreFrame, Bound
  <2>3. g \in Plugins /\ loc[p].g = g /\ pc[p] \in RestoreSteps
    BY <1>2, <2>1, StepNames DEF RestoreFrame
  <2>4. RestoreStage(p, g)' /\ (pc'[p] = "idle" => Agree(g)')
    BY <1>0, <1>4, <2>2, <2>3, RestoreKeepsAgree
  <2>5. InstallStage(p, g)'
    BY <2>1, NoStageNext, StepNames DEF RestoreFrame
  <2>6. \A q \in Procs : q # p => InstallStage(q, g)' /\ RestoreStage(q, g)'
    BY <1>1, <2>1, NoStageNext, StepNames DEF RestoreFrame
  <2>7. ASSUME NEW u \in Tx
        PROVE  Remembers(u, g)'
    <3>1. \A h \in Plugins : h # g => active'[h] = active[h]
      BY <2>1, <2>3 DEF RestoreFrame
    <3>2. unit'[u].receipt = unit[u].receipt
      BY <1>0, <2>1 DEF RestoreFrame, Typed, Units
    <3>3. unit[u].receipt # Absent =>
            Lists(unit[u].receipt.catalog, unit[u].receipt.tree, g, active')
      BY <1>0, <3>1, ListsFacts DEF Remembers
    <3> QED
      BY <3>2, <3>3 DEF Remembers
  <2> QED
    BY <2>4, <2>5, <2>6, <2>7 DEF AgreeInv
<1>5. CASE Begins(p) \/ Crash(p)
  <2>1. /\ UNCHANGED <<active, catalog>>
        /\ \A q \in Procs : q # p => pc'[q] = pc[q] /\ loc'[q] = loc[q]
    BY <1>0, <1>5, BeginsFrame
  <2>2. ~Crash(p)
    BY DEF Crash, Only
  <2>3. pc[p] = "idle" /\ Agree(g)
    BY <1>1, <1>5, <2>2 DEF Begins, BeginInstall, BeginRestore, AgreeInv
  <2>4. \A q \in Procs : q # p => InstallStage(q, g)' /\ RestoreStage(q, g)'
    BY <1>1, <2>1, NoStageNext, StepNames
  <2>5. Agree(g)'
    BY <2>1, <2>3 DEF Agree
  <2>6. ASSUME NEW t \in Tx, NEW k \in Plugins, NEW stage \in Trees, BeginInstall(p, t, k, stage)
        PROVE  AgreeInv(g)'
    <3>1. /\ pc'[p] = "observe_active"
          /\ \A u \in Tx : unit'[u].receipt = unit[u].receipt
      BY <1>0, <2>6 DEF BeginInstall, Goto, Typed, Units
    <3>2. InstallStage(p, g)' /\ RestoreStage(p, g)'
      BY <2>5, <3>1 DEF InstallStage, RestoreStage, InstallTry, InstallUndo, RestoreTry, RestoreUndo
    <3> QED
      BY <1>0, <2>1, <2>4, <2>5, <3>1, <3>2 DEF AgreeInv, Remembers
  <2>7. ASSUME NEW t \in Tx, BeginRestore(p, t)
        PROVE  AgreeInv(g)'
    <3>1. /\ unit' = unit /\ pc'[p] = "r_displace" /\ active[unit[t].plugin] \in Trees
          /\ unit[t].plugin = g
      BY <1>0, <2>7 DEF BeginRestore, Goto, Typed, Agrees, Only
    <3>2. InstallStage(p, g)' /\ RestoreStage(p, g)'
      BY <2>1, <2>5, <3>1
         DEF InstallStage, RestoreStage, InstallTry, InstallUndo, RestoreTry, RestoreUndo
    <3> QED
      BY <1>0, <2>1, <2>4, <2>5, <3>1, <3>2 DEF AgreeInv, Remembers
  <2> QED
    BY <1>5, <2>2, <2>6, <2>7 DEF Begins
<1> QED
  BY <1>3, <1>4, <1>5 DEF Moves

LEMMA SoloInit == Init => SoloInv
<1> SUFFICES ASSUME Init, NEW g \in Plugins \cup {Absent} PROVE AgreeInv(g)
  BY DEF SoloInv
<1>1. \A p \in Procs : pc[p] = "idle"
  BY DEF Init
<1>2. \A t \in Tx : unit[t].receipt = Absent
  BY DEF Init, NoUnit
<1>3. active \in Catalogs
  BY DEF Init, Catalogs, Folders
<1>4. \A h \in Plugins : EntriesOf(catalog)[h] = active[h]
  BY <1>3, AbsentIsNoRecord DEF Init, EntriesOf, NoEntries
<1>5. catalog # Torn
  BY <1>3, ConstantsOK, AbsentIsNoRecord DEF Init
<1>6. Agree(g)
  BY <1>4, <1>5 DEF Agree, Lists
<1> QED
  BY <1>1, <1>2, <1>6, NoStage, StepNames DEF AgreeInv, Remembers

\* Each process has one plugin: with two, a restore takes the other plugin's
\* entry back out of the catalog (ReceiptRestorable).
OnePlugin == \A w \in Works, p \in Procs : \A x, y \in w[p] : x[2] = y[2]

LEMMA OneOnly ==
  ASSUME TypeInv, OnePlugin, ~Shared
  PROVE  \E g \in Plugins \cup {Absent} : Only(g)
<1>1. work \in Works /\ \A p \in Procs : work[p] \subseteq Tx \X Plugins
  BY ConstantsOK DEF TypeInv, TypeOK
<1>2. CASE \A p \in Procs : work[p] = {}
  BY <1>2 DEF Only
<1>3. ASSUME NEW p \in Procs, work[p] # {}
      PROVE  \E g \in Plugins \cup {Absent} : Only(g)
  <2>1. PICK x \in work[p] : TRUE
    BY <1>3
  <2>2. x[2] \in Plugins
    BY <1>1, <2>1
  <2>3. \A q \in Procs : q # p => work[q] = {}
    BY <1>3, OneAtWork
  <2>4. Only(x[2])
    BY <1>1, <2>1, <2>3 DEF Only, OnePlugin
  <2> QED
    BY <2>2, <2>4
<1> QED
  BY <1>2, <1>3

\* When one process works on one plugin and at most one file operation fails,
\* catalog and active trees agree after every operation that did not report a
\* failed rollback.  With a second failure a restore may stop in the middle of
\* its except clause and report nothing.
THEOREM CatalogStaysInAgreement ==
  ASSUME OnePlugin, MaxFaults <= 1
  PROVE  Spec => []CatalogAgrees
<1>1. TypeInv /\ SoloInv => CatalogAgrees
  <2> SUFFICES ASSUME TypeInv, SoloInv, ~Shared, \A p \in Procs : pc[p] = "idle", ~Failed
               PROVE  catalog # Torn /\ \A g \in Plugins : Entries[g] = active[g]
    BY DEF CatalogAgrees, Failed
  <2>1. PICK g \in Plugins \cup {Absent} : Only(g)
    BY OneOnly
  <2>2. Agree(g)
    BY <2>1 DEF SoloInv, AgreeInv
  <2> QED
    BY <2>2 DEF Agree, Lists, Entries, EntriesOf
<1>2. TypeInv /\ MatchInv /\ SoloInv /\ [Next]_vars => SoloInv'
  <2> SUFFICES ASSUME TypeInv, MatchInv, SoloInv, [Next]_vars PROVE SoloInv'
    OBVIOUS
  <2>1. CASE Next
    BY <2>1, NextMoves, SoloStep
  <2>2. CASE UNCHANGED vars
    BY <2>2 DEF vars, SoloInv, Only, Shared, Failed, AgreeInv, Agree, InstallStage, RestoreStage,
                Remembers, Entries
  <2> QED
    BY <2>1, <2>2
<1> QED
  BY <1>1, <1>2, InitType, NextType, MatchInit, MatchNext, SoloInit, PTL DEF Spec
=============================================================================
