----------------------- MODULE AtomicDeploymentProofs -----------------------
(***************************************************************************)
(* Proofs about AtomicDeployment, for every set of processes, transactions *)
(* and mods, with overlapping operations, failures and crashes.            *)
(***************************************************************************)
EXTENDS AtomicDeployment, TLAPS

-----------------------------------------------------------------------------
(***************************************************************************)
(* Type correctness.                                                       *)
(***************************************************************************)

LEMMA NoLocalsType == NoLocals \in Locals
  BY ConstantsOK DEF NoLocals, Locals, Contents

LEMMA StepNames ==
  /\ "idle" \in Steps /\ "observe" \in Steps /\ "mkdir" \in Steps
  /\ "backup_order" \in Steps /\ "backup_target" \in Steps /\ "stage" \in Steps
  /\ "displace" \in Steps /\ "swap" \in Steps /\ "write_order" \in Steps
  /\ "verify" \in Steps /\ "receipt" \in Steps /\ "restore_target" \in Steps
  /\ "restore_copy" \in Steps /\ "restore_order" \in Steps /\ "restore_check" \in Steps
  /\ "failure_receipt" \in Steps /\ "rb_mkdir" \in Steps /\ "rb_copy_target" \in Steps
  /\ "rb_copy_order" \in Steps /\ "rb_remove" \in Steps /\ "rb_restore" \in Steps
  /\ "rb_order" \in Steps /\ "rb_verify" \in Steps /\ "rb_receipt" \in Steps
  /\ "rb_recover_remove" \in Steps /\ "rb_recover_copy" \in Steps /\ "rb_recover_order" \in Steps
  BY DEF Steps, InstallSteps, RestoreSteps, PrepareSteps, RollbackSteps, RecoverSteps

LEMMA GotoType == ASSUME TypeOK, NEW p \in Procs, NEW s \in Steps, Goto(p, s)
                  PROVE  pc' \in [Procs -> Steps]
  BY DEF Goto, TypeOK

LEMMA ReturnType == ASSUME TypeOK, NEW p \in Procs, Return(p)
                    PROVE  pc' \in [Procs -> Steps] /\ loc' \in [Procs -> Locals]
  BY NoLocalsType DEF Return, TypeOK, Steps

LEMMA NewLocalsType == ASSUME TypeOK, NEW t \in Tx PROVE NewLocals(t) \in Locals
  BY DEF NewLocals, Locals, Contents, TypeOK

LEMMA BackupType ==
  ASSUME TypeOK, NEW t \in Tx, NEW c \in Contents, NEW o \in Orders
  PROVE  /\ [backup EXCEPT ![t].made = TRUE] \in [Tx -> Backups]
         /\ [backup EXCEPT ![t].tree = c] \in [Tx -> Backups]
         /\ [backup EXCEPT ![t].order = o] \in [Tx -> Backups]
<1>1. backup \in [Tx -> Backups] /\ backup[t] \in Backups
  BY DEF TypeOK
<1>2. /\ [backup[t] EXCEPT !.made = TRUE] \in Backups
      /\ [backup[t] EXCEPT !.tree = c] \in Backups
      /\ [backup[t] EXCEPT !.order = o] \in Backups
  BY <1>1 DEF Backups
<1> QED
  BY <1>1, <1>2

LEMMA WorkType ==
  ASSUME TypeOK, NEW t \in Tx, NEW c \in Contents, NEW o \in Orders \cup {Absent}
  PROVE  [work EXCEPT ![t] = [tree |-> c, order |-> o]] \in [Tx -> Works \cup {Absent}]
<1>1. [tree |-> c, order |-> o] \in Works
  BY DEF Works
<1> QED
  BY <1>1 DEF TypeOK

\* What a spoiled folder can hold.
LEMMA SpoiledType == ASSUME NEW c \in Contents PROVE Spoiled(c) \subseteq Contents
  BY DEF Spoiled, Contents

LEMMA InstallType == ASSUME TypeOK, RollbackHasReceipt, NEW p \in Procs, Install(p)
                 PROVE  TypeOK'
<1> USE ConstantsOK, StepNames, GotoType, ReturnType, BackupType, WorkType DEF TypeOK, disk
<1>a. /\ loc[p] \in Locals /\ loc[p].tx \in Tx /\ loc[p].tree \in Contents
      /\ loc[p].order \in Orders /\ Target(p) \in Mods
      /\ backup[loc[p].tx].tree \in Contents /\ tree[Target(p)] \in Contents
      /\ Absent \in Contents /\ Partial \in Contents
  BY DEF Locals, Target, Backups, Contents
<1>b. EnsureExactlyOneOrderEntry(loc[p].order, Target(p)) \in Orders
  BY <1>a, OrdersClosed
<1>1. ASSUME ObserveTarget(p) PROVE TypeOK'
  BY <1>1, <1>a DEF ObserveTarget, Locals
<1>2. ASSUME CreateTransaction(p) PROVE TypeOK'
  <2>1. CASE backup[loc[p].tx].made
    BY <1>2, <1>a, <2>1 DEF CreateTransaction
  <2>2. CASE ~backup[loc[p].tx].made
    <3>1. backup' = [backup EXCEPT ![loc[p].tx].made = TRUE]
      BY <1>2, <2>2 DEF CreateTransaction
    <3>2. backup' \in [Tx -> Backups]
      BY <3>1, <1>a DEF Backups
    <3>3. pc' \in [Procs -> Steps]
      BY <1>2, <2>2 DEF CreateTransaction
    <3> QED
      BY <1>2, <2>2, <3>2, <3>3 DEF CreateTransaction
  <2> QED
    BY <2>1, <2>2
<1>3. ASSUME BackupOrder(p) PROVE TypeOK'
  BY <1>3, <1>a DEF BackupOrder, Contents
<1>4. ASSUME BackupTarget(p) PROVE TypeOK'
  BY <1>4, <1>a DEF BackupTarget, Locals, Contents
<1>5. ASSUME BackupTargetFails(p) PROVE TypeOK'
  <2>1. PICK left \in Contents : backup' = [backup EXCEPT ![loc[p].tx].tree = left]
    BY <1>5, <1>a DEF BackupTargetFails
  <2> QED
    BY <1>5, <1>a, <2>1 DEF BackupTargetFails
<1>6. ASSUME StageIncoming(p) PROVE TypeOK'
  BY <1>6, <1>a DEF StageIncoming
<1>7. ASSUME DisplaceTarget(p) PROVE TypeOK'
  BY <1>7, <1>a DEF DisplaceTarget, Locals, Contents
<1>8. ASSUME DisplaceFails(p) PROVE TypeOK'
  <2>1. PICK left \in Contents : tree' = [tree EXCEPT ![Target(p)] = left]
    BY <1>8, <1>a, SpoiledType DEF DisplaceFails
  <2>2. loc' \in [Procs -> Locals]
    BY <1>8, <1>a DEF DisplaceFails, Locals
  <2> QED
    BY <1>8, <1>a, <2>1, <2>2 DEF DisplaceFails
<1>9. ASSUME SwapTarget(p) PROVE TypeOK'
  BY <1>9, <1>a DEF SwapTarget, Contents
<1>10. ASSUME WriteOrder(p) PROVE TypeOK'
  BY <1>10, <1>a, <1>b DEF WriteOrder, Locals
<1>11. ASSUME WriteOrderFails(p) PROVE TypeOK'
  BY <1>11, <1>a, <1>b DEF WriteOrderFails, Locals
<1>12. ASSUME VerifyInstalled(p) PROVE TypeOK'
  BY <1>12, <1>a DEF VerifyInstalled
<1>13. ASSUME WriteInstallReceipt(p) PROVE TypeOK'
  BY <1>13, <1>a, <1>b DEF WriteInstallReceipt, Receipts
<1>14. ASSUME InstallStepFails(p) PROVE TypeOK'
  BY <1>14, <1>a DEF InstallStepFails
<1> QED
  BY <1>1, <1>2, <1>3, <1>4, <1>5, <1>6, <1>7, <1>8, <1>9, <1>10, <1>11, <1>12, <1>13, <1>14 DEF Install

LEMMA RestoreType == ASSUME TypeOK, RollbackHasReceipt, NEW p \in Procs, Restore(p)
                 PROVE  TypeOK'
<1> USE ConstantsOK, StepNames, GotoType, ReturnType, BackupType, WorkType DEF TypeOK, disk
<1>a. /\ loc[p] \in Locals /\ loc[p].tx \in Tx /\ loc[p].tree \in Contents
      /\ loc[p].order \in Orders /\ Target(p) \in Mods
      /\ backup[loc[p].tx].tree \in Contents /\ tree[Target(p)] \in Contents
      /\ Absent \in Contents /\ Partial \in Contents
  BY DEF Locals, Target, Backups, Contents
<1>b. EnsureExactlyOneOrderEntry(loc[p].order, Target(p)) \in Orders
  BY <1>a, OrdersClosed
<1>1. ASSUME RestoreTarget(p) PROVE TypeOK'
  BY <1>1, <1>a DEF RestoreTarget, Contents, GiveUp
<1>2. ASSUME RestoreCopy(p) PROVE TypeOK'
  BY <1>2, <1>a DEF RestoreCopy, Contents
<1>3. ASSUME RestoreOrder(p) PROVE TypeOK'
  BY <1>3, <1>a DEF RestoreOrder, Contents
<1>4. ASSUME RestoreCheck(p) PROVE TypeOK'
  BY <1>4, <1>a DEF RestoreCheck, Contents, GiveUp
<1>5. ASSUME WriteFailureReceipt(p) PROVE TypeOK'
  BY <1>5, <1>a DEF WriteFailureReceipt
<1>6. ASSUME RestoreFails(p) PROVE TypeOK'
  BY <1>6, <1>a, SpoiledType DEF RestoreFails, Contents, GiveUp
<1> QED
  BY <1>1, <1>2, <1>3, <1>4, <1>5, <1>6 DEF Restore

LEMMA RollbackType == ASSUME TypeOK, RollbackHasReceipt, NEW p \in Procs, Rollback(p)
                 PROVE  TypeOK'
<1> USE ConstantsOK, StepNames, GotoType, ReturnType, BackupType, WorkType DEF TypeOK, disk
<1>a. /\ loc[p] \in Locals /\ loc[p].tx \in Tx /\ loc[p].tree \in Contents
      /\ loc[p].order \in Orders /\ Target(p) \in Mods
      /\ backup[loc[p].tx].tree \in Contents /\ tree[Target(p)] \in Contents
      /\ Absent \in Contents /\ Partial \in Contents
  BY DEF Locals, Target, Backups, Contents
<1>b. EnsureExactlyOneOrderEntry(loc[p].order, Target(p)) \in Orders
  BY <1>a, OrdersClosed
<1>1. ASSUME CreateRollbackWork(p) PROVE TypeOK'
  <2>1. CASE work[loc[p].tx] = Absent
    BY <1>1, <1>a, <2>1 DEF CreateRollbackWork
  <2>2. CASE work[loc[p].tx] # Absent
    <3>1. work' = [work EXCEPT ![loc[p].tx] = Absent]
      BY <1>1, <2>2 DEF CreateRollbackWork
    <3>2. work' \in [Tx -> Works \cup {Absent}]
      BY <3>1
    <3> QED
      BY <1>1, <2>2, <3>2 DEF CreateRollbackWork
  <2> QED
    BY <2>1, <2>2
<1>2. ASSUME CopyCurrentTarget(p) PROVE TypeOK'
  <2>1. CASE work[loc[p].tx] = Absent
    <3>1. work' = [work EXCEPT ![loc[p].tx] = [tree |-> tree[Target(p)], order |-> Absent]]
      BY <1>2, <2>1 DEF CopyCurrentTarget
    <3>2. work' \in [Tx -> Works \cup {Absent}]
      BY <1>a, <3>1
    <3> QED
      BY <1>2, <3>2 DEF CopyCurrentTarget
  <2>2. CASE work[loc[p].tx] # Absent
    <3>1. work' = [work EXCEPT ![loc[p].tx].tree = tree[Target(p)]]
      BY <1>2, <2>2 DEF CopyCurrentTarget
    <3>2. [work[loc[p].tx] EXCEPT !.tree = tree[Target(p)]] \in Works
      <4>1. work[loc[p].tx] \in Works
        BY <1>a, <2>2
      <4> QED
        BY <1>a, <4>1 DEF Works
    <3>3. work' \in [Tx -> Works \cup {Absent}]
      BY <1>a, <3>1, <3>2
    <3> QED
      BY <1>2, <3>3 DEF CopyCurrentTarget
  <2> QED
    BY <2>1, <2>2
<1>3. ASSUME CopyCurrentOrder(p) PROVE TypeOK'
  BY <1>3, <1>a DEF CopyCurrentOrder, Works
<1>4. ASSUME PrepareFails(p) PROVE TypeOK'
  BY <1>4, <1>a DEF PrepareFails
<1>5. ASSUME RollbackRemove(p) PROVE TypeOK'
  BY <1>5, <1>a DEF RollbackRemove, Contents
<1>6. ASSUME RollbackRestore(p) PROVE TypeOK'
  BY <1>6, <1>a DEF RollbackRestore, Contents
<1>7. ASSUME RollbackOrder(p) PROVE TypeOK'
  <2>1. receipt[loc[p].tx] \in Receipts
    BY <1>7, <1>a DEF RollbackOrder, RollbackHasReceipt, RollbackSteps
  <2> QED
    BY <1>7, <1>a, <2>1 DEF RollbackOrder, Receipts
<1>8. ASSUME RollbackVerify(p) PROVE TypeOK'
  BY <1>8, <1>a DEF RollbackVerify, Contents
<1>9. ASSUME WriteRollbackReceipt(p) PROVE TypeOK'
  BY <1>9, <1>a DEF WriteRollbackReceipt
<1>10. ASSUME RollbackFails(p) PROVE TypeOK'
  BY <1>10, <1>a, SpoiledType DEF RollbackFails, Contents
<1>11. ASSUME RecoverRemove(p) PROVE TypeOK'
  BY <1>11, <1>a DEF RecoverRemove, Contents
<1>12. ASSUME RecoverCopy(p) PROVE TypeOK'
  BY <1>12, <1>a DEF RecoverCopy, Contents, Works
<1>13. ASSUME RecoverOrder(p) PROVE TypeOK'
  BY <1>13, <1>a DEF RecoverOrder, Contents
<1>14. ASSUME RecoverFails(p) PROVE TypeOK'
  BY <1>14, <1>a, SpoiledType DEF RecoverFails, Contents, GiveUp
<1> QED
  BY <1>1, <1>2, <1>3, <1>4, <1>5, <1>6, <1>7, <1>8, <1>9, <1>10, <1>11, <1>12, <1>13, <1>14 DEF Rollback

-----------------------------------------------------------------------------
(***************************************************************************)
(* The transaction protocol: one owner per transaction folder, the backup  *)
(* before the mutation, one verdict.                                       *)
(***************************************************************************)

\* A rollback step leaves transaction folders and verdicts alone.
LEMMA RollbackFrame ==
  ASSUME NEW p \in Procs, Rollback(p)
  PROVE  /\ pc[p] \in PrepareSteps \cup RollbackSteps \cup RecoverSteps
         /\ UNCHANGED <<backup, receipt, failure, initial>>
         /\ \/ Return(p)
            \/ /\ UNCHANGED loc
               /\ \E s \in PrepareSteps \cup RollbackSteps \cup RecoverSteps : Goto(p, s)
<1> USE DEF PrepareSteps, RollbackSteps, RecoverSteps
<1>1. CASE CreateRollbackWork(p)
  BY <1>1 DEF CreateRollbackWork
<1>2. CASE CopyCurrentTarget(p)
  BY <1>2 DEF CopyCurrentTarget
<1>3. CASE CopyCurrentOrder(p)
  BY <1>3 DEF CopyCurrentOrder
<1>4. CASE PrepareFails(p)
  BY <1>4 DEF PrepareFails
<1>5. CASE RollbackRemove(p)
  BY <1>5 DEF RollbackRemove
<1>6. CASE RollbackRestore(p)
  BY <1>6 DEF RollbackRestore
<1>7. CASE RollbackOrder(p)
  BY <1>7 DEF RollbackOrder
<1>8. CASE RollbackVerify(p)
  BY <1>8 DEF RollbackVerify, disk
<1>9. CASE WriteRollbackReceipt(p)
  BY <1>9 DEF WriteRollbackReceipt
<1>10. CASE RollbackFails(p)
  BY <1>10 DEF RollbackFails
<1>11. CASE RecoverRemove(p)
  BY <1>11 DEF RecoverRemove
<1>12. CASE RecoverCopy(p)
  BY <1>12 DEF RecoverCopy
<1>13. CASE RecoverOrder(p)
  BY <1>13 DEF RecoverOrder
<1>14. CASE RecoverFails(p)
  BY <1>14 DEF RecoverFails, GiveUp
<1> QED
  BY <1>1, <1>2, <1>3, <1>4, <1>5, <1>6, <1>7, <1>8, <1>9, <1>10, <1>11, <1>12, <1>13, <1>14 DEF Rollback

\* A step of the failure handler writes no backup and no install receipt.
LEMMA RestoreFrame ==
  ASSUME NEW p \in Procs, Restore(p)
  PROVE  /\ pc[p] \in RestoreSteps
         /\ UNCHANGED <<backup, receipt, initial>>
         /\ \/ Return(p) /\ failure' \in {failure, failure \cup {loc[p].tx}}
            \/ /\ UNCHANGED <<loc, failure>>
               /\ \E s \in RestoreSteps :
                    Goto(p, s) /\ (s = "restore_copy" => loc[p].target_mutated)
<1> USE DEF RestoreSteps
<1>1. CASE RestoreTarget(p)
  BY <1>1 DEF RestoreTarget, GiveUp
<1>2. CASE RestoreCopy(p)
  BY <1>2 DEF RestoreCopy, GiveUp
<1>3. CASE RestoreOrder(p)
  BY <1>3 DEF RestoreOrder, GiveUp
<1>4. CASE RestoreCheck(p)
  BY <1>4 DEF RestoreCheck, GiveUp, disk
<1>5. CASE WriteFailureReceipt(p)
  BY <1>5 DEF WriteFailureReceipt, GiveUp
<1>6. CASE RestoreFails(p)
  BY <1>6 DEF RestoreFails, GiveUp
<1> QED
  BY <1>1, <1>2, <1>3, <1>4, <1>5, <1>6 DEF Restore

LEMMA RollbackProtocol == ASSUME TypeOK, Protocol, NEW p \in Procs, Rollback(p)
                      PROVE  Protocol'
<1> USE RollbackFrame, NoLocalsType DEF Protocol, Owns, Return, Goto, TypeOK, Locals, Backups
<1>1. TransactionOwned'
  <2>1. \A q \in Procs : q # p => pc'[q] = pc[q] /\ loc'[q] = loc[q]
    OBVIOUS
  <2>2. pc'[p] \notin InstallSteps \cup RestoreSteps
    <3>1. CASE Return(p)
      BY <3>1 DEF InstallSteps, RestoreSteps
    <3>2. CASE \E s \in PrepareSteps \cup RollbackSteps \cup RecoverSteps : Goto(p, s)
      BY <3>2 DEF InstallSteps, RestoreSteps, PrepareSteps, RollbackSteps, RecoverSteps
    <3> QED
      BY <3>1, <3>2
  <2> QED
    BY <2>1, <2>2 DEF TransactionOwned
<1>2. UnmadeIsEmpty'
  BY DEF UnmadeIsEmpty, TransactionOwned
<1>3. BackupProgress'
  <2>1. backup' = backup /\ \A q \in Procs : q # p => pc'[q] = pc[q] /\ loc'[q] = loc[q]
    OBVIOUS
  <2>2. pc'[p] \in {"idle"} \cup PrepareSteps \cup RollbackSteps \cup RecoverSteps
    OBVIOUS
  <2> HIDE DEF TypeOK, Return, Goto, Locals, Backups
  <2> QED
    BY <2>1, <2>2 DEF BackupProgress, InstallSteps, RestoreSteps, AfterBackup, PrepareSteps,
       RollbackSteps, RecoverSteps
<1>4. RollbackHasReceipt'
  BY DEF RollbackHasReceipt, RestoreSteps, PrepareSteps, RollbackSteps, RecoverSteps
<1>5. ReceiptsHonoured'
  BY DEF ReceiptsHonoured, TransactionOwned
<1> QED
  BY <1>1, <1>2, <1>3, <1>4, <1>5

LEMMA RestoreProtocol == ASSUME TypeOK, Protocol, NEW p \in Procs, Restore(p)
                      PROVE  Protocol'
<1> USE RestoreFrame, NoLocalsType DEF Protocol, Owns, Return, Goto, TypeOK, Locals, Backups
<1>1. TransactionOwned'
  <2> SUFFICES ASSUME NEW q \in Procs, Owns(q)'
               PROVE  /\ backup'[loc'[q].tx].made
                      /\ receipt'[loc'[q].tx] = Absent
                      /\ loc'[q].tx \notin failure'
                      /\ \A r \in Procs : Owns(r)' /\ loc'[r].tx = loc'[q].tx => r = q
    BY DEF TransactionOwned
  <2>0. Owns(p)
    BY DEF RestoreSteps
  <2>1. Return(p) \/ (loc' = loc /\ \E s \in RestoreSteps : Goto(p, s))
    OBVIOUS
  <2>2. \A r \in Procs : Owns(r)' => Owns(r) /\ loc'[r].tx = loc[r].tx
    <3>1. CASE Return(p)
      BY <2>0, <3>1 DEF InstallSteps, RestoreSteps
    <3>2. CASE loc' = loc /\ \E s \in RestoreSteps : Goto(p, s)
      BY <2>0, <3>2
    <3> QED
      BY <2>1, <3>1, <3>2
  <2>3. loc'[q].tx \notin failure'
    <3>1. CASE q = p
      BY <2>2, <3>1 DEF TransactionOwned, InstallSteps, RestoreSteps
    <3>2. CASE q # p
      BY <2>0, <2>2, <3>2 DEF TransactionOwned
    <3> QED
      BY <3>1, <3>2
  <2> QED
    BY <2>2, <2>3 DEF TransactionOwned
<1>2. UnmadeIsEmpty'
  BY DEF UnmadeIsEmpty, TransactionOwned
<1>3. BackupProgress'
  BY DEF BackupProgress, InstallSteps, RestoreSteps, AfterBackup, PrepareSteps, RollbackSteps, RecoverSteps
<1>4. RollbackHasReceipt'
  BY DEF RollbackHasReceipt, RestoreSteps, PrepareSteps, RollbackSteps, RecoverSteps
<1>5. ReceiptsHonoured'
  BY DEF ReceiptsHonoured, TransactionOwned
<1> QED
  BY <1>1, <1>2, <1>3, <1>4, <1>5

LEMMA InstallProtocol == ASSUME TypeOK, Protocol, NEW p \in Procs, Install(p)
                         PROVE  Protocol'
<1> USE NoLocalsType DEF Protocol, Return, Goto, TypeOK, Locals, Backups, disk
<1> USE DEF InstallSteps, RestoreSteps, AfterBackup, PrepareSteps, RollbackSteps, RecoverSteps
<1>1. ASSUME ObserveTarget(p) PROVE Protocol'
  <2>1. TransactionOwned' /\ UnmadeIsEmpty'
    BY <1>1 DEF ObserveTarget, TransactionOwned, UnmadeIsEmpty, Owns
  <2>2. BackupProgress'
    BY <1>1 DEF ObserveTarget, TransactionOwned, BackupProgress, Owns, UnmadeIsEmpty
  <2>3. RollbackHasReceipt' /\ ReceiptsHonoured'
    BY <1>1 DEF ObserveTarget, RollbackHasReceipt, ReceiptsHonoured, TransactionOwned, Owns, BackupProgress, UnmadeIsEmpty
  <2> QED
    BY <2>1, <2>2, <2>3
<1>2. ASSUME CreateTransaction(p) PROVE Protocol'
  <2>1. CASE backup[loc[p].tx].made
    <3>1. UNCHANGED <<backup, receipt, failure>> /\ Return(p)
      BY <1>2, <2>1 DEF CreateTransaction
    <3>2. TransactionOwned' /\ UnmadeIsEmpty' /\ BackupProgress'
      BY <3>1 DEF TransactionOwned, UnmadeIsEmpty, Owns, BackupProgress
    <3>3. RollbackHasReceipt' /\ ReceiptsHonoured'
      BY <3>1 DEF RollbackHasReceipt, ReceiptsHonoured
    <3> QED
      BY <3>2, <3>3
  <2>2. CASE ~backup[loc[p].tx].made
    <3> DEFINE t == loc[p].tx
    <3>1. /\ backup' = [backup EXCEPT ![t].made = TRUE] /\ UNCHANGED <<receipt, failure, loc>>
          /\ Goto(p, "backup_order") /\ pc[p] = "mkdir"
      BY <1>2, <2>2 DEF CreateTransaction
    <3>2. /\ \A u \in Tx : backup'[u].tree = backup[u].tree /\ backup'[u].order = backup[u].order
          /\ \A u \in Tx : backup'[u].made = (u = t \/ backup[u].made)
      <4>1. backup \in [Tx -> Backups]
        OBVIOUS
      <4> HIDE DEF Protocol, TypeOK, Locals, Return, Goto, disk
      <4> QED
        BY <3>1, <4>1
    <3>3. \A q \in Procs : Owns(q) => loc[q].tx # t
      BY <2>2 DEF TransactionOwned
    <3>4. backup[t].tree = Absent /\ receipt[t] = Absent /\ t \notin failure
      BY <2>2 DEF UnmadeIsEmpty
    <3>5. TransactionOwned'
      BY <3>1, <3>2, <3>3, <3>4 DEF TransactionOwned, Owns
    <3>6. UnmadeIsEmpty'
      BY <3>1, <3>2 DEF UnmadeIsEmpty
    <3>7. BackupProgress'
      BY <3>1, <3>2, <3>4 DEF BackupProgress
    <3>8. RollbackHasReceipt' /\ ReceiptsHonoured'
      BY <3>1, <3>2 DEF RollbackHasReceipt, ReceiptsHonoured
    <3> QED
      BY <3>5, <3>6, <3>7, <3>8
  <2> QED
    BY <2>1, <2>2
<1>3. ASSUME BackupOrder(p) PROVE Protocol'
  <2>1. TransactionOwned' /\ UnmadeIsEmpty'
    BY <1>3 DEF BackupOrder, TransactionOwned, UnmadeIsEmpty, Owns
  <2>2. BackupProgress'
    BY <1>3 DEF BackupOrder, TransactionOwned, BackupProgress, Owns, UnmadeIsEmpty
  <2>3. RollbackHasReceipt' /\ ReceiptsHonoured'
    BY <1>3 DEF BackupOrder, RollbackHasReceipt, ReceiptsHonoured, TransactionOwned, Owns, BackupProgress, UnmadeIsEmpty
  <2> QED
    BY <2>1, <2>2, <2>3
<1>4. ASSUME BackupTarget(p) PROVE Protocol'
  <2>1. TransactionOwned' /\ UnmadeIsEmpty'
    BY <1>4 DEF BackupTarget, TransactionOwned, UnmadeIsEmpty, Owns
  <2>2. BackupProgress'
    BY <1>4 DEF BackupTarget, TransactionOwned, BackupProgress, Owns, UnmadeIsEmpty
  <2>3. RollbackHasReceipt' /\ ReceiptsHonoured'
    BY <1>4 DEF BackupTarget, RollbackHasReceipt, ReceiptsHonoured, TransactionOwned, Owns, BackupProgress, UnmadeIsEmpty
  <2> QED
    BY <2>1, <2>2, <2>3
<1>5. ASSUME BackupTargetFails(p) PROVE Protocol'
  <2>1. TransactionOwned' /\ UnmadeIsEmpty'
    BY <1>5 DEF BackupTargetFails, TransactionOwned, UnmadeIsEmpty, Owns
  <2>2. BackupProgress'
    BY <1>5 DEF BackupTargetFails, TransactionOwned, BackupProgress, Owns, UnmadeIsEmpty
  <2>3. RollbackHasReceipt' /\ ReceiptsHonoured'
    BY <1>5 DEF BackupTargetFails, RollbackHasReceipt, ReceiptsHonoured, TransactionOwned, Owns, BackupProgress, UnmadeIsEmpty
  <2> QED
    BY <2>1, <2>2, <2>3
<1>6. ASSUME StageIncoming(p) PROVE Protocol'
  <2>1. TransactionOwned' /\ UnmadeIsEmpty'
    BY <1>6 DEF StageIncoming, TransactionOwned, UnmadeIsEmpty, Owns
  <2>2. BackupProgress'
    BY <1>6 DEF StageIncoming, TransactionOwned, BackupProgress, Owns, UnmadeIsEmpty
  <2>3. RollbackHasReceipt' /\ ReceiptsHonoured'
    BY <1>6 DEF StageIncoming, RollbackHasReceipt, ReceiptsHonoured, TransactionOwned, Owns, BackupProgress, UnmadeIsEmpty
  <2> QED
    BY <2>1, <2>2, <2>3
<1>7. ASSUME DisplaceTarget(p) PROVE Protocol'
  <2>1. TransactionOwned' /\ UnmadeIsEmpty'
    BY <1>7 DEF DisplaceTarget, TransactionOwned, UnmadeIsEmpty, Owns
  <2>2. BackupProgress'
    BY <1>7 DEF DisplaceTarget, TransactionOwned, BackupProgress, Owns, UnmadeIsEmpty
  <2>3. RollbackHasReceipt' /\ ReceiptsHonoured'
    BY <1>7 DEF DisplaceTarget, RollbackHasReceipt, ReceiptsHonoured, TransactionOwned, Owns, BackupProgress, UnmadeIsEmpty
  <2> QED
    BY <2>1, <2>2, <2>3
<1>8. ASSUME DisplaceFails(p) PROVE Protocol'
  <2>1. TransactionOwned' /\ UnmadeIsEmpty'
    BY <1>8 DEF DisplaceFails, TransactionOwned, UnmadeIsEmpty, Owns
  <2>2. BackupProgress'
    BY <1>8 DEF DisplaceFails, TransactionOwned, BackupProgress, Owns, UnmadeIsEmpty
  <2>3. RollbackHasReceipt' /\ ReceiptsHonoured'
    BY <1>8 DEF DisplaceFails, RollbackHasReceipt, ReceiptsHonoured, TransactionOwned, Owns, BackupProgress, UnmadeIsEmpty
  <2> QED
    BY <2>1, <2>2, <2>3
<1>9. ASSUME SwapTarget(p) PROVE Protocol'
  <2>1. TransactionOwned' /\ UnmadeIsEmpty'
    BY <1>9 DEF SwapTarget, TransactionOwned, UnmadeIsEmpty, Owns
  <2>2. BackupProgress'
    BY <1>9 DEF SwapTarget, TransactionOwned, BackupProgress, Owns, UnmadeIsEmpty
  <2>3. RollbackHasReceipt' /\ ReceiptsHonoured'
    BY <1>9 DEF SwapTarget, RollbackHasReceipt, ReceiptsHonoured, TransactionOwned, Owns, BackupProgress, UnmadeIsEmpty
  <2> QED
    BY <2>1, <2>2, <2>3
<1>10. ASSUME WriteOrder(p) PROVE Protocol'
  <2>1. TransactionOwned' /\ UnmadeIsEmpty'
    BY <1>10 DEF WriteOrder, TransactionOwned, UnmadeIsEmpty, Owns
  <2>2. BackupProgress'
    BY <1>10 DEF WriteOrder, TransactionOwned, BackupProgress, Owns, UnmadeIsEmpty
  <2>3. RollbackHasReceipt' /\ ReceiptsHonoured'
    BY <1>10 DEF WriteOrder, RollbackHasReceipt, ReceiptsHonoured, TransactionOwned, Owns, BackupProgress, UnmadeIsEmpty
  <2> QED
    BY <2>1, <2>2, <2>3
<1>11. ASSUME WriteOrderFails(p) PROVE Protocol'
  <2>1. TransactionOwned' /\ UnmadeIsEmpty'
    BY <1>11 DEF WriteOrderFails, TransactionOwned, UnmadeIsEmpty, Owns
  <2>2. BackupProgress'
    BY <1>11 DEF WriteOrderFails, TransactionOwned, BackupProgress, Owns, UnmadeIsEmpty
  <2>3. RollbackHasReceipt' /\ ReceiptsHonoured'
    BY <1>11 DEF WriteOrderFails, RollbackHasReceipt, ReceiptsHonoured, TransactionOwned, Owns, BackupProgress, UnmadeIsEmpty
  <2> QED
    BY <2>1, <2>2, <2>3
<1>12. ASSUME VerifyInstalled(p) PROVE Protocol'
  <2>1. TransactionOwned' /\ UnmadeIsEmpty'
    BY <1>12 DEF VerifyInstalled, TransactionOwned, UnmadeIsEmpty, Owns
  <2>2. BackupProgress'
    BY <1>12 DEF VerifyInstalled, TransactionOwned, BackupProgress, Owns, UnmadeIsEmpty
  <2>3. RollbackHasReceipt' /\ ReceiptsHonoured'
    BY <1>12 DEF VerifyInstalled, RollbackHasReceipt, ReceiptsHonoured, TransactionOwned, Owns, BackupProgress, UnmadeIsEmpty
  <2> QED
    BY <2>1, <2>2, <2>3
<1>13. ASSUME WriteInstallReceipt(p) PROVE Protocol'
  <2>1. TransactionOwned' /\ UnmadeIsEmpty'
    BY <1>13 DEF WriteInstallReceipt, TransactionOwned, UnmadeIsEmpty, Owns
  <2>2. BackupProgress'
    BY <1>13 DEF WriteInstallReceipt, TransactionOwned, BackupProgress, Owns, UnmadeIsEmpty
  <2>3. RollbackHasReceipt'
    <3>1. \A t \in Tx : receipt[t] # Absent => receipt'[t] = receipt[t]
      BY <1>13 DEF WriteInstallReceipt, TransactionOwned, Owns
    <3> QED
      BY <1>13, <3>1 DEF WriteInstallReceipt, RollbackHasReceipt
  <2>4. ReceiptsHonoured'
    BY <1>13 DEF WriteInstallReceipt, ReceiptsHonoured, TransactionOwned, Owns, BackupProgress
  <2> QED
    BY <2>1, <2>2, <2>3, <2>4
<1>14. ASSUME InstallStepFails(p) PROVE Protocol'
  <2>1. TransactionOwned' /\ UnmadeIsEmpty'
    BY <1>14 DEF InstallStepFails, TransactionOwned, UnmadeIsEmpty, Owns
  <2>2. BackupProgress'
    BY <1>14 DEF InstallStepFails, TransactionOwned, BackupProgress, Owns, UnmadeIsEmpty
  <2>3. RollbackHasReceipt' /\ ReceiptsHonoured'
    BY <1>14 DEF InstallStepFails, RollbackHasReceipt, ReceiptsHonoured, TransactionOwned, Owns, BackupProgress, UnmadeIsEmpty
  <2> QED
    BY <2>1, <2>2, <2>3
<1> QED
  BY <1>1, <1>2, <1>3, <1>4, <1>5, <1>6, <1>7, <1>8, <1>9, <1>10, <1>11, <1>12, <1>13, <1>14 DEF Install

-----------------------------------------------------------------------------
(***************************************************************************)
(* The original folders.                                                   *)
(***************************************************************************)

\* Whoever is about to change a folder that was there at the start has its
\* original in a backup.
LEMMA MutatorsSaved ==
  ASSUME TypeOK, Protocol, OriginalSafe, NEW p \in Procs, initial[Target(p)] # Absent,
         \/ pc[p] \in AfterBackup
         \/ pc[p] \in RestoreSteps /\ loc[p].target_mutated
         \/ pc[p] \in PrepareSteps \cup RollbackSteps \cup RecoverSteps
  PROVE  Saved(Target(p))
<1> DEFINE m == Target(p)
<1>1. m \in Mods /\ loc[p].tx \in Tx /\ ModOf[loc[p].tx] = m
  BY ConstantsOK DEF Target, TypeOK, Locals
<1>2. SUFFICES ASSUME Untouched(m) PROVE Saved(m)
  BY <1>1 DEF OriginalSafe
<1>3. CASE pc[p] \in PrepareSteps \cup RollbackSteps \cup RecoverSteps
  BY <1>1, <1>2, <1>3 DEF Untouched, Protocol, RollbackHasReceipt
<1>4. CASE pc[p] \in AfterBackup \/ (pc[p] \in RestoreSteps /\ loc[p].target_mutated)
  <2>1. backup[loc[p].tx].tree = loc[p].tree
    BY <1>4 DEF Protocol, BackupProgress
  <2>2. loc[p].tree = initial[m]
    BY <1>2, <1>4 DEF Untouched, AfterBackup, InstallSteps
  <2> QED
    BY <1>1, <2>1, <2>2 DEF Saved
<1> QED
  BY <1>3, <1>4

\* A step touches no folder but its own target, and that one only as a
\* mutator.
LEMMA FolderFrame ==
  ASSUME TypeOK, Protocol, NEW p \in Procs, Install(p) \/ Restore(p) \/ Rollback(p)
  PROVE  /\ initial' = initial
         /\ \A m \in Mods : m # Target(p) => tree'[m] = tree[m]
         /\ \/ tree' = tree
            \/ pc[p] \in AfterBackup
            \/ pc[p] \in RestoreSteps /\ loc[p].target_mutated
            \/ pc[p] \in RollbackSteps \cup RecoverSteps
<1> USE DEF TypeOK
<1>1. CASE Install(p)
  BY <1>1 DEF Install, disk, AfterBackup, 
      ObserveTarget, CreateTransaction, BackupOrder, BackupTarget, 
      BackupTargetFails, StageIncoming, DisplaceTarget, DisplaceFails, 
      SwapTarget, WriteOrder, WriteOrderFails, VerifyInstalled, 
      WriteInstallReceipt, InstallStepFails
<1>2. CASE Restore(p)
  <2>1. pc[p] = "restore_copy" => loc[p].target_mutated
    BY DEF Protocol, BackupProgress
  <2> QED
    BY <1>2, <2>1 DEF Restore, disk, RestoreSteps, GiveUp, 
      RestoreTarget, RestoreCopy, RestoreOrder, RestoreCheck, 
      WriteFailureReceipt, RestoreFails
<1>3. CASE Rollback(p)
  BY <1>3 DEF Rollback, disk, RollbackSteps, RecoverSteps, GiveUp, 
      CreateRollbackWork, CopyCurrentTarget, CopyCurrentOrder, PrepareFails, 
      RollbackRemove, RollbackRestore, RollbackOrder, RollbackVerify, 
      WriteRollbackReceipt, RollbackFails, RecoverRemove, RecoverCopy, 
      RecoverOrder, RecoverFails
<1> QED
  BY <1>1, <1>2, <1>3

\* A step changes the locals of its own process, which keeps its transaction;
\* the observed folder is recorded by ObserveTarget alone.
LEMMA LocalFrame ==
  ASSUME TypeOK, NEW p \in Procs, Install(p) \/ Restore(p) \/ Rollback(p)
  PROVE  /\ \A q \in Procs : q # p => pc'[q] = pc[q] /\ loc'[q] = loc[q]
         /\ \/ pc'[p] \in {"idle"} \cup PrepareSteps \cup RollbackSteps \cup RecoverSteps
            \/ /\ pc[p] \in {"mkdir"} \cup InstallSteps \cup RestoreSteps
               /\ loc'[p].tx = loc[p].tx /\ loc'[p].tree = loc[p].tree
            \/ /\ pc[p] = "observe"
               /\ loc'[p].tx = loc[p].tx /\ loc'[p].tree = tree[Target(p)]
<1> USE DEF TypeOK, Locals, Goto, Return, disk
<1>1. CASE Install(p)
  <2>1. CASE ObserveTarget(p) \/ CreateTransaction(p)
    BY <2>1 DEF InstallSteps, ObserveTarget, CreateTransaction
  <2>2. CASE BackupOrder(p) \/ BackupTarget(p) \/ BackupTargetFails(p) \/ StageIncoming(p)
    BY <2>2 DEF InstallSteps, BackupOrder, BackupTarget, BackupTargetFails, StageIncoming
  <2>3. CASE DisplaceTarget(p) \/ DisplaceFails(p) \/ SwapTarget(p)
    BY <2>3 DEF InstallSteps, DisplaceTarget, DisplaceFails, SwapTarget
  <2>4. CASE WriteOrder(p) \/ WriteOrderFails(p) \/ VerifyInstalled(p)
    BY <2>4 DEF InstallSteps, WriteOrder, WriteOrderFails, VerifyInstalled
  <2>5. CASE WriteInstallReceipt(p) \/ InstallStepFails(p)
    BY <2>5 DEF InstallSteps, WriteInstallReceipt, InstallStepFails
  <2> QED
    BY <1>1, <2>1, <2>2, <2>3, <2>4, <2>5 DEF Install
<1>2. CASE Restore(p)
  BY <1>2, RestoreFrame
<1>3. CASE Rollback(p)
  BY <1>3, RollbackFrame
<1> QED
  BY <1>1, <1>2, <1>3

\* A backup of an original is never rewritten.
LEMMA SavedStays ==
  ASSUME TypeOK, Protocol, NEW p \in Procs, Install(p) \/ Restore(p) \/ Rollback(p),
         NEW m \in Mods, initial[m] # Absent, Saved(m)
  PROVE  Saved(m)'
<1>1. initial' = initial
  BY FolderFrame
<1>2. PICK t \in Tx : ModOf[t] = m /\ backup[t].tree = initial[m]
  BY DEF Saved
<1>3. backup'[t].tree = backup[t].tree
  <2>1. CASE Install(p)
    <3>1. CASE CreateTransaction(p)
      BY <3>1 DEF CreateTransaction, TypeOK, Backups
    <3>2. CASE BackupOrder(p)
      BY <3>2 DEF BackupOrder, TypeOK, Backups
    <3>3. CASE BackupTarget(p) \/ BackupTargetFails(p)
      <4>1. loc[p].tx # t
        BY <1>2, <3>3 DEF BackupTarget, BackupTargetFails, Protocol, BackupProgress
      <4> QED
        BY <3>3, <4>1 DEF BackupTarget, BackupTargetFails, TypeOK
    <3> QED
      BY <2>1, <3>1, <3>2, <3>3
      DEF Install, disk, ObserveTarget, StageIncoming, DisplaceTarget, DisplaceFails,
          SwapTarget, WriteOrder, WriteOrderFails, VerifyInstalled, WriteInstallReceipt,
          InstallStepFails
  <2>2. CASE Restore(p) \/ Rollback(p)
    BY <2>2, RestoreFrame, RollbackFrame
  <2> QED
    BY <2>1, <2>2
<1> QED
  BY <1>1, <1>2, <1>3 DEF Saved

\* A folder without a backup of its original stays untouched until the step
\* that makes the backup.
LEMMA UntouchedStep ==
  ASSUME TypeOK, Protocol, OriginalSafe, NEW p \in Procs,
         Install(p) \/ Restore(p) \/ Rollback(p),
         NEW m \in Mods, initial[m] # Absent, Untouched(m), ~Saved(m)
  PROVE  Untouched(m)'
<1>1. Target(p) = m => /\ pc[p] \notin AfterBackup
                       /\ ~(pc[p] \in RestoreSteps /\ loc[p].target_mutated)
                       /\ pc[p] \notin PrepareSteps \cup RollbackSteps \cup RecoverSteps
  BY MutatorsSaved
<1>2. tree'[m] = initial'[m]
  BY <1>1, FolderFrame DEF Untouched
<1>3. ASSUME NEW t \in Tx, ModOf[t] = m PROVE receipt'[t] = Absent
  <2>1. receipt[t] = Absent
    BY <1>3 DEF Untouched
  <2>2. CASE Install(p)
    BY <2>1, <2>2, <1>1, <1>3 DEF Install, disk, AfterBackup, Target, TypeOK, 
      ObserveTarget, CreateTransaction, BackupOrder, BackupTarget, 
      BackupTargetFails, StageIncoming, DisplaceTarget, DisplaceFails, 
      SwapTarget, WriteOrder, WriteOrderFails, VerifyInstalled, 
      WriteInstallReceipt, InstallStepFails
  <2>3. CASE Restore(p) \/ Rollback(p)
    BY <2>1, <2>3, RestoreFrame, RollbackFrame
  <2> QED
    BY <2>2, <2>3
<1>4. ASSUME NEW q \in Procs, Target(q)' = m,
             pc'[q] \in {"mkdir"} \cup InstallSteps \cup RestoreSteps
      PROVE  loc'[q].tree = initial'[m]
  <2>1. initial' = initial
    BY FolderFrame
  <2>2. CASE q # p
    BY <1>4, <2>1, <2>2, LocalFrame DEF Untouched, Target
  <2>3. CASE q = p
    <3>1. loc'[p].tx = loc[p].tx
      BY <1>4, <2>3, LocalFrame DEF InstallSteps, RestoreSteps, PrepareSteps, RollbackSteps, RecoverSteps
    <3>2. Target(p) = m
      BY <1>4, <2>3, <3>1 DEF Target
    <3> QED
      BY <1>4, <2>1, <2>3, <3>2, LocalFrame
      DEF Untouched, InstallSteps, RestoreSteps, PrepareSteps, RollbackSteps, RecoverSteps
  <2> QED
    BY <2>2, <2>3
<1> QED
  BY <1>2, <1>3, <1>4 DEF Untouched

-----------------------------------------------------------------------------
(***************************************************************************)
(* The inductive invariant.                                                *)
(***************************************************************************)

LEMMA IInvInit == Init => IInv
<1> SUFFICES ASSUME Init PROVE IInv
  OBVIOUS
<1>1. TypeOK
  BY ConstantsOK, NoLocalsType DEF Init, TypeOK, Contents, Steps, Backups
<1>2. Protocol
  BY ConstantsOK
  DEF Init, Protocol, TransactionOwned, UnmadeIsEmpty, BackupProgress, RollbackHasReceipt,
      ReceiptsHonoured, Owns, InstallSteps, RestoreSteps, AfterBackup, PrepareSteps,
      RollbackSteps, RecoverSteps, NoLocals
<1>3. OriginalSafe
  BY DEF Init, OriginalSafe, Untouched, InstallSteps, RestoreSteps
<1> QED
  BY <1>1, <1>2, <1>3 DEF IInv

\* The steps of an operation under way.
LEMMA OperationStep ==
  ASSUME IInv, NEW p \in Procs, Install(p) \/ Restore(p) \/ Rollback(p)
  PROVE  IInv'
<1> USE DEF IInv
<1>1. TypeOK'
  BY InstallType, RestoreType, RollbackType DEF Protocol
<1>2. Protocol'
  BY InstallProtocol, RestoreProtocol, RollbackProtocol
<1>3. OriginalSafe'
  <2> SUFFICES ASSUME NEW m \in Mods
               PROVE  initial'[m] = Absent \/ Saved(m)' \/ Untouched(m)'
    BY DEF OriginalSafe
  <2>1. initial' = initial
    BY FolderFrame
  <2> QED
    BY <2>1, SavedStays, UntouchedStep DEF OriginalSafe
<1> QED
  BY <1>1, <1>2, <1>3

\* Beginning an operation, registering a deployment, dying: the disk keeps
\* every backup, receipt and folder.
LEMMA OtherStep ==
  ASSUME IInv, NEW p \in Procs, NEW t \in Tx,
         RegisterDeployment(t) \/ BeginInstall(p, t) \/ BeginRollback(p, t) \/ Crash(p)
  PROVE  IInv'
<1> USE DEF IInv
<1>1. TypeOK'
  <2>1. CASE RegisterDeployment(t)
    BY <2>1 DEF RegisterDeployment, TypeOK
  <2>2. CASE BeginInstall(p, t)
    BY <2>2, NewLocalsType, GotoType, StepNames DEF BeginInstall, disk, TypeOK
  <2>3. CASE BeginRollback(p, t)
    BY <2>3, NewLocalsType, GotoType, StepNames DEF BeginRollback, disk, TypeOK
  <2>4. CASE Crash(p)
    BY <2>4, ReturnType DEF Crash, disk, TypeOK
  <2> QED
    BY <2>1, <2>2, <2>3, <2>4
<1>2. /\ UNCHANGED <<tree, backup, receipt, failure, initial>>
      /\ \A q \in Procs : q # p => pc'[q] = pc[q] /\ loc'[q] = loc[q]
      /\ \/ pc'[p] = pc[p] /\ loc'[p] = loc[p]
         \/ pc'[p] = "idle"
         \/ pc'[p] = "observe" /\ loc'[p] = NewLocals(t)
         \/ pc'[p] = "rb_mkdir" /\ loc'[p] = NewLocals(t) /\ receipt[t] # Absent
  BY DEF RegisterDeployment, BeginInstall, BeginRollback, RollbackAllowed, Crash, disk,
         Return, Goto, TypeOK
<1> USE DEF Owns, InstallSteps, RestoreSteps, AfterBackup, PrepareSteps, RollbackSteps,
            RecoverSteps, NewLocals
<1>3. Protocol'
  <2>1. TransactionOwned'
    BY <1>2 DEF Protocol, TransactionOwned
  <2>2. UnmadeIsEmpty' /\ ReceiptsHonoured'
    BY <1>2 DEF Protocol, UnmadeIsEmpty, ReceiptsHonoured
  <2>3. BackupProgress'
    BY <1>2 DEF Protocol, BackupProgress
  <2>4. RollbackHasReceipt'
    BY <1>2 DEF Protocol, RollbackHasReceipt
  <2> QED
    BY <2>1, <2>2, <2>3, <2>4 DEF Protocol
<1>4. OriginalSafe'
  BY <1>2 DEF OriginalSafe, Saved, Untouched, Target
<1> QED
  BY <1>1, <1>3, <1>4

LEMMA IInvStep == IInv /\ [Next]_vars => IInv'
<1> SUFFICES ASSUME IInv, [Next]_vars PROVE IInv'
  OBVIOUS
<1>1. CASE Next
  <2>1. Procs # {} => \A t \in Tx : RegisterDeployment(t) => IInv'
    BY OtherStep
  <2>2. Procs = {} => \A t \in Tx : RegisterDeployment(t) => IInv'
    BY DEF RegisterDeployment, IInv, TypeOK, Protocol, TransactionOwned, UnmadeIsEmpty,
           BackupProgress, RollbackHasReceipt, ReceiptsHonoured, OriginalSafe, Saved,
           Untouched, Contents
  <2> QED
    BY <1>1, <2>1, <2>2, OtherStep, OperationStep, ConstantsOK DEF Next
<1>2. CASE UNCHANGED vars
  BY <1>2 DEF vars, disk, IInv, TypeOK, Protocol, TransactionOwned, UnmadeIsEmpty,
              BackupProgress, RollbackHasReceipt, ReceiptsHonoured, OriginalSafe, Saved,
              Untouched, Owns, Target
<1> QED
  BY <1>1, <1>2

LEMMA Inductive == Spec => []IInv
  BY IInvInit, IInvStep, PTL DEF Spec

\* Every variable keeps its type, whatever overlaps, fails or dies.
THEOREM TypeCorrect == Spec => []TypeOK
<1>1. IInv => TypeOK
  BY DEF IInv
<1> QED
  BY <1>1, Inductive, PTL

\* However many operations overlap, and wherever any of them fails or dies, a
\* mod folder found at the start is in place or in a backup of its mod.
THEOREM OriginalSurvives == Spec => []OriginalNeverLost
<1>1. IInv => OriginalNeverLost
  BY DEF IInv, OriginalSafe, OriginalNeverLost, Saved, Untouched
<1> QED
  BY <1>1, Inductive, PTL

\* Every install receipt can be honoured, under the same conditions: its
\* backups are intact and it has no failure receipt beside it.
THEOREM ReceiptsStayHonoured == Spec => []ReceiptsHonoured
<1>1. IInv => ReceiptsHonoured
  BY DEF IInv, Protocol
<1> QED
  BY <1>1, Inductive, PTL

-----------------------------------------------------------------------------
(***************************************************************************)
(* Operations that do not overlap: what each step of the one under way     *)
(* leaves of the folder, the load order and the recovery copy.             *)
(***************************************************************************)

\* One operation at a time.
Alone == \A p, q \in Procs : pc[p] # "idle" /\ pc[q] # "idle" => p = q

\* A receipt records the load order the code derives from the one it found.
ReceiptsDerived ==
  \A t \in Tx :
    receipt[t] # Absent =>
      receipt[t].after = EnsureExactlyOneOrderEntry(receipt[t].before, ModOf[t])

\* An installation leaves the folder and the load order as it found them until
\* it sets a flag; with its receipt it vouches for what is there, and its
\* handler has put both back before the failure receipt.
InstallKept(p) ==
  LET l == loc[p]
      m == Target(p)
  IN  /\ pc[p] = "observe" => order = l.order
      /\ pc[p] \in {"observe", "mkdir", "backup_order", "backup_target", "stage", "displace"}
           => ~l.target_mutated
      /\ pc[p] \in {"swap", "write_order", "verify", "receipt"} => l.target_mutated
      /\ pc[p] \in {"observe", "mkdir"} \cup (InstallSteps \ {"verify", "receipt"})
           => ~l.order_mutated
      /\ pc[p] \in {"mkdir"} \cup InstallSteps \cup RestoreSteps /\ ~l.target_mutated
           => tree[m] = l.tree
      /\ pc[p] \in {"mkdir"} \cup InstallSteps \cup RestoreSteps /\ ~l.order_mutated
           => order = l.order
      /\ pc[p] \in {"verify", "receipt"} => order = EnsureExactlyOneOrderEntry(l.order, m)
      /\ pc[p] = "receipt" => tree[m] = Candidate[l.tx] /\ HasOneEntry(order, m)
      /\ pc[p] = "restore_copy" => tree[m] = Absent
      /\ pc[p] \in {"restore_order", "restore_check", "failure_receipt"} => tree[m] = l.tree
      /\ pc[p] = "failure_receipt" => order = l.order

\* A rollback has the installed state in place, the receipt's, or the way from
\* one to the other, and its handler has brought the installed folder back
\* before it writes the load order.
RollbackKept(p) ==
  LET l == loc[p]
      m == Target(p)
      t == loc[p].tx
  IN  /\ pc[p] \in PrepareSteps \cup RollbackSteps \cup RecoverSteps
           => t \notin undone /\ l.order = receipt[t].after
      /\ pc[p] \in PrepareSteps \cup {"rb_remove", "rb_restore", "rb_order"} => order = l.order
      /\ pc[p] \in PrepareSteps \cup {"rb_remove", "rb_recover_order"} => tree[m] = Candidate[t]
      /\ pc[p] = "rb_restore" => tree[m] = Absent
      /\ pc[p] \in {"rb_order", "rb_verify", "rb_receipt"} => tree[m] = receipt[t].tree
      /\ pc[p] \in {"rb_verify", "rb_receipt"} => order = receipt[t].before
      /\ pc[p] \in RollbackSteps \cup RecoverSteps
           => work[t] # Absent /\ work[t].tree = Candidate[t]

IsolatedInv ==
  /\ Alone
  /\ ReceiptsDerived
  /\ \A p \in Procs : InstallKept(p) /\ RollbackKept(p)

LEMMA StepOfBusy ==
  ASSUME NEW p \in Procs, Install(p) \/ Restore(p) \/ Rollback(p) \/ Crash(p)
  PROVE  pc[p] # "idle"
<1>1. CASE Install(p)
  BY <1>1 DEF Install, InstallSteps,
      ObserveTarget, CreateTransaction, BackupOrder, BackupTarget,
      BackupTargetFails, StageIncoming, DisplaceTarget, DisplaceFails,
      SwapTarget, WriteOrder, WriteOrderFails, VerifyInstalled,
      WriteInstallReceipt, InstallStepFails
<1>2. CASE Restore(p)
  BY <1>2, RestoreFrame DEF RestoreSteps
<1>3. CASE Rollback(p)
  BY <1>3, RollbackFrame DEF PrepareSteps, RollbackSteps, RecoverSteps
<1>4. CASE Crash(p)
  BY <1>4 DEF Crash
<1> QED
  BY <1>1, <1>2, <1>3, <1>4

\* A step by which process p begins, advances, ends or dies.
MoveOf(p) ==
  \/ \E t \in Tx : BeginInstall(p, t) \/ BeginRollback(p, t)
  \/ Install(p) \/ Restore(p) \/ Rollback(p) \/ Crash(p)

\* Of operations that do not overlap, only the moving one is under way.
LEMMA OthersIdle ==
  ASSUME TypeOK, Alone, Isolated, NEW p \in Procs, MoveOf(p)
  PROVE  /\ \A q \in Procs \ {p} : pc[q] = "idle" /\ pc'[q] = "idle"
         /\ Alone'
<1>1. \A q \in Procs \ {p} : pc[q] = "idle"
  <2>1. CASE \E t \in Tx : BeginInstall(p, t) \/ BeginRollback(p, t)
    BY <2>1 DEF BeginInstall, BeginRollback, Quiet
  <2>2. CASE Install(p) \/ Restore(p) \/ Rollback(p) \/ Crash(p)
    BY <2>2, StepOfBusy DEF Alone
  <2> QED
    BY <2>1, <2>2 DEF MoveOf
<1>2. \A q \in Procs \ {p} : pc'[q] = pc[q]
  <2>1. CASE \E t \in Tx : BeginInstall(p, t) \/ BeginRollback(p, t)
    BY <2>1 DEF BeginInstall, BeginRollback, Goto, TypeOK
  <2>2. CASE Crash(p)
    BY <2>2 DEF Crash, Return, TypeOK
  <2>3. CASE Install(p) \/ Restore(p) \/ Rollback(p)
    BY <2>3, LocalFrame
  <2> QED
    BY <2>1, <2>2, <2>3 DEF MoveOf
<1> QED
  BY <1>1, <1>2 DEF Alone

LEMMA InstallKeeps ==
  ASSUME TypeOK, Protocol, NEW p \in Procs, InstallKept(p), ReceiptsDerived, Install(p)
  PROVE  InstallKept(p)' /\ RollbackKept(p)' /\ ReceiptsDerived'
<1> DEFINE l == loc[p]
           m == Target(p)
<1>0. l \in Locals /\ l.tx \in Tx /\ m \in Mods /\ tree \in [Mods -> Contents]
  BY ConstantsOK DEF TypeOK, Locals, Target
<1> USE DEF TypeOK, Locals, Goto, Return, disk, Target, InstallKept, RollbackKept, InstallSteps,
            RestoreSteps, PrepareSteps, RollbackSteps, RecoverSteps
<1>1. CASE ObserveTarget(p)
  BY <1>0, <1>1 DEF ObserveTarget, ReceiptsDerived
<1>2. CASE CreateTransaction(p)
  BY <1>0, <1>2 DEF CreateTransaction, ReceiptsDerived
<1>3. CASE BackupOrder(p)
  BY <1>0, <1>3 DEF BackupOrder, ReceiptsDerived
<1>4. CASE BackupTarget(p)
  BY <1>0, <1>4 DEF BackupTarget, ReceiptsDerived
<1>5. CASE BackupTargetFails(p)
  BY <1>0, <1>5 DEF BackupTargetFails, ReceiptsDerived
<1>6. CASE StageIncoming(p)
  BY <1>0, <1>6 DEF StageIncoming, ReceiptsDerived
<1>7. CASE DisplaceTarget(p)
  BY <1>0, <1>7 DEF DisplaceTarget, ReceiptsDerived
<1>8. CASE DisplaceFails(p)
  BY <1>0, <1>8 DEF DisplaceFails, ReceiptsDerived
<1>9. CASE SwapTarget(p)
  BY <1>0, <1>9, ConstantsOK DEF SwapTarget, ReceiptsDerived, Protocol, BackupProgress
<1>10. CASE WriteOrder(p)
  BY <1>0, <1>10 DEF WriteOrder, ReceiptsDerived
<1>11. CASE WriteOrderFails(p)
  BY <1>0, <1>11 DEF WriteOrderFails, ReceiptsDerived
<1>12. CASE VerifyInstalled(p)
  BY <1>0, <1>12 DEF VerifyInstalled, ReceiptsDerived
<1>13. CASE WriteInstallReceipt(p)
  BY <1>0, <1>13 DEF WriteInstallReceipt, ReceiptsDerived
<1>14. CASE InstallStepFails(p)
  BY <1>0, <1>14 DEF InstallStepFails, ReceiptsDerived
<1> QED
  BY <1>1, <1>2, <1>3, <1>4, <1>5, <1>6, <1>7, <1>8, <1>9, <1>10, <1>11, <1>12, <1>13, <1>14
     DEF Install

LEMMA RestoreKeeps ==
  ASSUME TypeOK, Protocol, NEW p \in Procs, InstallKept(p), ReceiptsDerived, Restore(p)
  PROVE  InstallKept(p)' /\ RollbackKept(p)' /\ ReceiptsDerived'
<1> DEFINE l == loc[p]
           m == Target(p)
<1>0. l \in Locals /\ l.tx \in Tx /\ m \in Mods /\ tree \in [Mods -> Contents]
  BY ConstantsOK DEF TypeOK, Locals, Target
<1> USE DEF TypeOK, Locals, Goto, Return, disk, Target, InstallKept, RollbackKept, InstallSteps,
            RestoreSteps, PrepareSteps, RollbackSteps, RecoverSteps
<1>1. CASE RestoreTarget(p)
  BY <1>0, <1>1 DEF RestoreTarget, GiveUp, ReceiptsDerived
<1>2. CASE RestoreCopy(p)
  BY <1>0, <1>2 DEF RestoreCopy, ReceiptsDerived
<1>3. CASE RestoreOrder(p)
  BY <1>0, <1>3 DEF RestoreOrder, ReceiptsDerived
<1>4. CASE RestoreCheck(p)
  BY <1>0, <1>4 DEF RestoreCheck, GiveUp, ReceiptsDerived
<1>5. CASE WriteFailureReceipt(p)
  BY <1>0, <1>5 DEF WriteFailureReceipt, ReceiptsDerived
<1>6. CASE RestoreFails(p)
  BY <1>0, <1>6 DEF RestoreFails, GiveUp, ReceiptsDerived
<1> QED
  BY <1>1, <1>2, <1>3, <1>4, <1>5, <1>6 DEF Restore

LEMMA RollbackKeeps ==
  ASSUME TypeOK, Protocol, NEW p \in Procs, RollbackKept(p), ReceiptsDerived, Rollback(p)
  PROVE  InstallKept(p)' /\ RollbackKept(p)' /\ ReceiptsDerived'
<1> DEFINE l == loc[p]
           m == Target(p)
           t == loc[p].tx
<1>0. l \in Locals /\ t \in Tx /\ m \in Mods /\ tree \in [Mods -> Contents]
  BY ConstantsOK DEF TypeOK, Locals, Target
<1>r. receipt[t] # Absent /\ backup[t].tree = receipt[t].tree
  BY <1>0, RollbackFrame DEF Protocol, RollbackHasReceipt, ReceiptsHonoured
<1> USE DEF TypeOK, Locals, Goto, Return, disk, Target, InstallKept, RollbackKept, InstallSteps,
            RestoreSteps, PrepareSteps, RollbackSteps, RecoverSteps
<1>1. CASE CreateRollbackWork(p)
  BY <1>0, <1>1 DEF CreateRollbackWork, ReceiptsDerived
<1>2. CASE CopyCurrentTarget(p)
  BY <1>0, <1>2 DEF CopyCurrentTarget, ReceiptsDerived
<1>3. CASE CopyCurrentOrder(p)
  <2>1. work[t] \in Works /\ work[t].tree = Candidate[t]
    BY <1>0, <1>3 DEF CopyCurrentOrder
  <2>2. work' = [work EXCEPT ![t].order = l.order] /\ l.order \in Orders
    BY <1>0, <1>3 DEF CopyCurrentOrder
  <2>3. work'[t] \in Works /\ work'[t].tree = Candidate[t]
    BY <1>0, <2>1, <2>2 DEF Works
  <2>4. work'[t] # Absent
    BY <2>3, AbsentIsNoRecord
  <2> QED
    BY <1>0, <1>3, <2>3, <2>4 DEF CopyCurrentOrder, ReceiptsDerived
<1>4. CASE PrepareFails(p)
  BY <1>0, <1>4 DEF PrepareFails, ReceiptsDerived
<1>5. CASE RollbackRemove(p)
  BY <1>0, <1>5 DEF RollbackRemove, ReceiptsDerived
<1>6. CASE RollbackRestore(p)
  BY <1>0, <1>r, <1>6 DEF RollbackRestore, ReceiptsDerived
<1>7. CASE RollbackOrder(p)
  BY <1>0, <1>7 DEF RollbackOrder, ReceiptsDerived
<1>8. CASE RollbackVerify(p)
  BY <1>0, <1>8 DEF RollbackVerify, ReceiptsDerived
<1>9. CASE WriteRollbackReceipt(p)
  BY <1>0, <1>9 DEF WriteRollbackReceipt, ReceiptsDerived
<1>10. CASE RollbackFails(p)
  BY <1>0, <1>10 DEF RollbackFails, ReceiptsDerived
<1>11. CASE RecoverRemove(p)
  BY <1>0, <1>11 DEF RecoverRemove, ReceiptsDerived
<1>12. CASE RecoverCopy(p)
  BY <1>0, <1>12 DEF RecoverCopy, ReceiptsDerived
<1>13. CASE RecoverOrder(p)
  BY <1>0, <1>13 DEF RecoverOrder, ReceiptsDerived
<1>14. CASE RecoverFails(p)
  BY <1>0, <1>14 DEF RecoverFails, GiveUp, ReceiptsDerived
<1> QED
  BY <1>1, <1>2, <1>3, <1>4, <1>5, <1>6, <1>7, <1>8, <1>9, <1>10, <1>11, <1>12, <1>13, <1>14
     DEF Rollback

LEMMA IsolatedStep ==
  ASSUME TypeOK, Protocol, IsolatedInv, Isolated, [Next]_vars
  PROVE  IsolatedInv'
<1> USE DEF InstallSteps, RestoreSteps, PrepareSteps, RollbackSteps, RecoverSteps
<1>1. ASSUME NEW p \in Procs, MoveOf(p)
      PROVE  IsolatedInv'
  <2>1. InstallKept(p) /\ RollbackKept(p) /\ ReceiptsDerived /\ Alone
    BY DEF IsolatedInv
  <2>2. Alone' /\ \A q \in Procs \ {p} : pc'[q] = "idle"
    BY <1>1, <2>1, OthersIdle
  <2>3. InstallKept(p)' /\ RollbackKept(p)' /\ ReceiptsDerived'
    <3>1. CASE Install(p) \/ Restore(p) \/ Rollback(p)
      BY <2>1, <3>1, InstallKeeps, RestoreKeeps, RollbackKeeps
    <3>2. CASE Crash(p)
      BY <2>1, <3>2 DEF Crash, Return, disk, InstallKept, RollbackKept, ReceiptsDerived, TypeOK
    <3>3. ASSUME NEW t \in Tx, BeginInstall(p, t)
          PROVE  InstallKept(p)' /\ RollbackKept(p)' /\ ReceiptsDerived'
      BY <2>1, <3>3 DEF BeginInstall, NewLocals, Goto, disk, InstallKept, RollbackKept,
                        ReceiptsDerived, TypeOK
    <3>4. ASSUME NEW t \in Tx, BeginRollback(p, t)
          PROVE  InstallKept(p)' /\ RollbackKept(p)' /\ ReceiptsDerived'
      BY <2>1, <3>4 DEF BeginRollback, RollbackAllowed, NewLocals, Goto, disk, Target,
                        InstallKept, RollbackKept, ReceiptsDerived, TypeOK
    <3> QED
      BY <1>1, <3>1, <3>2, <3>3, <3>4 DEF MoveOf
  <2>4. \A q \in Procs \ {p} : InstallKept(q)' /\ RollbackKept(q)'
    BY <2>2 DEF InstallKept, RollbackKept
  <2> QED
    BY <2>2, <2>3, <2>4 DEF IsolatedInv
<1>2. ASSUME NEW t \in Tx, RegisterDeployment(t)
      PROVE  IsolatedInv'
  BY <1>2 DEF RegisterDeployment, IsolatedInv, Alone, ReceiptsDerived, InstallKept, RollbackKept,
              Target
<1>3. CASE UNCHANGED vars
  BY <1>3 DEF vars, disk, IsolatedInv, Alone, ReceiptsDerived, InstallKept, RollbackKept, Target
<1> QED
  BY <1>1, <1>2, <1>3 DEF Next, MoveOf

LEMMA IsolatedInit == Init => IsolatedInv
  BY DEF Init, IsolatedInv, Alone, ReceiptsDerived, InstallKept, RollbackKept, InstallSteps,
         RestoreSteps, PrepareSteps, RollbackSteps, RecoverSteps

\* When operations do not overlap, a rollback that has touched the installed
\* folder always has the complete recovery copy its handler needs.
THEOREM RecoveryPossible == ASSUME Isolated PROVE Spec => []RecoveryCopyKept
<1>1. IsolatedInv => RecoveryCopyKept
  BY DEF IsolatedInv, RollbackKept, RecoveryCopyKept
<1>2. IInv => TypeOK /\ Protocol
  BY DEF IInv
<1>3. IInv /\ IsolatedInv /\ [Next]_vars => IsolatedInv'
  BY <1>2, IsolatedStep
<1> QED
  BY <1>1, <1>3, IsolatedInit, Inductive, PTL DEF Spec

-----------------------------------------------------------------------------
(***************************************************************************)
(* Operations that do not overlap implement the contract: it moves when a  *)
(* receipt is written and at no other step.                                *)
(***************************************************************************)

\* What the contract shows of folder m while at most p is under way.
Shown(p, m) ==
  IF Target(p) = m /\ InstallUnderWay(p) THEN loc[p].tree
  ELSE IF Target(p) = m /\ RollbackUnderWay(p) THEN Candidate[loc[p].tx]
  ELSE tree[m]

ShownOrder(p) == IF InstallUnderWay(p) \/ RollbackUnderWay(p) THEN loc[p].order ELSE order

LEMMA UnderWayBusy ==
  ASSUME NEW p \in Procs, pc[p] = "idle"
  PROVE  ~InstallUnderWay(p) /\ ~RollbackUnderWay(p)
  BY DEF InstallUnderWay, RollbackUnderWay, InstallSteps, RestoreSteps, RollbackSteps, RecoverSteps

\* All processes but p are at rest.
Others(p) == \A q \in Procs \ {p} : pc[q] = "idle"

LEMMA PromisedIsShown ==
  ASSUME NEW p \in Procs
  PROVE  Others(p) =>
           /\ \A m \in Mods : PromisedFolder(m) = Shown(p, m)
           /\ PromisedOrder = ShownOrder(p)
<1> SUFFICES ASSUME Others(p)
             PROVE  /\ \A m \in Mods : PromisedFolder(m) = Shown(p, m)
                    /\ PromisedOrder = ShownOrder(p)
  OBVIOUS
<1>1. \A q \in Procs : InstallUnderWay(q) \/ RollbackUnderWay(q) => q = p
  BY UnderWayBusy DEF Others
<1>2. ASSUME NEW m \in Mods
      PROVE  PromisedFolder(m) = Shown(p, m)
  <2>1. CASE Target(p) = m /\ InstallUnderWay(p)
    <3>1. p = CHOOSE q \in Procs : Target(q) = m /\ InstallUnderWay(q)
      BY <1>1, <2>1
    <3> QED
      BY <2>1, <3>1 DEF PromisedFolder, Shown
  <2>2. CASE Target(p) = m /\ RollbackUnderWay(p) /\ ~InstallUnderWay(p)
    <3>1. p = CHOOSE q \in Procs : Target(q) = m /\ RollbackUnderWay(q)
      BY <1>1, <2>2
    <3> QED
      BY <1>1, <2>2, <3>1 DEF PromisedFolder, Shown
  <2>3. CASE ~(Target(p) = m /\ (InstallUnderWay(p) \/ RollbackUnderWay(p)))
    BY <1>1, <2>3 DEF PromisedFolder, Shown
  <2> QED
    BY <2>1, <2>2, <2>3
<1>3. PromisedOrder = ShownOrder(p)
  <2>1. CASE InstallUnderWay(p) \/ RollbackUnderWay(p)
    <3>1. p = CHOOSE q \in Procs : InstallUnderWay(q) \/ RollbackUnderWay(q)
      BY <1>1, <2>1
    <3> QED
      BY <2>1, <3>1 DEF PromisedOrder, ShownOrder
  <2>2. CASE ~(InstallUnderWay(p) \/ RollbackUnderWay(p))
    BY <1>1, <2>2 DEF PromisedOrder, ShownOrder
  <2> QED
    BY <2>1, <2>2
<1> QED
  BY <1>2, <1>3

LEMMA PromisedIsShownNext ==
  ASSUME NEW p \in Procs
  PROVE  (Others(p) =>
           /\ \A m \in Mods : PromisedFolder(m) = Shown(p, m)
           /\ PromisedOrder = ShownOrder(p))'
  BY PromisedIsShown, PTL

\* A step that writes no receipt of success and breaks nothing shows what the
\* contract showed before.
Same(p) ==
  /\ \A m \in Mods : Shown(p, m)' = Shown(p, m)
  /\ ShownOrder(p)' = ShownOrder(p)
  /\ UNCHANGED <<receipt, undone, broken>>

LEMMA InstallSame ==
  ASSUME TypeOK, Protocol, NEW p \in Procs, InstallKept(p), Install(p)
  PROVE  WriteInstallReceipt(p) \/ Same(p)
<1>0. loc[p] \in Locals /\ loc[p].tx \in Tx /\ Target(p) \in Mods /\ tree \in [Mods -> Contents]
  BY ConstantsOK DEF TypeOK, Locals, Target
<1> USE DEF TypeOK, Locals, Goto, Return, disk, Target, InstallKept, InstallSteps, RestoreSteps,
            RollbackSteps, RecoverSteps, Same, Shown, ShownOrder, InstallUnderWay,
            RollbackUnderWay
<1>1. CASE ObserveTarget(p)
  BY <1>0, <1>1 DEF ObserveTarget
<1>2. CASE CreateTransaction(p)
  BY <1>0, <1>2 DEF CreateTransaction
<1>3. CASE BackupOrder(p)
  BY <1>0, <1>3 DEF BackupOrder
<1>4. CASE BackupTarget(p)
  BY <1>0, <1>4 DEF BackupTarget
<1>5. CASE BackupTargetFails(p)
  BY <1>0, <1>5 DEF BackupTargetFails
<1>6. CASE StageIncoming(p)
  BY <1>0, <1>6 DEF StageIncoming
<1>7. CASE DisplaceTarget(p)
  BY <1>0, <1>7 DEF DisplaceTarget
<1>8. CASE DisplaceFails(p)
  BY <1>0, <1>8 DEF DisplaceFails
<1>9. CASE SwapTarget(p)
  BY <1>0, <1>9 DEF SwapTarget
<1>10. CASE WriteOrder(p)
  BY <1>0, <1>10 DEF WriteOrder
<1>11. CASE WriteOrderFails(p)
  BY <1>0, <1>11 DEF WriteOrderFails
<1>12. CASE VerifyInstalled(p)
  BY <1>0, <1>12 DEF VerifyInstalled
<1>13. CASE InstallStepFails(p)
  BY <1>0, <1>13 DEF InstallStepFails
<1> QED
  BY <1>1, <1>2, <1>3, <1>4, <1>5, <1>6, <1>7, <1>8, <1>9, <1>10, <1>11, <1>12, <1>13
     DEF Install

LEMMA RestoreSame ==
  ASSUME TypeOK, Protocol, NEW p \in Procs, InstallKept(p), Restore(p)
  PROVE  broken' \/ Same(p)
<1>0. loc[p] \in Locals /\ loc[p].tx \in Tx /\ Target(p) \in Mods /\ tree \in [Mods -> Contents]
  BY ConstantsOK DEF TypeOK, Locals, Target
<1> USE DEF TypeOK, Locals, Goto, Return, disk, Target, InstallKept, InstallSteps, RestoreSteps,
            RollbackSteps, RecoverSteps, Same, Shown, ShownOrder, InstallUnderWay,
            RollbackUnderWay
<1>1. CASE RestoreTarget(p)
  BY <1>0, <1>1 DEF RestoreTarget, GiveUp
<1>2. CASE RestoreCopy(p)
  BY <1>0, <1>2 DEF RestoreCopy
<1>3. CASE RestoreOrder(p)
  BY <1>0, <1>3 DEF RestoreOrder
<1>4. CASE RestoreCheck(p)
  BY <1>0, <1>4 DEF RestoreCheck, GiveUp
<1>5. CASE WriteFailureReceipt(p)
  BY <1>0, <1>5 DEF WriteFailureReceipt
<1>6. CASE RestoreFails(p)
  BY <1>0, <1>6 DEF RestoreFails, GiveUp
<1> QED
  BY <1>1, <1>2, <1>3, <1>4, <1>5, <1>6 DEF Restore

LEMMA RollbackSame ==
  ASSUME TypeOK, Protocol, NEW p \in Procs, RollbackKept(p), Rollback(p)
  PROVE  WriteRollbackReceipt(p) \/ broken' \/ Same(p)
<1>0. loc[p] \in Locals /\ loc[p].tx \in Tx /\ Target(p) \in Mods /\ tree \in [Mods -> Contents]
  BY ConstantsOK DEF TypeOK, Locals, Target
<1> USE DEF TypeOK, Locals, Goto, Return, disk, Target, RollbackKept, InstallSteps, RestoreSteps,
            PrepareSteps, RollbackSteps, RecoverSteps, Same, Shown, ShownOrder, InstallUnderWay,
            RollbackUnderWay
<1>1. CASE CreateRollbackWork(p)
  BY <1>0, <1>1 DEF CreateRollbackWork
<1>2. CASE CopyCurrentTarget(p)
  BY <1>0, <1>2 DEF CopyCurrentTarget
<1>3. CASE CopyCurrentOrder(p)
  BY <1>0, <1>3 DEF CopyCurrentOrder
<1>4. CASE PrepareFails(p)
  BY <1>0, <1>4 DEF PrepareFails
<1>5. CASE RollbackRemove(p)
  BY <1>0, <1>5 DEF RollbackRemove
<1>6. CASE RollbackRestore(p)
  BY <1>0, <1>6 DEF RollbackRestore
<1>7. CASE RollbackOrder(p)
  BY <1>0, <1>7 DEF RollbackOrder
<1>8. CASE RollbackVerify(p)
  BY <1>0, <1>8 DEF RollbackVerify
<1>9. CASE RollbackFails(p)
  BY <1>0, <1>9 DEF RollbackFails
<1>10. CASE RecoverRemove(p)
  BY <1>0, <1>10 DEF RecoverRemove
<1>11. CASE RecoverCopy(p)
  BY <1>0, <1>11 DEF RecoverCopy
<1>12. CASE RecoverOrder(p)
  BY <1>0, <1>12 DEF RecoverOrder
<1>13. CASE RecoverFails(p)
  BY <1>0, <1>13 DEF RecoverFails, GiveUp
<1> QED
  BY <1>1, <1>2, <1>3, <1>4, <1>5, <1>6, <1>7, <1>8, <1>9, <1>10, <1>11, <1>12, <1>13
     DEF Rollback

LEMMA BeginSame ==
  ASSUME TypeOK, NEW p \in Procs, NEW t \in Tx, BeginInstall(p, t) \/ BeginRollback(p, t)
  PROVE  Same(p)
<1>1. /\ pc[p] = "idle" /\ pc'[p] \in {"observe", "rb_mkdir"}
      /\ UNCHANGED <<tree, order, receipt, undone, broken>>
  BY DEF BeginInstall, BeginRollback, Goto, disk, TypeOK
<1> QED
  BY <1>1 DEF Same, Shown, ShownOrder, InstallUnderWay, RollbackUnderWay, InstallSteps,
              RestoreSteps, RollbackSteps, RecoverSteps

\* The receipt of an installation, seen by the contract.
LEMMA InstallImplements ==
  ASSUME TypeOK, TypeOK', Protocol, NEW p \in Procs, InstallKept(p), Others(p), Others(p)',
         WriteInstallReceipt(p), ~broken
  PROVE  Contract!Next
<1> DEFINE l == loc[p]
           t == loc[p].tx
           m == Target(p)
           r == [tree |-> l.tree, before |-> l.order,
                 after |-> EnsureExactlyOneOrderEntry(l.order, m)]
<1>0. /\ l \in Locals /\ t \in Tx /\ m = ModOf[t] /\ m \in Mods /\ tree \in [Mods -> Contents]
      /\ pc[p] = "receipt" /\ pc'[p] = "idle" /\ UNCHANGED <<tree, order, undone, broken>>
      /\ receipt' = [receipt EXCEPT ![t] = r]
  BY ConstantsOK DEF TypeOK, Locals, Target, WriteInstallReceipt, Return
<1>1. receipt[t] = Absent
  BY <1>0 DEF Protocol, TransactionOwned, Owns, InstallSteps
<1>2. r \in Receipts /\ r # Absent
  <2>1. l.tree \in Contents /\ l.order \in Orders
    BY <1>0 DEF Locals
  <2> QED
    BY <1>0, <2>1, OrdersClosed, AbsentIsNoRecord DEF Receipts
<1>3. /\ \A n \in Mods : PromisedFolder(n) = IF n = m THEN l.tree ELSE tree[n]
      /\ PromisedOrder = l.order
  BY <1>0, PromisedIsShown DEF Shown, ShownOrder, InstallUnderWay, RollbackUnderWay, InstallSteps,
                               RollbackSteps, RecoverSteps
<1>4. /\ \A n \in Mods : PromisedFolder(n)' = tree[n]
      /\ PromisedOrder' = order
  BY <1>0, PromisedIsShownNext DEF Shown, ShownOrder, InstallUnderWay, RollbackUnderWay,
                                   InstallSteps, RestoreSteps, RollbackSteps, RecoverSteps
<1>5. /\ tree[m] = Candidate[t] /\ HasOneEntry(order, m)
      /\ order = EnsureExactlyOneOrderEntry(l.order, m)
  BY <1>0 DEF InstallKept
<1>6. Found[t] = Absent
  BY <1>0, <1>1 DEF Found
<1>7. PromisedFolders[m] = l.tree
  BY <1>0, <1>3 DEF PromisedFolders
<1>8. Found' = [Found EXCEPT ![t] = [tree |-> l.tree, before |-> l.order]]
  <2>1. \A u \in Tx : u # t => receipt'[u] = receipt[u]
    BY <1>0 DEF TypeOK
  <2>2. receipt'[t] = r /\ r.tree = l.tree /\ r.before = l.order
    BY <1>0 DEF TypeOK
  <2> HIDE DEF r
  <2> QED
    BY <1>0, <1>2, <2>1, <2>2 DEF Found
<1>9. PromisedFolders' = [PromisedFolders EXCEPT ![m] = Candidate[t]]
  BY <1>0, <1>3, <1>4, <1>5 DEF PromisedFolders
<1>10. Contract!Install(t)
  BY <1>0, <1>3, <1>4, <1>5, <1>6, <1>7, <1>8, <1>9
     DEF Contract!Install
<1> QED
  BY <1>0, <1>10 DEF Contract!Next

\* The receipt of a rollback, seen by the contract.
LEMMA RollbackImplements ==
  ASSUME TypeOK, Protocol, ReceiptsDerived, NEW p \in Procs, RollbackKept(p), Others(p),
         Others(p)', WriteRollbackReceipt(p), ~broken
  PROVE  Contract!Next
<1> DEFINE l == loc[p]
           t == loc[p].tx
           m == Target(p)
<1>0. /\ l \in Locals /\ t \in Tx /\ m = ModOf[t] /\ m \in Mods /\ tree \in [Mods -> Contents]
      /\ pc[p] = "rb_receipt" /\ pc'[p] = "idle" /\ UNCHANGED <<tree, order, receipt, broken>>
      /\ undone' = undone \cup {t}
  BY ConstantsOK DEF TypeOK, Locals, Target, WriteRollbackReceipt, Return
<1>1. receipt[t] \in Receipts /\ receipt[t] # Absent
  BY <1>0 DEF TypeOK, Protocol, RollbackHasReceipt, RollbackSteps
<1>2. /\ t \notin undone /\ l.order = EnsureExactlyOneOrderEntry(receipt[t].before, m)
      /\ tree[m] = receipt[t].tree /\ order = receipt[t].before
  BY <1>0, <1>1 DEF RollbackKept, RollbackSteps, ReceiptsDerived
<1>3. /\ \A n \in Mods : PromisedFolder(n) = IF n = m THEN Candidate[t] ELSE tree[n]
      /\ PromisedOrder = l.order
  BY <1>0, PromisedIsShown DEF Shown, ShownOrder, InstallUnderWay, RollbackUnderWay, InstallSteps,
                               RestoreSteps, RollbackSteps
<1>4. /\ \A n \in Mods : PromisedFolder(n)' = tree[n]
      /\ PromisedOrder' = order
  BY <1>0, PromisedIsShownNext DEF Shown, ShownOrder, InstallUnderWay, RollbackUnderWay,
                                   InstallSteps, RestoreSteps, RollbackSteps, RecoverSteps
<1>5. Found[t] = [tree |-> receipt[t].tree, before |-> receipt[t].before]
  BY <1>0, <1>1 DEF Found
<1>6. Found[t] # Absent /\ Found[t].tree = receipt[t].tree /\ Found[t].before = receipt[t].before
  <2>1. receipt[t].tree \in Contents /\ receipt[t].before \in Orders
    BY <1>1 DEF Receipts
  <2> QED
    BY <1>5, <2>1, AbsentIsNotFound
<1>7. PromisedFolders[m] = Candidate[t]
  BY <1>0, <1>3 DEF PromisedFolders
<1>8. PromisedFolders' = [PromisedFolders EXCEPT ![m] = receipt[t].tree]
  BY <1>0, <1>2, <1>3, <1>4 DEF PromisedFolders
<1>9. Found' = Found
  BY <1>0 DEF Found
<1>10. Contract!Rollback(t)
  BY <1>0, <1>2, <1>3, <1>4, <1>6, <1>7, <1>8, <1>9
     DEF Contract!Rollback
<1> QED
  BY <1>0, <1>10 DEF Contract!Next

LEMMA ContractStep ==
  ASSUME TypeOK, TypeOK', Protocol, IsolatedInv, Isolated, [Next]_vars
  PROVE  Contract!Next \/ UNCHANGED Contract!contract
<1>1. ASSUME NEW p \in Procs, MoveOf(p)
      PROVE  Contract!Next \/ UNCHANGED Contract!contract
  <2>1. InstallKept(p) /\ RollbackKept(p) /\ ReceiptsDerived /\ Alone
    BY DEF IsolatedInv
  <2>2. Others(p) /\ Others(p)'
    BY <1>1, <2>1, OthersIdle DEF Others
  <2>3. CASE Same(p)
    <3>1. /\ \A m \in Mods : PromisedFolder(m)' = PromisedFolder(m)
          /\ PromisedOrder' = PromisedOrder
      BY <2>2, <2>3, PromisedIsShown, PromisedIsShownNext DEF Same
    <3> QED
      BY <2>3, <3>1 DEF Same, Contract!contract, PromisedFolders, Found
  <2>4. CASE broken'
    BY <2>4 DEF Contract!Next, Contract!Break
  <2>5. CASE broken
    BY <1>1, <2>1, <2>3, <2>4, <2>5, InstallSame, RestoreSame, RollbackSame, BeginSame
       DEF MoveOf, Same, Crash, WriteInstallReceipt, WriteRollbackReceipt
  <2>6. CASE ~broken
    BY <1>1, <2>1, <2>2, <2>3, <2>4, <2>6, InstallSame, RestoreSame, RollbackSame, BeginSame,
       InstallImplements, RollbackImplements DEF MoveOf, Crash
  <2> QED
    BY <2>5, <2>6
<1>2. ASSUME NEW t \in Tx, RegisterDeployment(t)
      PROVE  UNCHANGED Contract!contract
  BY <1>2 DEF RegisterDeployment, Contract!contract, PromisedFolders, PromisedFolder,
              PromisedOrder, Found, InstallUnderWay, RollbackUnderWay, Target
<1>3. CASE UNCHANGED vars
  BY <1>3 DEF vars, disk, Contract!contract, PromisedFolders, PromisedFolder, PromisedOrder,
              Found, InstallUnderWay, RollbackUnderWay, Target
<1> QED
  BY <1>1, <1>2, <1>3 DEF Next, MoveOf

\* When operations do not overlap, installation and rollback implement the
\* all-or-nothing contract, at whatever step either fails: the folders and the
\* load order change only as a whole, with a receipt, and a rollback brings
\* back what the installation found.
THEOREM DeploymentImplementsContract == ASSUME Isolated PROVE Spec => AllOrNothing
<1>1. Init => Contract!Init
  <2> SUFFICES ASSUME Init PROVE Contract!Init
    OBVIOUS
  <2>1. /\ \A p \in Procs : ~InstallUnderWay(p) /\ ~RollbackUnderWay(p)
        /\ tree \in [Mods -> Originals \cup {Absent}] /\ order \in StartOrders
        /\ receipt = [t \in Tx |-> Absent] /\ undone = {} /\ broken = FALSE
    BY UnderWayBusy DEF Init
  <2>2. PromisedFolders = tree /\ PromisedOrder = order
    BY <2>1 DEF PromisedFolders, PromisedFolder, PromisedOrder
  <2>3. Found = [t \in Tx |-> Absent]
    BY <2>1 DEF Found
  <2> QED
    BY <2>1, <2>2, <2>3 DEF Contract!Init
<1>2. IInv /\ IInv' /\ IsolatedInv /\ [Next]_vars => [Contract!Next]_(Contract!contract)
  BY ContractStep DEF IInv
<1>3. IInv /\ IsolatedInv /\ [Next]_vars => IsolatedInv'
  BY IsolatedStep DEF IInv
<1> QED
  BY <1>1, <1>2, <1>3, IsolatedInit, Inductive, PTL DEF Spec, AllOrNothing, Contract!Spec
=============================================================================
