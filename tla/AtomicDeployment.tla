-------------------------- MODULE AtomicDeployment --------------------------
(***************************************************************************)
(* Candidate installation and receipt-driven rollback                      *)
(* (kcd2_mod_build_deploy/atomic_deployment.py), one action per effect on  *)
(* the file system.  Several helper processes may run the two operations   *)
(* over one mods folder; any step may raise, and a process may die between *)
(* any two steps.  A folder's content is one value (the code compares tree *)
(* digests); a folder that a removal or a copy left half way is Partial.   *)
(***************************************************************************)
EXTENDS Naturals, Sequences

CONSTANTS
  Procs,      \* helper processes
  Tx,         \* transaction ids, each with its own install request
  Mods,       \* mods, each with its own folder under mods_root
  Trees,      \* complete folder contents
  Originals,  \* folder contents found before any operation
  Orders,     \* load-order documents
  StartOrders,\* load-order documents found before any operation
  ModOf,      \* ModOf[t]: the mod that transaction t installs
  Candidate,  \* Candidate[t]: the folder content that t installs
  Absent,     \* no folder, no file, no receipt
  Partial,    \* a folder left half removed or half copied
  Isolated    \* TRUE: operations do not overlap (one operator at a time)

ASSUME ConstantsOK ==
  /\ ModOf \in [Tx -> Mods]
  /\ Candidate \in [Tx -> Trees]
  /\ Originals \subseteq Trees
  /\ Orders \subseteq Seq(Mods)
  /\ StartOrders \subseteq Orders
  /\ Absent # Partial
  /\ {Absent, Partial} \cap Trees = {}
  /\ Tx # {}
  /\ Orders # {}
  /\ Absent \notin Orders
  /\ Isolated \in BOOLEAN

-----------------------------------------------------------------------------
(***************************************************************************)
(* The load-order document mods/mod_order.txt.  A document is the sequence *)
(* of its entries; an entry is a mod id up to white space and case (the    *)
(* code compares strip().casefold()).  Byte-order mark and newline style   *)
(* are kept by the code and are not told apart here.                       *)
(***************************************************************************)

\* The positions at which mod m is listed.
EntriesOf(o, m) == {i \in 1..Len(o) : o[i] = m}

\* m is listed exactly once.
HasOneEntry(o, m) == \E i \in 1..Len(o) : EntriesOf(o, m) = {i}

\* The first position at which m is listed.
FirstEntry(o, m) == CHOOSE i \in EntriesOf(o, m) : \A j \in EntriesOf(o, m) : i <= j

\* Keep the first entry of m and drop the later ones; append m when it is
\* not listed.
EnsureExactlyOneOrderEntry(o, m) ==
  IF EntriesOf(o, m) = {}
  THEN Append(o, m)
  ELSE LET k == FirstEntry(o, m)
       IN  SubSeq(o, 1, k) \o SelectSeq(SubSeq(o, k + 1, Len(o)), LAMBDA e : e # m)

-----------------------------------------------------------------------------
\* The load-order documents are closed under the code's rewriting.
ASSUME OrdersClosed ==
  \A o \in Orders, m \in Mods : EnsureExactlyOneOrderEntry(o, m) \in Orders

\* What the code observes of a mod folder.
Contents == Trees \cup {Absent, Partial}

\* The bindings of an install receipt that a rollback checks.
Receipts == [tree : Contents, before : Orders, after : Orders]

\* A rollback-current folder: its copies of the target and the load order.
Works == [tree : Contents, order : Orders \cup {Absent}]

\* A file or folder that is there is told from one that is not.
ASSUME AbsentIsNoRecord == Absent \notin Receipts \cup Works

VARIABLES
  tree,      \* tree[m]: content of mods_root/<folder of m>
  order,     \* content of mods_root/mod_order.txt
  node,      \* node[t]: load order recorded by t's registered deployment node
  backup,    \* backup[t]: the transaction folder of t under backup_root
  receipt,   \* receipt[t]: install-receipt.json
  failure,   \* transactions with a failure-receipt.json
  work,      \* work[t]: rollback-current, the recovery copy of a rollback
  undone,    \* transactions with a rollback-receipt.json
  pc,        \* pc[p]: next step of process p
  loc,       \* loc[p]: local variables of the operation p runs
  broken,    \* history: an operation died, or gave up without restoring
  initial    \* history: the folders before any operation

disk == <<tree, order, node, backup, receipt, failure, work, undone>>
vars == <<disk, pc, loc, broken, initial>>

Target(p) == ModOf[loc[p].tx]

\* Steps inside the try block of _install_candidate_impl, and of its handler.
InstallSteps == {"backup_order", "backup_target", "stage", "displace", "swap",
                 "write_order", "verify", "receipt"}
RestoreSteps == {"restore_target", "restore_copy", "restore_order",
                 "restore_check", "failure_receipt"}

\* Steps of _rollback_install_impl: preparation, mutation, recovery.
PrepareSteps == {"rb_mkdir", "rb_copy_target", "rb_copy_order"}
RollbackSteps == {"rb_remove", "rb_restore", "rb_order", "rb_verify", "rb_receipt"}
RecoverSteps == {"rb_recover_remove", "rb_recover_copy", "rb_recover_order"}

Steps == {"idle", "observe", "mkdir"} \cup InstallSteps \cup RestoreSteps
           \cup PrepareSteps \cup RollbackSteps \cup RecoverSteps

\* No other operation is under way (asked for only when Isolated).
Quiet(p) == Isolated => \A q \in Procs \ {p} : pc[q] = "idle"

NewLocals(t) == [tx |-> t, order |-> order, tree |-> Absent, backup_verified |-> FALSE,
                 target_mutated |-> FALSE, order_mutated |-> FALSE]

\* Before an operation and after it, its local variables do not exist.
NoLocals == [tx |-> CHOOSE t \in Tx : TRUE, order |-> CHOOSE o \in Orders : TRUE,
             tree |-> Absent, backup_verified |-> FALSE,
             target_mutated |-> FALSE, order_mutated |-> FALSE]

Goto(p, step) == pc' = [pc EXCEPT ![p] = step]

\* The operation returns or raises to its caller.
Return(p) ==
  /\ pc' = [pc EXCEPT ![p] = "idle"]
  /\ loc' = [loc EXCEPT ![p] = NoLocals]

\* A folder operation that raises leaves the folder untouched or half done.
Spoiled(content) == {content} \cup IF content = Absent THEN {} ELSE {Partial}

Init ==
  /\ tree \in [Mods -> Originals \cup {Absent}]
  /\ order \in StartOrders
  /\ node = [t \in Tx |-> Absent]
  /\ backup = [t \in Tx |-> [made |-> FALSE, tree |-> Absent, order |-> Absent]]
  /\ receipt = [t \in Tx |-> Absent]
  /\ failure = {}
  /\ work = [t \in Tx |-> Absent]
  /\ undone = {}
  /\ pc = [p \in Procs |-> "idle"]
  /\ loc = [p \in Procs |-> NoLocals]
  /\ broken = FALSE
  /\ initial = tree

-----------------------------------------------------------------------------
(***************************************************************************)
(* Installation.                                                           *)
(***************************************************************************)

\* A deployment node for t is registered from a snapshot of the mods folder.
RegisterDeployment(t) ==
  /\ node[t] = Absent
  /\ node' = [node EXCEPT ![t] = order]
  /\ UNCHANGED <<tree, order, backup, receipt, failure, work, undone, pc, loc,
                 broken, initial>>

\* The load order is still the one the snapshot recorded, and the transaction
\* folder is free.  (The registry, package, conflict, attestation and path
\* gates of the preflight read nothing that an operation here changes.)
PreflightInstall(t) ==
  /\ node[t] = order
  /\ ~backup[t].made

\* The preflight passes and mod_order.txt is read.
BeginInstall(p, t) ==
  /\ pc[p] = "idle"
  /\ Quiet(p)
  /\ PreflightInstall(t)
  /\ loc' = [loc EXCEPT ![p] = NewLocals(t)]
  /\ Goto(p, "observe")
  /\ UNCHANGED <<disk, broken, initial>>

\* target_existed and the digest of the original folder.
ObserveTarget(p) ==
  /\ pc[p] = "observe"
  /\ loc' = [loc EXCEPT ![p].tree = tree[Target(p)]]
  /\ Goto(p, "mkdir")
  /\ UNCHANGED <<disk, broken, initial>>

\* Mutant: mkdir(exist_ok=True).
CreateTransactionShared(p) ==
  /\ pc[p] = "mkdir"
  /\ backup' = [backup EXCEPT ![loc[p].tx].made = TRUE]
  /\ Goto(p, "backup_order")
  /\ UNCHANGED <<tree, order, node, receipt, failure, work, undone, loc, broken, initial>>

\* transaction.mkdir() is exclusive: of two operations with one transaction
\* id, the second raises and leaves everything alone.
CreateTransaction(p) ==
  LET t == loc[p].tx
  IN  /\ pc[p] = "mkdir"
      /\ IF backup[t].made
         THEN /\ Return(p)
              /\ UNCHANGED backup
         ELSE /\ backup' = [backup EXCEPT ![t].made = TRUE]
              /\ Goto(p, "backup_order")
              /\ UNCHANGED loc
      /\ UNCHANGED <<tree, order, node, receipt, failure, work, undone, broken, initial>>

\* The backup folder, the accepted attestations and the load-order backup.
BackupOrder(p) ==
  /\ pc[p] = "backup_order"
  /\ backup' = [backup EXCEPT ![loc[p].tx].order = loc[p].order]
  /\ Goto(p, "backup_target")
  /\ UNCHANGED <<tree, order, node, receipt, failure, work, undone, loc, broken, initial>>

\* The original folder is copied, and the copy must have the digest observed
\* before; only then is the backup verified.
BackupTarget(p) ==
  LET t == loc[p].tx
  IN  /\ pc[p] = "backup_target"
      /\ \/ loc[p].tree = Absent
         \/ tree[Target(p)] = loc[p].tree
      /\ backup' = [backup EXCEPT ![t].tree = loc[p].tree]
      /\ loc' = [loc EXCEPT ![p].backup_verified = TRUE]
      /\ Goto(p, "stage")
      /\ UNCHANGED <<tree, order, node, receipt, failure, work, undone, broken, initial>>

\* The copy raises, or its digest is not the original's.
BackupTargetFails(p) ==
  LET t == loc[p].tx
  IN  /\ pc[p] = "backup_target"
      /\ \E left \in {Absent} \cup IF loc[p].tree = Absent THEN {}
                                ELSE {Partial, tree[Target(p)]} :
           backup' = [backup EXCEPT ![t].tree = left]
      /\ Goto(p, "restore_target")
      /\ UNCHANGED <<tree, order, node, receipt, failure, work, undone, loc, broken, initial>>

\* The candidate is copied into the transaction folder and verified there.
StageIncoming(p) ==
  /\ pc[p] = "stage"
  /\ Goto(p, "displace")
  /\ UNCHANGED <<disk, loc, broken, initial>>

\* The active folder is removed, whatever it holds by now.
DisplaceTarget(p) ==
  /\ pc[p] = "displace"
  /\ tree' = [tree EXCEPT ![Target(p)] = Absent]
  /\ loc' = [loc EXCEPT ![p].target_mutated = TRUE]
  /\ Goto(p, "swap")
  /\ UNCHANGED <<order, node, backup, receipt, failure, work, undone, broken, initial>>

\* The removal raises before or inside rmtree.
DisplaceFails(p) ==
  /\ pc[p] = "displace"
  /\ \E left \in Spoiled(tree[Target(p)]) :
       tree' = [tree EXCEPT ![Target(p)] = left]
  /\ loc' = [loc EXCEPT ![p].target_mutated = TRUE]
  /\ Goto(p, "restore_target")
  /\ UNCHANGED <<order, node, backup, receipt, failure, work, undone, broken, initial>>

\* os.replace moves the staged folder in; it refuses an existing folder.
SwapTarget(p) ==
  /\ pc[p] = "swap"
  /\ tree[Target(p)] = Absent
  /\ tree' = [tree EXCEPT ![Target(p)] = Candidate[loc[p].tx]]
  /\ Goto(p, "write_order")
  /\ UNCHANGED <<order, node, backup, receipt, failure, work, undone, loc, broken, initial>>

\* mod_order.txt is replaced by the document derived from the bytes read at
\* the start.
WriteOrder(p) ==
  /\ pc[p] = "write_order"
  /\ order' = EnsureExactlyOneOrderEntry(loc[p].order, Target(p))
  /\ loc' = [loc EXCEPT ![p].order_mutated = TRUE]
  /\ Goto(p, "verify")
  /\ UNCHANGED <<tree, node, backup, receipt, failure, work, undone, broken, initial>>

\* The write raises before the replacement.
WriteOrderFails(p) ==
  /\ pc[p] = "write_order"
  /\ loc' = [loc EXCEPT ![p].order_mutated = TRUE]
  /\ Goto(p, "restore_target")
  /\ UNCHANGED <<disk, broken, initial>>

\* The live folder and the live load order are read back.
VerifyInstalled(p) ==
  /\ pc[p] = "verify"
  /\ tree[Target(p)] = Candidate[loc[p].tx]
  /\ HasOneEntry(order, Target(p))
  /\ Goto(p, "receipt")
  /\ UNCHANGED <<disk, loc, broken, initial>>

\* Mutant: the receipt takes its before-image from the live load order.
WriteInstallReceiptLate(p) ==
  LET t == loc[p].tx
  IN  /\ pc[p] = "receipt"
      /\ receipt' = [receipt EXCEPT ![t] =
           [tree |-> loc[p].tree, before |-> order,
            after |-> EnsureExactlyOneOrderEntry(loc[p].order, Target(p))]]
      /\ Return(p)
      /\ UNCHANGED <<tree, order, node, backup, failure, work, undone, broken, initial>>

WriteInstallReceipt(p) ==
  LET t == loc[p].tx
  IN  /\ pc[p] = "receipt"
      /\ receipt' = [receipt EXCEPT ![t] =
           [tree |-> loc[p].tree, before |-> loc[p].order,
            after |-> EnsureExactlyOneOrderEntry(loc[p].order, Target(p))]]
      /\ Return(p)
      /\ UNCHANGED <<tree, order, node, backup, failure, work, undone, broken, initial>>

\* Mutant: the handler does not cover the step.
InstallStepFailsUnhandled(p) ==
  /\ pc[p] \in InstallSteps \ {"backup_target"}
  /\ Return(p)
  /\ UNCHANGED <<disk, broken, initial>>

\* A step of the try block raises before it changes anything: an I/O error, a
\* failed verification, an injected failure at an InstallBoundary.
InstallStepFails(p) ==
  /\ pc[p] \in InstallSteps \ {"backup_target"}
  /\ Goto(p, "restore_target")
  /\ UNCHANGED <<disk, loc, broken, initial>>

-----------------------------------------------------------------------------
(***************************************************************************)
(* The handler of a failed installation (_restore_install_original).       *)
(***************************************************************************)

\* "exact automatic restoration also failed": the handler itself raises.
GiveUp(p) ==
  /\ Return(p)
  /\ broken' = TRUE

\* A mutated folder is removed; an unmutated one must still be the original.
RestoreTarget(p) ==
  LET m == Target(p)
  IN  /\ pc[p] = "restore_target"
      /\ \/ /\ loc[p].target_mutated
            /\ loc[p].backup_verified
            /\ tree' = [tree EXCEPT ![m] = Absent]
            /\ Goto(p, "restore_copy")
            /\ UNCHANGED <<loc, broken>>
         \/ /\ ~loc[p].target_mutated
            /\ tree[m] = loc[p].tree
            /\ Goto(p, "restore_order")
            /\ UNCHANGED <<tree, loc, broken>>
         \/ /\ ~loc[p].target_mutated
            /\ tree[m] # loc[p].tree
            /\ GiveUp(p)
            /\ UNCHANGED tree
      /\ UNCHANGED <<order, node, backup, receipt, failure, work, undone, initial>>

\* The backup is copied back; the copy refuses a folder that is already there.
RestoreCopy(p) ==
  LET m == Target(p)
  IN  /\ pc[p] = "restore_copy"
      /\ \/ /\ loc[p].tree = Absent
            /\ UNCHANGED tree
         \/ /\ loc[p].tree # Absent
            /\ tree[m] = Absent
            /\ backup[loc[p].tx].tree = loc[p].tree
            /\ tree' = [tree EXCEPT ![m] = backup[loc[p].tx].tree]
      /\ Goto(p, "restore_order")
      /\ UNCHANGED <<order, node, backup, receipt, failure, work, undone, loc, broken, initial>>

\* Mutant: the handler always restores from the backup file.
RestoreOrderFromBackup(p) ==
  /\ pc[p] = "restore_order"
  /\ order' = backup[loc[p].tx].order
  /\ Goto(p, "restore_check")
  /\ UNCHANGED <<tree, node, backup, receipt, failure, work, undone, loc, broken, initial>>

\* The bytes read at the start go back, if mod_order.txt was written.
RestoreOrder(p) ==
  /\ pc[p] = "restore_order"
  /\ order' = IF loc[p].order_mutated THEN loc[p].order ELSE order
  /\ Goto(p, "restore_check")
  /\ UNCHANGED <<tree, node, backup, receipt, failure, work, undone, loc, broken, initial>>

RestoreCheck(p) ==
  /\ pc[p] = "restore_check"
  /\ IF order = loc[p].order
     THEN Goto(p, "failure_receipt") /\ UNCHANGED <<loc, broken>>
     ELSE GiveUp(p)
  /\ UNCHANGED <<disk, initial>>

WriteFailureReceipt(p) ==
  /\ pc[p] = "failure_receipt"
  /\ failure' = failure \cup {loc[p].tx}
  /\ Return(p)
  /\ UNCHANGED <<tree, order, node, backup, receipt, work, undone, broken, initial>>

\* A step of the handler raises, a removal or a copy possibly half way.
RestoreFails(p) ==
  LET m == Target(p)
  IN  /\ pc[p] \in RestoreSteps
      /\ \E left \in {tree[m]} \cup
              (IF pc[p] = "restore_target" /\ loc[p].target_mutated THEN Spoiled(tree[m])
               ELSE IF pc[p] = "restore_copy" /\ loc[p].tree # Absent /\ tree[m] = Absent
               THEN {Partial} ELSE {}) :
           tree' = [tree EXCEPT ![m] = left]
      /\ GiveUp(p)
      /\ UNCHANGED <<order, node, backup, receipt, failure, work, undone, initial>>

-----------------------------------------------------------------------------
(***************************************************************************)
(* Rollback.                                                               *)
(***************************************************************************)

\* The live folder and load order are those the receipt recorded, the backups
\* are those it bound, and no rollback was started from it.
RollbackAllowed(t) ==
  /\ receipt[t] # Absent
  /\ tree[ModOf[t]] = Candidate[t]
  /\ order = receipt[t].after
  /\ backup[t].order = receipt[t].before
  /\ backup[t].tree = receipt[t].tree
  /\ work[t] = Absent
  /\ t \notin undone

BeginRollback(p, t) ==
  /\ pc[p] = "idle"
  /\ Quiet(p)
  /\ RollbackAllowed(t)
  /\ loc' = [loc EXCEPT ![p] = NewLocals(t)]
  /\ Goto(p, "rb_mkdir")
  /\ UNCHANGED <<disk, broken, initial>>

\* Mutant: the folder is created but nothing is copied into it.
CreateRollbackWorkOnly(p) ==
  LET t == loc[p].tx
  IN  /\ pc[p] = "rb_mkdir"
      /\ work[t] = Absent
      /\ work' = [work EXCEPT ![t] = [tree |-> Absent, order |-> Absent]]
      /\ Goto(p, "rb_remove")
      /\ UNCHANGED <<tree, order, node, backup, receipt, failure, undone, loc, broken, initial>>

\* rollback_work.mkdir(): a second rollback of one receipt finds the folder of
\* the first, raises, and its handler removes that folder.
CreateRollbackWork(p) ==
  LET t == loc[p].tx
  IN  /\ pc[p] = "rb_mkdir"
      /\ IF work[t] = Absent
         THEN /\ work' = [work EXCEPT ![t] = [tree |-> Absent, order |-> Absent]]
              /\ Goto(p, "rb_copy_target")
              /\ UNCHANGED loc
         ELSE /\ work' = [work EXCEPT ![t] = Absent]
              /\ Return(p)
      /\ UNCHANGED <<tree, order, node, backup, receipt, failure, undone, broken, initial>>

\* copytree makes the missing parents of its destination, and refuses an
\* existing destination.
CopyCurrentTarget(p) ==
  LET t == loc[p].tx
      m == Target(p)
  IN  /\ pc[p] = "rb_copy_target"
      /\ tree[m] # Absent
      /\ \/ /\ work[t] = Absent
            /\ work' = [work EXCEPT ![t] = [tree |-> tree[m], order |-> Absent]]
         \/ /\ work[t] # Absent
            /\ work[t].tree = Absent
            /\ work' = [work EXCEPT ![t].tree = tree[m]]
      /\ Goto(p, "rb_copy_order")
      /\ UNCHANGED <<tree, order, node, backup, receipt, failure, undone, loc, broken, initial>>

\* The order bytes are written and both copies compared with the receipt.
CopyCurrentOrder(p) ==
  LET t == loc[p].tx
  IN  /\ pc[p] = "rb_copy_order"
      /\ work[t] # Absent
      /\ work[t].order = Absent
      /\ work[t].tree = Candidate[t]
      /\ loc[p].order = receipt[t].after
      /\ work' = [work EXCEPT ![t].order = loc[p].order]
      /\ Goto(p, "rb_remove")
      /\ UNCHANGED <<tree, order, node, backup, receipt, failure, undone, loc, broken, initial>>

\* Preparing the recovery copy raises; the handler removes the folder, or
\* raises itself and leaves it.
PrepareFails(p) ==
  LET t == loc[p].tx
  IN  /\ pc[p] \in PrepareSteps
      /\ work' \in {work, [work EXCEPT ![t] = Absent]}
      /\ Return(p)
      /\ UNCHANGED <<tree, order, node, backup, receipt, failure, undone, broken, initial>>

RollbackRemove(p) ==
  LET m == Target(p)
  IN  /\ pc[p] = "rb_remove"
      /\ tree[m] # Absent
      /\ tree' = [tree EXCEPT ![m] = Absent]
      /\ Goto(p, "rb_restore")
      /\ UNCHANGED <<order, node, backup, receipt, failure, work, undone, loc, broken, initial>>

\* The backup of a folder that existed is copied to the target.
RollbackRestore(p) ==
  LET t == loc[p].tx
      m == Target(p)
  IN  /\ pc[p] = "rb_restore"
      /\ \/ /\ receipt[t].tree = Absent
            /\ UNCHANGED tree
         \/ /\ receipt[t].tree # Absent
            /\ tree[m] = Absent
            /\ tree' = [tree EXCEPT ![m] = backup[t].tree]
      /\ Goto(p, "rb_order")
      /\ UNCHANGED <<order, node, backup, receipt, failure, work, undone, loc, broken, initial>>

\* original_order: the bytes of the backup, which carry the digest that the
\* receipt names.
RollbackOrder(p) ==
  /\ pc[p] = "rb_order"
  /\ order' = receipt[loc[p].tx].before
  /\ Goto(p, "rb_verify")
  /\ UNCHANGED <<tree, node, backup, receipt, failure, work, undone, loc, broken, initial>>

\* The restored bytes are read back.  Of a folder that did not exist, the
\* code checks nothing.
RollbackVerify(p) ==
  LET t == loc[p].tx
  IN  /\ pc[p] = "rb_verify"
      /\ \/ receipt[t].tree = Absent
         \/ tree[Target(p)] = receipt[t].tree
      /\ order = receipt[t].before
      /\ Goto(p, "rb_receipt")
      /\ UNCHANGED <<disk, loc, broken, initial>>

WriteRollbackReceipt(p) ==
  /\ pc[p] = "rb_receipt"
  /\ undone' = undone \cup {loc[p].tx}
  /\ Return(p)
  /\ UNCHANGED <<tree, order, node, backup, receipt, failure, work, broken, initial>>

\* A step of the rollback raises, a removal or a copy possibly half way.
RollbackFails(p) ==
  LET t == loc[p].tx
      m == Target(p)
  IN  /\ pc[p] \in RollbackSteps
      /\ \E left \in {tree[m]} \cup
              (IF pc[p] = "rb_remove" THEN Spoiled(tree[m])
               ELSE IF pc[p] = "rb_restore" /\ receipt[t].tree # Absent /\ tree[m] = Absent
               THEN {Partial} ELSE {}) :
           tree' = [tree EXCEPT ![m] = left]
      /\ Goto(p, "rb_recover_remove")
      /\ UNCHANGED <<order, node, backup, receipt, failure, work, undone, loc, broken, initial>>

RecoverRemove(p) ==
  /\ pc[p] = "rb_recover_remove"
  /\ tree' = [tree EXCEPT ![Target(p)] = Absent]
  /\ Goto(p, "rb_recover_copy")
  /\ UNCHANGED <<order, node, backup, receipt, failure, work, undone, loc, broken, initial>>

\* The recovery copy goes back to the target.
RecoverCopy(p) ==
  LET t == loc[p].tx
      m == Target(p)
  IN  /\ pc[p] = "rb_recover_copy"
      /\ tree[m] = Absent
      /\ work[t] # Absent
      /\ work[t].tree # Absent
      /\ tree' = [tree EXCEPT ![m] = work[t].tree]
      /\ Goto(p, "rb_recover_order")
      /\ UNCHANGED <<order, node, backup, receipt, failure, work, undone, loc, broken, initial>>

RecoverOrder(p) ==
  /\ pc[p] = "rb_recover_order"
  /\ order' = loc[p].order
  /\ Return(p)
  /\ UNCHANGED <<tree, node, backup, receipt, failure, work, undone, broken, initial>>

\* "the installed state could not be restored"
RecoverFails(p) ==
  LET m == Target(p)
  IN  /\ pc[p] \in RecoverSteps
      /\ \E left \in {tree[m]} \cup
              (IF pc[p] = "rb_recover_remove" THEN Spoiled(tree[m])
               ELSE IF pc[p] = "rb_recover_copy" /\ tree[m] = Absent THEN {Partial} ELSE {}) :
           tree' = [tree EXCEPT ![m] = left]
      /\ GiveUp(p)
      /\ UNCHANGED <<order, node, backup, receipt, failure, work, undone, initial>>

-----------------------------------------------------------------------------
\* The process dies between two steps: nothing runs for it any more, and what
\* it left on disk stays.
Crash(p) ==
  /\ pc[p] # "idle"
  /\ Return(p)
  /\ broken' = TRUE
  /\ UNCHANGED <<disk, initial>>

Install(p) ==
  \/ ObserveTarget(p) \/ CreateTransaction(p) \/ BackupOrder(p) \/ BackupTarget(p)
  \/ BackupTargetFails(p) \/ StageIncoming(p) \/ DisplaceTarget(p) \/ DisplaceFails(p)
  \/ SwapTarget(p) \/ WriteOrder(p) \/ WriteOrderFails(p) \/ VerifyInstalled(p)
  \/ WriteInstallReceipt(p) \/ InstallStepFails(p)

Restore(p) ==
  \/ RestoreTarget(p) \/ RestoreCopy(p) \/ RestoreOrder(p) \/ RestoreCheck(p)
  \/ WriteFailureReceipt(p) \/ RestoreFails(p)

Rollback(p) ==
  \/ CreateRollbackWork(p) \/ CopyCurrentTarget(p) \/ CopyCurrentOrder(p) \/ PrepareFails(p)
  \/ RollbackRemove(p) \/ RollbackRestore(p) \/ RollbackOrder(p) \/ RollbackVerify(p)
  \/ WriteRollbackReceipt(p) \/ RollbackFails(p) \/ RecoverRemove(p) \/ RecoverCopy(p)
  \/ RecoverOrder(p) \/ RecoverFails(p)

Next ==
  \/ \E t \in Tx : RegisterDeployment(t)
  \/ \E p \in Procs, t \in Tx : BeginInstall(p, t) \/ BeginRollback(p, t)
  \/ \E p \in Procs : Install(p) \/ Restore(p) \/ Rollback(p) \/ Crash(p)

Spec == Init /\ [][Next]_vars

-----------------------------------------------------------------------------
(***************************************************************************)
(* Correctness.                                                            *)
(***************************************************************************)

Locals == [tx : Tx, order : Orders, tree : Contents, backup_verified : BOOLEAN,
           target_mutated : BOOLEAN, order_mutated : BOOLEAN]

Backups == [made : BOOLEAN, tree : Contents, order : Orders \cup {Absent}]

\* Type invariant.
TypeOK ==
  /\ tree \in [Mods -> Contents]
  /\ order \in Orders
  /\ node \in [Tx -> Orders \cup {Absent}]
  /\ backup \in [Tx -> Backups]
  /\ receipt \in [Tx -> Receipts \cup {Absent}]
  /\ failure \subseteq Tx
  /\ work \in [Tx -> Works \cup {Absent}]
  /\ undone \subseteq Tx
  /\ pc \in [Procs -> Steps]
  /\ loc \in [Procs -> Locals]
  /\ broken \in BOOLEAN
  /\ initial \in [Mods -> Originals \cup {Absent}]

\* A mod folder that was there before any operation is never lost: whatever
\* overlaps, fails or dies, its content is in place or in the verified backup
\* of a transaction on that mod.  (Backup before displacement, one exclusive
\* transaction folder per id, backups never rewritten.)
OriginalNeverLost ==
  \A m \in Mods :
    initial[m] # Absent =>
      \/ tree[m] = initial[m]
      \/ \E t \in Tx : ModOf[t] = m /\ backup[t].tree = initial[m]

\* An install receipt can be honoured: the backups it binds are the bytes the
\* transaction folder holds, and the transaction has no failure receipt.
\* (_install_candidate_impl; what _rollback_install_impl checks first.)
ReceiptsHonoured ==
  \A t \in Tx :
    receipt[t] # Absent =>
      /\ backup[t].tree = receipt[t].tree
      /\ backup[t].order = receipt[t].before
      /\ t \notin failure

-----------------------------------------------------------------------------
(***************************************************************************)
(* The inductive invariant behind OriginalNeverLost and ReceiptsHonoured.  *)
(***************************************************************************)

\* Process p works in the transaction folder it created.
Owns(p) == pc[p] \in InstallSteps \cup RestoreSteps

AfterBackup == {"stage", "displace", "swap", "write_order", "verify", "receipt"}

\* mkdir gives each transaction folder one owner, and only the owner writes a
\* verdict into it.
TransactionOwned ==
  \A p \in Procs :
    Owns(p) =>
      /\ backup[loc[p].tx].made
      /\ receipt[loc[p].tx] = Absent
      /\ loc[p].tx \notin failure
      /\ \A q \in Procs : Owns(q) /\ loc[q].tx = loc[p].tx => q = p

\* Nothing is recorded of a transaction without a folder.
UnmadeIsEmpty ==
  \A t \in Tx :
    ~backup[t].made => backup[t].tree = Absent /\ receipt[t] = Absent /\ t \notin failure

\* How far the backup has got at each step of its owner.
BackupProgress ==
  \A p \in Procs :
    LET b == backup[loc[p].tx]
    IN  /\ pc[p] \in {"backup_order", "backup_target"} => b.tree = Absent
        /\ pc[p] \in InstallSteps \ {"backup_order"} => b.order = loc[p].order
        /\ pc[p] \in AfterBackup => b.tree = loc[p].tree
        /\ pc[p] \in RestoreSteps /\ loc[p].target_mutated => b.tree = loc[p].tree
        /\ pc[p] = "restore_copy" => loc[p].target_mutated
        /\ pc[p] \in {"observe", "mkdir", "backup_order", "backup_target", "stage", "displace"}
             => ~loc[p].target_mutated

\* A rollback runs from a receipt.
RollbackHasReceipt ==
  \A p \in Procs :
    pc[p] \in PrepareSteps \cup RollbackSteps \cup RecoverSteps => receipt[loc[p].tx] # Absent

Protocol ==
  TransactionOwned /\ UnmadeIsEmpty /\ BackupProgress /\ RollbackHasReceipt /\ ReceiptsHonoured

Saved(m) == \E t \in Tx : ModOf[t] = m /\ backup[t].tree = initial[m]

\* As long as no backup holds the original of m, the original is in place,
\* every operation on m has observed just that, and none has finished.
Untouched(m) ==
  /\ tree[m] = initial[m]
  /\ \A p \in Procs :
       Target(p) = m /\ pc[p] \in {"mkdir"} \cup InstallSteps \cup RestoreSteps
         => loc[p].tree = initial[m]
  /\ \A t \in Tx : ModOf[t] = m => receipt[t] = Absent

OriginalSafe == \A m \in Mods : initial[m] = Absent \/ Saved(m) \/ Untouched(m)

IInv == TypeOK /\ Protocol /\ OriginalSafe

-----------------------------------------------------------------------------
\* While a rollback has the installed folder removed, or removed in part, the
\* recovery copy from which its handler restores it exists and is complete.
RecoveryCopyKept ==
  \A p \in Procs :
    pc[p] \in RollbackSteps \cup RecoverSteps /\ tree[Target(p)] # Candidate[loc[p].tx] =>
      /\ work[loc[p].tx] # Absent
      /\ work[loc[p].tx].tree = Candidate[loc[p].tx]

-----------------------------------------------------------------------------
(***************************************************************************)
(* Operations that do not overlap implement DeploymentContract.  While an  *)
(* operation is under way the contract still shows the state it started    *)
(* from; it moves when the receipt is written.                             *)
(***************************************************************************)

\* Operations that have started changing things, or may.
InstallUnderWay(p) == pc[p] \in {"mkdir"} \cup InstallSteps \cup RestoreSteps
RollbackUnderWay(p) == pc[p] \in RollbackSteps \cup RecoverSteps

\* The folder of m as it was when the operation on it began.
PromisedFolder(m) ==
  IF \E p \in Procs : Target(p) = m /\ InstallUnderWay(p)
  THEN loc[CHOOSE p \in Procs : Target(p) = m /\ InstallUnderWay(p)].tree
  ELSE IF \E p \in Procs : Target(p) = m /\ RollbackUnderWay(p)
  THEN Candidate[loc[CHOOSE p \in Procs : Target(p) = m /\ RollbackUnderWay(p)].tx]
  ELSE tree[m]

\* The load order as it was when the operation under way began.
PromisedOrder ==
  IF \E p \in Procs : InstallUnderWay(p) \/ RollbackUnderWay(p)
  THEN loc[CHOOSE p \in Procs : InstallUnderWay(p) \/ RollbackUnderWay(p)].order
  ELSE order

PromisedFolders == [m \in Mods |-> PromisedFolder(m)]

\* What the receipts say the installations found.
Found ==
  [t \in Tx |-> IF receipt[t] = Absent THEN Absent
                ELSE [tree |-> receipt[t].tree, before |-> receipt[t].before]]

ASSUME AbsentIsNotFound == Absent \notin [tree : Contents, before : Orders]

Contract == INSTANCE DeploymentContract WITH
  folders <- PromisedFolders,
  listed <- PromisedOrder,
  ledger <- Found,
  reverted <- undone,
  Listing <- EnsureExactlyOneOrderEntry,
  ListsOnce <- HasOneEntry

\* Every behaviour of the code, seen through its receipts, is one the contract
\* allows: installations and rollbacks happen whole or not at all.
AllOrNothing == Contract!Spec
=============================================================================
