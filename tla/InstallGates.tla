---------------------------- MODULE InstallGates ----------------------------
(***************************************************************************)
(* What an install of a candidate must be allowed by, and what a rollback  *)
(* believes (atomic_deployment.py).  An install is planned, approved and   *)
(* executed; each time, and once more within the approved mutation, the    *)
(* receipts of the build, the report on the package and the candidate's    *)
(* folder are looked at anew, while builders write receipts and other      *)
(* programs write in the folder.  A rollback reads the receipt that the    *)
(* install left, and compares it with itself and with the disk.            *)
(***************************************************************************)
EXTENDS Evidence

CONSTANTS
  BuildsMade,         \* records: artifact, spec, profile, changed (XML), gate, passed
  CandidateArtifact,  \* the package of the candidate that is registered
  MaxWrites,          \* bound on receipts and folders written by others
  MaxReceiptEdits     \* bound on edits of the receipt of an install, which count as writes too

Roles == {"build", "parent_diff", "package", "xml_tbl", "profile"}

NoBundle == [r \in Roles |-> {}]

\* Mutant: a receipt is read and not compared with the hash that was accepted.
HashesHoldAny(f) == \A r \in Roles : f.file[r] \in BuildsMade

\* Each receipt still has the hash by which the caller accepted it.
HashesHold(f) == \A r \in Roles : f.file[r] = f.refs[r]

\* What the receipts say of each other and of the report that the caller holds.
\* The receipt on XML is bound by the result of its gate alone, and the one on
\* the packaging by the name of the profile.
ReceiptsAgree(f) ==
  LET d == f.file IN
  /\ d["build"].passed /\ d["build"].artifact = f.report.artifact
  /\ d["parent_diff"].passed /\ d["parent_diff"].artifact = f.report.artifact
  /\ d["build"].spec = d["parent_diff"].spec
  /\ d["package"] = f.report
  /\ d["xml_tbl"].gate = f.report.gate
  /\ d["xml_tbl"].changed => d["xml_tbl"].gate = "CLEAR"
  /\ d["build"].profile = d["profile"].profile

\* _authorize_conflict_report: the report proves that there is no conflict.
ConflictsAbsent(f) == f.conflict = "confirmed_none"

\* _verify_candidate_source: the registered files and no others.
SourceVerified(f) == f.source = CandidateArtifact

\* _preflight_install, as far as it depends on the evidence
GatesPass(f) ==
  /\ f.report.passed /\ f.report.artifact = CandidateArtifact
  /\ HashesHold(f) /\ ReceiptsAgree(f) /\ ConflictsAbsent(f) /\ SourceVerified(f)

\* _install_candidate_approval_targets: the folder, and the receipts as they were read.
ApprovalTargets(f) == [source |-> f.source, bundle |-> f.file]

NothingApproved == [source |-> "none", bundle |-> NoBundle]

PlanInstall ==
  /\ facts.phase = "idle"
  /\ facts' = IF GatesPass(facts) THEN [facts EXCEPT !.phase = "planned", !.approved = ApprovalTargets(facts)]
              ELSE [facts EXCEPT !.phase = "refused"]

\* The approval is verified over the targets of this moment.
ExecuteInstall ==
  /\ facts.phase = "planned"
  /\ facts' = [facts EXCEPT !.phase = IF GatesPass(facts) /\ ApprovalTargets(facts) = facts.approved THEN "verified" ELSE "refused"]

\* The mutation looks at everything once more, then copies the folder.
MutateInstall ==
  /\ facts.phase = "verified"
  /\ facts' = IF GatesPass(facts) THEN [facts EXCEPT !.phase = "installed", !.installed = ApprovalTargets(facts)]
              ELSE [facts EXCEPT !.phase = "refused"]

\* A builder writes a receipt of another build.
WriteReceiptOfBuild ==
  /\ facts.writes < MaxWrites
  /\ \E r \in Roles, b \in BuildsMade : facts' = [facts EXCEPT !.writes = @ + 1, !.file[r] = b]

WriteSource ==
  /\ facts.writes < MaxWrites
  /\ \E a \in {b.artifact : b \in BuildsMade} \cup {"more_files"} : facts' = [facts EXCEPT !.writes = @ + 1, !.source = a]

(***************************************************************************)
(* The receipt of an install.  Where it tells of trees and orders, a field *)
(* holds which tree or order it is the hash, ledger or size of; any other  *)
(* field is "written" by the install or "foreign", put in by an edit.  The *)
(* folder of the mod held `prior`, or nothing, before the install.         *)
(***************************************************************************)
TreeFields == {"installed_tree", "original_tree", "order_before", "order_after"}
PriorFields == {"target_existed", "original_tree", "before_tree", "before_ledger", "before_ledger_sha256"}
\* Fields that are compared with where the receipt lies and with the caller's folders.
PlaceFields == {"transaction_id", "receipt_path", "mods_root", "backup_target_path", "backup_order_path"}
AttestedFields == {"attested_artifact", "attested_gate", "attested_spec", "attested_references", "attested_build_output"}
IdentityFields == {"id_candidate", "id_deployment", "id_tree", "id_artifact", "id_build_output"}
ReceiptFields ==
  TreeFields \cup PriorFields \cup PlaceFields \cup AttestedFields \cup IdentityFields
    \cup {"target_folder_name", "after_tree", "before_order", "after_order", "order_before_bytes", "order_after_bytes",
          "after_ledger", "after_ledger_sha256", "candidate", "deployment", "parent", "completed_at",
          "artifacts_manifest", "artifacts_localization", "artifacts_others", "manifest", "manifest_artifacts",
          "localization_artifacts", "semantic_artifact", "semantic_gate", "semantic_details", "conflict", "conflict_sha256"}

\* The older formats have no identities, and the oldest has no attestations.
FieldsOf(version) ==
  ReceiptFields \ ((IF version < 3 THEN IdentityFields ELSE {}) \cup (IF version = 1 THEN AttestedFields ELSE {}))

\* Fields that nothing else in a receipt of that format repeats, nor its place.
Unbound(version) ==
  {"target_folder_name", "order_before_bytes", "order_after_bytes", "parent", "completed_at", "artifacts_others", "semantic_details"}
    \cup (IF version < 3 THEN {"candidate", "deployment"} ELSE {})
    \cup (IF version = 1 THEN {"semantic_artifact", "semantic_gate"} ELSE {})

\* InstallReceipt.to_dict
WrittenByInstall(prior) ==
  [x \in ReceiptFields |->
     CASE x \in {"installed_tree", "after_tree", "id_tree"} -> "installed"
       [] x = "target_existed" -> IF prior = "none" THEN "none" ELSE "some"
       [] x \in PriorFields \ {"target_existed"} -> prior
       [] x \in {"order_after", "after_order", "order_after_bytes"} -> "after"
       [] x \in {"order_before", "before_order", "order_before_bytes"} -> "before"
       [] OTHER -> "written"]

\* build_attestation_bundle_sha256, as the values that it is the digest of
DigestOf(d) == [x \in AttestedFields |-> d[x]]

\* _validate_receipt_byte_state, and that a prior target is said to be there or not throughout
ByteStateHolds(d) ==
  /\ d["after_tree"] = d["installed_tree"] /\ d["before_tree"] = d["original_tree"]
  /\ d["before_order"] = d["order_before"] /\ d["after_order"] = d["order_after"]
  /\ d["after_ledger"] = d["after_ledger_sha256"] /\ d["before_ledger"] = d["before_ledger_sha256"]
  /\ d["target_existed"] = "none" <=> d["original_tree"] = "none"
  /\ d["target_existed"] = "none" => d["before_ledger"] = "none"

\* _validate_receipt_artifacts, and the ledgers drawn from it
ArtifactsHold(d) ==
  /\ d["artifacts_manifest"] = d["manifest"] /\ d["manifest_artifacts"] = d["artifacts_manifest"]
  /\ d["localization_artifacts"] = d["artifacts_localization"]

\* _validate_persisted_build_attestations, and the digest over all of them
AttestationsHold(d, digest) ==
  /\ d["attested_artifact"] = d["semantic_artifact"] /\ d["attested_gate"] = d["semantic_gate"]
  /\ digest = DigestOf(d)

IdentitiesHold(d) ==
  /\ d["id_candidate"] = d["candidate"] /\ d["id_deployment"] = d["deployment"] /\ d["id_tree"] = d["installed_tree"]
  /\ d["id_artifact"] = d["semantic_artifact"] /\ d["id_build_output"] = d["attested_build_output"]

\* _receipt_from_document
ReceiptBelieved(f) ==
  /\ ByteStateHolds(f.doc) /\ ArtifactsHold(f.doc) /\ f.doc["conflict"] = f.doc["conflict_sha256"]
  /\ f.version > 1 => AttestationsHold(f.doc, f.digest)
  /\ f.version = 3 => IdentitiesHold(f.doc)

PlacesHold(d) == \A x \in PlaceFields : d[x] = "written"

(***************************************************************************)
(* The disk: the folder that the install wrote, another folder under the   *)
(* mods root, the backup of the former, and the order in the backup and in *)
(* use.                                                                    *)
(***************************************************************************)
DiskPlaces == {"target", "other_folder", "backup", "backup_order", "order"}
TreePlaces == {"target", "other_folder", "backup"}
Trees == {"installed", "prior", "foreign", "none"}
Orders == {"after", "before", "foreign"}

\* The folder that the receipt names.
FolderNamed(d) == IF d["target_folder_name"] = "written" THEN "target" ELSE "other_folder"

\* What is there is what was installed; what would be put back is what was saved.
DiskAgrees(d, disk) ==
  /\ disk[FolderNamed(d)] = d["installed_tree"] /\ disk["order"] = d["order_after"]
  /\ disk["backup"] = d["original_tree"] /\ disk["backup_order"] = d["order_before"]

NoCopy == [tree |-> "none", order |-> "none"]

\* _rollback_install_impl.  The receipt is read once and compared; the order that
\* will be put back is read now.  A refused rollback leaves no trace.
CheckReceipt ==
  /\ facts.phase = "idle" /\ ReceiptBelieved(facts) /\ PlacesHold(facts.doc) /\ DiskAgrees(facts.doc, facts.disk)
  /\ facts' = [facts EXCEPT !.phase = "checked", !.saved = facts.disk["backup_order"]]

\* The present state is copied, and the copy compared with the receipt.
CopyCurrent ==
  /\ facts.phase = "checked"
  /\ LET c == [tree |-> facts.disk[FolderNamed(facts.doc)], order |-> facts.disk["order"]] IN
     facts' = IF c.tree = facts.doc["installed_tree"] /\ c.order = facts.doc["order_after"]
              THEN [facts EXCEPT !.phase = "copied", !.copy = c]
              ELSE [facts EXCEPT !.phase = "idle", !.saved = "none"]

\* The folder and the order are replaced and compared with all that the receipt
\* says of them; else the copy is put back.
RestorePrior ==
  /\ facts.phase = "copied"
  /\ LET d == facts.doc
         tree == IF d["target_existed"] = "none" THEN "none" ELSE facts.disk["backup"]
         restored == /\ tree = d["original_tree"] /\ tree = d["before_ledger"]
                     /\ facts.saved = d["order_before"] /\ facts.saved = d["order_before_bytes"] IN
     facts' = [facts EXCEPT !.phase = IF restored THEN "restored" ELSE "recovered",
                 !.disk[FolderNamed(d)] = IF restored THEN tree ELSE facts.copy.tree,
                 !.disk["order"] = IF restored THEN facts.saved ELSE facts.copy.order]

\* Fields that have to be edited together to be believed again.
EditedTogether ==
  {{x} : x \in ReceiptFields}
    \cup {{"installed_tree", "after_tree", "id_tree"}, {"target_folder_name", "installed_tree", "after_tree", "id_tree"}, {"order_after", "after_order"}, {"before_ledger", "before_ledger_sha256"},
          {"after_ledger", "after_ledger_sha256"}, {"order_before", "before_order", "order_before_bytes"}, PriorFields,
          {"candidate", "id_candidate"}, {"manifest", "artifacts_manifest", "manifest_artifacts"}, {"conflict", "conflict_sha256"}}

EditedReceipt(f, X, v) ==
  [x \in ReceiptFields |-> IF x \notin X \cap FieldsOf(f.version) THEN f.doc[x]
                          ELSE IF x = "target_existed" /\ v # "none" THEN "some" ELSE v]

\* A later edit is of no use: the receipt has been read.
EditInstallReceipt ==
  /\ facts.phase = "idle" /\ facts.edits < MaxReceiptEdits /\ facts.edits + facts.writes < MaxWrites
  /\ \E X \in EditedTogether, again \in BOOLEAN :
       \E v \in IF X \subseteq PriorFields THEN {"foreign", "none"} ELSE {"foreign"} :
         LET d == EditedReceipt(facts, X, v) IN
         facts' = [facts EXCEPT !.doc = d, !.edits = @ + 1, !.digest = IF again THEN DigestOf(d) ELSE @]

EditDigest ==
  /\ facts.phase = "idle" /\ facts.edits < MaxReceiptEdits /\ facts.edits + facts.writes < MaxWrites /\ facts.version > 1
  /\ facts' = [facts EXCEPT !.digest = [x \in AttestedFields |-> "none"], !.edits = @ + 1]

EditDisk ==
  /\ facts.phase \in {"idle", "checked", "copied"} /\ facts.edits + facts.writes < MaxWrites
  /\ \E x \in DiskPlaces : \E c \in IF x \in TreePlaces THEN Trees ELSE Orders :
       facts' = [facts EXCEPT !.disk[x] = c, !.writes = @ + 1]

-----------------------------------------------------------------------------
InstallGatesInit ==
  \/ \E report \in BuildsMade, build \in BuildsMade, xml \in BuildsMade, c \in {"confirmed_none", "partial"} :
       LET refs == [r \in Roles |-> CASE r = "package" -> report [] r = "xml_tbl" -> xml [] OTHER -> build] IN
       facts = [topic |-> "install", phase |-> "idle", report |-> report, refs |-> refs, file |-> refs, conflict |-> c,
                source |-> CandidateArtifact, approved |-> NothingApproved, installed |-> NothingApproved, writes |-> 0]
  \/ \E v \in 1 .. 3, prior \in {"prior", "none"}, other \in {"installed", "foreign"} :
       facts = [topic |-> "receipt", version |-> v, prior |-> prior, doc |-> WrittenByInstall(prior), digest |-> DigestOf(WrittenByInstall(prior)),
                disk |-> [x \in DiskPlaces |-> CASE x = "target" -> "installed" [] x = "other_folder" -> other
                                                [] x = "backup" -> prior [] x = "backup_order" -> "before" [] OTHER -> "after"],
                phase |-> "idle", saved |-> "none", copy |-> NoCopy, edits |-> 0, writes |-> 0]

InstallGatesNext ==
  \/ About("install") /\ (PlanInstall \/ ExecuteInstall \/ MutateInstall \/ WriteReceiptOfBuild \/ WriteSource)
  \/ About("receipt") /\ (CheckReceipt \/ CopyCurrent \/ RestorePrior \/ EditInstallReceipt \/ EditDigest \/ EditDisk)

-----------------------------------------------------------------------------
\* Whoever writes receipts or into the folder between the plan, the approval and
\* the mutation, an install is of the package that was approved, on the receipts
\* that were approved, and those that name a package name this one.
InstalledAsApproved ==
  About("install") =>
    (facts.phase = "installed" =>
       /\ facts.installed = facts.approved
       /\ \A r \in {"build", "parent_diff", "package"} :
            facts.installed.bundle[r].artifact = facts.installed.source /\ facts.installed.bundle[r].passed)

\* A receipt in which one field, or the digest over the attestations, was edited is
\* not believed, unless nothing else in a receipt of that format repeats the field.
OneEditRefused ==
  About("receipt") =>
    LET w == WrittenByInstall(facts.prior)
        edited == {x \in FieldsOf(facts.version) : facts.doc[x] # w[x]} IN
    ReceiptBelieved(facts) /\ PlacesHold(facts.doc) =>
      /\ facts.digest = DigestOf(w) => \A x \in FieldsOf(facts.version) \ Unbound(facts.version) : edited # {x}
      /\ facts.version > 1 /\ edited = {} => facts.digest = DigestOf(w)

\* A rollback that ends puts back the tree and the order that the install saved, and
\* holds a copy of those it left, whatever else is edited on the disk before or
\* during the rollback, if the receipt's own hashes of trees and orders are as
\* written; or whatever is edited in the receipt, but for the name of the folder, if
\* the disk is as the install left it.  The name is bound to the tree alone: a
\* rollback works on another folder when that holds the very tree that the receipt names.
RollbackAnchored ==
  About("receipt") =>
    LET hashesStand == \A x \in TreeFields : facts.doc[x] = WrittenByInstall(facts.prior)[x]
        diskStands == facts.writes = 0 /\ FolderNamed(facts.doc) = "target" IN
    (facts.phase = "restored" /\ (hashesStand \/ diskStands) =>
       /\ facts.copy = [tree |-> "installed", order |-> "after"]
       /\ facts.disk[FolderNamed(facts.doc)] = facts.prior /\ facts.disk["order"] = "before")
=============================================================================
