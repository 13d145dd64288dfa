-------------------------- MODULE NativeExperiment --------------------------
(***************************************************************************)
(* The stages of a native experiment                                       *)
(* (kcd2_native_probes/experiment_controller.py).  A controller is a value:*)
(* every accepted call returns a new one with one receipt more.  The       *)
(* caller installs the approved component and removes it again; the        *)
(* controller must not forget that it is there.                            *)
(***************************************************************************)
EXTENDS Integers, Sequences, FiniteSets

CONSTANTS
  ApprovalIds,   \* approvals, each with a binding of its own
  MaxDeclaredIds,  \* receipt ids that the identity declares (256 at most in the code)
  MaxReceipts,   \* receipts in a chain that the verifier reads (1000 in the code)
  NoApproval

ASSUME ExperimentConstants ==
  /\ NoApproval \notin [id : ApprovalIds, operation : {"deploy_native_component", "rollback"}]
  /\ MaxDeclaredIds \in Nat \ {0} /\ MaxReceipts \in Nat \ {0}
  /\ MaxDeclaredIds <= MaxReceipts

VARIABLES
  controller,  \* the controller value in the caller's hands
  loose,       \* failure receipts handed out for calls with a drifted identity
  deployed     \* whether the native component is in the game's folder

experimentVars == <<controller, loose, deployed>>

CurrentRoute ==
  <<"CREATED", "FINGERPRINT_VERIFIED", "STATIC_EVIDENCE_VERIFIED", "MANIFEST_SOURCE_VERIFIED",
    "DOUBLE_BUILD_VERIFIED", "DLL_DESCRIPTOR_VERIFIED", "INSTALL_APPROVED", "INSTALLED",
    "DEBUGGER_READY", "HANDOFF_READY", "CAPTURED", "IMPORTED", "INTERPRETED",
    "CLEANUP_APPROVED", "CLEANUP_VERIFIED">>

LegacyRoute ==
  <<"CREATED", "FINGERPRINT_VERIFIED", "STATIC_EVIDENCE_VERIFIED", "IMPORTED",
    "INTERPRETED", "CLEANUP_VERIFIED">>

Stages == {CurrentRoute[i] : i \in 1..Len(CurrentRoute)} \cup {"FAILED"}

ApprovalStages == {"INSTALL_APPROVED", "CLEANUP_APPROVED"}

OwesCleanup == {"INSTALLED", "DEBUGGER_READY", "HANDOFF_READY", "CAPTURED", "IMPORTED",
                "INTERPRETED", "CLEANUP_APPROVED"}

Bindings == [id : ApprovalIds, operation : {"deploy_native_component", "rollback"}]

\* The next receipt of controller c; its hash is told by its place in the
\* chain, its id and its stage.
NewReceipt(c, id, stage, approval) ==
  [id |-> id, sequence |-> Len(c.receipts), stage |-> stage, approval |-> approval,
   previous |-> IF c.receipts = <<>> THEN <<>>
                ELSE LET last == c.receipts[Len(c.receipts)] IN <<last.sequence, last.id, last.stage>>]

\* Mutant: a failed experiment has forgotten what it installed.
ExpectedStageTerminal(c) ==
  LET route == IF c.mode = "current" THEN CurrentRoute ELSE LegacyRoute
  IN  {route[i + 1] : i \in {k \in 1..(Len(route) - 1) : route[k] = c.stage}}

\* The stages that _expected_stage allows next: one, or none at the end.
ExpectedStage(c) ==
  IF c.stage = "FAILED" /\ c.cleanup THEN {"CLEANUP_APPROVED"}
  ELSE LET route == IF c.mode = "current" THEN CurrentRoute ELSE LegacyRoute
       IN  {route[i + 1] : i \in {k \in 1..(Len(route) - 1) : route[k] = c.stage}}

\* _validate_stage_gate: approvals come with the two approval stages only, and
\* the cleanup's is not the install's.
StageGate(c, stage, approval) ==
  CASE stage = "INSTALL_APPROVED" ->
         approval # NoApproval /\ approval.operation = "deploy_native_component"
    [] stage = "CLEANUP_APPROVED" ->
         /\ approval # NoApproval /\ approval.operation = "rollback"
         /\ c.install # NoApproval
         /\ approval.id # c.install.id
    [] OTHER -> approval = NoApproval

UsedIds(c) == {c.receipts[i].id : i \in 1..Len(c.receipts)}

Blank(mode) == [mode |-> mode, stage |-> "CREATED", receipts |-> <<>>,
                install |-> NoApproval, cleanup |-> FALSE]

ExperimentInit ==
  /\ \E mode \in {"current", "legacy_audit"} :
       controller = [Blank(mode) EXCEPT !.receipts = <<NewReceipt(Blank(mode), 1, "CREATED", NoApproval)>>]
  /\ loose = {}
  /\ deployed = FALSE

\* The declared ids that the chain has not consumed.
UnusedIds(c) == (1..MaxDeclaredIds) \ UsedIds(c)

\* The ids a caller may come with: every receipt id must be one that the identity
\* declares.  One that the chain has consumed stands for all of these, and the first
\* unused one, if there is one, for all of those.
GivenIds(c) == {1} \cup {id \in UnusedIds(c) : \A other \in UnusedIds(c) : id <= other}

\* A receipt id that the chain has not consumed yet.
FreshId(c, id) == id \in GivenIds(c) \cap UnusedIds(c)

\* advance with the right identity and evidence.
Advance(stage, approval, id) ==
  LET c == controller
  IN  /\ stage \in ExpectedStage(c)
      /\ FreshId(c, id)
      /\ StageGate(c, stage, approval)
      /\ controller' = [c EXCEPT
           !.stage = stage,
           !.receipts = Append(@, NewReceipt(c, id, stage, approval)),
           !.install = IF stage = "INSTALL_APPROVED" THEN approval ELSE @,
           !.cleanup = stage # "CLEANUP_VERIFIED" /\ (@ \/ stage \in OwesCleanup)]
      /\ UNCHANGED <<loose, deployed>>

\* fail: any id will do, a consumed one too.
Fail(id) ==
  LET c == controller
  IN  /\ c.stage \notin {"CLEANUP_VERIFIED", "FAILED"}
      /\ id \in GivenIds(c)
      /\ controller' = [c EXCEPT
           !.stage = "FAILED",
           !.receipts = Append(@, NewReceipt(c, id, "FAILED", NoApproval))]
      /\ UNCHANGED <<loose, deployed>>

\* complete_cleanup advances or fails.
CompleteCleanup(succeeded, id) ==
  /\ controller.stage = "CLEANUP_APPROVED"
  /\ IF succeeded THEN Advance("CLEANUP_VERIFIED", NoApproval, id) ELSE Fail(id)

\* A call with a drifted identity is given a failure receipt; the controller stays.
IdentityDrifts(id) ==
  /\ loose = {}
  /\ id \in GivenIds(controller)
  /\ loose' = {NewReceipt(controller, id, "FAILED", NoApproval)}
  /\ UNCHANGED <<controller, deployed>>

\* The caller copies the approved component; the INSTALLED receipt cites that.
DeployComponent ==
  /\ controller.stage = "INSTALL_APPROVED"
  /\ ~deployed
  /\ deployed' = TRUE
  /\ UNCHANGED <<controller, loose>>

\* The caller takes it away; the CLEANUP_VERIFIED receipt cites that.
RemoveComponent ==
  /\ controller.stage = "CLEANUP_APPROVED"
  /\ deployed
  /\ deployed' = FALSE
  /\ UNCHANGED <<controller, loose>>

\* What the evidence of a stage shows the caller.
Evidence(stage) ==
  /\ stage = "INSTALLED" => deployed
  /\ stage = "CLEANUP_VERIFIED" => ~deployed

ExperimentNext ==
  \/ \E stage \in Stages \ {"CLEANUP_VERIFIED"}, approval \in Bindings \cup {NoApproval},
        id \in GivenIds(controller) :
       Evidence(stage) /\ Advance(stage, approval, id)
  \/ \E id \in GivenIds(controller) : Fail(id)
  \/ controller.mode = "legacy_audit" /\ \E id \in GivenIds(controller) :
       Advance("CLEANUP_VERIFIED", NoApproval, id)
  \/ \E succeeded \in BOOLEAN, id \in GivenIds(controller) :
       (succeeded => Evidence("CLEANUP_VERIFIED")) /\ CompleteCleanup(succeeded, id)
  \/ \E id \in GivenIds(controller) : IdentityDrifts(id)
  \/ DeployComponent \/ RemoveComponent

ExperimentSpec == ExperimentInit /\ [][ExperimentNext]_experimentVars

-----------------------------------------------------------------------------
(***************************************************************************)
(* Correctness.                                                            *)
(***************************************************************************)

\* The receipt is one that verify_native_experiment_receipt accepts.
ReceiptVerifies(r) ==
  IF r.stage \in ApprovalStages
  THEN r.approval \in Bindings
       /\ r.approval.operation = IF r.stage = "INSTALL_APPROVED" THEN "deploy_native_component" ELSE "rollback"
  ELSE r.approval = NoApproval

\* verify_native_experiment_chain
ChainVerifies(chain) ==
  /\ Len(chain) \in 1..MaxReceipts
  /\ chain[1].stage = "CREATED"
  /\ \A i \in 1..Len(chain) :
       /\ ReceiptVerifies(chain[i])
       /\ chain[i].sequence = i - 1
       /\ chain[i].previous =
            IF i = 1 THEN <<>> ELSE <<chain[i - 1].sequence, chain[i - 1].id, chain[i - 1].stage>>
       /\ \A k \in 1..(i - 1) : chain[k].id # chain[i].id

\* No failure receipt was given an id that its chain had consumed already;
\* advance refuses such an id, fail does not.
FailedAfresh ==
  \A i, k \in 1..Len(controller.receipts) :
    k < i /\ controller.receipts[i].stage = "FAILED" => controller.receipts[k].id # controller.receipts[i].id

\* The controller's own verifier accepts every chain it produces, as long as
\* fail is not given a consumed id: neither advance nor fail counts the receipts, but
\* the declared ids run out before the chain outgrows the verifier.
\* (advance, fail, verify_native_experiment_chain)
OwnChainVerifies == FailedAfresh => ChainVerifies(controller.receipts)

Recorded(stage) == \E i \in 1..Len(controller.receipts) : controller.receipts[i].stage = stage

\* A current experiment that recorded an installation owes its cleanup and has a
\* stage that leads there, however often it or its cleanup fails (as far as its unused
\* ids go), and it ends verified only when the component is gone.
\* (_expected_stage, fail, complete_cleanup)
CleanupOwed ==
  /\ controller.mode = "current" /\ Recorded("INSTALLED") /\ controller.stage # "CLEANUP_VERIFIED" =>
       controller.cleanup /\ ExpectedStage(controller) # {}
  /\ controller.stage = "CLEANUP_VERIFIED" => ~deployed

\* What the chain of an experiment accounts for: it verifies, and the duty to clean
\* up survives every failure.  (NativeExperimentController)
ExperimentsAccounted ==
  /\ OwnChainVerifies
  /\ CleanupOwed
=============================================================================
