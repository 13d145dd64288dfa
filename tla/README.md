# A verification project for the KCD2 Codex toolkit

The toolkit (`src/`) gives a coding agent three plugins for Kingdom Come:
Deliverance II modding: read-only index research, candidate build and
deployment, and native-probe evidence. They share a core package. This
directory models the parts that keep state, checks them with TLC on small
instances, and proves the properties that matter most with TLAPS for every
value of the constants.

## 1. The system

All code is Python under `src/runtime/src/`; each plugin starts it as a helper
process. The repository's README says that the host "may otherwise start a
separate Python helper for every active task" (`README.md:40`), so two helpers
may work on one game folder at once. Nothing in the code locks the mods folder,
the catalogs or the transaction directories; inside a process a few
`threading.Lock`s guard in-memory state.

| component | source | state | operations |
|---|---|---|---|
| candidate deployment | `kcd2_mod_build_deploy/atomic_deployment.py` | mod folders, `mod_order.txt`, one transaction folder per install (backups, receipts, recovery copy) | gates, install, restore after failure, rollback, recovery after a failed rollback |
| approvals | `kcd2_toolchain_core/approvals.py` | consumed nonces in memory, optional claim files | plan targets, verify, probe processes, consume once, run the mutation |
| transaction attempts | `kcd2_mod_build_deploy/transaction_attempts.py` | numbered attempt folders, hash-linked phase receipts, temporary files | open or resume, record a phase, fail |
| plugin deployment (two copies) | `*/plugin_deployment.py` | active plugin folder, shared catalog, backups, receipts | stage, install, restore, verify |
| index client | `kcd2_index_adapter/client.py` | child process, bounded response queue, reader threads, request ids | start, request, close |
| exact index refresh | `kcd2_index_adapter/exact_refresh.py` | SQLite rows of one provider, undo journal | plan, commit, roll back |
| refresh coordination | `kcd2_mod_build_deploy/refresh_orchestrator.py` | none; observations and receipts are brought | ask for a refresh, judge its receipt |
| response pagination | `kcd2_index_adapter/response_normalizer.py` | detail artifacts on disk, cursors | normalize, page |
| debugger session | `kcd2_native_probes/x64dbg_session.py` | a process-wide lock around an external debugger | hand over, capture, close |
| experiment controller | `kcd2_native_probes/experiment_controller.py` | an immutable chain of receipts | advance, fail, clean up, verify |
| runtime evidence stream | `kcd2_native_probes/runtime_jsonl.py` | bounded event writer, counters | write, convert, close, summarize |
| probe limits | `kcd2_native_probes/limits.py` | aggregate counters | consume, observe |
| candidate lifecycle and registries | `candidate_lifecycle.py`, `candidate_registry.py`, `deployment_registry.py` | append-only events, lineage DAG, deployment nodes | append, reduce, register, gate |
| guarded builds | `guarded_operations.py`, `archive_member_cache.py` | clean staging directories, archive member cache | build, build twice, compare, read member |
| scratch workspaces | `ephemeral_workspace.py` | governed temporary directories | create, copy in, clean up |
| Ghidra export | `ghidra_export_contract.py` | export, lock and temporary files | export, validate |
| exact inspection | `exact_inspection.py`, `scope_guard.py` | none; one scan of a folder that others edit | enumerate, read, answer with a receipt |
| tables, paths, graphs, presets, localization, references | the decision modules of `kcd2_index_adapter` | none: evidence in, statement out | merge, compare, classify, audit |
| probe analysis, sessions, documents, guarded projects | the decision modules of `kcd2_native_probes` | pages, identity records, generated sources | gate, bind, page, validate, plan |
| planning, differences, boots, portfolio | `general_candidate_plan.py`, `candidate_parent_diff.py`, `latest_boot.py`, `portfolio_active_state.py` | none; files read one after another | audit, compare, parse, join |
| acceptance | `*_acceptance.py`, `compatibility_stacks.py` of the core | none; manifests, audits and captures are brought | gate |
| release staging | `release_staging.py` | staged tree of a release, replaced in place | six builds, validate |
| environment, variant and portfolio registries | `environment_*.py`, `portfolio_registry.py`, `variant_*.py` | immutable records | append, migrate, select |
| servers and command surfaces | `mcp_server.py`, `plugin_tools.py` | a request loop, no state between requests | dispatch |

How they interact: the mutating operations (deployment, plugin deployment,
refresh, debugger session) receive an approval and an `ApprovalVerifier`; the
verifier validates the approval against targets computed from the disk, probes
the running processes, consumes the nonce and calls the mutation. Deployment
reads candidate and deployment registries; the lifecycle reduces events that
builds and deployments emit; a refresh goes through the index client.

What is hard: several helpers over one disk without a lock; a process that dies
between two file operations; steps that raise half way and the handlers that
undo them, which raise too; state read (digests, load order, targets, phase)
and used later; answers that arrive after their request timed out; queues and
caches at their limit; receipts written by one process and read by another;
evidence gathered piece by piece about a game, mods and sources that move
meanwhile, and joined as if it were of one moment.

## 2. Plan and status

Order: what changes a user's files first, then what authorises it, then the
stateful helpers, then the pure algorithms behind the gates.

| step | modules | status |
|---|---|---|
| 1 | `AtomicDeployment`, abstract `DeploymentContract` | modelled, checked, proved (types, originals, receipts, recovery copy, refinement) |
| 2 | `TransactionAttempts`, abstract `AttemptLedger` | modelled, checked, proved (types, all three invariants, refinement) |
| 3 | `Approvals` | modelled, checked, proved (types, one-time use, game closed) |
| 4 | `PluginDeployment` | modelled, checked, proved (types, all four invariants) |
| 5 | `IndexClient` | modelled, checked, proved (types, answers belong) |
| 6 | `ExactRefresh`, abstract `RefreshContract` | modelled, checked, proved (types, reviewed inputs, refinement) |
| 7 | `NativeExperiment`, `DebuggerSession` | modelled, checked (the lock's liveness too), proved (chain and duties, receipts) |
| 8 | `RuntimeStream` | modelled, checked, proved (counts, limits) |
| 9 | `CandidateLifecycle` with both registries; `InstallGates`, `CandidatePlan` | modelled, checked, proved (from plan to install) |
| 10 | `GuardedBuild`, `GhidraExport`, `ResponsePages`, `ReleaseBuild` | modelled, checked, proved (receipts, members, exports, copies, pages, releases) |
| 11 | the decisions behind the gates: `TableMerge`, `GraphAudits`, `SourceEvidence`, `ExactInspection`, `ProbeGates`, `SessionRecords`, `ProbeDocuments`, `GuardedProject`, `AcceptanceGates`, `ActiveState` | modelled, checked; all but `TableMerge` proved |
| 12 | the closure of the backlog in `ReleaseBuild` as steps and not a recursive operator, so that `ReleasedWhole` can be proved | proved; the merges of `TableMerge` stay with TLC |

Steps 1-6 have runs of their own. The components of steps 7-11 do not share
state, so `MCProgress` (with the client of step 5), `MCNative` and `MCWorkshop` put them side by
side: a behaviour picks one (`part`) and the others stay as they began.

## 3. The modules and the code

Every module below is sequential code over shared files or memory, cut at the
points where another actor can come in: between two file operations, at a lock,
at a wait. `pc` is the next such point of a process or thread, `loc`, `job` or
`call` are its local variables. Content that the code only compares by digest
is one value. Definitions called *mutant* in a comment are the plausible bugs
that each property is known to notice; no specification uses them.

### AtomicDeployment (`atomic_deployment.py`)

State: `tree` the mod folders, `order` the load order (`mod_order.txt`), `node`
the load order that a deployment node recorded, per transaction `backup`,
`receipt`, `failure`, `work` (`rollback-current`) and `undone`. `broken` and
`initial` are history variables.

| action | code |
|---|---|
| `RegisterDeployment`, `PreflightInstall`, `BeginInstall`, `ObserveTarget` | `create_deployment_node`; preflight of `install_candidate_atomic`; the load order and the target are read |
| `CreateTransaction` ... `WriteInstallReceipt` | `_install_candidate_impl`, one action per file operation between two `InstallBoundary` points |
| `BackupTargetFails`, `DisplaceFails`, `WriteOrderFails`, `InstallStepFails` | the same statements raising, a copy or removal left untouched or half done |
| `RestoreTarget` ... `WriteFailureReceipt`, `RestoreFails`, `GiveUp` | `_restore_install_original`, its own failures included |
| `RollbackAllowed`, `BeginRollback`, `CreateRollbackWork` ... `WriteRollbackReceipt` | `_rollback_install_impl` |
| `PrepareFails`, `RollbackFails`, `RecoverRemove`, `RecoverCopy`, `RecoverOrder`, `RecoverFails` | its two exception handlers |
| `Crash` | the helper dies between two steps |

`EnsureExactlyOneOrderEntry` is what `_ensure_exactly_one_order_entry` does to a document
(first entry kept, further ones dropped, a missing one appended).
`DeploymentContract` is what an operator who runs one operation at a time may
rely on: folders and load order change as a whole when a receipt is written.
The end of `AtomicDeployment` maps the code's states to it: while an operation is under
way the contract shows the state from which it started.

### TransactionAttempts (`transaction_attempts.py`)

State: `attempts`, the numbered folders with their receipt files, temporary
files and the artifact they list; `owner[p]`, the attempt handle that helper `p`
holds. A receipt is its input and the chain of phases up to its own, which is
what the digest links determine. `Loads` is `_load_attempt`, `MayRecord` the
gates of `record_attempt_phase`, `fail_transaction_attempt` is recording FAILED;
`CheckReceipt`, `WriteTemporary`, `ReplaceReceipt` are `_write_phase_receipt` (the
exists check, the exclusive temporary file, `os.replace`) with its `finally`.
`AttemptLedger` is the promise: a list of attempts of which only the last
grows, and a new one starts only after a failure. `WriteArtifact` is the caller's
doing: only the holder of the latest attempt, at its latest receipt, writes there.

### Approvals (`approvals.py`)

State: the clock, the game, the target's content, the approval records,
`consumed[h]` the memory of helper `h`, `claims` the nonce directory, and one call
per thread. `ReadTargets` is the caller computing targets before `execute`;
`ValidateDocument`, `EnumerateProcesses`, `StampObservation`, `CompareProcesses`,
`Consume`, `ConsumeFails`, `Mutate` are `ApprovalVerifier.execute` in its order.
`Restart`, `Tick`, `SwitchGame`, `ChangeTarget` are the environment and come between
any two of them. An approval without `expires_at` is one that expires at `MaxTime`.

### PluginDeployment (`plugin_deployment.py`, both copies)

State: `active[g]`, the shared `catalog`, `side[t]` the temporary folders next to
the active one, `unit[t]` the transaction folder. The actions follow
`install_plugin_atomic` and `restore_plugin_atomic` statement by statement, with
the two `except` clauses (`Undo...`, `RestoreUndo...`) as steps of their own that
fail too. `_refresh_catalog` is two steps, a read and a replacement.

### IndexClient (`client.py`)

State: the client's fields (`gen` counts starts; `handle`, `ready`, `lock`, `nextId`),
the stdout `queue`, the pipes, one reader thread per start, and one request per
thread. `Start`, `Close`, `CallTool` are the methods; `Acquire`, `Write`, `Take`,
`TimeOut` are `_request`; `Deliver` adds what `start` does with the two answers it
waits for. `Read` is `_StdoutReader.run`. `Answer`, `Notify`, `Exit` are the server,
which is not part of the repository: it may answer late, answer with a line
that is too long, say what nobody asked, stop reading, or end.

### ExactRefresh (`exact_refresh.py`)

State: `files` of the providers, committed `rows`, the SQLite write `lock` and the
transaction's view `txn`, the reviewed `plan` and the `journal` that the callers hold,
and per process its place, its unit and the hashes it has taken. `BeginDryRun`,
`HashFile`, `Review` are the dry run; `BeginCommit`, `CheckInputs`, `Begin`, `HashFile`,
`Apply`, `Commit`, `Result` the commit with its hashing before and inside the
transaction; `BeginRollback`, `Revert`, `CommitRollback` the rollback; `Fails` a raise
at any of them; `EditFile` another program. `RefreshContract` is the promise: rows
change only by swaps that a dry run has shown, and back.

### The modules of `MCProgress`, `MCNative` and `MCWorkshop`

Modules with variables of their own:

| module | source | actions and code |
|---|---|---|
| `NativeExperiment` | `experiment_controller.py` | `Advance`, `Fail`, `CompleteCleanup`, `IdentityDrifts` are the methods of the immutable controller; `DeployComponent`, `RemoveComponent` the caller |
| `DebuggerSession` | `x64dbg_session.py` | `Enter`, `Inspect`, `Resume`, `Capture`, `ClearBreakpoint`, `Detach`, `Check`, `Leave` under `_SESSION_LOCK`; `ProviderFails` a raise; `Touch` the user and the game |
| `RuntimeStream` | `runtime_jsonl.py`, `limits.py` | writer, legacy converter, end record and summary, lines are lost, repeated, moved in between; the tracker of limits and the evaluation of a bundle |
| `GuardedBuild` | `guarded_operations.py`, `archive_member_cache.py` | a build or two threads of a double build, one action per file operation, deaths, edits, removals that raise (also in the `except` clause of a build that fails); the cache: look up, quarantine, read, populate, rename, rot, replaced archives |
| `GhidraExport` | `ghidra_export_contract.py`, `ephemeral_workspace.py` | lock, run, validate; remove workspace, lock and (after a failure) the temporary, each of which may raise; promote; the workspaces: enter, copy in steps, clean up, edits, failures, deaths |
| `ResponsePages` | `response_normalizer.py` | spill, trim, page; damage between pages |
| `CandidateLifecycle` | `candidate_lifecycle.py`, both registries | register, capture, decide, append; `WorldChanges`, `Tick` |
| `ExactInspection` | `exact_inspection.py`, `scope_guard.py` | enumerate, open, read, answer; edits in between |

Modules of decisions EXTEND `Evidence` and share its one variable `facts`: a record
whose `topic` names the decision and which holds what the code is given, and, as
history, what the world was really like. The world moves by the actions named in
`...Next` (edits, boots, installs, captures, one defect more); the code's decision is
an operator of `facts`, and a property says when the decision may be believed.

| module | source | decisions |
|---|---|---|
| `TableMerge` | `table_semantics.py`, `portfolio_table_audit.py`, `inventory_presets.py` | the effective records of a table under its profile, the comparison of a candidate, the audit that names writers; the walk through presets |
| `GraphAudits` | `quest_topology.py`, `world_behavior.py`, `ai_quest_runtime.py` | in which domains absence may be claimed; with variables of its own, a session in which the game saves, loads and mutates while markers are dropped, and whether it proves persistence |
| `SourceEvidence` | `reference_integrity.py`, `provider_classifier.py`, `installed_state.py`, `localization_*.py`; `coverage.py`, `path_contributions.py`, `conflict_classifier.py` | references, missing mods, what a boot loaded; effective text and voice, the release gate; what layers allow to claim, who provides a path, whether there are conflicts |
| `ProbeGates` | `playtest_readiness.py`, `correlation.py`, `result_validity.py`, `overhead.py`, `gameplay_observation.py` | readiness, negatives, overhead, comparison |
| `SessionRecords` | `runtime_identity.py`, `runtime_session_inspection.py`, `results.py` | identity of a capture, pages of a record, bounded answers |
| `ProbeDocuments`, `GuardedProject` | `record_layout.py`, `legacy_audit.py`, `source_contract.py`, `probe_bundle.py`; `guarded_kcse.py` | filters, hooks, imports; locks, trampolines, the project's pipeline |
| `AcceptanceGates` | the `*_acceptance.py` of the core, `compatibility_stacks.py` | five evaluations of a stack, the read-only run |
| `InstallGates` | `atomic_deployment.py` l.131-1769 | what an install is allowed by; what a rollback believes of a receipt of any version and of the disk, and what its steps then do |
| `CandidatePlan` | `general_candidate_plan.py`, `candidate_parent_diff.py`, `refresh_orchestrator.py` | the audit before a build, the ledger of differences, the judgement of a refresh |
| `ActiveState` | `latest_boot.py`, `portfolio_active_state.py` | the conclusion from a boot log, the joined state of the portfolio |
| `ReleaseBuild` | `release_staging.py` | six builds as sequences of steps over `out`, with deaths, edits, commits and damage; validation; the closure of the backlog, a task popped or visited per step |

A field `flaws`, where there is one, is the set of things that are wrong with the
evidence; `GetsWorse` adds one after another up to the bound.

## 4. What is checked

| run | instance | properties | what it shows |
|---|---|---|---|
| `deploy_overlap_same` | 2 helpers, 2 transactions, 1 mod, all interleavings, failures, deaths | `TypeOK` `OriginalNeverLost` `ReceiptsHonoured` | no original folder is lost; every install receipt can be honoured |
| `deploy_isolated` | 1 helper, 3 transactions, 2 mods | `RecoveryCopyKept` `AllOrNothing` | the steps implement the contract; a rollback that has touched the folder has its recovery copy |
| `deploy_overlap_rollback` | 2 helpers | `RecoveryCopyKept` **violated** | of two rollbacks of one receipt the second deletes the first one's recovery copy in its handler (l.574) when the first has already half removed the folder |
| `attempts` | 2 helpers, taking turns or overlapping (`scope`) | `TypeOK` `ChainsHold` `SupersededFailed` `OneInput` `AppendOnly` | taking turns, receipts form an append-only ledger that always loads; overlapping, attempts still follow failed ones only and keep one input |
| `attempts_crash` | 1 helper | `Resumable` **violated** | an attempt folder without its first receipt blocks the root for good (l.117) |
| `approvals_durable` | 3 threads in 2 helpers, restarts | `TypeOK` `OneTime` `ClosedSinceDecision` | with a claim directory an approval works once, after the game was closed |
| `plugins` | 1 process with 1 plugin and 3 transactions, or 2 processes with a plugin each (`Works`); 1 fault, deaths | `TypeOK` `BackupsMatch` `CatalogAgrees` `PriorKept` `InstalledKept` | receipts tell what the backups hold; catalog and folder agree after every operation of one process; no plugin tree is lost |
| `plugin_two` | 1 process, 2 plugins, no fault | `ReceiptRestorable` **violated** | restoring the first of two plugins drops the second from the catalog (l.701) |
| `calls_end` | the parts of `MCProgress`: a client with 2 threads, 2 starts, 2 calls, 1 unasked line; a debugger with 2 threads, 2 operations, 3 touches | `TypeOK` `OwnAnswer` `CallsReturn` `ReceiptHolds` `LockReleased` | results belong to their requests; every call ends, or a write is blocked; a receipt on the debugger is true when returned; its lock is always freed |
| `exact_refresh` | 2 processes, 2 requests over 1 provider, edits of its file | `TypeOK` `ReviewedInputs` `AtomicSwap` | rows change only by reviewed swaps and for the reviewed inputs |
| `native` | the parts of `MCNative`, one per behaviour | the first eight below | operations, records and verdicts of native-probes and of acceptance keep what they promise while others act |
| `workshop` | the parts of `MCWorkshop`, one per behaviour | the last six below | builds, analyses, index decisions and the way from a plan to an install do so too |

Each property of the two wide runs is the conjunction of named parts, every one with a
comment that says it in full beside the code that it is about:

| question | property | parts |
|---|---|---|
| Does a chain of receipts verify and keep the duty to clean up, whatever fails? | `ExperimentsAccounted` | `OwnChainVerifies` `CleanupOwed` |
| Is everything that was dropped, lost or cut off accounted for? | `StreamAccounted` | `CompleteIsWhole` `EveryLineCounted` `AbsenceEarned` |
| Do the verdicts on a probe say no more than its captures bear? | `ProbeVerdictsEarned` | `ProofWillDo` `NegativeEarned` `NeverLouder` `ChangeReported` |
| Is what is joined from several looks of one moment? | `RecordsOfOneMoment` | `OneDeployment` `PagesOfOneRecord` `AnswerWhole` |
| Is an accepted probe, its code included, the one its documents declare? | `ProbesAsDeclared` | `FilterProven` `HooksAsDeclared` `ImportEarned` `StartupOnlyTrue` `LockAtInstruction` `TrampolineWhole` `PlanReproduced` |
| Does acceptance say what was played? | `AcceptedAsPlayed` | `PassedAsPlayed` `IncompleteIsOpen` `ReadOnlyPass` |
| Is what validates a whole release, and what is refused without effect? | `ReleasedWhole` | `ValidatesWhole` `FormerOutputKept` `FromItsRevision` `TasksAllPrecise` |
| Is what is said of the game of one boot that it completed? | `StateOfOneBoot` | `BootConclusionTrue` `ExactOfOneBoot` |
| Do racing builders and readers hand out what was asked for? | `BuildsTrue` | `ReceiptTrue` `FailureLeavesNothing` `MembersWhole` |
| Does an analysis work alone, on a true copy, and return what it validated? | `AnalysesTrue` | `OneWrapper` `ExportTrue` `CopiesTrue` |
| Is a paged, cut or edited source recognised? | `CutsRecognised` | `PagesWhole` `InventoryAsEnumerated` `CutInventoryComplete` |
| Do merge, audit, walk and conflict analysis agree with the game's own rule? | `WinnersTrue` | `ResolvedIsLastWriter` `UnchangedMeansUnchanged` `AuditNamesWriters` `CompleteIsEverything` `DeclaredReallyWins` `ConfirmedNoneIsNone` |
| Does a claim of absence, wholeness, persistence or loading rest on evidence that covers it? | `ClaimsRest` | `TopologyAbsenceEarned` `WorldDomainWhole` `PersistenceClaimTrue` `ReferencesSound` `MissingWasMissing` `LoadedInOneBoot` `ReleaseAsAudited` |
| Is what is installed, rolled back or confirmed what was looked at? | `InstalledIsReviewed` | `InstallTrue` `InstalledAsApproved` `OneEditRefused` `RollbackAnchored` `ReadyNamesTheAccepted` `NothingUndeclared` `ConfirmedIsExact` |

Every property of a passing run is violated by a mutant listed in
`PROJECT.json`. The violated ones are findings there, each with the sentence of
the repository it contradicts.

Some behaviour that the models contain is nobody's stated promise, so no run is
made of it; a property that would forbid it excepts it by name. What a reader of
the code may want to know:

- *Deployment.* Two overlapping installs may lose a load-order entry
  (`atomic_deployment.py:424`). The conflict report is bound to no artifact; the
  XML/TBL receipt is bound only by its gate and the packaging receipt only by its
  profile, so those of another build are accepted (l.1129-1151).
- *Attempts, plugins, client.* Two helpers that record one phase may replace a receipt the
  first has returned (`transaction_attempts.py:319`); a torn catalog backup is
  copied over the live catalog (`plugin_deployment.py:569`); after a time-out the
  late answer makes the next request fail (`client.py:480`); a thread reads `ready`
  before it waits for the lock (`client.py:353`).
- *Refresh.* A commit whose result cannot be built stands, but its journal is lost
  (`exact_refresh.py:634`). Conclusions drawn from stale observations of other
  targets are allowed when the target itself is fresh (`refresh_orchestrator.py:240`).
  That the target is built anew after the executor ran is not noticed (l.302).
- *Receipts.* Of an install receipt of any version, parent, time of completion, details of the
  semantic validation, sizes of the load order and the artifacts besides the built one are
  bound to nothing; receipts of the first two versions do not attest candidate and deployment
  (`atomic_deployment.py:1350`). The name of the target folder is bound only to the tree
  that the folder holds (l.533, l.1392): who edits it together with the hashes makes
  the rollback work on another folder.
- *Lifecycle.* The times of an event and of a decision are the caller's
  (`candidate_lifecycle.py:217, 235`), and an install event is compared with its decision by operation
  and deployment only (l.403): a back-dated event passes, and a decision may be old when its event comes.
- *Builds.* A build whose clean-up raises leaves what is half built (`guarded_operations.py:455`);
  the paths in the manifest of a cache entry are bound by nothing, so damaged ones
  come back as names (`archive_member_cache.py:142`).
- *Tables.* `formatting_only` is said of every change to a table without supported semantics, and
  of changes to records without a key or with a repeated one (`table_semantics.py:1015`),
  against the docstring (l.927); `comparison_status` is then `unresolved`.
- *Exports.* A run removes the scratch workspace of its operation id and the temporary export of
  its output whoever made them (`ghidra_export_contract.py:580-591`); one that dies between
  the rename and the hash leaves an output that nobody compared (l.616).
- *Read twice.* The audit hashes the specification and the descriptor in a later
  read than the one it judged (`general_candidate_plan.py:283`); the legacy audit
  identifies the log in one read and summarises another (`legacy_audit.py:252`),
  and says startup only of a log that was started afresh in between; the decoder of
  moved instructions heeds neither the operand-size prefix nor where REX.W stands
  (`guarded_kcse.py:449-455, 490-491`: `66 B8 34 12 E9 05` has no hazard), and
  the rechecks of a project bind no adapter source (`guarded_kcse.py:859`);
  the difference hashes each archive before it opens it again, and its ledger calls
  the changed elements of an undeclared member declared (only the member's own entry
  is not, `candidate_parent_diff.py:428`).
- *Releases.* The release built over another one looks at its own dependencies only after
  the former output is gone, and keeps plugin packages without comparing their
  recorded hash (`release_staging.py:2223`); the revision and the clean flag are
  read before the files are packaged; reports are known to nothing but the sums.
- *Evidence.* The core-scripting evaluation binds captures to no snapshot, the table
  evaluation binds its audit to none, and of the AI world's evidence only the stack's session id ties it to
  the sessions of the stack (`ai_world_acceptance.py:480`); a manifest with no checks passes
  (`compatibility_stacks.py`). A later equal observation turns `LIMIT_EXCEEDED` into
  `LIMIT_SATURATED` (`limits.py:197`). A comparison raises for every table of which the
  candidate adds a record (`conflict_classifier.py:596`), and the absence of
  semantic conflicts is confirmed without a look at coverage (l.848). An answer whose
  list of packages was cut still says that its inventory is complete. A layer whose scan
  was complete and that names what it left uncovered counts as complete
  (`coverage.py:313-343`): `Surveyed` in `WinnersTrue` takes it so. A world document
  that was cut off taints the domains of those records only that it still holds
  (`world_behavior.py:446-450`): `WorldDomainWhole` excepts a document of which no
  record of the domain is left.
- *Boots.* A receipt says `latest_complete_boot` also when a later boot has begun and
  died; the hash of the installed package is read now and says nothing of the bytes
  that the boot opened (`latest_boot.py:183`).

### Bounds

- *Deployments.* Two transactions on one mod are the smallest instance with a
  conflict of every kind: same folder, same load order, same transaction id (both
  helpers may run either). Three transactions, two of them of one candidate, allow
  install, roll back, install again and rolling back in the wrong order. Start
  documents miss the entry, list it twice, or list it around another.
- *Attempts.* `MaxAttempts` is the code's own limit, set to 2 so that it is reached.
  One middle phase gives a chain that can be continued, closed and failed.
  `MaxLitter` = 1 bounds the temporary files that dead writers leave; one is
  what makes a later record raise.
- *Approvals.* `MaxTime` = 2 and `MaxAge` = 1: an observation can be current, at
  its limit or stale, an approval not yet valid (the clock cannot go back, so
  through its expiry) or expired. Two contents tell a changed target. One approval
  is enough, since a nonce is only ever compared with itself; the theorems have any number.
- *Plugins.* `MaxFaults` = 1: one file operation fails, at any step of an operation
  or of its `except` clause (deaths come on top when two processes work).
- *Client and debugger.* `Capacity` 2 and pipes of one line fill up within the runs;
  `MaxStarts` 2 has a restart, `MaxCalls` 2 a call that competes for the lock or
  comes after a late answer; `MaxNoise` 1 is a line that nobody asked for. Of the debugger,
  `MaxTouches` 3 lets the user change it before, between and after two inspections.
- *Refresh.* Two contents of one file and two rows of one key, one of them absent,
  tell a reviewed state from a drifted one; two requests want opposite rows, so that
  one undoes the other; two processes overlap in every way.
- *Native parts.* `MaxDeclaredIds` 15 is the longest route, so a failed cleanup may run out of ids, and `MaxReceipts` as many: the code's numbers are 256 (`cross_tool_identity.py`) and 1000;
  record, line and byte limits of the stream are all reached (two records are kept of
  the three lines that may be written), and `MaxDamage` 2
  loses one line and moves another; limits of 2 and 3 are passed with 4 calls; two
  edits (`MaxDocumentEdits`, `MaxProjectEdits`, `MaxActivations`) are what it takes to
  change something after it was looked at and back. A release has one edit, one
  death and one damage over a former output; three tasks give an indirect dependency, and
  the task of the release itself is open while it is built. One place in a record is
  enough, since a family has one field of a name; the theorem has any.
  Five written lines over a log of four hold a boot that dies and one that completes, and exceed
  the limit; four changes of the world are the index, a boot and one change and its
  reversal, of one project (the theorem has any number of both).
- *Workshop parts.* Two builders, readers, analyses or wrappers are the smallest race;
  one or two faults hit any of their steps; two versions tell an edit. Page limits and
  record sizes are chosen so that a record fits exactly, does not fit, or is spilt.
  Three files and budgets of two to four make a scan that ends early. Two layers,
  two providers and two changes suffice for a survey with a gap. An install sees two
  writes among plan, approval and mutation (`MaxWrites`), of which one may edit the receipt that a rollback reads (`MaxReceiptEdits`, several fields at once); an audit one edit between any two of its
  reads; an executor one rebuild before or after it. Two operation ids over two projects are shared in every way; two faults fail a run and its clean-up.
  Two member edits under two declarations meet in one member. A lifecycle has events of the type
  `INSTALL_VALIDATED`, the one that is held against a decision; the theorem has any types.

`ReleaseBuild` allows an edit, a commit or a damage only when the build is about to
read what is changed (`BeforeOneOf`): it cannot tell it from an earlier one.

`CHECK_DEADLOCK FALSE` stands in the runs whose work is bounded: transactions,
attempts, starts and calls run out and the system really stops. Deadlock is
checked for the approvals, whose threads can always call again. Symmetry is used
for helpers, transactions, inputs and contents that are interchangeable, in
runs of invariants and of refinements of the form `Init /\ [][Next]_v` only, never with fairness.
In `native` and `workshop` the interchangeable values of every component have the same names (`x1`,
`x2`): a behaviour works on one component, so one exchange serves them all.

### Fairness

Two components have a liveness property. In `IndexClient` a thread that can go on does (weak
fairness of its steps; Python threads are scheduled), a deadline passes (the
wait has a time-out), and a thread that waits for the lock gets it when it stays
free (calls are bounded, so no stream of others can keep it). Starting, calling
and closing by choice are not fair, nor are the readers and the server: it
promises nothing. `CallsReturn` excepts one case by name, `WriteBlocked`: the write at
`client.py:459` comes before the deadline is set and blocks while the server
does not read. In `DebuggerSession` a thread inside an operation goes on: its
provider's calls return or raise (the provider is the caller's, with time-outs of
its own), its waits are bounded sleeps. Entering an operation and the user's touches are not
fair. `LockReleased` then says that no raise leaves the lock held. The other components
have no promise of progress: an operation that dies is not resumed by anybody.

## 5. What is proved

For every value of the constants under the modules' named assumptions, and
without a bound on helpers, threads, transactions or content:

| theorem | module | argument |
|---|---|---|
| `TypeCorrect` | `AtomicDeploymentProofs` | needs `OrdersClosed`: the set of documents is closed under the code's rewriting |
| `ReceiptsStayHonoured` | `AtomicDeploymentProofs` | from `Protocol`: the exclusive `mkdir` gives a transaction folder one owner (`TransactionOwned`), nothing is recorded of a folder not made (`UnmadeIsEmpty`), and the backup has got as far as its owner's step says (`BackupProgress`), which alone makes the receipt true when it is written |
| `OriginalSurvives` | `AtomicDeploymentProofs` | from `IInv` = `TypeOK`, `Protocol`, `OriginalSafe`: an original is in a backup (`Saved`), or in place with every operation on its folder having observed just that (`Untouched`) |
| `RecoveryPossible` | `AtomicDeploymentProofs` | under `Isolated`; `IsolatedInv` adds to `IInv` that one helper is in an operation (`Alone`), that receipts are the code's rewriting of what was there (`ReceiptsDerived`), and what folder, load order and work copy hold at each step of an install (`InstallKept`) and of a rollback (`RollbackKept`) |
| `DeploymentImplementsContract` | `AtomicDeploymentProofs` | under `Isolated`, from the same invariant: initial states map to initial states; each step but the receipts' stutters, since the contract shows what the operation found; the receipt's step is `DeploymentContract`'s install or rollback; a handler that ends has put everything back |
| `TypeCorrect` | `TransactionAttemptsProofs` | `TypeInv` adds that a helper in an operation writes into a folder that is there, or makes the next one (`JobsOK`) |
| `SupersedesOnlyFailed` | `TransactionAttemptsProofs` | `SupersededInv` adds that a helper about to make a folder has seen the failure before it, which is never removed (`Superseding`) |
| `BoundToOneInput` | `TransactionAttemptsProofs` | `InputInv`: every folder has an input that its receipts, its temporary files, the receipts being written and the handles held all carry |
| `ChainsNeverBreak` | `TransactionAttemptsProofs` | `TurnsInv` (helpers take turns): each attempt's receipts are the prefixes of one chain, and the one being written goes on it (`Composed`) |
| `AttemptsImplementLedger` | `TransactionAttemptsProofs` | from `TurnsInv`; making the first receipt of a folder appends to the ledger, a further receipt goes on its last entry, everything else stutters |
| `TypeCorrect` | `PluginDeploymentProofs` | `TypeInv` adds what the locals of an operation are at each step (`Bound`, `Verdicts`, `PutBack`), that an unused transaction is empty (`Fresh`), and one installer per transaction |
| `PriorTreeKept` | `PluginDeploymentProofs` | under `Apart`; `PriorInv` adds that the tree observed is the one backed up (`Observed`) |
| `InstalledTreeKept` | `PluginDeploymentProofs` | under `Apart`; `ShelfInv`: the folder beside still holds what a restore took away until it has its receipt or put it back |
| `BackupsStayMatched` | `PluginDeploymentProofs` | `MatchInv`, of one process: what is observed is still active and listed at each step up to its backup (`Backed`) |
| `CatalogStaysInAgreement` | `PluginDeploymentProofs` | under `OnePlugin` and `MaxFaults <= 1`; `SoloInv` says what catalog, active tree and the folders beside hold at each step of an install (`InstallStage`) and of a restore (`RestoreStage`), and that receipts list what was active (`Remembers`) |
| `TypeCorrect`, `CommitsReviewedInputs` | `ExactRefreshProofs` | `RefreshInv` = `TypeOK` and: only a call hashes (`HashingBusy`); a commit holds every file that is as planned (`HeldComplete`); inside a transaction the rows are those its checks met (`RowsPinned`) |
| `RefreshImplementsContract` | `ExactRefreshProofs` | from `RefreshInv`: a commit maps to a swap that a dry run has shown, the commit of a roll-back to its undoing, every other step to a dry run or a stutter |
| `TypeCorrect` | `ApprovalsProofs` | with `CallsApproved` |
| `OneTimeWhenDurable` | `ApprovalsProofs` | assumes `Durable`; `OneTimeInv` adds that a consumed nonce is claimed and that the call about to mutate is the one that consumed it (`OneHolder`) |
| `GameWasClosed` | `ApprovalsProofs` | `ClosedInv` adds what a validated call has seen at each step (`SeenClosed`), and that a closed game is closed now (`ClosedNow`) |
| `TypeCorrect` | `IndexClientProofs` | the request lock is held exactly by the thread in a request |
| `AnswersBelong` | `IndexClientProofs` | `OwnAnswerInv` adds that requests and answers under way have ids handed out before: never the id of a request about to be written, and of the same start as a request that waits (`AllKnown`) |
| `ReceiptsAreTrue` | `NativeProofs` | of `DebuggerSpec`; `DebuggerInv` adds that the lock has one holder (`OneOperation`) and that, when nothing was touched since, the last look an operation took is the debugger as it is (`LooksRecent`) |
| `ExperimentsStayAccounted` | `NativeProofs` | of `ExperimentSpec`; `ExperimentInv` adds that the receipts form the chain of one route, each naming the stage before (`ChainLinks`), that the ids are the declared ones in their order unless a failure reused one (`IdsInOrder`: this is what bounds the chain, for `advance` and `fail` count nothing), and what each stage owes while the component is installed (`Duties`) |
| `VerdictsAreEarned` | `NativeProofs` | of `ProbeSpec`; the invariant is the shape of the evidence (`ProbeTyped`): what is said holds of every piece of evidence of that shape. `DebuggerSettles` turns the reasons of a receipt back into its defects, `LeastLevel` says that the level recommended is the least one, `AllListed` that a comparison which is not cut off lists all that two sessions share |
| `RecordsAreOfOneMoment` | `NativeProofs` | of `SessionSpec`, assumes `ContentsAssumption`; `SessionInv` adds that a record's runtime, which no damage reaches, names the deployment of its moment (`RecordsTrue`), that a token goes on where the pages end, in the record last read (`PagesAgree`), and that the items shown are the first ones (`ItemsAgree`) |
| `AcceptancesAreAsPlayed` | `NativeProofs` | of `AcceptanceSpec`; `AcceptanceInv` adds that each part says what was so when it was written, with defects that its evaluation knows (`PartsTrue`), and that a case without drift ended with what it began with (`CasesTrue`); `DefectKeeps` and `OpenDefects` say what one defect does to the answer |
| `StatesAreOfOneBoot` | `NativeProofs` | of `ActiveSpec`; `ActiveInv` adds that the parser has found the boots of the log up to its line, each with its outcome (`BootLogHolds`), and that what was gathered of index, boot, installation and project is what was so at its moment (`ActiveHolds`) |
| `ProbesStayAsDeclared` | `NativeProofs` | of `DeclaredSpec`; `DeclaredInv` adds, per document, what its stages leave: an identified DLL is still in the log (`LegacyHolds`), a decoded instruction's hazards are known (`DecodeHolds`), a plan is of the two builds it was made from (`ProjectHolds`); sections and instructions are sequences of any length |
| `StreamsStayAccounted` | `NativeProofs` | of `StreamSpec` and `LimitsSpec`; `StreamInv` adds that every line of the file is one that was written (`Genuine`), and that the counts per family, what was dropped and what was skipped make up what was offered (`WriterCounts`); `LimitsInv` that each aggregate is the measure of what was consumed, and diagnosed exactly from its limit on. A sum is the size of a disjoint union (`Units`, `Total`), so that adding one is a fact about cardinality |
| `ReleasesAreWhole` | `NativeProofs` | of `ReleaseSpec`; first each script is shown to be looks, the removal, work and a sealing, for R7 with a second round (`Placed`), from which every fact about a step follows (`StepFacts`); `ReleaseInv` adds what a build has done before each step (`Underway`), what an output may hold after whatever deaths and damage (`OutHolds`), and that what is needed of the backlog is visited or pending (`TasksHold`) |
| `AnalysesStayTrue` | `WorkshopProofs` | of `ExportSpec` and `ScratchSpec`, which share nothing; `ExportInv` adds until which step lock, workspace and temporary export may be the run's own (`Owns`) and that an output found valid is whole; `ScratchInv` that who works has the directory alone (`WorksAlone`) with a copy of the source it looked at (`TrueCopy`) |
| `BuildsStayTrue` | `WorkshopProofs` | of `BuildSpec` and `CacheSpec`; `BuildInv` ties each lane to its builder and its staging directory (`LaneHolds`; one that could not clear it promises nothing), `CacheInv` ties the entries and each reader's copy to the archive they were read from (`EntryHolds`, `ReaderHolds`) |
| `InstallsAreReviewed` | `WorkshopProofs` | of `LifecycleSpec` and `ReviewSpec`; `LifecycleInv` adds that parents are registered before their children and that a decision is of a complete snapshot of its node, not older than allowed (`DecisionHolds`); `ReviewInv` what a plan, an install and a refresh have captured at each step (`PlanHolds`, with the files that were edited between two of their reads; `InstallHolds`, `RefreshHolds`), and of a rollback that it has in hand what its receipt says, and that a disk nobody wrote to lets only the hashes of the install through (`RollbackHolds`). `PatchesStayInside` says what a masked comparison shows |
| `ClaimsStayEarned` | `WorkshopProofs` | of `ClaimsSpec` and `QuestSpec`; `ClaimsInv` is the shape of the evidence with what is recorded of its moment (a boot receipt that counts names a whole boot and was made before any later one); `QuestInv` adds that a game which honours no save has, from a load after the last mutation on, the value of a new game, and that every later check shows it (`Forgetful`) |
| `PathClaimsAreTrue` | `WorkshopProofs` | of `PathsSpec`: the parts `DeclaredReallyWins` and `ConfirmedNoneIsNone` of `WinnersTrue`, from `PathsHolds`, which says that a claim was surveyed |
| `CutsStayRecognised` | `IndexClientProofs` | of `PagesSpec` and `InspectSpec`; `PagesInv`: the pages are the beginning of the details, to the end if there is no cursor; `ScanHolds`: what a scan has hashed agrees with what it found, file by file, until it is done |

Hypotheses, where there are any, are what the theorem cannot do without:

- `Isolated`: of rollbacks that overlap, `deploy_overlap_rollback` shows one whose
  folder is half removed when the copy it would be put back from is deleted. The contract speaks of one operator at a time.
- Turns (`scope.isolated`): with overlapping helpers two receipts are written from one
  state and the attempt no longer loads; `ChainsHold` and the ledger say nothing of
  those behaviours, `SupersededFailed` and `OneInput` do.
- `Apart`: two processes that install one plugin displace each other's trees; the
  code has no lock. One process alone always satisfies it.
- `OnePlugin`: with two, `plugin_two` shows that a restore drops the other plugin's
  entry. `MaxFaults <= 1`: the second failure may be that of writing the
  failure receipt, and then nothing says that the first left a torn catalog (TLC finds
  this with two faults in eleven steps), or be inside a restore's handler, which has no
  receipt of its failure at all.
- `Durable`: a ledger in memory is forgotten when its helper restarts.

The named assumptions on constants say what kind of value each is and little more.
`OrdersClosed` (documents are closed under rewriting), `Absent...` (a marker is no record),
`ObservationsAreFinite`, `TextProvidersAreFinite`, `PathsAssumption` (what the code
lists is finite), `CatalogAgeAssumption` (the age limit is at least 1), `ActiveAssumption` (there is a
project), `InspectionAssumption` and `PageConstants` (files have an order, sizes are positive
numbers), `ProjectAssumption`, `ContentsAssumption`, `StreamConstants` and `LimitConstants`
(lengths and limits are numbers, the limits of a session at least 1, as `limits.py` demands).
`ReleaseAssumption` says that the release is a task of the backlog (if it is missing, the
script raises). TLC evaluates each in a run.

Almost none of the properties is inductive as it stands: without the added parts a
step from an unreachable state (two owners of one folder, a late answer with a future
id) would break it. TLC holds the parts against the instances of the runs before they
are proved, except `Composed`, which quantifies over all documents. Each proof module has a
lemma per action or group of actions, a lemma for the initial states, and ends in
the temporal step. The proofs about operators that repeat (the prefix of a chain, the
catalog with one entry exchanged, the rewriting of a load order) are lemmas cited by name.

Only model-checked, on the instances above:

- `CallsReturn` and `LockReleased`: liveness and ENABLED are out of the prover's reach.
- Of `WinnersTrue`, the parts on tables and presets (`ResolvedIsLastWriter`, `UnchangedMeansUnchanged`,
  `AuditNamesWriters`, `CompleteIsEverything`): a merge is a fold over providers and a walk
  through presets is recursive, so what they compute needs induction over data, whose
  theorems take an operator as parameter. The other two parts are `PathClaimsAreTrue`.

Where a proof needs an induction over numbers, it takes the least counterexample
(`LeastNatural`): so for the rising numbers of a stream, the boots of a log, the first marker of
a kind and the last layer that provides a path.

## 6. What is not modelled

- Parsing, paths, sizes, formats and schemas: evidence that reaches a model is well
  formed, except where a property is about a malformed one. Formatting, wording and
  the bytes of archives are left out.
- Links, permissions and the partial durability of a file system: a rename is
  atomic, a copy or removal may be left half done.
- Programs other than the helpers that edit the mods folder in the middle of an
  install (`AtomicDeployment`); `InstallGates` has them between its looks at the disk,
  and in `Approvals` the target may change at any time.
- What stands in `PROJECT.json` as `partly`: the rest of a file whose decisions are
  modelled, as its note says; for the index client that is the shape of its requests.
- What stands there as `not_modelled`: registries of environments, variants and
  portfolios and their metadata (immutable records built from one input), the
  validators of specifications and packages and the diagnosis of logs and crashes
  (classifications of one document, without state or another actor), the tables of
  capabilities, the servers' request loops, and the small helpers of the core.
