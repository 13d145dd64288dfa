---------------------------- MODULE GhidraExport ----------------------------
(***************************************************************************)
(* Headless exports from Ghidra projects (kcd2_toolchain_core/             *)
(* ghidra_export_contract.py, run_ghidra_headless_export).  A wrapper      *)
(* locks the project, runs Ghidra into a temporary file beside the output, *)
(* validates what it wrote, looks for drift, cleans up and frees the lock, *)
(* and only then renames the temporary to the output.                      *)
(***************************************************************************)
EXTENDS Integers, FiniteSets

CONSTANTS
  Wrappers,         \* runs of the wrapper; all have one output path
  Projects,         \* Ghidra projects
  Operations,       \* operation ids, which name the scratch workspaces of one root
  MaxExportFaults   \* bound on drift, failing calls and dead wrappers

\* Nobody has made the file.
NoRun == "nobody"

ASSUME ExportConstants == MaxExportFaults \in Nat /\ NoRun \notin Wrappers

VARIABLES
  projectOf,     \* the project of each wrapper; never changes
  operationOf,   \* the operation id of each wrapper; never changes
  wrapperLock,   \* wrapperLock[j]: who made the lock file of project j
  work,          \* work[o]: who made the scratch workspace of operation o
  temporary,     \* the temporary export: who wrote it, or Absent
  output,        \* the export: who wrote it, or Absent
  wrapper,       \* wrapper[w]: the step of w and the export it has validated
  exported,      \* history: the results that were returned
  drifted,       \* drifted[w]: an input of w has changed since the run began
  exportFaults

exportVars == <<projectOf, operationOf, wrapperLock, work, temporary, output, wrapper, exported, drifted, exportFaults>>
requests == <<projectOf, operationOf>>

\* A file is told by who wrote it and whether Ghidra had finished.
Written(w, whole) == [by |-> w, whole |-> whole]
Absent == Written(NoRun, FALSE)

ExportInit ==
  /\ projectOf \in [Wrappers -> Projects]
  /\ operationOf \in [Wrappers -> Operations]
  /\ wrapperLock = [j \in Projects |-> NoRun]
  /\ work = [o \in Operations |-> NoRun]
  /\ temporary = Absent /\ output = Absent
  /\ wrapper = [w \in Wrappers |-> [step |-> "checks", valid |-> Absent, failed |-> FALSE, uncleaned |-> FALSE]]
  /\ exported = {}
  /\ drifted = [w \in Wrappers |-> FALSE]
  /\ exportFaults = 0

WrapperAt(w, step) == wrapper[w].step = step
WrapperTo(w, step) == wrapper' = [wrapper EXCEPT ![w].step = step]
ExportFault == exportFaults < MaxExportFaults /\ exportFaults' = exportFaults + 1

\* A failure is kept until the finally clause has cleaned up.
WrapperFails(w) == wrapper' = [wrapper EXCEPT ![w].step = "sweep", ![w].failed = TRUE]

\* So is a removal that raises (cleanup_errors).
Uncleaned(w, step) == wrapper' = [wrapper EXCEPT ![w].step = step, ![w].uncleaned = TRUE]

\* The identities of the request match and the output does not exist yet.
CheckRequest(w) ==
  /\ WrapperAt(w, "checks")
  /\ WrapperTo(w, IF output = Absent /\ ~drifted[w] THEN "lock" ELSE "raised")
  /\ UNCHANGED <<requests, wrapperLock, work, temporary, output, exported, drifted, exportFaults>>

\* The lock file is created, exclusively; a wrapper that finds it gives up.
LockProject(w) ==
  /\ WrapperAt(w, "lock")
  /\ IF wrapperLock[projectOf[w]] # NoRun
     THEN WrapperTo(w, "raised") /\ UNCHANGED wrapperLock
     ELSE WrapperTo(w, "prepare") /\ wrapperLock' = [wrapperLock EXCEPT ![projectOf[w]] = w]
  /\ UNCHANGED <<requests, work, temporary, output, exported, drifted, exportFaults>>

\* The scratch workspace is made, unless a run of the same operation id has it;
\* a temporary export that is there is an error.
Prepare(w) ==
  /\ WrapperAt(w, "prepare")
  /\ IF work[operationOf[w]] # NoRun
     THEN WrapperFails(w) /\ UNCHANGED work
     ELSE /\ work' = [work EXCEPT ![operationOf[w]] = w]
          /\ IF temporary = Absent THEN WrapperTo(w, "launch") ELSE WrapperFails(w)
  /\ UNCHANGED <<requests, wrapperLock, temporary, output, exported, drifted, exportFaults>>

\* Ghidra starts to write the temporary export, in a workspace that is there; the
\* wrapper's own may be gone, and another in its place has no room for its folders.
Launch(w) ==
  /\ WrapperAt(w, "launch")
  /\ \/ work[operationOf[w]] # NoRun /\ temporary' = Written(w, FALSE) /\ WrapperTo(w, "running")
     \/ work[operationOf[w]] # w /\ WrapperFails(w) /\ UNCHANGED temporary
  /\ UNCHANGED <<requests, wrapperLock, work, output, exported, drifted, exportFaults>>

\* It ends, fails or times out, which a lost workspace may be the cause of.
Finish(w) ==
  /\ WrapperAt(w, "running")
  /\ \/ /\ temporary' = Written(w, TRUE)
        /\ WrapperTo(w, "validate")
        /\ UNCHANGED exportFaults
     \/ /\ IF work[operationOf[w]] = w THEN ExportFault ELSE UNCHANGED exportFaults
        /\ WrapperFails(w) /\ UNCHANGED temporary
  /\ UNCHANGED <<requests, wrapperLock, work, output, exported, drifted>>

\* The export is read and checked against schema, module and project, so only
\* a whole export of the wrapper's own project passes; then every input is
\* hashed again.
Validate(w) ==
  LET readable == temporary # Absent /\ temporary.whole /\ projectOf[temporary.by] = projectOf[w]
  IN  /\ WrapperAt(w, "validate")
      /\ IF readable /\ ~drifted[w]
         THEN wrapper' = [wrapper EXCEPT ![w].step = "sweep", ![w].valid = temporary]
         ELSE WrapperFails(w)
      /\ UNCHANGED <<requests, wrapperLock, work, temporary, output, exported, drifted, exportFaults>>

\* The finally clause removes the scratch workspace, whoever made it,
SweepWork(w) ==
  /\ WrapperAt(w, "sweep")
  /\ \/ /\ work' = [work EXCEPT ![operationOf[w]] = NoRun]
        /\ WrapperTo(w, "unlock")
        /\ UNCHANGED exportFaults
     \/ work[operationOf[w]] # NoRun /\ ExportFault /\ Uncleaned(w, "unlock") /\ UNCHANGED work
  /\ UNCHANGED <<requests, wrapperLock, temporary, output, exported, drifted>>

\* then the lock, from where on another run may work on the project,
FreeProject(w) ==
  /\ WrapperAt(w, "unlock")
  /\ \/ /\ wrapperLock' = [wrapperLock EXCEPT ![projectOf[w]] = NoRun]
        /\ WrapperTo(w, IF wrapper[w].failed \/ wrapper[w].uncleaned THEN "discard" ELSE "promote")
        /\ UNCHANGED exportFaults
     \/ ExportFault /\ Uncleaned(w, "discard") /\ UNCHANGED wrapperLock
  /\ UNCHANGED <<requests, work, temporary, output, exported, drifted>>

\* and, if anything failed, the temporary export, whoever wrote it.
DiscardExport(w) ==
  /\ WrapperAt(w, "discard")
  /\ \/ temporary' = Absent /\ WrapperTo(w, "raised") /\ UNCHANGED exportFaults
     \/ temporary # Absent /\ ExportFault /\ Uncleaned(w, "raised") /\ UNCHANGED temporary
  /\ UNCHANGED <<requests, wrapperLock, work, output, exported, drifted>>

\* os.replace: whatever is the temporary by now becomes the output.  If that
\* fails the temporary is removed, which may fail for the same reason.
PromoteExport(w) ==
  /\ WrapperAt(w, "promote")
  /\ \/ /\ temporary # Absent
        /\ output' = temporary /\ temporary' = Absent
        /\ WrapperTo(w, "compare") /\ UNCHANGED exportFaults
     \/ /\ IF temporary = Absent THEN UNCHANGED exportFaults ELSE ExportFault
        /\ temporary' = Absent
        /\ WrapperTo(w, "raised") /\ UNCHANGED output
     \/ temporary # Absent /\ ExportFault /\ Uncleaned(w, "raised") /\ UNCHANGED <<temporary, output>>
  /\ UNCHANGED <<requests, wrapperLock, work, exported, drifted>>

\* durable_hash == receipt["export_sha256"]
Durable(w) == output = wrapper[w].valid

\* A promoted file that is not the validated one is removed; if another
\* wrapper was faster to remove it, or it cannot be read, the hashing raises.
CompareExport(w) ==
  /\ WrapperAt(w, "compare")
  /\ \/ /\ Durable(w)
        /\ exported' = exported \cup {[by |-> w, valid |-> wrapper[w].valid, stored |-> output]}
        /\ WrapperTo(w, "returned")
        /\ UNCHANGED <<output, exportFaults>>
     \/ /\ ~Durable(w)
        /\ output' = Absent
        /\ WrapperTo(w, "raised") /\ UNCHANGED <<exported, exportFaults>>
     \/ ExportFault /\ WrapperTo(w, "raised") /\ UNCHANGED <<output, exported>>
  /\ UNCHANGED <<requests, wrapperLock, work, temporary, drifted>>

InputDrifts ==
  /\ ExportFault
  /\ \E w \in Wrappers : drifted' = [drifted EXCEPT ![w] = TRUE]
  /\ UNCHANGED <<requests, wrapperLock, work, temporary, output, wrapper, exported>>

\* A wrapper that dies leaves its lock, workspace and temporary.
WrapperDies(w) ==
  /\ ExportFault
  /\ wrapper[w].step \notin {"checks", "raised", "returned", "dead"}
  /\ WrapperTo(w, "dead")
  /\ UNCHANGED <<requests, wrapperLock, work, temporary, output, exported, drifted>>

ExportNext ==
  \/ \E w \in Wrappers :
       \/ CheckRequest(w) \/ LockProject(w) \/ Prepare(w) \/ Launch(w) \/ Finish(w) \/ Validate(w)
       \/ SweepWork(w) \/ FreeProject(w) \/ DiscardExport(w)
       \/ PromoteExport(w) \/ CompareExport(w) \/ WrapperDies(w)
  \/ InputDrifts

ExportSpec == ExportInit /\ [][ExportNext]_exportVars

-----------------------------------------------------------------------------
(***************************************************************************)
(* Correctness.                                                            *)
(***************************************************************************)

Holding == {"prepare", "launch", "running", "validate", "sweep", "unlock"}

\* Two wrappers never work on one project at once.  A wrapper that is done, in
\* whatever way, has left neither lock nor workspace nor temporary export of its
\* own, unless it died or a removal raised, which its receipt says; another run
\* of the same operation id or output may have removed them before.
\* (wrapper_lock, the finally clause)
OneWrapper ==
  \A w \in Wrappers :
    /\ wrapper[w].step \in Holding =>
         \A v \in Wrappers \ {w} : projectOf[v] = projectOf[w] => wrapper[v].step \notin Holding
    /\ wrapper[w].step \in {"raised", "returned"} /\ ~wrapper[w].uncleaned =>
         wrapperLock[projectOf[w]] # w /\ work[operationOf[w]] # w /\ temporary.by # w

\* A result is returned only for a file that is the validated export and a whole
\* export of the wrapper's project, though the lock is freed before the rename
\* and another wrapper may write or remove the temporary meanwhile.
\* (os.replace, durable_hash)
ExportTrue ==
  \A e \in exported :
    e.stored = e.valid /\ e.stored # Absent /\ e.stored.whole /\ projectOf[e.stored.by] = projectOf[e.by]

-----------------------------------------------------------------------------
(***************************************************************************)
(* Governed scratch workspaces (kcd2_toolchain_core/ephemeral_workspace.py)*)
(* Analyses with one identity and operation share one deterministic        *)
(* directory name; sources are copied while other programs edit them; a    *)
(* cleanup may fail, and a dead analysis leaves its directory behind.      *)
(***************************************************************************)

CONSTANTS
  Analyses,       \* EphemeralAnalysisWorkspace objects of one workspace name
  SourceVersions, \* contents of the one source file
  MaxSourceEdits, \* bound on edits of the source
  MaxScratchFaults \* bound on failing removals and deaths

ASSUME ScratchConstants == MaxSourceEdits \in Nat /\ MaxScratchFaults \in Nat

VARIABLES
  source,    \* the source file
  root,      \* the workspace directory: [exists, members]
  analysis,  \* analysis[a]: the object and its call
  cleaned,   \* history: the cleanup receipts that were handed out
  sourceEdits, scratchFaults

scratchVars == <<source, root, analysis, cleaned, sourceEdits, scratchFaults>>

NoRoot == [exists |-> FALSE, members |-> {}]
NewAnalysis == [step |-> "new", before |-> "none", receipt |-> "none"]

ScratchInit ==
  /\ source \in SourceVersions
  /\ root = NoRoot
  /\ analysis = [a \in Analyses |-> NewAnalysis]
  /\ cleaned = {}
  /\ sourceEdits = 0 /\ scratchFaults = 0

AnalysisAt(a, step) == analysis[a].step = step
AnalysisTo(a, step) == analysis' = [analysis EXCEPT ![a].step = step]

\* __enter__: mkdir refuses a directory that exists.
EnterWorkspace(a) ==
  /\ AnalysisAt(a, "new")
  /\ ~root.exists
  /\ root' = [NoRoot EXCEPT !.exists = TRUE]
  /\ AnalysisTo(a, "entered")
  /\ UNCHANGED <<source, cleaned, sourceEdits, scratchFaults>>

\* copy_input hashes the source,
HashBefore(a) ==
  /\ AnalysisAt(a, "entered") /\ root.exists /\ root.members = {}
  /\ analysis' = [analysis EXCEPT ![a].step = "copying", ![a].before = source]
  /\ UNCHANGED <<source, root, cleaned, sourceEdits, scratchFaults>>

\* copies it; a copy during which the source changes is of neither content,
CopySource(a) ==
  /\ AnalysisAt(a, "copying")
  /\ \E copied \in {source, "torn"} : root' = [root EXCEPT !.members = @ \cup {copied}]
  /\ AnalysisTo(a, "comparing")
  /\ UNCHANGED <<source, cleaned, sourceEdits, scratchFaults>>

\* Mutant: only the source is hashed again.
ComparedSourceOnly(before, after, copied) == before = after

\* before = after and copied = before
Compared(before, after, copied) == before = after /\ copied = before

\* hashes both again, and removes the copy if one differs.
CompareCopy(a) ==
  /\ AnalysisAt(a, "comparing")
  /\ root' = [root EXCEPT !.members = {m \in @ : Compared(analysis[a].before, source, m)}]
  /\ AnalysisTo(a, IF root'.members = {} THEN "entered" ELSE "ready")
  /\ UNCHANGED <<source, cleaned, sourceEdits, scratchFaults>>

\* write_analysis_bytes: derived files only, in namespaces of their own.
WriteReport(a) ==
  /\ AnalysisAt(a, "ready") /\ root.exists /\ "report" \notin root.members
  /\ root' = [root EXCEPT !.members = @ \cup {"report"}]
  /\ UNCHANGED <<source, analysis, cleaned, sourceEdits, scratchFaults>>

\* cleanup removes the tree; what it finds afterwards decides the receipt, which
\* every later call repeats.
CleanUp(a) ==
  /\ analysis[a].step \in {"entered", "ready", "comparing"}
  /\ \/ root' = NoRoot /\ UNCHANGED scratchFaults
     \/ /\ scratchFaults < MaxScratchFaults /\ scratchFaults' = scratchFaults + 1
        /\ \E left \in SUBSET root.members : root' = [root EXCEPT !.members = left]
  /\ LET state == IF root'.exists THEN "CLEANUP_FAILED" ELSE "CLEANED"
     IN  /\ analysis' = [analysis EXCEPT ![a].step = "cleaned", ![a].receipt = state]
         /\ cleaned' = cleaned \cup {[by |-> a, state |-> state, there |-> root'.exists]}
  /\ UNCHANGED <<source, sourceEdits>>

\* The analysis dies inside the with block.
AnalysisDies(a) ==
  /\ analysis[a].step \notin {"new", "cleaned", "dead"}
  /\ scratchFaults < MaxScratchFaults
  /\ scratchFaults' = scratchFaults + 1
  /\ AnalysisTo(a, "dead")
  /\ UNCHANGED <<source, root, cleaned, sourceEdits>>

\* The user clears what dead analyses left ("cleanup or change operation_id").
UserClears ==
  /\ root.exists
  /\ \A a \in Analyses : analysis[a].step \in {"new", "cleaned", "dead"}
  /\ root' = NoRoot
  /\ UNCHANGED <<source, analysis, cleaned, sourceEdits, scratchFaults>>

EditSource ==
  /\ sourceEdits < MaxSourceEdits
  /\ sourceEdits' = sourceEdits + 1
  /\ source' \in SourceVersions \ {source}
  /\ UNCHANGED <<root, analysis, cleaned, scratchFaults>>

ScratchNext ==
  \/ \E a \in Analyses :
       \/ EnterWorkspace(a) \/ HashBefore(a) \/ CopySource(a) \/ CompareCopy(a) \/ WriteReport(a)
       \/ CleanUp(a) \/ AnalysisDies(a)
  \/ UserClears \/ EditSource

ScratchSpec == ScratchInit /\ [][ScratchNext]_scratchVars

-----------------------------------------------------------------------------
(***************************************************************************)
(* Correctness.                                                            *)
(***************************************************************************)

Working(a) == analysis[a].step \notin {"new", "cleaned", "dead"}

\* One analysis at a time works in the directory, and what it was given to
\* analyse is the source as it was at the start of the copy, never a torn copy,
\* however the source changes.  (__enter__, copy_input)
CopiesTrue ==
  \A a \in Analyses :
    /\ \A b \in Analyses \ {a} : ~(Working(a) /\ Working(b))
    /\ AnalysisAt(a, "ready") => root.members \subseteq {analysis[a].before, "report"}

\* An analysis works alone on its project and in its directory, on a true copy of
\* its source, and returns an export that is the one it validated.
\* (ghidra_export_contract.py, ephemeral_workspace.py)
AnalysesTrue ==
  /\ OneWrapper
  /\ ExportTrue
  /\ CopiesTrue
=============================================================================
