--------------------------- MODULE WorkshopProofs ---------------------------
(***************************************************************************)
(* What TLAPS proves of GuardedBuild, GhidraExport, CandidatePlan and      *)
(* SourceEvidence, with the modules that they extend, for any number of    *)
(* builders, readers, wrappers, analyses, candidates, sources, markers,    *)
(* edits, crashes and faults.                                              *)
(***************************************************************************)
EXTENDS GuardedBuild, GhidraExport, CandidatePlan, SourceEvidence,
        TLAPS, FiniteSetTheorems, SequenceTheorems, WellFoundedInduction

-----------------------------------------------------------------------------
(***************************************************************************)
(* GhidraExport: one wrapper for a project, and true exports.              *)
(***************************************************************************)

ExportFiles == [by : Wrappers \cup {NoRun}, whole : BOOLEAN]

WrapperSteps == {"checks", "lock", "prepare", "launch", "running", "validate", "sweep", "unlock", "discard",
                 "promote", "compare", "raised", "returned", "dead"}

Runs == [step : WrapperSteps, valid : ExportFiles, failed : BOOLEAN, uncleaned : BOOLEAN]

Results == [by : Wrappers, valid : ExportFiles, stored : ExportFiles]

ExportTyped ==
  /\ projectOf \in [Wrappers -> Projects]
  /\ operationOf \in [Wrappers -> Operations]
  /\ wrapperLock \in [Projects -> Wrappers \cup {NoRun}]
  /\ work \in [Operations -> Wrappers \cup {NoRun}]
  /\ temporary \in ExportFiles
  /\ output \in ExportFiles
  /\ wrapper \in [Wrappers -> Runs]
  /\ exported \subseteq Results

\* A whole export of the project of w.
WholeFor(w, f) == f # Absent /\ f.whole /\ projectOf[f.by] = projectOf[w]

\* From its validation on, a run r that has not failed holds a whole export.
Validated(r) ==
  \/ r.step \in {"promote", "compare"}
  \/ r.step \in {"sweep", "unlock"} /\ ~r.failed

\* What the run r of w has to do with the lock of its project, made by held, the
\* workspace of its operation, made by scratch, and the temporary, written by by:
\* it has the lock while it works, and each of them is its own no longer than until
\* the step that removes it, unless that raised.
Owns(w, r, held, scratch, by) ==
  /\ r.step \in Holding => held = w
  /\ held = w => r.step \in Holding \cup {"dead"} \/ r.uncleaned
  /\ scratch = w => r.step \in {"launch", "running", "validate", "sweep", "dead"} \/ r.uncleaned
  /\ by = w => r.step \in {"running", "validate", "sweep", "unlock", "discard", "promote", "dead"} \/ r.uncleaned

ExportInv ==
  /\ ExportTyped
  /\ \A w \in Wrappers :
       /\ Owns(w, wrapper[w], wrapperLock[projectOf[w]], work[operationOf[w]], temporary.by)
       /\ Validated(wrapper[w]) => WholeFor(w, wrapper[w].valid)
  /\ ExportTrue

LEMMA ExportStarts == ExportInit => ExportInv
  <1> SUFFICES ASSUME ExportInit PROVE ExportInv
    OBVIOUS
  <1>1. Absent \in ExportFiles /\ Absent.by = NoRun
    BY DEF ExportFiles, Absent, Written
  <1>2. \A w \in Wrappers : /\ wrapper[w] \in Runs /\ wrapper[w].step = "checks"
                            /\ projectOf[w] \in Projects /\ operationOf[w] \in Operations
    BY <1>1 DEF ExportInit, WrapperSteps, Runs
  <1>3. ExportTyped
    BY <1>1, <1>2 DEF ExportInit, ExportTyped, Runs, WrapperSteps
  <1>4. \A w \in Wrappers : /\ wrapperLock[projectOf[w]] # w /\ work[operationOf[w]] # w
                            /\ temporary.by # w
    BY <1>1, <1>2, ExportConstants DEF ExportInit
  <1>5. ExportTrue
    BY DEF ExportInit, ExportTrue
  <1>6. QED
    BY <1>2, <1>3, <1>4, <1>5 DEF ExportInv, Owns, Holding, Validated

\* A step of one wrapper w, to the run r.  It makes or removes the lock of its
\* project only if that is its own, and makes no file in the name of another.
LEMMA WrapperKeeps ==
  ASSUME ExportInv, NEW w \in Wrappers, NEW r \in Runs,
         wrapper' = [wrapper EXCEPT ![w] = r], UNCHANGED requests,
         NEW held \in {w, NoRun, wrapperLock[projectOf[w]]}, wrapperLock' = [wrapperLock EXCEPT ![projectOf[w]] = held],
         held = wrapperLock[projectOf[w]] \/ wrapperLock[projectOf[w]] \in {w, NoRun},
         NEW scratch \in {w, NoRun, work[operationOf[w]]}, work' = [work EXCEPT ![operationOf[w]] = scratch],
         NEW file \in ExportFiles, temporary' = file, file.by \in {w, NoRun, temporary.by},
         output' \in ExportFiles,
         Owns(w, r, held, scratch, file.by),
         Validated(r) => WholeFor(w, r.valid),
         exported' \subseteq Results,
         \A e \in exported' \ exported : e.stored = e.valid /\ WholeFor(e.by, e.stored)
  PROVE  ExportInv'
  <1>1. /\ ExportTyped /\ projectOf' = projectOf
        /\ \A v \in Wrappers : /\ projectOf[v] \in Projects /\ projectOf'[v] = projectOf[v]
                               /\ operationOf[v] \in Operations /\ operationOf'[v] = operationOf[v]
                               /\ v # NoRun
                               /\ Owns(v, wrapper[v], wrapperLock[projectOf[v]], work[operationOf[v]], temporary.by)
                               /\ Validated(wrapper[v]) => WholeFor(v, wrapper[v].valid)
    BY ExportConstants DEF ExportInv, ExportTyped, requests
  <1>2. held \in Wrappers \cup {NoRun} /\ scratch \in Wrappers \cup {NoRun}
    BY <1>1 DEF ExportTyped
  <1>3. ExportTyped'
    BY <1>1, <1>2 DEF ExportTyped, requests
  <1>4. /\ wrapper'[w] = r /\ work'[operationOf[w]] = scratch /\ wrapperLock'[projectOf[w]] = held
        /\ \A v \in Wrappers \ {w} : wrapper'[v] = wrapper[v]
        /\ \A o \in Operations \ {operationOf[w]} : work'[o] = work[o]
        /\ \A j \in Projects \ {projectOf[w]} : wrapperLock'[j] = wrapperLock[j]
    BY <1>1 DEF ExportTyped
  <1>5. ASSUME NEW v \in Wrappers
        PROVE  Owns(v, wrapper'[v], wrapperLock'[projectOf'[v]], work'[operationOf'[v]], temporary'.by)
    <2>1. CASE v = w
      BY <1>1, <1>4, <2>1
    <2>2. CASE v # w
      <3>1. wrapper'[v] = wrapper[v] /\ Owns(v, wrapper[v], wrapperLock[projectOf[v]], work[operationOf[v]], temporary.by)
        BY <1>1, <1>4, <2>2
      <3>2. /\ wrapperLock[projectOf[v]] = v => wrapperLock'[projectOf[v]] = v
            /\ wrapperLock'[projectOf[v]] = v => wrapperLock[projectOf[v]] = v
        BY <1>1, <1>4, <2>2
      <3>3. work'[operationOf[v]] = v => work[operationOf[v]] = v
        BY <1>1, <1>4, <2>2
      <3>4. temporary'.by = v => temporary.by = v
        BY <1>1, <2>2
      <3>5. QED
        BY <1>1, <3>1, <3>2, <3>3, <3>4 DEF Owns
    <2>3. QED
      BY <2>1, <2>2
  <1>6. ASSUME NEW v \in Wrappers PROVE (Validated(wrapper[v]) => WholeFor(v, wrapper[v].valid))'
    <2>1. (WholeFor(v, wrapper[v].valid))' <=> WholeFor(v, wrapper'[v].valid)
      BY <1>1 DEF WholeFor
    <2>2. CASE v = w
      BY <1>4, <2>1, <2>2 DEF Validated
    <2>3. CASE v # w
      BY <1>1, <1>4, <2>1, <2>3 DEF Validated
    <2>4. QED
      BY <2>2, <2>3
  <1>7. ExportTrue'
    BY <1>1 DEF ExportInv, ExportTrue, WholeFor
  <1>8. QED
    BY <1>3, <1>5, <1>6, <1>7 DEF ExportInv

\* The same for a step that returns no result.
LEMMA WrapperMoves ==
  ASSUME ExportInv, NEW w \in Wrappers, NEW r \in Runs,
         wrapper' = [wrapper EXCEPT ![w] = r], UNCHANGED requests,
         NEW held \in {w, NoRun, wrapperLock[projectOf[w]]}, wrapperLock' = [wrapperLock EXCEPT ![projectOf[w]] = held],
         held = wrapperLock[projectOf[w]] \/ wrapperLock[projectOf[w]] \in {w, NoRun},
         NEW scratch \in {w, NoRun, work[operationOf[w]]}, work' = [work EXCEPT ![operationOf[w]] = scratch],
         NEW file \in ExportFiles, temporary' = file, file.by \in {w, NoRun, temporary.by},
         output' \in ExportFiles, exported' = exported,
         Owns(w, r, held, scratch, file.by),
         Validated(r) => WholeFor(w, r.valid)
  PROVE  ExportInv'
  <1>1. exported' \subseteq Results /\ exported' \ exported = {}
    BY DEF ExportInv, ExportTyped
  <1>2. QED
    BY <1>1, WrapperKeeps

\* The same for a step of the run alone, which leaves every file as it is.
LEMMA WrapperRuns ==
  ASSUME ExportInv, NEW w \in Wrappers, NEW r \in Runs,
         wrapper' = [wrapper EXCEPT ![w] = r], UNCHANGED <<requests, wrapperLock, work, temporary, output, exported>>,
         Owns(w, r, wrapperLock[projectOf[w]], work[operationOf[w]], temporary.by),
         Validated(r) => WholeFor(w, r.valid)
  PROVE  ExportInv'
  <1>1. /\ wrapperLock' = [wrapperLock EXCEPT ![projectOf[w]] = wrapperLock[projectOf[w]]]
        /\ work' = [work EXCEPT ![operationOf[w]] = work[operationOf[w]]]
        /\ temporary \in ExportFiles /\ output' \in ExportFiles
    BY DEF ExportInv, ExportTyped
  <1>2. UNCHANGED requests /\ temporary' = temporary /\ exported' = exported
    BY DEF requests
  <1>3. QED
    BY <1>1, <1>2, WrapperMoves

\* The runs that the steps leave behind.
LEMMA RunGoesTo ==
  ASSUME ExportTyped, NEW w \in Wrappers, NEW step \in WrapperSteps, WrapperTo(w, step)
  PROVE  \E r \in Runs : /\ wrapper' = [wrapper EXCEPT ![w] = r]
                         /\ r.step = step /\ r.valid = wrapper[w].valid /\ r.failed = wrapper[w].failed
                         /\ r.uncleaned = wrapper[w].uncleaned
  <1> DEFINE r == [wrapper[w] EXCEPT !.step = step]
  <1>1. r \in Runs /\ r.step = step /\ r.valid = wrapper[w].valid /\ r.failed = wrapper[w].failed
        /\ r.uncleaned = wrapper[w].uncleaned
    BY DEF ExportTyped, Runs
  <1>2. wrapper' = [wrapper EXCEPT ![w] = r]
    BY DEF ExportTyped, WrapperTo
  <1> HIDE DEF r
  <1>3. QED
    BY <1>1, <1>2

LEMMA RunFails ==
  ASSUME ExportTyped, NEW w \in Wrappers, WrapperFails(w)
  PROVE  \E r \in Runs : /\ wrapper' = [wrapper EXCEPT ![w] = r]
                         /\ r.step = "sweep" /\ r.failed /\ r.uncleaned = wrapper[w].uncleaned
  <1> DEFINE r == [wrapper[w] EXCEPT !.step = "sweep", !.failed = TRUE]
  <1>1. r \in Runs /\ r.step = "sweep" /\ r.failed /\ r.uncleaned = wrapper[w].uncleaned
    BY DEF ExportTyped, Runs, WrapperSteps
  <1>2. wrapper' = [wrapper EXCEPT ![w] = r]
    BY DEF ExportTyped, WrapperFails
  <1> HIDE DEF r
  <1>3. QED
    BY <1>1, <1>2

LEMMA RunUncleaned ==
  ASSUME ExportTyped, NEW w \in Wrappers, NEW step \in WrapperSteps, Uncleaned(w, step)
  PROVE  \E r \in Runs : /\ wrapper' = [wrapper EXCEPT ![w] = r]
                         /\ r.step = step /\ r.valid = wrapper[w].valid /\ r.failed = wrapper[w].failed
                         /\ r.uncleaned
  <1> DEFINE r == [wrapper[w] EXCEPT !.step = step, !.uncleaned = TRUE]
  <1>1. r \in Runs /\ r.step = step /\ r.valid = wrapper[w].valid /\ r.failed = wrapper[w].failed /\ r.uncleaned
    BY DEF ExportTyped, Runs
  <1>2. wrapper' = [wrapper EXCEPT ![w] = r]
    BY DEF ExportTyped, Uncleaned
  <1> HIDE DEF r
  <1>3. QED
    BY <1>1, <1>2

LEMMA ExportStep == ExportInv /\ [ExportNext]_exportVars => ExportInv'
  <1> SUFFICES ASSUME ExportInv, [ExportNext]_exportVars PROVE ExportInv'
    OBVIOUS
  <1> USE DEF WrapperAt
  <1>1. /\ ExportTyped /\ temporary \in ExportFiles /\ output \in ExportFiles
        /\ Absent \in ExportFiles /\ Absent.by = NoRun
        /\ \A w \in Wrappers : /\ w # NoRun
                               /\ Owns(w, wrapper[w], wrapperLock[projectOf[w]], work[operationOf[w]], temporary.by)
                               /\ Validated(wrapper[w]) => WholeFor(w, wrapper[w].valid)
                               /\ wrapper[w] \in Runs
                               /\ \A b \in BOOLEAN : Written(w, b) \in ExportFiles /\ Written(w, b).by = w
    BY ExportConstants DEF ExportInv, ExportTyped, ExportFiles, Absent, Written
  <1>2. \A w \in Wrappers : /\ wrapperLock = [wrapperLock EXCEPT ![projectOf[w]] = wrapperLock[projectOf[w]]]
                            /\ work = [work EXCEPT ![operationOf[w]] = work[operationOf[w]]]
    BY <1>1 DEF ExportTyped
  <1>3. \A step \in {"lock", "raised", "prepare", "launch", "running", "validate", "unlock", "discard",
                     "promote", "compare", "returned", "dead"} : step \in WrapperSteps
    BY DEF WrapperSteps
  <1>4. ASSUME NEW w \in Wrappers, CheckRequest(w) PROVE ExportInv'
    <2>1. PICK step \in {"lock", "raised"} : WrapperTo(w, step)
      BY <1>4 DEF CheckRequest
    <2>2. wrapper[w].step = "checks" /\ UNCHANGED <<requests, wrapperLock, work, temporary, output, exported>>
      BY <1>4 DEF CheckRequest
    <2>3. PICK r \in Runs : wrapper' = [wrapper EXCEPT ![w] = r] /\ r.step = step /\ r.uncleaned = wrapper[w].uncleaned
      BY <1>1, <1>3, <2>1, RunGoesTo
    <2>4. Owns(w, r, wrapperLock[projectOf[w]], work[operationOf[w]], temporary.by) /\ ~Validated(r)
      BY <1>1, <2>1, <2>2, <2>3 DEF Owns, Holding, Validated
    <2>5. QED
      BY <2>2, <2>3, <2>4, WrapperRuns
  <1>5. ASSUME NEW w \in Wrappers, LockProject(w) PROVE ExportInv'
    <2>1. wrapper[w].step = "lock" /\ UNCHANGED <<requests, work, temporary, output, exported>>
      BY <1>5 DEF LockProject
    <2>2. CASE wrapperLock[projectOf[w]] # NoRun
      <3>1. WrapperTo(w, "raised") /\ wrapperLock' = wrapperLock
        BY <1>5, <2>2 DEF LockProject
      <3>2. PICK r \in Runs : wrapper' = [wrapper EXCEPT ![w] = r] /\ r.step = "raised" /\ r.uncleaned = wrapper[w].uncleaned
        BY <1>1, <1>3, <3>1, RunGoesTo
      <3>3. Owns(w, r, wrapperLock[projectOf[w]], work[operationOf[w]], temporary.by) /\ ~Validated(r)
        BY <1>1, <2>1, <3>2 DEF Owns, Holding, Validated
      <3>4. QED
        BY <2>1, <3>1, <3>2, <3>3, WrapperRuns
    <2>3. CASE wrapperLock[projectOf[w]] = NoRun
      <3>1. WrapperTo(w, "prepare") /\ wrapperLock' = [wrapperLock EXCEPT ![projectOf[w]] = w]
        BY <1>5, <2>3 DEF LockProject
      <3>2. PICK r \in Runs : wrapper' = [wrapper EXCEPT ![w] = r] /\ r.step = "prepare" /\ r.uncleaned = wrapper[w].uncleaned
        BY <1>1, <1>3, <3>1, RunGoesTo
      <3>3. Owns(w, r, w, work[operationOf[w]], temporary.by) /\ ~Validated(r)
        BY <1>1, <2>1, <3>2 DEF Owns, Holding, Validated
      <3>4. QED
        BY <1>1, <1>2, <2>1, <2>3, <3>1, <3>2, <3>3, WrapperMoves
    <2>4. QED
      BY <2>2, <2>3
  <1>6. ASSUME NEW w \in Wrappers, Prepare(w) PROVE ExportInv'
    <2>1. wrapper[w].step = "prepare" /\ UNCHANGED <<requests, wrapperLock, temporary, output, exported>>
      BY <1>6 DEF Prepare
    <2>2. CASE work' = work /\ WrapperFails(w)
      <3>1. PICK r \in Runs : /\ wrapper' = [wrapper EXCEPT ![w] = r]
                              /\ r.step = "sweep" /\ r.failed /\ r.uncleaned = wrapper[w].uncleaned
        BY <1>1, <2>2, RunFails
      <3>2. Owns(w, r, wrapperLock[projectOf[w]], work[operationOf[w]], temporary.by) /\ ~Validated(r)
        BY <1>1, <2>1, <3>1 DEF Owns, Holding, Validated
      <3>3. QED
        BY <2>1, <2>2, <3>1, <3>2, WrapperRuns
    <2>3. CASE work' = [work EXCEPT ![operationOf[w]] = w] /\ WrapperTo(w, "launch")
      <3>1. PICK r \in Runs : wrapper' = [wrapper EXCEPT ![w] = r] /\ r.step = "launch" /\ r.uncleaned = wrapper[w].uncleaned
        BY <1>1, <1>3, <2>3, RunGoesTo
      <3>2. Owns(w, r, wrapperLock[projectOf[w]], w, temporary.by) /\ ~Validated(r)
        BY <1>1, <2>1, <3>1 DEF Owns, Holding, Validated
      <3>3. QED
        BY <1>1, <1>2, <2>1, <2>3, <3>1, <3>2, WrapperMoves
    <2>4. CASE work' = [work EXCEPT ![operationOf[w]] = w] /\ WrapperFails(w)
      <3>1. PICK r \in Runs : /\ wrapper' = [wrapper EXCEPT ![w] = r]
                              /\ r.step = "sweep" /\ r.failed /\ r.uncleaned = wrapper[w].uncleaned
        BY <1>1, <2>4, RunFails
      <3>2. Owns(w, r, wrapperLock[projectOf[w]], w, temporary.by) /\ ~Validated(r)
        BY <1>1, <2>1, <3>1 DEF Owns, Holding, Validated
      <3>3. QED
        BY <1>1, <1>2, <2>1, <2>4, <3>1, <3>2, WrapperMoves
    <2>5. QED
      BY <1>6, <2>2, <2>3, <2>4 DEF Prepare
  <1>7. ASSUME NEW w \in Wrappers, Launch(w) PROVE ExportInv'
    <2>1. wrapper[w].step = "launch" /\ UNCHANGED <<requests, wrapperLock, work, output, exported>>
      BY <1>7 DEF Launch
    <2>2. CASE temporary' = Written(w, FALSE) /\ WrapperTo(w, "running")
      <3>1. PICK r \in Runs : wrapper' = [wrapper EXCEPT ![w] = r] /\ r.step = "running" /\ r.uncleaned = wrapper[w].uncleaned
        BY <1>1, <1>3, <2>2, RunGoesTo
      <3>2. Owns(w, r, wrapperLock[projectOf[w]], work[operationOf[w]], Written(w, FALSE).by) /\ ~Validated(r)
        BY <1>1, <2>1, <3>1 DEF Owns, Holding, Validated
      <3>3. Written(w, FALSE) \in ExportFiles /\ Written(w, FALSE).by = w
        BY <1>1
      <3>4. QED
        BY <1>1, <1>2, <2>1, <2>2, <3>1, <3>2, <3>3, WrapperMoves
    <2>3. CASE WrapperFails(w) /\ temporary' = temporary
      <3>1. PICK r \in Runs : /\ wrapper' = [wrapper EXCEPT ![w] = r]
                              /\ r.step = "sweep" /\ r.failed /\ r.uncleaned = wrapper[w].uncleaned
        BY <1>1, <2>3, RunFails
      <3>2. Owns(w, r, wrapperLock[projectOf[w]], work[operationOf[w]], temporary.by) /\ ~Validated(r)
        BY <1>1, <2>1, <3>1 DEF Owns, Holding, Validated
      <3>3. QED
        BY <2>1, <2>3, <3>1, <3>2, WrapperRuns
    <2>4. QED
      BY <1>7, <2>2, <2>3 DEF Launch
  <1>8. ASSUME NEW w \in Wrappers, Finish(w) PROVE ExportInv'
    <2>1. wrapper[w].step = "running" /\ UNCHANGED <<requests, wrapperLock, work, output, exported>>
      BY <1>8 DEF Finish
    <2>2. CASE temporary' = Written(w, TRUE) /\ WrapperTo(w, "validate")
      <3>1. PICK r \in Runs : wrapper' = [wrapper EXCEPT ![w] = r] /\ r.step = "validate" /\ r.uncleaned = wrapper[w].uncleaned
        BY <1>1, <1>3, <2>2, RunGoesTo
      <3>2. Owns(w, r, wrapperLock[projectOf[w]], work[operationOf[w]], Written(w, TRUE).by) /\ ~Validated(r)
        BY <1>1, <2>1, <3>1 DEF Owns, Holding, Validated
      <3>3. Written(w, TRUE) \in ExportFiles /\ Written(w, TRUE).by = w
        BY <1>1
      <3>4. QED
        BY <1>1, <1>2, <2>1, <2>2, <3>1, <3>2, <3>3, WrapperMoves
    <2>3. CASE WrapperFails(w) /\ temporary' = temporary
      <3>1. PICK r \in Runs : /\ wrapper' = [wrapper EXCEPT ![w] = r]
                              /\ r.step = "sweep" /\ r.failed /\ r.uncleaned = wrapper[w].uncleaned
        BY <1>1, <2>3, RunFails
      <3>2. Owns(w, r, wrapperLock[projectOf[w]], work[operationOf[w]], temporary.by) /\ ~Validated(r)
        BY <1>1, <2>1, <3>1 DEF Owns, Holding, Validated
      <3>3. QED
        BY <2>1, <2>3, <3>1, <3>2, WrapperRuns
    <2>4. QED
      BY <1>8, <2>2, <2>3 DEF Finish
  <1>9. ASSUME NEW w \in Wrappers, Validate(w) PROVE ExportInv'
    <2>1. wrapper[w].step = "validate" /\ UNCHANGED <<requests, wrapperLock, work, temporary, output, exported>>
      BY <1>9 DEF Validate
    <2>2. PICK r \in Runs : /\ wrapper' = [wrapper EXCEPT ![w] = r]
                            /\ r.step = "sweep" /\ r.uncleaned = wrapper[w].uncleaned
                            /\ r.failed \/ WholeFor(w, r.valid)
      <3>1. CASE /\ WholeFor(w, temporary)
                 /\ wrapper' = [wrapper EXCEPT ![w].step = "sweep", ![w].valid = temporary]
        <4> DEFINE r == [wrapper[w] EXCEPT !.step = "sweep", !.valid = temporary]
        <4>0. wrapper[w] \in Runs /\ temporary \in ExportFiles
          BY <1>1
        <4>1. r \in Runs /\ r.step = "sweep" /\ r.uncleaned = wrapper[w].uncleaned /\ r.valid = temporary
          BY <4>0 DEF Runs, WrapperSteps
        <4>2. wrapper' = [wrapper EXCEPT ![w] = r]
          BY <1>1, <3>1 DEF ExportTyped
        <4> HIDE DEF r
        <4>3. QED
          BY <3>1, <4>1, <4>2
      <3>2. CASE WrapperFails(w)
        BY <1>1, <3>2, RunFails
      <3>3. QED
        BY <1>9, <3>1, <3>2 DEF Validate, WholeFor
    <2>3. Owns(w, r, wrapperLock[projectOf[w]], work[operationOf[w]], temporary.by)
      BY <1>1, <2>1, <2>2 DEF Owns, Holding
    <2>4. Validated(r) => WholeFor(w, r.valid)
      BY <2>2 DEF Validated
    <2>5. QED
      BY <2>1, <2>2, <2>3, <2>4, WrapperRuns
  <1>10. ASSUME NEW w \in Wrappers, SweepWork(w) PROVE ExportInv'
    <2>1. wrapper[w].step = "sweep" /\ UNCHANGED <<requests, wrapperLock, temporary, output, exported>>
      BY <1>10 DEF SweepWork
    <2>2. CASE work' = [work EXCEPT ![operationOf[w]] = NoRun] /\ WrapperTo(w, "unlock")
      <3>1. PICK r \in Runs : /\ wrapper' = [wrapper EXCEPT ![w] = r]
                              /\ r.step = "unlock" /\ r.valid = wrapper[w].valid /\ r.failed = wrapper[w].failed
                              /\ r.uncleaned = wrapper[w].uncleaned
        BY <1>1, <1>3, <2>2, RunGoesTo
      <3>2. Owns(w, r, wrapperLock[projectOf[w]], NoRun, temporary.by)
        BY <1>1, <2>1, <3>1 DEF Owns, Holding
      <3>3. Validated(r) => WholeFor(w, r.valid)
        BY <1>1, <2>1, <3>1 DEF Validated
      <3>4. QED
        BY <1>1, <1>2, <2>1, <2>2, <3>1, <3>2, <3>3, WrapperMoves
    <2>3. CASE work' = work /\ Uncleaned(w, "unlock")
      <3>1. PICK r \in Runs : /\ wrapper' = [wrapper EXCEPT ![w] = r]
                              /\ r.step = "unlock" /\ r.valid = wrapper[w].valid /\ r.failed = wrapper[w].failed
                              /\ r.uncleaned
        BY <1>1, <1>3, <2>3, RunUncleaned
      <3>2. Owns(w, r, wrapperLock[projectOf[w]], work[operationOf[w]], temporary.by)
        BY <1>1, <2>1, <3>1 DEF Owns, Holding
      <3>3. Validated(r) => WholeFor(w, r.valid)
        BY <1>1, <2>1, <3>1 DEF Validated
      <3>4. QED
        BY <2>1, <2>3, <3>1, <3>2, <3>3, WrapperRuns
    <2>4. QED
      BY <1>10, <2>2, <2>3 DEF SweepWork
  <1>11. ASSUME NEW w \in Wrappers, FreeProject(w) PROVE ExportInv'
    <2>1. /\ wrapper[w].step = "unlock" /\ UNCHANGED <<requests, work, temporary, output, exported>>
          /\ wrapperLock[projectOf[w]] = w
      BY <1>1, <1>11 DEF FreeProject, Owns, Holding
    <2>2. CASE /\ wrapperLock' = [wrapperLock EXCEPT ![projectOf[w]] = NoRun]
               /\ WrapperTo(w, IF wrapper[w].failed \/ wrapper[w].uncleaned THEN "discard" ELSE "promote")
      <3>1. PICK step \in {"discard", "promote"} : WrapperTo(w, step) /\ (step = "promote" => ~wrapper[w].failed)
        BY <2>2
      <3>2. PICK r \in Runs : /\ wrapper' = [wrapper EXCEPT ![w] = r]
                              /\ r.step = step /\ r.valid = wrapper[w].valid
                              /\ r.uncleaned = wrapper[w].uncleaned
        BY <1>1, <1>3, <3>1, RunGoesTo
      <3>3. Owns(w, r, NoRun, work[operationOf[w]], temporary.by)
        BY <1>1, <2>1, <3>1, <3>2 DEF Owns, Holding
      <3>4. Validated(r) => WholeFor(w, r.valid)
        BY <1>1, <2>1, <3>1, <3>2 DEF Validated
      <3>5. QED
        BY <1>1, <1>2, <2>1, <2>2, <3>2, <3>3, <3>4, WrapperMoves
    <2>3. CASE wrapperLock' = wrapperLock /\ Uncleaned(w, "discard")
      <3>1. PICK r \in Runs : wrapper' = [wrapper EXCEPT ![w] = r] /\ r.step = "discard" /\ r.uncleaned
        BY <1>1, <1>3, <2>3, RunUncleaned
      <3>2. Owns(w, r, wrapperLock[projectOf[w]], work[operationOf[w]], temporary.by) /\ ~Validated(r)
        BY <1>1, <2>1, <3>1 DEF Owns, Holding, Validated
      <3>3. QED
        BY <2>1, <2>3, <3>1, <3>2, WrapperRuns
    <2>4. QED
      BY <1>11, <2>2, <2>3 DEF FreeProject
  <1>12. ASSUME NEW w \in Wrappers, DiscardExport(w) PROVE ExportInv'
    <2>1. wrapper[w].step = "discard" /\ UNCHANGED <<requests, wrapperLock, work, output, exported>>
      BY <1>12 DEF DiscardExport
    <2>2. CASE temporary' = Absent /\ WrapperTo(w, "raised")
      <3>1. PICK r \in Runs : wrapper' = [wrapper EXCEPT ![w] = r] /\ r.step = "raised" /\ r.uncleaned = wrapper[w].uncleaned
        BY <1>1, <1>3, <2>2, RunGoesTo
      <3>2. Owns(w, r, wrapperLock[projectOf[w]], work[operationOf[w]], NoRun) /\ ~Validated(r)
        BY <1>1, <2>1, <3>1 DEF Owns, Holding, Validated
      <3>3. QED
        BY <1>1, <1>2, <2>1, <2>2, <3>1, <3>2, WrapperMoves
    <2>3. CASE temporary' = temporary /\ Uncleaned(w, "raised")
      <3>1. PICK r \in Runs : wrapper' = [wrapper EXCEPT ![w] = r] /\ r.step = "raised" /\ r.uncleaned
        BY <1>1, <1>3, <2>3, RunUncleaned
      <3>2. Owns(w, r, wrapperLock[projectOf[w]], work[operationOf[w]], temporary.by) /\ ~Validated(r)
        BY <1>1, <2>1, <3>1 DEF Owns, Holding, Validated
      <3>3. QED
        BY <2>1, <2>3, <3>1, <3>2, WrapperRuns
    <2>4. QED
      BY <1>12, <2>2, <2>3 DEF DiscardExport
  <1>13. ASSUME NEW w \in Wrappers, PromoteExport(w) PROVE ExportInv'
    <2>1. wrapper[w].step = "promote" /\ UNCHANGED <<requests, wrapperLock, work, exported>> /\ output' \in ExportFiles
      BY <1>1, <1>13 DEF PromoteExport
    <2>2. CASE temporary' = Absent /\ (WrapperTo(w, "compare") \/ WrapperTo(w, "raised"))
      <3>1. PICK step \in {"compare", "raised"} : WrapperTo(w, step)
        BY <2>2
      <3>2. PICK r \in Runs : /\ wrapper' = [wrapper EXCEPT ![w] = r]
                              /\ r.step = step /\ r.valid = wrapper[w].valid
                              /\ r.uncleaned = wrapper[w].uncleaned
        BY <1>1, <1>3, <3>1, RunGoesTo
      <3>3. Owns(w, r, wrapperLock[projectOf[w]], work[operationOf[w]], NoRun)
        BY <1>1, <2>1, <3>1, <3>2 DEF Owns, Holding
      <3>4. Validated(r) => WholeFor(w, r.valid)
        BY <1>1, <2>1, <3>1, <3>2 DEF Validated
      <3>5. QED
        BY <1>1, <1>2, <2>1, <2>2, <3>2, <3>3, <3>4, WrapperMoves
    <2>3. CASE temporary' = temporary /\ output' = output /\ Uncleaned(w, "raised")
      <3>1. PICK r \in Runs : wrapper' = [wrapper EXCEPT ![w] = r] /\ r.step = "raised" /\ r.uncleaned
        BY <1>1, <1>3, <2>3, RunUncleaned
      <3>2. Owns(w, r, wrapperLock[projectOf[w]], work[operationOf[w]], temporary.by) /\ ~Validated(r)
        BY <1>1, <2>1, <3>1 DEF Owns, Holding, Validated
      <3>3. QED
        BY <2>1, <2>3, <3>1, <3>2, WrapperRuns
    <2>4. QED
      BY <1>13, <2>2, <2>3 DEF PromoteExport
  <1>14. ASSUME NEW w \in Wrappers, CompareExport(w) PROVE ExportInv'
    <2>1. /\ wrapper[w].step = "compare" /\ WholeFor(w, wrapper[w].valid)
          /\ UNCHANGED <<requests, wrapperLock, work, temporary>> /\ output' \in ExportFiles
      BY <1>1, <1>14 DEF CompareExport, Validated
    <2>2. PICK step \in {"raised", "returned"} : WrapperTo(w, step)
      BY <1>14 DEF CompareExport
    <2>3. PICK r \in Runs : /\ wrapper' = [wrapper EXCEPT ![w] = r] /\ r.step = step
                            /\ r.uncleaned = wrapper[w].uncleaned
      BY <1>1, <1>3, <2>2, RunGoesTo
    <2>4. Owns(w, r, wrapperLock[projectOf[w]], work[operationOf[w]], temporary.by) /\ ~Validated(r)
      BY <1>1, <2>1, <2>2, <2>3 DEF Owns, Holding, Validated
    <2>5. /\ exported' \subseteq Results
          /\ \A e \in exported' \ exported : e.stored = e.valid /\ WholeFor(e.by, e.stored)
      <3>1. CASE Durable(w) /\ exported' = exported \cup {[by |-> w, valid |-> wrapper[w].valid, stored |-> output]}
        <4> DEFINE e == [by |-> w, valid |-> wrapper[w].valid, stored |-> output]
        <4>1. exported' = exported \cup {e}
          BY <3>1
        <4>2. e \in Results /\ e.by = w /\ e.stored = e.valid /\ e.stored = wrapper[w].valid
          BY <1>1, <3>1 DEF Durable, Results, Runs
        <4> HIDE DEF e
        <4>3. exported' \subseteq Results
          BY <1>1, <4>1, <4>2 DEF ExportTyped
        <4>4. QED
          BY <1>1, <2>1, <4>1, <4>2, <4>3
      <3>2. CASE exported' = exported
        BY <1>1, <3>2 DEF ExportTyped
      <3>3. QED
        BY <1>14, <3>1, <3>2 DEF CompareExport
    <2>6. QED
      BY <1>1, <1>2, <2>1, <2>3, <2>4, <2>5, WrapperKeeps
  <1>15. ASSUME NEW w \in Wrappers, WrapperDies(w) PROVE ExportInv'
    <2>1. /\ WrapperTo(w, "dead") /\ wrapper[w].step \notin {"checks", "raised", "returned", "dead"}
          /\ UNCHANGED <<requests, wrapperLock, work, temporary, output, exported>>
      BY <1>15 DEF WrapperDies
    <2>2. PICK r \in Runs : wrapper' = [wrapper EXCEPT ![w] = r] /\ r.step = "dead" /\ r.uncleaned = wrapper[w].uncleaned
      BY <1>1, <1>3, <2>1, RunGoesTo
    <2>3. Owns(w, r, wrapperLock[projectOf[w]], work[operationOf[w]], temporary.by) /\ ~Validated(r)
      BY <1>1, <2>1, <2>2 DEF Owns, Holding, Validated
    <2>4. QED
      BY <2>1, <2>2, <2>3, WrapperRuns
  <1>16. ASSUME InputDrifts \/ UNCHANGED exportVars PROVE ExportInv'
    <2>1. UNCHANGED <<projectOf, operationOf, wrapperLock, work, temporary, output, wrapper, exported>>
      BY <1>16 DEF InputDrifts, exportVars, requests
    <2>2. ExportTyped' /\ ExportTrue'
      BY <2>1 DEF ExportInv, ExportTyped, ExportTrue
    <2>3. QED
      BY <2>1, <2>2 DEF ExportInv, Validated, WholeFor
  <1>17. QED
    BY <1>4, <1>5, <1>6, <1>7, <1>8, <1>9, <1>10, <1>11, <1>12, <1>13, <1>14, <1>15, <1>16 DEF ExportNext

\* The two promises of the export follow from the invariant.
LEMMA ExportPromises == ExportInv => OneWrapper /\ ExportTrue
  BY DEF ExportInv, OneWrapper, Owns, Holding

\* Two wrappers never work on one project, and a result is returned only for the
\* validated, whole export.  (wrapper_lock, os.replace, durable_hash)
LEMMA ExportsStayTrue == ExportSpec => [](OneWrapper /\ ExportTrue)
  <1>1. ExportInit => ExportInv
    BY ExportStarts
  <1>2. ExportInv /\ [ExportNext]_exportVars => ExportInv'
    BY ExportStep
  <1>3. QED
    BY <1>1, <1>2, ExportPromises, PTL DEF ExportSpec

-----------------------------------------------------------------------------
(***************************************************************************)
(* Scratch workspaces: one analysis at a time, on a true copy.             *)
(***************************************************************************)

CopiedFiles == SourceVersions \cup {"torn", "report"}

AnalysisSteps == {"new", "entered", "copying", "comparing", "ready", "cleaned", "dead"}

AnalysisCalls == [step : AnalysisSteps, before : SourceVersions \cup {"none"},
                  receipt : {"none", "CLEANED", "CLEANUP_FAILED"}]

ScratchTyped ==
  /\ source \in SourceVersions
  /\ root \in [exists : BOOLEAN, members : SUBSET CopiedFiles]
  /\ analysis \in [Analyses -> AnalysisCalls]

\* Who works has the directory, alone.
WorksAlone(a) == Working(a) => root.exists /\ \A b \in Analyses \ {a} : ~Working(b)

TrueCopy(a) == AnalysisAt(a, "ready") => root.members \subseteq {analysis[a].before, "report"}

ScratchInv ==
  /\ ScratchTyped
  /\ \A a \in Analyses : WorksAlone(a) /\ TrueCopy(a)

LEMMA ScratchStarts == ScratchInit => ScratchInv
  <1> SUFFICES ASSUME ScratchInit PROVE ScratchInv
    OBVIOUS
  <1>1. ScratchTyped
    BY DEF ScratchInit, ScratchTyped, NoRoot, NewAnalysis, AnalysisCalls, AnalysisSteps
  <1>2. \A a \in Analyses : analysis[a].step = "new"
    BY DEF ScratchInit, NewAnalysis
  <1>3. QED
    BY <1>1, <1>2 DEF ScratchInv, WorksAlone, TrueCopy, Working, AnalysisAt

\* A step of the one analysis at work, or of one that finds the directory free.
LEMMA AnalysisKeeps ==
  ASSUME ScratchInv, NEW a \in Analyses, NEW r \in AnalysisCalls, analysis' = [analysis EXCEPT ![a] = r],
         source' \in SourceVersions, root' \in [exists : BOOLEAN, members : SUBSET CopiedFiles],
         Working(a) \/ ~root.exists,
         r.step \notin {"new", "cleaned", "dead"} => root'.exists,
         r.step = "ready" => root'.members \subseteq {r.before, "report"}
  PROVE  ScratchInv'
  <1>1. /\ ScratchTyped
        /\ \A b \in Analyses : WorksAlone(b) /\ TrueCopy(b)
    BY DEF ScratchInv
  <1>2. /\ analysis'[a] = r
        /\ \A b \in Analyses \ {a} : analysis'[b] = analysis[b]
        /\ ScratchTyped'
    BY <1>1 DEF ScratchTyped
  <1>3. \A b \in Analyses \ {a} : ~Working(b)
    BY <1>1 DEF WorksAlone
  <1>4. \A b \in Analyses \ {a} : analysis'[b].step \in {"new", "cleaned", "dead"}
    BY <1>2, <1>3 DEF Working
  <1>5. \A b \in Analyses : WorksAlone(b)'
    BY <1>2, <1>4 DEF WorksAlone, Working
  <1>6. \A b \in Analyses : TrueCopy(b)'
    BY <1>2, <1>4 DEF TrueCopy, AnalysisAt
  <1>7. QED
    BY <1>2, <1>5, <1>6 DEF ScratchInv

LEMMA ScratchStep == ScratchInv /\ [ScratchNext]_scratchVars => ScratchInv'
  <1> SUFFICES ASSUME ScratchInv, [ScratchNext]_scratchVars PROVE ScratchInv'
    OBVIOUS
  <1> USE DEF AnalysisAt
  <1>1. /\ ScratchTyped /\ source \in SourceVersions
        /\ root \in [exists : BOOLEAN, members : SUBSET CopiedFiles]
        /\ NoRoot \in [exists : BOOLEAN, members : SUBSET CopiedFiles]
        /\ \A a \in Analyses : analysis[a] \in AnalysisCalls /\ WorksAlone(a) /\ TrueCopy(a)
    BY DEF ScratchInv, ScratchTyped, NoRoot
  \* The call of a, moved to another step.
  <1>2. ASSUME NEW a \in Analyses, NEW step \in AnalysisSteps, analysis' = [analysis EXCEPT ![a].step = step]
        PROVE  \E r \in AnalysisCalls : /\ analysis' = [analysis EXCEPT ![a] = r]
                                        /\ r.step = step /\ r.before = analysis[a].before
    <2> DEFINE r == [analysis[a] EXCEPT !.step = step]
    <2>1. r \in AnalysisCalls /\ r.step = step /\ r.before = analysis[a].before
      BY <1>1 DEF AnalysisCalls
    <2>2. analysis' = [analysis EXCEPT ![a] = r]
      BY <1>1, <1>2 DEF ScratchTyped
    <2>3. QED
      BY <2>1, <2>2
  <1>3. ASSUME NEW a \in Analyses, EnterWorkspace(a) PROVE ScratchInv'
    <2>1. /\ ~root.exists /\ source' = source /\ "entered" \in AnalysisSteps
          /\ analysis' = [analysis EXCEPT ![a].step = "entered"]
      BY <1>3 DEF EnterWorkspace, AnalysisTo, AnalysisSteps
    <2>2. root' \in [exists : BOOLEAN, members : SUBSET CopiedFiles] /\ root'.exists
      BY <1>1, <1>3 DEF EnterWorkspace, NoRoot
    <2>3. PICK r \in AnalysisCalls : /\ analysis' = [analysis EXCEPT ![a] = r]
                                     /\ r.step = "entered" /\ r.before = analysis[a].before
      BY <1>2, <2>1
    <2>4. QED
      BY <1>1, <2>1, <2>2, <2>3, AnalysisKeeps
  <1>4. ASSUME NEW a \in Analyses, HashBefore(a) PROVE ScratchInv'
    <2> DEFINE r == [analysis[a] EXCEPT !.step = "copying", !.before = source]
    <2>1. /\ analysis[a].step = "entered" /\ UNCHANGED <<source, root>>
          /\ analysis' = [analysis EXCEPT ![a].step = "copying", ![a].before = source]
      BY <1>4 DEF HashBefore
    <2>2. r \in AnalysisCalls /\ r.step = "copying"
      BY <1>1 DEF AnalysisCalls, AnalysisSteps
    <2>3. analysis' = [analysis EXCEPT ![a] = r]
      BY <1>1, <2>1 DEF ScratchTyped
    <2> HIDE DEF r
    <2>4. Working(a) /\ root.exists
      BY <1>1, <2>1 DEF WorksAlone, Working
    <2>5. QED
      BY <1>1, <2>1, <2>2, <2>3, <2>4, AnalysisKeeps
  <1>5. ASSUME NEW a \in Analyses, CopySource(a) PROVE ScratchInv'
    <2>1. /\ analysis[a].step = "copying" /\ source' = source /\ "comparing" \in AnalysisSteps
          /\ analysis' = [analysis EXCEPT ![a].step = "comparing"]
      BY <1>5 DEF CopySource, AnalysisTo, AnalysisSteps
    <2>2. Working(a) /\ root.exists
      BY <1>1, <2>1 DEF WorksAlone, Working
    <2>3. root' \in [exists : BOOLEAN, members : SUBSET CopiedFiles] /\ root'.exists
      <3>1. PICK copied \in {source, "torn"} : root' = [root EXCEPT !.members = @ \cup {copied}]
        BY <1>5 DEF CopySource
      <3>2. copied \in CopiedFiles
        BY <1>1 DEF CopiedFiles
      <3>3. QED
        BY <1>1, <2>2, <3>1, <3>2
    <2>4. PICK r \in AnalysisCalls : /\ analysis' = [analysis EXCEPT ![a] = r]
                                     /\ r.step = "comparing" /\ r.before = analysis[a].before
      BY <1>2, <2>1
    <2>5. QED
      BY <1>1, <2>1, <2>2, <2>3, <2>4, AnalysisKeeps
  <1>6. ASSUME NEW a \in Analyses, CompareCopy(a) PROVE ScratchInv'
    <2>1. analysis[a].step = "comparing" /\ source' = source
      BY <1>6 DEF CompareCopy
    <2>2. Working(a) /\ root.exists
      BY <1>1, <2>1 DEF WorksAlone, Working
    <2>3. /\ root' \in [exists : BOOLEAN, members : SUBSET CopiedFiles] /\ root'.exists
          /\ root'.members \subseteq {analysis[a].before}
      BY <1>1, <1>6, <2>2 DEF CompareCopy, Compared
    <2>4. PICK step \in {"entered", "ready"} : analysis' = [analysis EXCEPT ![a].step = step]
      BY <1>6 DEF CompareCopy, AnalysisTo
    <2>5. step \in AnalysisSteps
      BY DEF AnalysisSteps
    <2>6. PICK r \in AnalysisCalls : /\ analysis' = [analysis EXCEPT ![a] = r]
                                     /\ r.step = step /\ r.before = analysis[a].before
      BY <1>2, <2>4, <2>5
    <2>7. root'.members \subseteq {r.before, "report"}
      BY <2>3, <2>6
    <2>8. QED
      BY <1>1, <2>1, <2>2, <2>3, <2>6, <2>7, AnalysisKeeps
  <1>7. ASSUME NEW a \in Analyses, WriteReport(a) PROVE ScratchInv'
    <2>1. /\ analysis[a].step = "ready" /\ UNCHANGED <<source, analysis>> /\ root.exists
          /\ root' = [root EXCEPT !.members = @ \cup {"report"}]
      BY <1>7 DEF WriteReport
    <2>2. Working(a) /\ analysis' = [analysis EXCEPT ![a] = analysis[a]]
      BY <1>1, <2>1 DEF Working, ScratchTyped
    <2>3. root' \in [exists : BOOLEAN, members : SUBSET CopiedFiles] /\ root'.exists
      BY <1>1, <2>1 DEF CopiedFiles
    <2>4. root'.members \subseteq {analysis[a].before, "report"}
      BY <1>1, <2>1 DEF TrueCopy
    <2>5. QED
      BY <1>1, <2>1, <2>2, <2>3, <2>4, AnalysisKeeps
  <1>8. ASSUME NEW a \in Analyses, CleanUp(a) PROVE ScratchInv'
    <2>1. analysis[a].step \in {"entered", "ready", "comparing"} /\ source' = source
      BY <1>8 DEF CleanUp
    <2>2. Working(a)
      BY <2>1 DEF Working
    <2>3. root' \in [exists : BOOLEAN, members : SUBSET CopiedFiles]
      <3>1. CASE root' = NoRoot
        BY <1>1, <3>1
      <3>2. CASE \E left \in SUBSET root.members : root' = [root EXCEPT !.members = left]
        BY <1>1, <3>2
      <3>3. QED
        BY <1>8, <3>1, <3>2 DEF CleanUp
    <2>4. PICK state \in {"CLEANUP_FAILED", "CLEANED"} :
            analysis' = [analysis EXCEPT ![a].step = "cleaned", ![a].receipt = state]
      BY <1>8 DEF CleanUp
    <2> DEFINE r == [analysis[a] EXCEPT !.step = "cleaned", !.receipt = state]
    <2>5. r \in AnalysisCalls /\ r.step = "cleaned"
      BY <1>1 DEF AnalysisCalls, AnalysisSteps
    <2>6. analysis' = [analysis EXCEPT ![a] = r]
      BY <1>1, <2>4 DEF ScratchTyped
    <2> HIDE DEF r
    <2>7. QED
      BY <1>1, <2>1, <2>2, <2>3, <2>5, <2>6, AnalysisKeeps
  <1>9. ASSUME NEW a \in Analyses, AnalysisDies(a) PROVE ScratchInv'
    <2>1. /\ Working(a) /\ UNCHANGED <<source, root>> /\ "dead" \in AnalysisSteps
          /\ analysis' = [analysis EXCEPT ![a].step = "dead"]
      BY <1>9 DEF AnalysisDies, AnalysisTo, Working, AnalysisSteps
    <2>2. PICK r \in AnalysisCalls : /\ analysis' = [analysis EXCEPT ![a] = r]
                                     /\ r.step = "dead" /\ r.before = analysis[a].before
      BY <1>2, <2>1
    <2>3. QED
      BY <1>1, <2>1, <2>2, AnalysisKeeps
  <1>10. ASSUME UserClears PROVE ScratchInv'
    <2>1. root' = NoRoot /\ UNCHANGED <<source, analysis>> /\ \A a \in Analyses : ~Working(a)
      BY <1>10 DEF UserClears, Working
    <2>2. \A a \in Analyses : analysis'[a].step \in {"new", "cleaned", "dead"}
      BY <2>1 DEF Working
    <2>3. \A a \in Analyses : WorksAlone(a)' /\ TrueCopy(a)'
      BY <2>2 DEF WorksAlone, TrueCopy, Working
    <2>4. QED
      BY <1>1, <2>1, <2>3 DEF ScratchInv, ScratchTyped
  <1>11. ASSUME EditSource \/ UNCHANGED scratchVars PROVE ScratchInv'
    <2>1. UNCHANGED <<root, analysis>> /\ source' \in SourceVersions
      BY <1>1, <1>11 DEF EditSource, scratchVars
    <2>2. QED
      BY <1>1, <2>1 DEF ScratchInv, ScratchTyped, WorksAlone, TrueCopy, Working
  <1>12. QED
    BY <1>3, <1>4, <1>5, <1>6, <1>7, <1>8, <1>9, <1>10, <1>11 DEF ScratchNext

LEMMA ScratchPromise == ScratchInv => CopiesTrue
  BY DEF ScratchInv, WorksAlone, TrueCopy, CopiesTrue

\* One analysis at a time works in the directory, on the source as it was at the
\* start of its copy.  (__enter__, copy_input)
LEMMA CopiesStayTrue == ScratchSpec => []CopiesTrue
  <1>1. ScratchInit => ScratchInv
    BY ScratchStarts
  <1>2. ScratchInv /\ [ScratchNext]_scratchVars => ScratchInv'
    BY ScratchStep
  <1>3. QED
    BY <1>1, <1>2, ScratchPromise, PTL DEF ScratchSpec

\* An analysis works alone on its project and in its directory, on a true copy of
\* its source, and returns an export that is the one it validated.
\* (ghidra_export_contract.py, ephemeral_workspace.py)
THEOREM AnalysesStayTrue == ExportSpec /\ ScratchSpec => []AnalysesTrue
  <1>1. OneWrapper /\ ExportTrue /\ CopiesTrue => AnalysesTrue
    BY DEF AnalysesTrue
  <1>2. QED
    BY <1>1, ExportsStayTrue, CopiesStayTrue, PTL

-----------------------------------------------------------------------------
(***************************************************************************)
(* GuardedBuild: receipts of the declared inputs, and clean failures.      *)
(***************************************************************************)

Paks == [spec : BuildSpecs \cup {"none", "partial"}, from : InputVersions \cup {"none", "partial"}]

Stagings == [exists : BOOLEAN, debris : BOOLEAN, folder : BOOLEAN, pak : Paks]

LaneSteps == {"idle", "clear", "mkdir", "freeze", "folder", "pak", "hash", "inspect", "built", "failed", "uncleared"}

LaneStates == [step : LaneSteps, digest : Paks, disturbed : BOOLEAN]

Builds == [mode : {"none", "single", "double"}, spec : BuildSpecs \cup {"none"},
           step : {"idle", "freeze", "lanes"}, frozen : InputVersions \cup {"none"}]

BuildTyped ==
  /\ inputs \in InputVersions
  /\ staging \in [Transactions -> Stagings]
  /\ builder \in [Builders -> Builds]
  /\ lane \in [Builders -> [Transactions -> LaneStates]]

\* What a staging directory holds while its PAK is written, and afterwards.
Opened == [EmptyStaging EXCEPT !.folder = TRUE, !.pak = PartialPak]
Finished(s) == [EmptyStaging EXCEPT !.folder = TRUE, !.pak = Pak(s, DeclaredInputs(s))]

\* The thread l of build b has the inputs that b declares, once it needs them;
\* while no other build disturbs it, the staging directory d holds what it did.
LaneHolds(l, b, d) ==
  /\ l.step \in {"folder", "pak", "hash", "inspect", "built"} => b.frozen = DeclaredInputs(b.spec)
  /\ ~l.disturbed =>
       /\ l.step = "mkdir" => d = NoStaging
       /\ l.step \in {"freeze", "folder"} => d = EmptyStaging
       /\ l.step = "pak" => d = Opened
       /\ l.step \in {"hash", "inspect", "built"} => d = Finished(b.spec)
       /\ l.step \in {"inspect", "built"} => l.digest = Pak(b.spec, DeclaredInputs(b.spec))
       /\ l.step = "failed" => d \in {NoStaging, EmptyStaging}

Waiting(l) == l.step \in {"idle", "clear"}

\* A build whose threads do not run yet has none in a staging directory; a double
\* build has frozen its inputs before they run.
BuildHolds(p) ==
  /\ builder[p].step # "lanes" => \A x \in Transactions : Waiting(lane[p][x])
  /\ builder[p].step # "idle" =>
       /\ builder[p].spec \in BuildSpecs
       /\ builder[p].mode \in {"single", "double"}
  /\ builder[p].step = "lanes" /\ builder[p].mode = "double" =>
       builder[p].frozen = DeclaredInputs(builder[p].spec)

BuildInv ==
  /\ BuildTyped
  /\ \A p \in Builders : BuildHolds(p) /\ \A x \in Transactions : LaneHolds(lane[p][x], builder[p], staging[x])
  /\ ReceiptTrue

LEMMA StagingsTyped ==
  /\ NoPak \in Paks /\ PartialPak \in Paks
  /\ NoStaging \in Stagings /\ EmptyStaging \in Stagings /\ Opened \in Stagings
  /\ EmptyStaging.exists /\ ~NoStaging.exists /\ Opened.exists
  /\ ~EmptyStaging.folder /\ Opened.folder
  /\ IdleLane \in LaneStates /\ Waiting(IdleLane)
  /\ IdleBuild \in Builds /\ IdleBuild.step = "idle"
  <1>1. NoPak \in Paks /\ PartialPak \in Paks
    BY DEF NoPak, PartialPak, Pak, Paks
  <1>2. NoStaging \in Stagings /\ ~NoStaging.exists /\ ~NoStaging.folder
    BY <1>1 DEF NoStaging, Stagings
  <1>3. EmptyStaging \in Stagings /\ EmptyStaging.exists /\ ~EmptyStaging.folder
    BY <1>2 DEF EmptyStaging, Stagings
  <1>4. Opened \in Stagings /\ Opened.exists /\ Opened.folder
    BY <1>1, <1>3 DEF Opened, Stagings
  <1>5. IdleLane \in LaneStates /\ Waiting(IdleLane) /\ IdleBuild \in Builds /\ IdleBuild.step = "idle"
    BY <1>1 DEF IdleLane, LaneStates, LaneSteps, Waiting, IdleBuild, Builds
  <1>6. QED
    BY <1>1, <1>2, <1>3, <1>4, <1>5

LEMMA FinishedTyped ==
  ASSUME NEW s \in BuildSpecs
  PROVE  /\ Pak(s, DeclaredInputs(s)) \in Paks /\ Finished(s) \in Stagings
         /\ Finished(s).exists /\ Finished(s).folder /\ Finished(s).pak = Pak(s, DeclaredInputs(s))
  <1>1. Pak(s, DeclaredInputs(s)) \in Paks
    BY BuildConstants DEF Pak, Paks, DeclaredInputs
  <1>2. QED
    BY <1>1, StagingsTyped DEF Finished, Stagings

\* A thread that waits holds nothing.
LEMMA WaitingHolds == \A l, b, d : Waiting(l) => LaneHolds(l, b, d)
  BY DEF Waiting, LaneHolds

LEMMA BuildStarts == BuildInit => BuildInv
  <1> SUFFICES ASSUME BuildInit PROVE BuildInv
    OBVIOUS
  <1>1. [EmptyStaging EXCEPT !.debris = TRUE] \in Stagings
    BY StagingsTyped DEF Stagings
  <1>2. BuildTyped
    BY <1>1, StagingsTyped DEF BuildInit, BuildTyped
  <1>3. \A p \in Builders : builder[p] = IdleBuild /\ \A x \in Transactions : lane[p][x] = IdleLane
    BY DEF BuildInit
  <1>4. \A p \in Builders : BuildHolds(p) /\ \A x \in Transactions : LaneHolds(lane[p][x], builder[p], staging[x])
    BY <1>3, StagingsTyped, WaitingHolds DEF BuildHolds
  <1>5. ReceiptTrue
    BY DEF BuildInit, ReceiptTrue
  <1>6. QED
    BY <1>2, <1>4, <1>5 DEF BuildInv

\* A thread that goes on disturbs the others in its directory.
LEMMA LaneMoves ==
  ASSUME BuildTyped, NEW p \in Builders, NEW x \in Transactions, NEW step \in LaneSteps, NEW digest \in Paks,
         MoveLane(p, x, step, digest)
  PROVE  /\ lane' \in [Builders -> [Transactions -> LaneStates]]
         /\ lane'[p][x].step = step /\ lane'[p][x].digest = digest
         /\ lane'[p][x].disturbed = lane[p][x].disturbed
         /\ \A y \in Transactions \ {x} : \A q \in Builders : lane'[q][y] = lane[q][y]
         /\ \A q \in Builders \ {p} : /\ lane'[q][x].step = lane[q][x].step
                                      /\ lane'[q][x].disturbed \/ Waiting(lane[q][x])
  <1>1. \A q \in Builders : lane[q] \in [Transactions -> LaneStates] /\ lane[q][x] \in LaneStates
    BY DEF BuildTyped
  <1>2. ASSUME NEW q \in Builders \ {p}
        PROVE  /\ lane'[q] \in [Transactions -> LaneStates]
               /\ lane'[q][x].step = lane[q][x].step
               /\ lane'[q][x].disturbed \/ Waiting(lane[q][x])
               /\ \A y \in Transactions \ {x} : lane'[q][y] = lane[q][y]
    <2> DEFINE touched == lane[q][x].disturbed \/ lane[q][x].step \notin {"idle", "clear"}
               l == [lane[q][x] EXCEPT !.disturbed = touched]
    <2>1. lane'[q] = [lane[q] EXCEPT ![x].disturbed = touched]
      BY DEF MoveLane
    <2>2. l \in LaneStates /\ l.step = lane[q][x].step /\ l.disturbed = touched
      BY <1>1 DEF LaneStates
    <2>3. lane'[q] = [lane[q] EXCEPT ![x] = l]
      BY <1>1, <2>1
    <2>4. touched \/ Waiting(lane[q][x])
      BY DEF Waiting
    <2> HIDE DEF l, touched
    <2>5. QED
      BY <1>1, <2>2, <2>3, <2>4
  <1>3. /\ lane'[p] \in [Transactions -> LaneStates]
        /\ lane'[p][x].step = step /\ lane'[p][x].digest = digest
        /\ lane'[p][x].disturbed = lane[p][x].disturbed
        /\ \A y \in Transactions \ {x} : lane'[p][y] = lane[p][y]
    <2> DEFINE l == [lane[p][x] EXCEPT !.step = step, !.digest = digest]
    <2>1. lane'[p] = [lane[p] EXCEPT ![x].step = step, ![x].digest = digest]
      BY DEF MoveLane
    <2>2. l \in LaneStates /\ l.step = step /\ l.digest = digest /\ l.disturbed = lane[p][x].disturbed
      BY <1>1 DEF LaneStates
    <2>3. lane'[p] = [lane[p] EXCEPT ![x] = l]
      BY <1>1, <2>1
    <2> HIDE DEF l
    <2>4. QED
      BY <1>1, <2>2, <2>3
  <1>4. lane' \in [Builders -> [Transactions -> LaneStates]]
    <2>1. \A q \in Builders : lane'[q] \in [Transactions -> LaneStates]
      BY <1>2, <1>3
    <2>2. QED
      BY <2>1 DEF MoveLane
  <1>5. QED
    BY <1>2, <1>3, <1>4

\* Any thread with this step and digest holds what it should.
Suits(step, digest, disturbed, b, d) ==
  \A l \in LaneStates :
    l.step = step /\ l.digest = digest /\ l.disturbed = disturbed => LaneHolds(l, b, d)

\* A thread goes on, and holds what it should.
LEMMA LaneKeeps ==
  ASSUME BuildInv, NEW p \in Builders, NEW x \in Transactions, NEW step \in LaneSteps, NEW digest \in Paks,
         builder[p].step = "lanes", MoveLane(p, x, step, digest),
         NEW d \in Stagings, staging' = [staging EXCEPT ![x] = d],
         NEW b \in Builds, builder' = [builder EXCEPT ![p] = b],
         b.step = "lanes" /\ b.mode = builder[p].mode /\ b.spec = builder[p].spec,
         b.frozen = builder[p].frozen \/ b.frozen = DeclaredInputs(b.spec),
         Suits(step, digest, lane[p][x].disturbed, b, d),
         UNCHANGED <<inputs, built>>
  PROVE  BuildInv'
  <1>1. /\ BuildTyped
        /\ \A q \in Builders : BuildHolds(q) /\ \A y \in Transactions : LaneHolds(lane[q][y], builder[q], staging[y])
    BY DEF BuildInv
  <1>2. /\ lane' \in [Builders -> [Transactions -> LaneStates]]
        /\ lane'[p][x].step = step /\ lane'[p][x].digest = digest
        /\ lane'[p][x].disturbed = lane[p][x].disturbed
        /\ \A y \in Transactions \ {x} : \A q \in Builders : lane'[q][y] = lane[q][y]
        /\ \A q \in Builders \ {p} : /\ lane'[q][x].step = lane[q][x].step
                                     /\ lane'[q][x].disturbed \/ Waiting(lane[q][x])
    BY <1>1, LaneMoves
  <1>3. /\ staging'[x] = d /\ staging' \in [Transactions -> Stagings]
        /\ \A y \in Transactions \ {x} : staging'[y] = staging[y]
        /\ builder'[p] = b /\ builder' \in [Builders -> Builds]
        /\ \A q \in Builders \ {p} : builder'[q] = builder[q]
    BY <1>1 DEF BuildTyped
  <1>4. BuildTyped'
    BY <1>1, <1>2, <1>3 DEF BuildTyped
  <1>5. ASSUME NEW q \in Builders, NEW y \in Transactions
        PROVE  LaneHolds(lane'[q][y], builder'[q], staging'[y])
    <2>1. LaneHolds(lane[q][y], builder[q], staging[y])
      BY <1>1
    <2>2. CASE q = p /\ y = x
      <3>1. lane'[p][x] \in LaneStates
        BY <1>2
      <3>2. QED
        BY <1>2, <1>3, <2>2, <3>1 DEF Suits
    <2>3. CASE q = p /\ y # x
      <3>1. lane'[q][y] = lane[q][y] /\ builder'[q] = b /\ staging'[y] = staging[y]
        BY <1>2, <1>3, <2>3
      <3>2. QED
        BY <2>1, <2>3, <3>1 DEF LaneHolds
    <2>4. CASE q # p /\ y = x
      <3>1. builder'[q] = builder[q] /\ lane'[q][x].step = lane[q][x].step
        BY <1>2, <1>3, <2>4
      <3>2. CASE Waiting(lane[q][x])
        BY <2>4, <3>1, <3>2, WaitingHolds DEF Waiting
      <3>3. CASE lane'[q][x].disturbed
        BY <2>1, <2>4, <3>1, <3>3 DEF LaneHolds
      <3>4. QED
        BY <1>2, <2>4, <3>2, <3>3
    <2>5. CASE q # p /\ y # x
      <3>1. lane'[q][y] = lane[q][y] /\ builder'[q] = builder[q] /\ staging'[y] = staging[y]
        BY <1>2, <1>3, <2>5
      <3>2. QED
        BY <2>1, <3>1
    <2>6. QED
      BY <2>2, <2>3, <2>4, <2>5
  <1>6. ASSUME NEW q \in Builders PROVE BuildHolds(q)'
    <2>1. CASE q = p
      BY <1>1, <1>3, <2>1 DEF BuildHolds
    <2>2. CASE q # p
      <3>1. BuildHolds(q) /\ builder'[q] = builder[q]
        BY <1>1, <1>3, <2>2
      <3>2. \A y \in Transactions : Waiting(lane[q][y]) => Waiting(lane'[q][y])
        BY <1>2, <2>2 DEF Waiting
      <3>3. QED
        BY <3>1, <3>2 DEF BuildHolds
    <2>3. QED
      BY <2>1, <2>2
  <1>7. ReceiptTrue'
    BY DEF BuildInv, ReceiptTrue
  <1>8. QED
    BY <1>4, <1>5, <1>6, <1>7 DEF BuildInv

\* The same for a thread that leaves the state of its build alone.
LEMMA LaneGoesOn ==
  ASSUME BuildInv, NEW p \in Builders, NEW x \in Transactions, NEW step \in LaneSteps, NEW digest \in Paks,
         builder[p].step = "lanes", MoveLane(p, x, step, digest),
         NEW d \in Stagings, staging' = [staging EXCEPT ![x] = d],
         Suits(step, digest, lane[p][x].disturbed, builder[p], d),
         UNCHANGED <<inputs, builder, built>>
  PROVE  BuildInv'
  <1>1. builder[p] \in Builds /\ builder' = [builder EXCEPT ![p] = builder[p]]
    BY DEF BuildInv, BuildTyped
  <1>2. QED
    BY <1>1, LaneKeeps

\* A removal that raises leaves a staging directory.
LEMMA PartlyTyped ==
  ASSUME NEW d \in Stagings, NEW left \in PartlyRemoved(d) \cup {NoStaging}
  PROVE  left \in Stagings
  <1>1. d.exists \in BOOLEAN /\ d.debris \in BOOLEAN /\ d.folder \in BOOLEAN /\ NoPak \in Paks /\ NoStaging \in Stagings
    BY StagingsTyped DEF Stagings
  <1>2. [d EXCEPT !.pak = NoPak] \in Stagings /\ [d EXCEPT !.folder = FALSE, !.pak = NoPak] \in Stagings
    BY <1>1 DEF Stagings
  <1>3. QED
    BY <1>1, <1>2 DEF PartlyRemoved

\* A thread that could not clear its directory promises nothing of it.
LEMMA LaneUncleared ==
  ASSUME BuildInv, NEW p \in Builders, NEW x \in Transactions, builder[p].step = "lanes",
         NEW left \in PartlyRemoved(staging[x]) \cup {NoStaging}, staging' = [staging EXCEPT ![x] = left],
         MoveLane(p, x, "uncleared", NoPak), UNCHANGED <<inputs, builder, built>>
  PROVE  BuildInv'
  <1>1. staging[x] \in Stagings
    BY DEF BuildInv, BuildTyped
  <1>2. left \in Stagings
    BY <1>1, PartlyTyped
  <1>3. Suits("uncleared", NoPak, lane[p][x].disturbed, builder[p], left)
    BY DEF LaneHolds, Suits
  <1>4. "uncleared" \in LaneSteps /\ NoPak \in Paks
    BY StagingsTyped DEF LaneSteps
  <1>5. QED
    BY <1>2, <1>3, <1>4, LaneGoesOn

\* A thread that fails clears its staging directory, or says that it could not.
LEMMA LaneFailsClean ==
  ASSUME BuildInv, NEW p \in Builders, NEW x \in Transactions, builder[p].step = "lanes",
         LaneFails(p, x), lane[p][x].step \notin {"idle", "clear", "uncleared"}, UNCHANGED <<inputs, builder, built>>
  PROVE  BuildInv'
  <1> DEFINE d == IF staging[x].exists THEN EmptyStaging ELSE staging[x]
  <1>1. staging[x] \in Stagings /\ lane[p][x] \in LaneStates /\ LaneHolds(lane[p][x], builder[p], staging[x])
        /\ BuildHolds(p)
    BY DEF BuildInv, BuildTyped
  <1>0. CASE ~(staging' = [staging EXCEPT ![x] = d] /\ MoveLane(p, x, "failed", NoPak))
    <2>1. PICK left \in PartlyRemoved(staging[x]) \cup {NoStaging} :
            staging' = [staging EXCEPT ![x] = left] /\ MoveLane(p, x, "uncleared", NoPak)
      <3>1. staging[x].exists => d = EmptyStaging
        OBVIOUS
      <3>2. [staging EXCEPT ![x] = IF @.exists THEN EmptyStaging ELSE @] = [staging EXCEPT ![x] = d]
        BY DEF BuildInv, BuildTyped
      <3> HIDE DEF d
      <3>3. QED
        BY <1>0, <3>2 DEF LaneFails
    <2>2. QED
      BY <2>1, LaneUncleared
  <1>3. d \in Stagings
    BY <1>1, StagingsTyped
  <1>4. ~lane[p][x].disturbed => d \in {NoStaging, EmptyStaging}
    <2>1. builder[p].spec \in BuildSpecs
      BY <1>1 DEF BuildHolds
    <2>2. Finished(builder[p].spec).exists
      BY <2>1, FinishedTyped
    <2>3. EmptyStaging.exists /\ Opened.exists
      BY StagingsTyped
    <2>4. lane[p][x].step \in LaneSteps \ {"idle", "clear", "uncleared"}
      BY <1>1 DEF LaneStates
    <2>5. ~lane[p][x].disturbed =>
            \/ staging[x] \in {NoStaging, EmptyStaging}
            \/ staging[x] \in {Opened, Finished(builder[p].spec)}
      BY <1>1, <2>4 DEF LaneHolds, LaneSteps
    <2>6. QED
      BY <2>2, <2>3, <2>5
  <1> HIDE DEF d
  <1>5. Suits("failed", NoPak, lane[p][x].disturbed, builder[p], d)
    BY <1>4 DEF LaneHolds, Suits
  <1>6. "failed" \in LaneSteps /\ NoPak \in Paks
    BY StagingsTyped DEF LaneSteps
  <1>7. CASE staging' = [staging EXCEPT ![x] = d] /\ MoveLane(p, x, "failed", NoPak)
    BY <1>3, <1>5, <1>6, <1>7, LaneGoesOn
  <1>8. QED
    BY <1>0, <1>7

\* A build starts, moves on, or ends, with no thread in a staging directory afterwards.
LEMMA BuildTurns ==
  ASSUME BuildInv, NEW p \in Builders, NEW b \in Builds, builder' = [builder EXCEPT ![p] = b],
         NEW ls \in [Transactions -> LaneStates], lane' = [lane EXCEPT ![p] = ls],
         \A x \in Transactions : Waiting(ls[x]),
         b.step # "idle" => b.spec \in BuildSpecs /\ b.mode \in {"single", "double"},
         b.step = "lanes" /\ b.mode = "double" => b.frozen = DeclaredInputs(b.spec),
         UNCHANGED <<inputs, staging>>, ReceiptTrue'
  PROVE  BuildInv'
  <1>1. /\ BuildTyped
        /\ \A q \in Builders : BuildHolds(q) /\ \A y \in Transactions : LaneHolds(lane[q][y], builder[q], staging[y])
    BY DEF BuildInv
  <1>2. /\ builder'[p] = b /\ lane'[p] = ls
        /\ \A q \in Builders \ {p} : builder'[q] = builder[q] /\ lane'[q] = lane[q]
        /\ BuildTyped'
    BY <1>1 DEF BuildTyped
  <1>3. ASSUME NEW q \in Builders, NEW y \in Transactions
        PROVE  LaneHolds(lane'[q][y], builder'[q], staging'[y])
    <2>1. CASE q = p
      BY <1>2, <2>1, WaitingHolds
    <2>2. CASE q # p
      BY <1>1, <1>2, <2>2
    <2>3. QED
      BY <2>1, <2>2
  <1>4. \A q \in Builders : BuildHolds(q)'
    BY <1>1, <1>2 DEF BuildHolds
  <1>5. QED
    BY <1>2, <1>3, <1>4 DEF BuildInv

LEMMA BuildStep == BuildInv /\ [BuildNext]_buildVars => BuildInv'
  <1> SUFFICES ASSUME BuildInv, [BuildNext]_buildVars PROVE BuildInv'
    OBVIOUS
  <1>1. /\ BuildTyped /\ inputs \in InputVersions
        /\ \A p \in Builders :
             /\ BuildHolds(p) /\ builder[p] \in Builds
             /\ lane[p] \in [Transactions -> LaneStates]
             /\ \A x \in Transactions : /\ LaneHolds(lane[p][x], builder[p], staging[x])
                                        /\ lane[p][x] \in LaneStates /\ staging[x] \in Stagings
    BY DEF BuildInv, BuildTyped
  <1>2. built' = built => ReceiptTrue'
    BY DEF BuildInv, ReceiptTrue
  <1>3. ASSUME NEW p \in Builders, NEW mode \in {"single", "double"}, NEW s \in BuildSpecs, StartBuild(p, mode, s)
        PROVE  BuildInv'
    <2> DEFINE b == [mode |-> mode, spec |-> s, frozen |-> "none", step |-> IF mode = "single" THEN "lanes" ELSE "freeze"]
               ls == [x \in Transactions |-> IF x \in Lanes(mode) THEN [IdleLane EXCEPT !.step = "clear"] ELSE IdleLane]
    <2>1. builder' = [builder EXCEPT ![p] = b] /\ lane' = [lane EXCEPT ![p] = ls]
          /\ UNCHANGED <<inputs, staging, built>>
      BY <1>3 DEF StartBuild
    <2>2. b \in Builds /\ b.spec = s /\ b.mode = mode /\ (b.step = "lanes" => mode = "single")
      BY DEF Builds
    <2>3. [IdleLane EXCEPT !.step = "clear"] \in LaneStates /\ Waiting([IdleLane EXCEPT !.step = "clear"])
      BY StagingsTyped DEF LaneStates, LaneSteps, Waiting
    <2>4. ls \in [Transactions -> LaneStates] /\ \A x \in Transactions : Waiting(ls[x])
      BY <2>3, StagingsTyped
    <2> HIDE DEF b, ls
    <2>5. QED
      BY <1>2, <2>1, <2>2, <2>4, BuildTurns
  <1>4. ASSUME NEW p \in Builders, FreezeOnce(p) PROVE BuildInv'
    <2> DEFINE b == IF Verified(builder[p].spec, inputs)
                     THEN [builder[p] EXCEPT !.step = "lanes", !.frozen = inputs] ELSE IdleBuild
    <2>1. /\ builder[p].step = "freeze" /\ builder' = [builder EXCEPT ![p] = b]
          /\ UNCHANGED <<inputs, staging, built, lane>>
      BY <1>1, <1>4 DEF FreezeOnce, BuildTyped
    <2>2. b \in Builds
      BY <1>1, StagingsTyped DEF Builds
    <2>3. /\ b.step # "idle" => b.spec \in BuildSpecs /\ b.mode \in {"single", "double"}
          /\ b.step = "lanes" => b.frozen = DeclaredInputs(b.spec)
      BY <1>1, <2>1, StagingsTyped DEF Verified, Builds, BuildHolds
    <2>4. lane' = [lane EXCEPT ![p] = lane[p]] /\ \A x \in Transactions : Waiting(lane[p][x])
      BY <1>1, <2>1 DEF BuildTyped, BuildHolds
    <2> HIDE DEF b
    <2>5. QED
      BY <1>1, <1>2, <2>1, <2>2, <2>3, <2>4, BuildTurns
  <1>5. ASSUME NEW p \in Builders, BuilderDies(p) PROVE BuildInv'
    <2> DEFINE ls == [x \in Transactions |-> IdleLane]
    <2>1. ls \in [Transactions -> LaneStates] /\ \A x \in Transactions : Waiting(ls[x])
      BY StagingsTyped
    <2>2. /\ builder' = [builder EXCEPT ![p] = IdleBuild] /\ lane' = [lane EXCEPT ![p] = ls]
          /\ UNCHANGED <<inputs, staging, built>>
      BY <1>5 DEF BuilderDies
    <2> HIDE DEF ls
    <2>3. QED
      BY <1>2, <2>1, <2>2, StagingsTyped, BuildTurns
  <1>6. ASSUME NEW p \in Builders, NEW x \in Transactions, ClearStaging(p, x) PROVE BuildInv'
    <2>1. builder[p].step = "lanes" /\ UNCHANGED <<inputs, builder, built>>
      BY <1>6 DEF ClearStaging, LaneAt
    <2>2. Suits("mkdir", NoPak, lane[p][x].disturbed, builder[p], NoStaging)
      BY DEF Suits, LaneHolds
    <2>3. "mkdir" \in LaneSteps /\ NoPak \in Paks /\ NoStaging \in Stagings
      BY StagingsTyped DEF LaneSteps
    <2>4. CASE staging' = [staging EXCEPT ![x] = NoStaging] /\ MoveLane(p, x, "mkdir", NoPak)
      BY <2>1, <2>2, <2>3, <2>4, LaneGoesOn
    <2>5. ASSUME NEW left \in PartlyRemoved(staging[x]), staging' = [staging EXCEPT ![x] = left],
                 MoveLane(p, x, "uncleared", NoPak)
          PROVE  BuildInv'
      BY <2>1, <2>5, LaneUncleared
    <2>6. QED
      BY <1>6, <2>4, <2>5 DEF ClearStaging
  <1>7. ASSUME NEW p \in Builders, NEW x \in Transactions, MakeStaging(p, x) PROVE BuildInv'
    <2>1. builder[p].step = "lanes" /\ lane[p][x].step = "mkdir" /\ UNCHANGED <<inputs, builder, built>>
      BY <1>7 DEF MakeStaging, LaneAt
    <2>2. NoPak \in Paks /\ {"failed", "freeze", "folder"} \subseteq LaneSteps /\ EmptyStaging \in Stagings /\ ~NoStaging.exists
      BY StagingsTyped DEF LaneSteps
    <2>3. CASE staging[x].exists
      <3>1. MoveLane(p, x, "failed", NoPak) /\ staging' = staging
        BY <1>7, <2>3 DEF MakeStaging
      <3>2. staging' = [staging EXCEPT ![x] = staging[x]]
        BY <1>1, <3>1 DEF BuildTyped
      <3>3. lane[p][x].disturbed
        BY <1>1, <2>1, <2>2, <2>3 DEF LaneHolds
      <3>4. Suits("failed", NoPak, lane[p][x].disturbed, builder[p], staging[x])
        BY <3>3 DEF Suits, LaneHolds
      <3>5. QED
        BY <1>1, <2>1, <2>2, <3>1, <3>2, <3>4, LaneGoesOn
    <2>4. CASE ~staging[x].exists
      <3>1. PICK step \in {"freeze", "folder"} :
              /\ MoveLane(p, x, step, NoPak)
              /\ step = "folder" => builder[p].mode # "single"
        BY <1>7, <2>4 DEF MakeStaging
      <3>2. staging' = [staging EXCEPT ![x] = EmptyStaging]
        BY <1>7, <2>4 DEF MakeStaging
      <3>3. step = "folder" => builder[p].frozen = DeclaredInputs(builder[p].spec)
        BY <1>1, <2>1, <3>1 DEF BuildHolds
      <3>4. Suits(step, NoPak, lane[p][x].disturbed, builder[p], EmptyStaging)
        BY <3>3 DEF Suits, LaneHolds
      <3>5. QED
        BY <2>1, <2>2, <3>1, <3>2, <3>4, LaneGoesOn
    <2>5. QED
      BY <2>3, <2>4
  <1>8. ASSUME NEW p \in Builders, NEW x \in Transactions, FreezeLane(p, x) PROVE BuildInv'
    <2>1. builder[p].step = "lanes" /\ lane[p][x].step = "freeze" /\ UNCHANGED <<inputs, built>>
      BY <1>8 DEF FreezeLane, LaneAt
    <2>2. CASE Verified(builder[p].spec, inputs)
      <3> DEFINE b == [builder[p] EXCEPT !.frozen = inputs]
      <3>1. /\ b \in Builds /\ b.step = "lanes" /\ b.mode = builder[p].mode /\ b.spec = builder[p].spec
            /\ b.frozen = DeclaredInputs(b.spec) /\ staging[x] \in Stagings
        BY <1>1, <2>1, <2>2 DEF Builds, Verified
      <3>2. /\ MoveLane(p, x, "folder", NoPak) /\ staging' = staging
            /\ builder' = [builder EXCEPT ![p].frozen = inputs]
        BY <1>8, <2>2 DEF FreezeLane
      <3>3. builder' = [builder EXCEPT ![p] = b] /\ staging' = [staging EXCEPT ![x] = staging[x]]
        BY <1>1, <3>2 DEF BuildTyped
      <3> HIDE DEF b
      <3>4. ~lane[p][x].disturbed => staging[x] = EmptyStaging
        BY <1>1, <2>1 DEF LaneHolds
      <3>5. Suits("folder", NoPak, lane[p][x].disturbed, b, staging[x])
        BY <3>1, <3>4 DEF Suits, LaneHolds
      <3>6. "folder" \in LaneSteps /\ NoPak \in Paks
        BY StagingsTyped DEF LaneSteps
      <3>7. QED
        BY <2>1, <3>1, <3>2, <3>3, <3>5, <3>6, LaneKeeps
    <2>3. CASE ~Verified(builder[p].spec, inputs)
      <3>1. LaneFails(p, x) /\ builder' = builder
        BY <1>8, <2>3 DEF FreezeLane
      <3>2. QED
        BY <2>1, <3>1, LaneFailsClean
    <2>4. QED
      BY <2>2, <2>3
  <1>9. ASSUME NEW p \in Builders, NEW x \in Transactions, OpenPak(p, x) PROVE BuildInv'
    <2>1. builder[p].step = "lanes" /\ lane[p][x].step = "folder" /\ UNCHANGED <<inputs, builder, built>>
      BY <1>9 DEF OpenPak, LaneAt
    <2>2. CASE LaneFails(p, x)
      BY <2>1, <2>2, LaneFailsClean
    <2>3. CASE /\ MoveLane(p, x, "pak", NoPak)
               /\ staging' = [staging EXCEPT ![x].exists = TRUE, ![x].folder = TRUE, ![x].pak = PartialPak]
      <3> DEFINE d == [staging[x] EXCEPT !.exists = TRUE, !.folder = TRUE, !.pak = PartialPak]
      <3>1. d \in Stagings
        BY <1>1, StagingsTyped DEF Stagings
      <3>2. staging' = [staging EXCEPT ![x] = d]
        BY <1>1, <2>3 DEF BuildTyped
      <3>3. staging[x] = EmptyStaging => d = Opened
        <4>1. EmptyStaging.exists /\ EmptyStaging \in Stagings
          BY StagingsTyped
        <4>2. QED
          BY <4>1 DEF Opened, Stagings
      <3> HIDE DEF d
      <3>4. builder[p].frozen = DeclaredInputs(builder[p].spec) /\ (~lane[p][x].disturbed => d = Opened)
        BY <1>1, <2>1, <3>3 DEF LaneHolds
      <3>5. Suits("pak", NoPak, lane[p][x].disturbed, builder[p], d)
        BY <3>4 DEF Suits, LaneHolds
      <3>6. "pak" \in LaneSteps /\ NoPak \in Paks
        BY StagingsTyped DEF LaneSteps
      <3>7. QED
        BY <2>1, <2>3, <3>1, <3>2, <3>5, <3>6, LaneGoesOn
    <2>4. QED
      BY <1>9, <2>2, <2>3 DEF OpenPak
  <1>10. ASSUME NEW p \in Builders, NEW x \in Transactions, WritePak(p, x) PROVE BuildInv'
    <2>1. /\ builder[p].step = "lanes" /\ lane[p][x].step = "pak" /\ UNCHANGED <<inputs, builder, built>>
          /\ builder[p].spec \in BuildSpecs /\ builder[p].frozen = DeclaredInputs(builder[p].spec)
      BY <1>1, <1>10 DEF WritePak, LaneAt, BuildHolds, LaneHolds
    <2>2. CASE LaneFails(p, x)
      BY <2>1, <2>2, LaneFailsClean
    <2>3. CASE /\ MoveLane(p, x, "hash", NoPak)
               /\ staging' = [staging EXCEPT ![x].pak = Pak(builder[p].spec, builder[p].frozen)]
      <3> DEFINE pak == Pak(builder[p].spec, DeclaredInputs(builder[p].spec))
                 d == [staging[x] EXCEPT !.pak = pak]
      <3>1. pak \in Paks
        BY <2>1, FinishedTyped
      <3>2. d \in Stagings
        BY <1>1, <3>1 DEF Stagings
      <3>3. staging' = [staging EXCEPT ![x] = d]
        BY <1>1, <2>1, <2>3 DEF BuildTyped
      <3>4. staging[x] = Opened => d = Finished(builder[p].spec)
        <4>1. EmptyStaging \in Stagings
          BY StagingsTyped
        <4>2. QED
          BY <4>1 DEF Opened, Finished, Stagings
      <3> HIDE DEF d, pak
      <3>5. ~lane[p][x].disturbed => d = Finished(builder[p].spec)
        BY <1>1, <2>1, <3>4 DEF LaneHolds
      <3>6. Suits("hash", NoPak, lane[p][x].disturbed, builder[p], d)
        BY <2>1, <3>5 DEF Suits, LaneHolds
      <3>7. "hash" \in LaneSteps /\ NoPak \in Paks
        BY StagingsTyped DEF LaneSteps
      <3>8. QED
        BY <2>1, <2>3, <3>2, <3>3, <3>6, <3>7, LaneGoesOn
    <2>4. QED
      BY <1>10, <2>2, <2>3 DEF WritePak
  <1>11. ASSUME NEW p \in Builders, NEW x \in Transactions, HashPak(p, x) PROVE BuildInv'
    <2>1. /\ builder[p].step = "lanes" /\ lane[p][x].step = "hash" /\ UNCHANGED <<inputs, builder, built>>
          /\ builder[p].spec \in BuildSpecs /\ builder[p].frozen = DeclaredInputs(builder[p].spec)
      BY <1>1, <1>11 DEF HashPak, LaneAt, BuildHolds, LaneHolds
    <2>2. CASE LaneFails(p, x)
      BY <2>1, <2>2, LaneFailsClean
    <2>3. CASE MoveLane(p, x, "inspect", staging[x].pak) /\ staging' = staging
      <3>1. staging' = [staging EXCEPT ![x] = staging[x]] /\ staging[x] \in Stagings /\ staging[x].pak \in Paks
        BY <1>1, <2>3 DEF BuildTyped, Stagings
      <3>2. ~lane[p][x].disturbed => /\ staging[x] = Finished(builder[p].spec)
                                     /\ staging[x].pak = Pak(builder[p].spec, DeclaredInputs(builder[p].spec))
        BY <1>1, <2>1, FinishedTyped DEF LaneHolds
      <3>3. Suits("inspect", staging[x].pak, lane[p][x].disturbed, builder[p], staging[x])
        BY <2>1, <3>2 DEF Suits, LaneHolds
      <3>4. "inspect" \in LaneSteps
        BY DEF LaneSteps
      <3>5. QED
        BY <2>1, <2>3, <3>1, <3>3, <3>4, LaneGoesOn
    <2>4. QED
      BY <1>11, <2>2, <2>3 DEF HashPak
  <1>12. ASSUME NEW p \in Builders, NEW x \in Transactions, InspectPak(p, x) PROVE BuildInv'
    <2>1. /\ builder[p].step = "lanes" /\ lane[p][x].step = "inspect" /\ UNCHANGED <<inputs, builder, built>>
      BY <1>12 DEF InspectPak, LaneAt
    <2>2. CASE LaneFails(p, x)
      BY <2>1, <2>2, LaneFailsClean
    <2>3. CASE MoveLane(p, x, "built", lane[p][x].digest) /\ staging' = staging
      <3>1. staging' = [staging EXCEPT ![x] = staging[x]] /\ staging[x] \in Stagings /\ lane[p][x].digest \in Paks
        BY <1>1, <2>3 DEF BuildTyped, LaneStates
      <3>2. LaneHolds(lane[p][x], builder[p], staging[x])
        BY <1>1
      <3>3. Suits("built", lane[p][x].digest, lane[p][x].disturbed, builder[p], staging[x])
        BY <2>1, <3>2 DEF Suits, LaneHolds
      <3>4. "built" \in LaneSteps
        BY DEF LaneSteps
      <3>5. QED
        BY <2>1, <2>3, <3>1, <3>3, <3>4, LaneGoesOn
    <2>4. QED
      BY <1>12, <2>2, <2>3 DEF InspectPak
  <1>13. ASSUME NEW p \in Builders, ConcludeBuild(p) PROVE BuildInv'
    <2> DEFINE ls == [x \in Transactions |-> IdleLane]
               mine == Lanes(builder[p].mode)
               spec == builder[p].spec
               r == [spec |-> spec, digests |-> {lane[p][x].digest : x \in mine},
                     staged |-> {staging[x] : x \in mine}, disturbed |-> \E x \in mine : lane[p][x].disturbed]
    <2>1. ls \in [Transactions -> LaneStates] /\ \A x \in Transactions : Waiting(ls[x])
      BY StagingsTyped
    <2>2. /\ builder' = [builder EXCEPT ![p] = IdleBuild] /\ lane' = [lane EXCEPT ![p] = ls]
          /\ UNCHANGED <<inputs, staging>> /\ builder[p].step = "lanes"
      BY <1>13 DEF ConcludeBuild
    <2>3. built' = built \/ (built' = built \cup {r} /\ \A x \in mine : lane[p][x].step = "built")
      BY <1>13 DEF ConcludeBuild
    <2>4. mine \subseteq Transactions /\ mine # {}
      BY DEF Lanes, Transactions
    <2>5. ASSUME \A x \in mine : lane[p][x].step = "built", ~r.disturbed
          PROVE  r.digests = {Pak(spec, DeclaredInputs(spec))} /\ r.staged = {Finished(spec)}
      <3>1. \A x \in mine : ~lane[p][x].disturbed
        BY <2>5
      <3>2. \A x \in mine : lane[p][x].digest = Pak(spec, DeclaredInputs(spec)) /\ staging[x] = Finished(spec)
        BY <1>1, <2>4, <2>5, <3>1 DEF LaneHolds
      <3>3. QED
        BY <2>4, <3>2
    <2>6. ReceiptTrue'
      <3>1. ASSUME NEW q \in built', ~q.disturbed
            PROVE  /\ q.digests = {Pak(q.spec, DeclaredInputs(q.spec))}
                   /\ q.staged = {Finished(q.spec)}
        <4>1. CASE q \in built
          BY <3>1, <4>1 DEF BuildInv, ReceiptTrue, Finished
        <4>2. CASE q = r /\ \A x \in mine : lane[p][x].step = "built"
          <5>1. r.spec = spec
            OBVIOUS
          <5>2. QED
            BY <2>5, <3>1, <4>2, <5>1
        <4>3. QED
          BY <2>3, <4>1, <4>2
      <3>2. QED
        BY <3>1 DEF ReceiptTrue, Finished
    <2> HIDE DEF ls
    <2>7. QED
      BY <2>1, <2>2, <2>6, StagingsTyped, BuildTurns
  <1>14. ASSUME EditInputs \/ UNCHANGED buildVars PROVE BuildInv'
    <2>1. inputs' \in InputVersions /\ UNCHANGED <<staging, builder, lane, built>>
      BY <1>1, <1>14 DEF EditInputs, buildVars
    <2>2. BuildTyped' /\ \A p \in Builders : BuildHolds(p)'
      BY <1>1, <2>1 DEF BuildTyped, BuildHolds
    <2>3. QED
      BY <1>1, <1>2, <2>1, <2>2 DEF BuildInv
  <1>15. QED
    BY <1>3, <1>4, <1>5, <1>6, <1>7, <1>8, <1>9, <1>10, <1>11, <1>12, <1>13, <1>14 DEF BuildNext

LEMMA BuildPromises == BuildInv => ReceiptTrue /\ FailureLeavesNothing
  <1> SUFFICES ASSUME BuildInv PROVE FailureLeavesNothing
    BY DEF BuildInv
  <1>1. \A p \in Builders, x \in Transactions : LaneHolds(lane[p][x], builder[p], staging[x])
    BY DEF BuildInv
  <1>2. QED
    BY <1>1 DEF FailureLeavesNothing, LaneHolds

\* A receipt names a PAK of the declared inputs and a failed build leaves nothing,
\* unless another build worked in the directory.
\* (_freeze_build_inputs, _prepare_empty_staging, _build_candidate_twice_impl)
LEMMA ReceiptsStayTrue == BuildSpec => [](ReceiptTrue /\ FailureLeavesNothing)
  <1>1. BuildInit => BuildInv
    BY BuildStarts
  <1>2. BuildInv /\ [BuildNext]_buildVars => BuildInv'
    BY BuildStep
  <1>3. QED
    BY <1>1, <1>2, BuildPromises, PTL DEF BuildSpec

-----------------------------------------------------------------------------
(***************************************************************************)
(* The archive cache: whole members, of the archive that was asked for.    *)
(***************************************************************************)

CacheEntries == [there : BOOLEAN, sound : BOOLEAN, members : Archives \cup {"none", "renamed"}]

ReaderSteps == {"idle", "lookup", "quarantine", "archive", "populate", "promote", "load"}

ReaderCalls == [step : ReaderSteps, digest : Archives \cup {"none"}, members : Archives \cup {"none"}]

\* Members that were read for a digest, and those that an entry gives for it.
ReadOf(members, digest) == members \in Archives /\ ("replaced" \notin unnoticed => members = digest)

MembersOf(members, digest) ==
  /\ members \in Archives \/ (members = "renamed" /\ "renamed" \in unnoticed)
  /\ "replaced" \notin unnoticed => members \in {digest, "renamed"}

EntryHolds(d) == entries[d].there /\ entries[d].sound => MembersOf(entries[d].members, d)

ReaderHolds(r) ==
  /\ reader[r].step # "idle" => reader[r].digest \in Archives
  /\ reader[r].step \in {"populate", "promote"} => ReadOf(reader[r].members, reader[r].digest)

CacheTyped ==
  /\ archive \in Archives
  /\ entries \in [Archives -> CacheEntries]
  /\ reader \in [Readers -> ReaderCalls]

CacheInv ==
  /\ CacheTyped
  /\ \A d \in Archives : EntryHolds(d)
  /\ \A r \in Readers : ReaderHolds(r)
  /\ MembersWhole

LEMMA CacheStarts == CacheInit => CacheInv
  <1> SUFFICES ASSUME CacheInit PROVE CacheInv
    OBVIOUS
  <1>1. NoEntry \in CacheEntries /\ ~NoEntry.there /\ IdleReader \in ReaderCalls /\ IdleReader.step = "idle"
    BY DEF NoEntry, CacheEntries, IdleReader, ReaderCalls, ReaderSteps
  <1>2. QED
    BY <1>1 DEF CacheInit, CacheInv, CacheTyped, EntryHolds, ReaderHolds, MembersWhole

\* A step of one reader: the entry of one digest, its call, and what it returns.
LEMMA ReaderKeeps ==
  ASSUME CacheInv, NEW r \in Readers, NEW c \in ReaderCalls, reader' = [reader EXCEPT ![r] = c],
         NEW d \in Archives, NEW e \in CacheEntries, entries' = [entries EXCEPT ![d] = e],
         archive' = archive, unnoticed \subseteq unnoticed',
         e = entries[d] \/ (e.there /\ e.sound => MembersOf(e.members, d)),
         c.step # "idle" => c.digest \in Archives,
         c.step \in {"populate", "promote"} =>
           c.members \in Archives /\ ("replaced" \notin unnoticed' => c.members = c.digest),
         \A a \in answers' \ answers : MembersOf(a.members, a.digest)
  PROVE  CacheInv'
  <1>1. /\ CacheTyped
        /\ \A k \in Archives : EntryHolds(k)
        /\ \A q \in Readers : ReaderHolds(q)
        /\ \A a \in answers : MembersOf(a.members, a.digest)
    BY DEF CacheInv, MembersWhole, MembersOf
  <1>2. /\ reader'[r] = c /\ entries'[d] = e
        /\ \A q \in Readers \ {r} : reader'[q] = reader[q]
        /\ \A k \in Archives \ {d} : entries'[k] = entries[k]
        /\ CacheTyped'
    BY <1>1 DEF CacheTyped
  <1>3. \A k \in Archives : EntryHolds(k)'
    BY <1>1, <1>2 DEF EntryHolds, MembersOf
  <1>4. \A q \in Readers : ReaderHolds(q)'
    BY <1>1, <1>2 DEF ReaderHolds, ReadOf
  <1>5. MembersWhole'
    BY <1>1 DEF MembersWhole, MembersOf
  <1>6. QED
    BY <1>2, <1>3, <1>4, <1>5 DEF CacheInv

\* The same for a reader that leaves the entries and the archive alone.
LEMMA ReaderGoesOn ==
  ASSUME CacheInv, NEW r \in Readers, NEW c \in ReaderCalls, reader' = [reader EXCEPT ![r] = c],
         UNCHANGED <<archive, entries, unnoticed>>,
         c.step # "idle" => c.digest \in Archives,
         c.step \in {"populate", "promote"} => ReadOf(c.members, c.digest),
         \A a \in answers' \ answers : MembersOf(a.members, a.digest)
  PROVE  CacheInv'
  <1>1. CacheTyped /\ archive \in Archives /\ entries[archive] \in CacheEntries
    BY DEF CacheInv, CacheTyped
  <1>2. entries' = [entries EXCEPT ![archive] = entries[archive]] /\ unnoticed \subseteq unnoticed'
    BY <1>1 DEF CacheTyped
  <1>3. c.step \in {"populate", "promote"} => c.members \in Archives /\ ("replaced" \notin unnoticed' => c.members = c.digest)
    BY DEF ReadOf
  <1>4. QED
    BY <1>1, <1>2, <1>3, ReaderKeeps

\* A call that returns members that it found in an entry, or nothing.
LEMMA ReadEnds ==
  ASSUME CacheInv, NEW r \in Readers, reader[r].step # "idle", NEW result, EndRead(r, result),
         result = {} \/ (LET e == entries[reader[r].digest]
                         IN  Loads(e) /\ result = {[digest |-> reader[r].digest, members |-> Yields(e)]}),
         UNCHANGED <<archive, entries, unnoticed>>
  PROVE  CacheInv'
  <1>1. reader[r].digest \in Archives /\ EntryHolds(reader[r].digest)
    BY DEF CacheInv, ReaderHolds
  <1>2. \A a \in answers' \ answers : MembersOf(a.members, a.digest)
    BY <1>1 DEF EndRead, Loads, Yields, EntryHolds
  <1>3. reader' = [reader EXCEPT ![r] = IdleReader] /\ IdleReader \in ReaderCalls /\ IdleReader.step = "idle"
    BY DEF EndRead, IdleReader, ReaderCalls, ReaderSteps
  <1>4. QED
    BY <1>2, <1>3, ReaderGoesOn

LEMMA CacheStep == CacheInv /\ [CacheNext]_cacheVars => CacheInv'
  <1> SUFFICES ASSUME CacheInv, [CacheNext]_cacheVars PROVE CacheInv'
    OBVIOUS
  <1> USE DEF ReaderAt
  <1>1. /\ CacheTyped /\ archive \in Archives
        /\ \A k \in Archives : entries[k] \in CacheEntries /\ EntryHolds(k)
        /\ \A r \in Readers : reader[r] \in ReaderCalls /\ ReaderHolds(r)
    BY DEF CacheInv, CacheTyped
  <1>2. NoEntry \in CacheEntries /\ ~NoEntry.there /\ IdleReader \in ReaderCalls /\ IdleReader.step = "idle"
    BY DEF NoEntry, CacheEntries, IdleReader, ReaderCalls, ReaderSteps
  \* The call of r, moved to another step.
  <1>3. ASSUME NEW r \in Readers, NEW step \in ReaderSteps, reader' = [reader EXCEPT ![r].step = step]
        PROVE  \E c \in ReaderCalls : /\ reader' = [reader EXCEPT ![r] = c]
                                      /\ c.step = step /\ c.digest = reader[r].digest /\ c.members = reader[r].members
    <2> DEFINE c == [reader[r] EXCEPT !.step = step]
    <2>1. c \in ReaderCalls /\ c.step = step /\ c.digest = reader[r].digest /\ c.members = reader[r].members
      BY <1>1 DEF ReaderCalls
    <2>2. reader' = [reader EXCEPT ![r] = c]
      BY <1>1, <1>3 DEF CacheTyped
    <2>3. QED
      BY <2>1, <2>2
  <1>4. ASSUME NEW r \in Readers, StartRead(r) PROVE CacheInv'
    <2> DEFINE c == [IdleReader EXCEPT !.step = "lookup", !.digest = archive]
    <2>1. c \in ReaderCalls /\ c.step = "lookup" /\ c.digest \in Archives
      BY <1>1, <1>2 DEF ReaderCalls, ReaderSteps
    <2>2. reader' = [reader EXCEPT ![r] = c] /\ UNCHANGED <<archive, entries, unnoticed, answers>>
      BY <1>4 DEF StartRead
    <2> HIDE DEF c
    <2>3. QED
      BY <2>1, <2>2, ReaderGoesOn
  <1>5. ASSUME NEW r \in Readers, LookUp(r) PROVE CacheInv'
    <2>1. reader[r].step = "lookup" /\ reader[r].digest \in Archives /\ UNCHANGED <<archive, entries, unnoticed>>
      BY <1>1, <1>5 DEF LookUp, ReaderHolds
    <2>2. CASE Loads(entries[reader[r].digest])
      <3>1. EndRead(r, {[digest |-> reader[r].digest, members |-> Yields(entries[reader[r].digest])]})
        BY <1>5, <2>2 DEF LookUp
      <3>2. QED
        BY <2>1, <2>2, <3>1, ReadEnds
    <2>3. CASE ~Loads(entries[reader[r].digest])
      <3>1. PICK step \in {"quarantine", "archive"} : reader' = [reader EXCEPT ![r].step = step]
        BY <1>5, <2>3 DEF LookUp
      <3>2. step \in ReaderSteps /\ answers' = answers
        BY <1>5, <2>3 DEF ReaderSteps, LookUp
      <3>3. PICK c \in ReaderCalls : /\ reader' = [reader EXCEPT ![r] = c]
                                     /\ c.step = step /\ c.digest = reader[r].digest /\ c.members = reader[r].members
        BY <1>3, <3>1, <3>2
      <3>4. QED
        BY <2>1, <3>2, <3>3, ReaderGoesOn
    <2>4. QED
      BY <2>2, <2>3
  <1>6. ASSUME NEW r \in Readers, Quarantine(r) PROVE CacheInv'
    <2>1. reader[r].step = "quarantine" /\ reader[r].digest \in Archives /\ UNCHANGED <<archive, unnoticed>>
      BY <1>1, <1>6 DEF Quarantine, ReaderHolds
    <2>2. CASE entries[reader[r].digest].there
      <3>1. /\ reader' = [reader EXCEPT ![r].step = "archive"] /\ answers' = answers
            /\ entries' = [entries EXCEPT ![reader[r].digest] = NoEntry] /\ "archive" \in ReaderSteps
        BY <1>6, <2>2 DEF Quarantine, ReaderSteps
      <3>2. PICK c \in ReaderCalls : /\ reader' = [reader EXCEPT ![r] = c]
                                     /\ c.step = "archive" /\ c.digest = reader[r].digest /\ c.members = reader[r].members
        BY <1>3, <3>1
      <3>3. QED
        BY <1>1, <1>2, <2>1, <3>1, <3>2, ReaderKeeps
    <2>3. CASE ~entries[reader[r].digest].there
      <3>1. EndRead(r, {}) /\ entries' = entries
        BY <1>6, <2>3 DEF Quarantine
      <3>2. QED
        BY <2>1, <3>1, ReadEnds
    <2>4. QED
      BY <2>2, <2>3
  <1>7. ASSUME NEW r \in Readers, ReadArchive(r) PROVE CacheInv'
    <2> DEFINE c == [reader[r] EXCEPT !.step = "populate", !.members = archive]
    <2>1. /\ reader[r].step = "archive" /\ reader[r].digest \in Archives /\ UNCHANGED <<archive, entries, answers>>
          /\ reader' = [reader EXCEPT ![r].step = "populate", ![r].members = archive]
          /\ unnoticed' = unnoticed \cup (IF archive = reader[r].digest THEN {} ELSE {"replaced"})
      BY <1>1, <1>7 DEF ReadArchive, ReaderHolds
    <2>2. c \in ReaderCalls /\ c.digest = reader[r].digest /\ c.members = archive
      <3>1. "populate" \in ReaderSteps
        BY DEF ReaderSteps
      <3>2. QED
        BY <1>1, <3>1 DEF ReaderCalls
    <2>3. reader' = [reader EXCEPT ![r] = c] /\ entries' = [entries EXCEPT ![archive] = entries[archive]]
      BY <1>1, <2>1 DEF CacheTyped
    <2> HIDE DEF c
    <2>4. /\ unnoticed \subseteq unnoticed'
          /\ c.members \in Archives /\ ("replaced" \notin unnoticed' => c.members = c.digest)
      BY <1>1, <2>1, <2>2
    <2>5. /\ entries[archive] \in CacheEntries /\ archive \in Archives /\ archive' = archive
          /\ c.step # "idle" => c.digest \in Archives
          /\ \A a \in answers' \ answers : MembersOf(a.members, a.digest)
      BY <1>1, <2>1, <2>2
    <2>6. QED
      BY <2>2, <2>3, <2>4, <2>5, ReaderKeeps
  <1>8. ASSUME NEW r \in Readers, Populate(r) PROVE CacheInv'
    <2>1. /\ reader[r].step = "populate" /\ reader[r].digest \in Archives /\ "promote" \in ReaderSteps
          /\ UNCHANGED <<archive, entries, unnoticed>>
          /\ ReadOf(reader[r].members, reader[r].digest)
      BY <1>1, <1>8 DEF Populate, ReaderHolds, ReaderSteps
    <2>2. CASE reader' = [reader EXCEPT ![r].step = "promote"] /\ answers' = answers
      <3>1. PICK c \in ReaderCalls : /\ reader' = [reader EXCEPT ![r] = c]
                                     /\ c.step = "promote" /\ c.digest = reader[r].digest /\ c.members = reader[r].members
        BY <1>3, <2>1, <2>2
      <3>2. QED
        BY <2>1, <2>2, <3>1, ReaderGoesOn
    <2>3. CASE EndRead(r, {})
      BY <2>1, <2>3, ReadEnds
    <2>4. QED
      BY <1>8, <2>2, <2>3 DEF Populate
  <1>9. ASSUME NEW r \in Readers, Promote(r) PROVE CacheInv'
    <2>1. /\ reader[r].step = "promote" /\ reader[r].digest \in Archives /\ "load" \in ReaderSteps
          /\ UNCHANGED <<archive, unnoticed>>
          /\ ReadOf(reader[r].members, reader[r].digest) /\ MembersOf(reader[r].members, reader[r].digest)
      BY <1>1, <1>9 DEF Promote, ReaderHolds, ReaderSteps, ReadOf, MembersOf
    <2>2. CASE EndRead(r, {}) /\ entries' = entries
      BY <2>1, <2>2, ReadEnds
    <2>3. ASSUME reader' = [reader EXCEPT ![r].step = "load"]
          PROVE  \E c \in ReaderCalls : /\ reader' = [reader EXCEPT ![r] = c]
                                        /\ c.step = "load" /\ c.digest = reader[r].digest /\ c.members = reader[r].members
      BY <1>3, <2>1, <2>3
    <2>4. CASE /\ reader' = [reader EXCEPT ![r].step = "load"]
               /\ UNCHANGED <<entries, answers>>
      <3>1. PICK c \in ReaderCalls : /\ reader' = [reader EXCEPT ![r] = c]
                                     /\ c.step = "load" /\ c.digest = reader[r].digest /\ c.members = reader[r].members
        BY <2>3, <2>4
      <3>2. QED
        BY <2>1, <2>4, <3>1, ReaderGoesOn
    <2>5. CASE /\ reader' = [reader EXCEPT ![r].step = "load"] /\ answers' = answers
               /\ entries' = [entries EXCEPT ![reader[r].digest] = Entry(reader[r].members)]
      <3>1. PICK c \in ReaderCalls : /\ reader' = [reader EXCEPT ![r] = c]
                                     /\ c.step = "load" /\ c.digest = reader[r].digest /\ c.members = reader[r].members
        BY <2>3, <2>5
      <3>2. Entry(reader[r].members) \in CacheEntries /\ Entry(reader[r].members).members = reader[r].members
        BY <1>1 DEF Entry, CacheEntries, ReaderCalls
      <3>3. QED
        BY <1>1, <2>1, <2>5, <3>1, <3>2, ReaderKeeps
    <2>6. QED
      BY <1>9, <2>2, <2>4, <2>5 DEF Promote
  <1>10. ASSUME NEW r \in Readers, LoadEntry(r) PROVE CacheInv'
    <2> DEFINE e == entries[reader[r].digest]
               result == IF Loads(e) THEN {[digest |-> reader[r].digest, members |-> Yields(e)]} ELSE {}
    <2>1. reader[r].step = "load" /\ EndRead(r, result) /\ UNCHANGED <<archive, entries, unnoticed>>
      BY <1>10 DEF LoadEntry
    <2>2. QED
      BY <2>1, ReadEnds
  <1>11. ASSUME EntryRots PROVE CacheInv'
    <2>1. UNCHANGED <<archive, reader, answers>> /\ unnoticed \subseteq unnoticed'
      BY <1>11 DEF EntryRots
    <2>2. PICK d \in Archives :
            \/ entries' = [entries EXCEPT ![d].sound = FALSE] /\ unnoticed' = unnoticed
            \/ entries' = [entries EXCEPT ![d].members = "renamed"] /\ unnoticed' = unnoticed \cup {"renamed"}
      BY <1>11 DEF EntryRots
    <2>3. \E e \in CacheEntries : /\ entries' = [entries EXCEPT ![d] = e]
                                  /\ ~e.sound \/ (e.members = "renamed" /\ "renamed" \in unnoticed')
      <3>1. CASE entries' = [entries EXCEPT ![d].sound = FALSE]
        <4> DEFINE e == [entries[d] EXCEPT !.sound = FALSE]
        <4>1. e \in CacheEntries /\ ~e.sound
          BY <1>1 DEF CacheEntries
        <4>2. entries' = [entries EXCEPT ![d] = e]
          BY <1>1, <3>1 DEF CacheTyped
        <4> HIDE DEF e
        <4>3. QED
          BY <4>1, <4>2
      <3>2. CASE entries' = [entries EXCEPT ![d].members = "renamed"] /\ unnoticed' = unnoticed \cup {"renamed"}
        <4> DEFINE e == [entries[d] EXCEPT !.members = "renamed"]
        <4>1. e \in CacheEntries /\ e.members = "renamed" /\ "renamed" \in unnoticed'
          BY <1>1, <3>2 DEF CacheEntries
        <4>2. entries' = [entries EXCEPT ![d] = e]
          BY <1>1, <3>2 DEF CacheTyped
        <4> HIDE DEF e
        <4>3. QED
          BY <4>1, <4>2
      <3>3. QED
        BY <2>2, <3>1, <3>2
    <2>4. PICK e \in CacheEntries : /\ entries' = [entries EXCEPT ![d] = e]
                                    /\ ~e.sound \/ (e.members = "renamed" /\ "renamed" \in unnoticed')
      BY <2>3
    <2>5. \A k \in Archives : EntryHolds(k)'
      BY <1>1, <2>1, <2>4 DEF EntryHolds, MembersOf, CacheTyped
    <2>6. \A r \in Readers : ReaderHolds(r)'
      BY <1>1, <2>1 DEF ReaderHolds, ReadOf
    <2>7. MembersWhole'
      BY <2>1 DEF CacheInv, MembersWhole
    <2>8. CacheTyped'
      BY <1>1, <2>1, <2>4 DEF CacheTyped
    <2>9. QED
      BY <2>5, <2>6, <2>7, <2>8 DEF CacheInv
  <1>12. ASSUME ArchiveReplaced \/ UNCHANGED cacheVars PROVE CacheInv'
    <2>1. archive' \in Archives /\ UNCHANGED <<entries, reader, answers, unnoticed>>
      BY <1>1, <1>12 DEF ArchiveReplaced, cacheVars
    <2>2. QED
      BY <1>1, <2>1 DEF CacheInv, CacheTyped, EntryHolds, ReaderHolds, MembersWhole, MembersOf, ReadOf
  <1>13. ASSUME NEW r \in Readers, ReaderDies(r) PROVE CacheInv'
    <2>1. reader' = [reader EXCEPT ![r] = IdleReader] /\ UNCHANGED <<archive, entries, answers, unnoticed>>
      BY <1>13 DEF ReaderDies
    <2>2. QED
      BY <1>2, <2>1, ReaderGoesOn
  <1>14. QED
    BY <1>4, <1>5, <1>6, <1>7, <1>8, <1>9, <1>10, <1>11, <1>12, <1>13 DEF CacheNext

\* Members that are returned are whole, and of the archive asked for unless it was
\* replaced before a call read it.  (read_archive_members_cached, _load_entry)
LEMMA MembersStayWhole == CacheSpec => []MembersWhole
  <1>1. CacheInit => CacheInv
    BY CacheStarts
  <1>2. CacheInv /\ [CacheNext]_cacheVars => CacheInv'
    BY CacheStep
  <1>3. CacheInv => MembersWhole
    BY DEF CacheInv
  <1>4. QED
    BY <1>1, <1>2, <1>3, PTL DEF CacheSpec

\* Whatever builders and readers race over, what they hand out is what was asked
\* for.  (guarded_operations.py, archive_member_cache.py)
THEOREM BuildsStayTrue == BuildSpec /\ CacheSpec => []BuildsTrue
  <1>1. ReceiptTrue /\ FailureLeavesNothing /\ MembersWhole => BuildsTrue
    BY DEF BuildsTrue
  <1>2. QED
    BY <1>1, ReceiptsStayTrue, MembersStayWhole, PTL

-----------------------------------------------------------------------------
(***************************************************************************)
(* CandidateLifecycle: behind an installation stands a decision on a       *)
(* registered deployment.                                                  *)
(***************************************************************************)

\* The candidates whose parent, if any, is in the registry with them.
ParentsPresent(rs) == \A r \in rs : Parents[r.id] \in Ids(rs) \cup {NoCandidate}

Snapshots == [id : SnapshotIds, identity : Candidates, at : Nat, complete : BOOLEAN]
Decisions == [node : nodes, seen : Nat, at : Nat]

\* A decision was judged at most MaxAge after its deployment's candidate was seen installed.
DecisionHolds(d) ==
  /\ d.seen <= d.at /\ d.at - d.seen <= MaxAge
  /\ \E s \in snapshots : s.at = d.seen /\ s.identity = d.node.identity /\ s.id = d.node.snapshot /\ s.complete

\* An installation that was validated has its decision and its deployment.
EventHolds(e) ==
  e.type = "INSTALL_VALIDATED" => \E d \in decisions : d.node = e.node

LifecycleInv ==
  /\ records \subseteq Records
  /\ ParentsPresent(records)
  /\ installed \in Candidates \cup {NoCandidate}
  /\ clock \in Nat
  /\ snapshots \subseteq Snapshots
  /\ \A n \in nodes : n.identity \in Ids(records)
  /\ decisions \subseteq Decisions
  /\ \A d \in decisions : DecisionHolds(d)
  /\ events \in Seq([type : EventTypes, node : nodes \cup {NoNode}, at : Nat])
  /\ \A i \in 1..Len(events) : EventHolds(events[i])

LEMMA ValidHasParents ==
  ASSUME NEW rs, RegistryValid(rs)
  PROVE  ParentsPresent(rs)
  <1>1. ASSUME NEW r \in rs PROVE Parents[r.id] \in Ids(rs) \cup {NoCandidate}
    <2>1. \A e \in r.edges : e.other \in Ids(rs)
      BY <1>1 DEF RegistryValid
    <2>2. {e.other : e \in {x \in r.edges : x.type \in ParentEdges}}
         = IF Parents[r.id] = NoCandidate THEN {} ELSE {Parents[r.id]}
      BY <1>1 DEF RegistryValid
    <2>3. QED
      BY <2>1, <2>2
  <1>2. QED
    BY <1>1 DEF ParentsPresent

LEMMA LifecycleStarts == LifecycleInit => LifecycleInv
  BY DEF LifecycleInit, LifecycleInv, ParentsPresent

LEMMA LifecycleSteps == LifecycleInv /\ [LifecycleNext]_lifecycleVars => LifecycleInv'
  <1> SUFFICES ASSUME LifecycleInv, [LifecycleNext]_lifecycleVars PROVE LifecycleInv'
    OBVIOUS
  <1> USE DEF LifecycleInv
  <1>1. CASE UNCHANGED lifecycleVars
    BY <1>1 DEF lifecycleVars, ParentsPresent, Decisions, DecisionHolds, EventHolds
  <1>2. ASSUME NEW r \in Records, AddCandidate(r) PROVE LifecycleInv'
    <2>1. /\ records' = records \cup {r} /\ RegistryValid(records \cup {r})
          /\ UNCHANGED <<installed, snapshots, nodes, decisions, events, clock>>
      BY <1>2 DEF AddCandidate
    <2>2. ParentsPresent(records')
      BY <2>1, ValidHasParents
    <2>3. Ids(records) \subseteq Ids(records')
      BY <2>1 DEF Ids
    <2>4. /\ \A n \in nodes' : n.identity \in Ids(records')
          /\ decisions' \subseteq Decisions'
          /\ \A d \in decisions' : DecisionHolds(d)'
          /\ \A i \in 1..Len(events') : EventHolds(events[i])'
      BY <2>1, <2>3 DEF Decisions, DecisionHolds, EventHolds
    <2>5. records' \subseteq Records
      BY <2>1
    <2>6. QED
      BY <2>1, <2>2, <2>4, <2>5 DEF ParentsPresent
  <1>3. CASE WorldChanges
    BY <1>3 DEF WorldChanges, ParentsPresent, Decisions, DecisionHolds, EventHolds
  <1>4. CASE Tick
    <2>1. clock' = clock + 1 /\ UNCHANGED <<records, installed, snapshots, nodes, decisions, events>>
      BY <1>4 DEF Tick
    <2>2. \A d \in decisions : DecisionHolds(d)'
      BY <2>1 DEF DecisionHolds
    <2>3. QED
      BY <2>1, <2>2 DEF ParentsPresent, Decisions, EventHolds
  <1>5. ASSUME NEW id \in SnapshotIds, NEW complete \in BOOLEAN, CaptureSnapshot(id, complete) PROVE LifecycleInv'
    <2>1. /\ installed # NoCandidate
          /\ snapshots' = snapshots \cup {[id |-> id, identity |-> installed, at |-> clock, complete |-> complete]}
          /\ UNCHANGED <<records, installed, nodes, decisions, events, clock>>
      BY <1>5 DEF CaptureSnapshot
    <2>2. snapshots' \subseteq Snapshots
      BY <2>1 DEF Snapshots
    <2>3. \A d \in decisions : DecisionHolds(d)'
      BY <2>1 DEF DecisionHolds
    <2>4. QED
      BY <2>1, <2>2, <2>3 DEF ParentsPresent, Decisions, EventHolds
  <1>6. ASSUME NEW s \in snapshots, Register(s) PROVE LifecycleInv'
    <2> DEFINE n == [identity |-> s.identity, snapshot |-> s.id]
    <2>1. /\ nodes' = nodes \cup {n} /\ s.identity \in Ids(records)
          /\ UNCHANGED <<records, installed, snapshots, decisions, events, clock>>
      BY <1>6 DEF Register
    <2>2. n.identity \in Ids(records)
      BY <2>1
    <2> HIDE DEF n
    <2>3. /\ \A m \in nodes' : m.identity \in Ids(records')
          /\ decisions' \subseteq Decisions'
      BY <2>1, <2>2 DEF Decisions
    <2>4. events' \in Seq([type : EventTypes, node : nodes \cup {NoNode}, at : Nat]')
      <3> DEFINE A == [type : EventTypes, node : nodes \cup {NoNode}, at : Nat]
                 B == [type : EventTypes, node : nodes' \cup {NoNode}, at : Nat]
      <3>1. A \subseteq B
        BY <2>1
      <3>2. events \in Seq(A)
        OBVIOUS
      <3>3. events \in Seq(B)
        <4> HIDE DEF A, B
        <4>1. QED
          BY <3>1, <3>2
      <3>4. QED
        BY <2>1, <3>3
    <2>5. QED
      BY <2>1, <2>3, <2>4 DEF ParentsPresent, DecisionHolds, EventHolds
  <1>7. ASSUME NEW n \in nodes, NEW s \in snapshots, NEW evaluated \in 0..MaxTime, Decide(n, s, evaluated)
        PROVE  LifecycleInv'
    <2> DEFINE d == [node |-> n, seen |-> s.at, at |-> evaluated]
    <2>1. /\ decisions' = decisions \cup {d}
          /\ Allowed(n, s, evaluated)
          /\ UNCHANGED <<records, installed, snapshots, nodes, events, clock>>
      BY <1>7 DEF Decide
    <2>2. s.at \in Nat /\ s.at <= evaluated /\ evaluated - s.at <= MaxAge
      BY <2>1 DEF Allowed, Fresh, Snapshots
    <2>3. d \in Decisions /\ d.at = evaluated /\ d.seen = s.at /\ d.node = n
      BY <2>2 DEF Decisions
    <2> HIDE DEF d
    <2>4. DecisionHolds(d)
      BY <2>1, <2>2, <2>3 DEF DecisionHolds, Allowed
    <2>5. decisions' \subseteq Decisions' /\ \A x \in decisions' : DecisionHolds(x)'
      BY <2>1, <2>3, <2>4 DEF Decisions, DecisionHolds
    <2>6. \A i \in 1..Len(events') : EventHolds(events[i])'
      BY <2>1 DEF EventHolds
    <2>7. QED
      BY <2>1, <2>5, <2>6 DEF ParentsPresent
  <1>8. ASSUME NEW type \in EventTypes, NEW producer \in {"installer", "runtime_importer", "migration"},
               NEW node \in nodes \cup {NoNode}, NEW at \in EventTimes,
               AppendEvent([type |-> type, producer |-> producer, node |-> node, at |-> at])
        PROVE  LifecycleInv'
    <2> DEFINE e == [type |-> type, node |-> node, at |-> at]
    <2>1. /\ type = "INSTALL_VALIDATED" => \E d \in decisions : d.node = node
          /\ events' = Append(events, e)
          /\ UNCHANGED <<records, installed, snapshots, nodes, decisions, clock>>
      BY <1>8 DEF AppendEvent, GatedBy
    <2>2. e \in [type : EventTypes, node : nodes \cup {NoNode}, at : Nat]
      BY LifecycleConstants DEF EventTimes
    <2>3. EventHolds(e)
      BY <2>1 DEF EventHolds, DecisionHolds
    <2> HIDE DEF e
    <2>4. events' \in Seq([type : EventTypes, node : nodes \cup {NoNode}, at : Nat])
      BY <2>1, <2>2
    <2>5. \A i \in 1..Len(events') : EventHolds(events'[i])
      <3> DEFINE A == [type : EventTypes, node : nodes \cup {NoNode}, at : Nat]
      <3>1. e \in A /\ events \in Seq(A) /\ events' = Append(events, e)
        BY <2>1, <2>2
      <3> HIDE DEF A
      <3>2. \A i \in 1..Len(events') : events'[i] = e \/ (i \in 1..Len(events) /\ events'[i] = events[i])
        BY <3>1
      <3>3. QED
        BY <2>3, <3>2
    <2>6. QED
      BY <2>1, <2>4, <2>5 DEF ParentsPresent, Decisions, DecisionHolds, EventHolds
  <1>9. QED
    BY <1>1, <1>2, <1>3, <1>4, <1>5, <1>6, <1>7, <1>8 DEF LifecycleNext

LEMMA InstallTrueHolds == LifecycleInv => InstallTrue
  <1> SUFFICES ASSUME LifecycleInv, NEW i \in 1..Len(events), events[i].type = "INSTALL_VALIDATED"
               PROVE  /\ \E d \in decisions :
                           /\ d.node = events[i].node /\ d.seen <= d.at /\ d.at - d.seen <= MaxAge
                           /\ \E s \in snapshots :
                                s.at = d.seen /\ s.identity = d.node.identity /\ s.id = d.node.snapshot /\ s.complete
                      /\ events[i].node.identity \in Ids(records)
                      /\ Parents[events[i].node.identity] \in Ids(records) \cup {NoCandidate}
    BY DEF InstallTrue
  <1>1. PICK d \in decisions : d.node = events[i].node
    BY DEF LifecycleInv, EventHolds
  <1>2. DecisionHolds(d) /\ d.node \in nodes
    BY <1>1 DEF LifecycleInv, Decisions
  <1>3. d.node.identity \in Ids(records)
    BY <1>2 DEF LifecycleInv
  <1>4. PICK r \in records : r.id = d.node.identity
    BY <1>3 DEF Ids
  <1>5. Parents[d.node.identity] \in Ids(records) \cup {NoCandidate}
    BY <1>4 DEF LifecycleInv, ParentsPresent
  <1>6. QED
    BY <1>1, <1>2, <1>3, <1>5 DEF DecisionHolds

-----------------------------------------------------------------------------
(***************************************************************************)
(* InstallGates, CandidatePlan: what is done to a candidate is what was    *)
(* reviewed.                                                               *)
(***************************************************************************)

\* Installs: from its approval to its copy, a verified install is of the
\* candidate's package and of the receipts that the caller accepted.
Approvings == [source : {b.artifact : b \in BuildsMade} \cup {"more_files", "none", CandidateArtifact},
               bundle : [Roles -> BuildsMade \cup {{}}]]

Installs ==
  [topic : {"install"}, phase : {"idle", "planned", "refused", "verified", "installed"}, report : BuildsMade,
   refs : [Roles -> BuildsMade], file : [Roles -> BuildsMade], conflict : {"confirmed_none", "partial"},
   source : {b.artifact : b \in BuildsMade} \cup {"more_files", CandidateArtifact},
   approved : Approvings, installed : Approvings, writes : Nat]

\* What the caller accepted, when the gates pass.
Accepted(f) == [source |-> CandidateArtifact, bundle |-> f.refs]

InstallHolds(f) ==
  /\ f.phase \in {"verified", "installed"} => f.approved = Accepted(f)
  /\ f.phase = "installed" => /\ f.installed = f.approved
                              /\ \A r \in {"build", "parent_diff", "package"} :
                                   f.refs[r].artifact = CandidateArtifact /\ f.refs[r].passed

LEMMA GatesMean ==
  ASSUME NEW f \in Installs, GatesPass(f)
  PROVE  /\ ApprovalTargets(f) = Accepted(f)
         /\ \A r \in {"build", "parent_diff", "package"} : f.refs[r].artifact = CandidateArtifact /\ f.refs[r].passed
  <1>1. f.file = f.refs
    <2>1. f.file \in [Roles -> BuildsMade] /\ f.refs \in [Roles -> BuildsMade]
      BY DEF Installs
    <2>2. \A r \in Roles : f.file[r] = f.refs[r]
      BY DEF GatesPass, HashesHold
    <2>3. QED
      BY <2>1, <2>2
  <1>2. f.source = CandidateArtifact
    BY DEF GatesPass, SourceVerified
  <1>3. ApprovalTargets(f) = Accepted(f)
    BY <1>1, <1>2 DEF ApprovalTargets, Accepted
  <1>4. f.report.passed /\ f.report.artifact = CandidateArtifact
    BY DEF GatesPass
  <1>5. /\ f.file["build"].passed /\ f.file["build"].artifact = f.report.artifact
        /\ f.file["parent_diff"].passed /\ f.file["parent_diff"].artifact = f.report.artifact
        /\ f.file["package"] = f.report
    BY DEF GatesPass, ReceiptsAgree
  <1>6. QED
    BY <1>1, <1>3, <1>4, <1>5

LEMMA InstallSteps ==
  ASSUME facts \in Installs, InstallHolds(facts),
         \/ PlanInstall \/ ExecuteInstall \/ MutateInstall \/ WriteReceiptOfBuild \/ WriteSource
  PROVE  facts' \in Installs /\ InstallHolds(facts')
  <1> DEFINE targets == ApprovalTargets(facts)
  <1>0. targets \in Approvings
    BY DEF ApprovalTargets, Approvings, Installs
  <1>1. CASE PlanInstall
    <2>1. CASE facts' = [facts EXCEPT !.phase = "planned", !.approved = targets]
      <3> HIDE DEF targets
      <3>1. facts' \in Installs /\ facts'.phase = "planned"
        BY <1>0, <2>1 DEF Installs
      <3>2. QED
        BY <3>1 DEF InstallHolds
    <2>2. CASE facts' = [facts EXCEPT !.phase = "refused"]
      <3>1. facts' \in Installs /\ facts'.phase = "refused"
        BY <2>2 DEF Installs
      <3>2. QED
        BY <3>1 DEF InstallHolds
    <2>3. QED
      BY <1>1, <2>1, <2>2 DEF PlanInstall
  <1>2. CASE ExecuteInstall
    <2>1. CASE GatesPass(facts) /\ targets = facts.approved
      <3>1. facts' = [facts EXCEPT !.phase = "verified"]
        BY <1>2, <2>1 DEF ExecuteInstall
      <3>2. facts' \in Installs /\ facts'.phase = "verified" /\ facts'.approved = facts.approved /\ facts'.refs = facts.refs
        BY <3>1 DEF Installs
      <3>3. facts.approved = Accepted(facts)
        BY <2>1, GatesMean
      <3>4. QED
        BY <3>2, <3>3 DEF InstallHolds, Accepted
    <2>2. CASE ~(GatesPass(facts) /\ targets = facts.approved)
      <3>1. facts' = [facts EXCEPT !.phase = "refused"]
        BY <1>2, <2>2 DEF ExecuteInstall
      <3>2. facts' \in Installs /\ facts'.phase = "refused"
        BY <3>1 DEF Installs
      <3>3. QED
        BY <3>2 DEF InstallHolds
    <2>3. QED
      BY <2>1, <2>2
  <1>3. CASE MutateInstall
    <2>1. CASE GatesPass(facts)
      <3>1. facts' = [facts EXCEPT !.phase = "installed", !.installed = targets] /\ facts.phase = "verified"
        BY <1>3, <2>1 DEF MutateInstall
      <3>2. targets = Accepted(facts)
            /\ \A r \in {"build", "parent_diff", "package"} :
                 facts.refs[r].artifact = CandidateArtifact /\ facts.refs[r].passed
        BY <2>1, GatesMean
      <3> HIDE DEF targets
      <3>3. /\ facts' \in Installs /\ facts'.phase = "installed" /\ facts'.approved = facts.approved
            /\ facts'.refs = facts.refs /\ facts'.installed = targets
        BY <1>0, <3>1 DEF Installs
      <3>4. QED
        BY <3>1, <3>2, <3>3 DEF InstallHolds, Accepted
    <2>2. CASE ~GatesPass(facts)
      <3>1. facts' = [facts EXCEPT !.phase = "refused"]
        BY <1>3, <2>2 DEF MutateInstall
      <3>2. facts' \in Installs /\ facts'.phase = "refused"
        BY <3>1 DEF Installs
      <3>3. QED
        BY <3>2 DEF InstallHolds
    <2>3. QED
      BY <2>1, <2>2
  <1>4. CASE WriteReceiptOfBuild
    <2>1. PICK r \in Roles, b \in BuildsMade : facts' = [facts EXCEPT !.writes = @ + 1, !.file[r] = b]
      BY <1>4 DEF WriteReceiptOfBuild
    <2> DEFINE file == [facts.file EXCEPT ![r] = b]
    <2>2. file \in [Roles -> BuildsMade]
      BY DEF Installs
    <2>3. facts.writes + 1 \in Nat
      BY DEF Installs
    <2>4. PICK n \in Nat : facts' = [facts EXCEPT !.writes = n, !.file = file]
      BY <2>1, <2>3
    <2> HIDE DEF file
    <2>5. facts' \in Installs
      BY <2>2, <2>4 DEF Installs
    <2>6. /\ facts'.phase = facts.phase /\ facts'.approved = facts.approved
          /\ facts'.refs = facts.refs /\ facts'.installed = facts.installed
      BY <2>4 DEF Installs
    <2>7. QED
      BY <2>5, <2>6 DEF InstallHolds, Accepted
  <1>5. CASE WriteSource
    <2>1. PICK a \in {b.artifact : b \in BuildsMade} \cup {"more_files"} : facts' = [facts EXCEPT !.writes = @ + 1, !.source = a]
      BY <1>5 DEF WriteSource
    <2>2. facts.writes + 1 \in Nat
      BY DEF Installs
    <2>3. PICK n \in Nat : facts' = [facts EXCEPT !.writes = n, !.source = a]
      BY <2>1, <2>2
    <2>4. facts' \in Installs
      BY <2>3 DEF Installs
    <2>5. /\ facts'.phase = facts.phase /\ facts'.approved = facts.approved
          /\ facts'.refs = facts.refs /\ facts'.installed = facts.installed
      BY <2>3 DEF Installs
    <2>6. QED
      BY <2>4, <2>5 DEF InstallHolds, Accepted
  <1>6. QED
    BY <1>1, <1>2, <1>3, <1>4, <1>5

\* The receipt of an install, and what the disk holds.
Contents == {"written", "foreign", "none", "some", "installed", "prior", "after", "before"}
InstallReceipts ==
  [topic : {"receipt"}, version : 1 .. 3, prior : {"prior", "none"}, doc : [ReceiptFields -> Contents],
   digest : [AttestedFields -> Contents], disk : [DiskPlaces -> Contents], phase : {"idle", "checked", "copied", "restored", "recovered"},
   saved : Contents, copy : [tree : Contents, order : Contents], edits : Nat, writes : Nat]

\* The receipt's hashes are those that the install wrote.
HashesAsWritten(d, prior) ==
  d["installed_tree"] = "installed" /\ d["original_tree"] = prior /\ d["order_before"] = "before" /\ d["order_after"] = "after"

DiskAsLeft(disk, prior) ==
  disk["target"] = "installed" /\ disk["backup"] = prior /\ disk["backup_order"] = "before" /\ disk["order"] = "after"

CopyAsSaid(f) == f.copy = [tree |-> f.doc["installed_tree"], order |-> f.doc["order_after"]]

\* What a rollback has in hand is what its receipt says, and the disk as the install
\* left it lets only a receipt with the hashes of the install through.
RollbackHolds(f) ==
  /\ f.doc["target_existed"] \in {"some", "none"}
  /\ f.phase \in {"checked", "copied"} => f.saved = f.doc["order_before"]
  /\ f.phase \in {"copied", "restored"} => CopyAsSaid(f)
  /\ f.phase = "restored" => f.disk[FolderNamed(f.doc)] = f.doc["original_tree"] /\ f.disk["order"] = f.doc["order_before"]
  /\ f.writes = 0 /\ f.phase \in {"idle", "checked", "copied"} => DiskAsLeft(f.disk, f.prior)
  /\ f.writes = 0 /\ FolderNamed(f.doc) = "target" /\ f.phase \in {"checked", "copied", "restored"} => HashesAsWritten(f.doc, f.prior)

LEMMA FoldersArePlaces == \A d : FolderNamed(d) \in DiskPlaces /\ FolderNamed(d) # "order"
  BY DEF FolderNamed, DiskPlaces

\* What the install wrote into the fields, one by one where a value is told apart.
LEMMA WrittenValues ==
  ASSUME NEW prior \in {"prior", "none"}
  PROVE  /\ WrittenByInstall(prior) \in [ReceiptFields -> Contents]
         /\ HashesAsWritten(WrittenByInstall(prior), prior)
         /\ WrittenByInstall(prior)["target_existed"] \in {"some", "none"}
         /\ WrittenByInstall(prior)["target_existed"] = "none" <=> prior = "none"
  <1>1. \A x \in ReceiptFields : WrittenByInstall(prior)[x] \in Contents
    BY DEF WrittenByInstall, Contents
  <1>2. WrittenByInstall(prior) \in [ReceiptFields -> Contents]
    BY <1>1 DEF WrittenByInstall
  <1>3. HashesAsWritten(WrittenByInstall(prior), prior)
    BY DEF WrittenByInstall, HashesAsWritten, ReceiptFields, TreeFields, PriorFields
  <1>4. /\ WrittenByInstall(prior)["target_existed"] \in {"some", "none"}
        /\ WrittenByInstall(prior)["target_existed"] = "none" <=> prior = "none"
    BY DEF WrittenByInstall, ReceiptFields, PriorFields
  <1>5. QED
    BY <1>2, <1>3, <1>4

LEMMA DigestType ==
  ASSUME NEW d \in [ReceiptFields -> Contents]
  PROVE  DigestOf(d) \in [AttestedFields -> Contents]
  BY DEF DigestOf, ReceiptFields

LEMMA RollbackSteps ==
  ASSUME facts \in InstallReceipts, RollbackHolds(facts), CheckReceipt \/ CopyCurrent \/ RestorePrior
  PROVE  facts' \in InstallReceipts /\ RollbackHolds(facts')
  <1> DEFINE d == facts.doc
             to == FolderNamed(facts.doc)
  <1>1. CASE CheckReceipt
    <2>1. /\ facts.phase = "idle" /\ DiskAgrees(facts.doc, facts.disk)
          /\ facts' = [facts EXCEPT !.phase = "checked", !.saved = facts.disk["backup_order"]]
      BY <1>1 DEF CheckReceipt
    <2>2. facts' \in InstallReceipts
      BY <2>1 DEF InstallReceipts, DiskPlaces
    <2>3. facts'.saved = facts'.doc["order_before"]
      BY <2>1 DEF DiskAgrees, InstallReceipts
    <2>4. /\ facts'.doc = facts.doc /\ facts'.disk = facts.disk /\ facts'.prior = facts.prior /\ facts'.writes = facts.writes
          /\ facts'.phase = "checked"
      BY <2>1 DEF InstallReceipts
    <2>5. facts.writes = 0 => DiskAsLeft(facts.disk, facts.prior)
      BY <2>1 DEF RollbackHolds
    <2>6. facts.writes = 0 /\ to = "target" => HashesAsWritten(facts.doc, facts.prior)
      BY <2>1, <2>5 DEF DiskAgrees, DiskAsLeft, HashesAsWritten
    <2>7. QED
      BY <2>2, <2>3, <2>4, <2>5, <2>6 DEF RollbackHolds
  <1>2. CASE CopyCurrent
    <2> DEFINE c == [tree |-> facts.disk[to], order |-> facts.disk["order"]]
               good == c.tree = d["installed_tree"] /\ c.order = d["order_after"]
    <2>1. facts.phase = "checked" /\ facts' = IF good THEN [facts EXCEPT !.phase = "copied", !.copy = c]
                                               ELSE [facts EXCEPT !.phase = "idle", !.saved = "none"]
      BY <1>2 DEF CopyCurrent
    <2>2. c \in [tree : Contents, order : Contents]
      BY FoldersArePlaces DEF InstallReceipts, DiskPlaces
    <2>3. good => c = [tree |-> d["installed_tree"], order |-> d["order_after"]]
      OBVIOUS
    <2> HIDE DEF c, good
    <2>4. facts' \in InstallReceipts
      BY <2>1, <2>2 DEF InstallReceipts, Contents
    <2>5. /\ facts'.doc = facts.doc /\ facts'.disk = facts.disk /\ facts'.prior = facts.prior /\ facts'.writes = facts.writes
          /\ \/ facts'.phase = "copied" /\ facts'.copy = c /\ facts'.saved = facts.saved /\ good
             \/ facts'.phase = "idle"
      BY <2>1 DEF InstallReceipts
    <2>6. facts'.phase = "copied" => CopyAsSaid(facts')
      BY <2>3, <2>5 DEF CopyAsSaid
    <2>7. QED
      BY <2>1, <2>4, <2>5, <2>6 DEF RollbackHolds
  <1>3. CASE RestorePrior
    <2> DEFINE tree == IF d["target_existed"] = "none" THEN "none" ELSE facts.disk["backup"]
               restored == /\ tree = d["original_tree"] /\ tree = d["before_ledger"]
                           /\ facts.saved = d["order_before"] /\ facts.saved = d["order_before_bytes"]
               disk == [facts.disk EXCEPT ![to] = IF restored THEN tree ELSE facts.copy.tree,
                                          !["order"] = IF restored THEN facts.saved ELSE facts.copy.order]
    <2>1. facts.phase = "copied" /\ facts' = [facts EXCEPT !.phase = IF restored THEN "restored" ELSE "recovered", !.disk = disk]
      BY <1>3 DEF RestorePrior, InstallReceipts
    <2>2. tree \in Contents /\ facts.saved \in Contents /\ facts.copy.tree \in Contents /\ facts.copy.order \in Contents
      BY DEF InstallReceipts, DiskPlaces, Contents
    <2>3. disk \in [DiskPlaces -> Contents]
      BY <2>2, FoldersArePlaces DEF InstallReceipts
    <2>4. restored => disk[to] = d["original_tree"] /\ disk["order"] = d["order_before"]
      BY FoldersArePlaces DEF InstallReceipts, DiskPlaces
    <2> HIDE DEF restored, disk
    <2>5. facts' \in InstallReceipts
      BY <2>1, <2>3 DEF InstallReceipts
    <2>6. /\ facts'.doc = facts.doc /\ facts'.disk = disk /\ facts'.prior = facts.prior /\ facts'.writes = facts.writes
          /\ facts'.copy = facts.copy /\ facts'.phase \in {"restored", "recovered"}
          /\ facts'.phase = "restored" => restored
      BY <2>1 DEF InstallReceipts
    <2>7. CopyAsSaid(facts')
      BY <2>1, <2>6 DEF RollbackHolds, CopyAsSaid
    <2>8. QED
      BY <2>1, <2>4, <2>5, <2>6, <2>7 DEF RollbackHolds
  <1>4. QED
    BY <1>1, <1>2, <1>3

LEMMA ReceiptEdits ==
  ASSUME facts \in InstallReceipts, RollbackHolds(facts), EditInstallReceipt \/ EditDigest \/ EditDisk
  PROVE  facts' \in InstallReceipts /\ RollbackHolds(facts')
  <1>1. CASE EditInstallReceipt
    <2>1. PICK X \in EditedTogether, again \in BOOLEAN :
            \E v \in IF X \subseteq PriorFields THEN {"foreign", "none"} ELSE {"foreign"} :
              facts' = [facts EXCEPT !.doc = EditedReceipt(facts, X, v), !.edits = facts.edits + 1,
                                     !.digest = IF again THEN DigestOf(EditedReceipt(facts, X, v)) ELSE facts.digest]
      BY <1>1, ZenonT(30) DEF EditInstallReceipt
    <2>2. PICK v \in {"foreign", "none"} :
              facts' = [facts EXCEPT !.doc = EditedReceipt(facts, X, v), !.edits = facts.edits + 1,
                                     !.digest = IF again THEN DigestOf(EditedReceipt(facts, X, v)) ELSE facts.digest]
      BY <2>1
    <2> DEFINE d == EditedReceipt(facts, X, v)
               h == IF again THEN DigestOf(d) ELSE facts.digest
    <2>3. d \in [ReceiptFields -> Contents]
      BY DEF InstallReceipts, Contents, EditedReceipt
    <2>4. "target_existed" \in ReceiptFields
      BY DEF ReceiptFields, PriorFields
    <2>5. d["target_existed"] \in {"some", "none"}
      BY <2>4 DEF RollbackHolds, EditedReceipt
    <2>13. facts.phase = "idle"
      BY <1>1, Zenon DEF EditInstallReceipt
    <2>6. facts.edits + 1 \in Nat /\ facts.phase = "idle"
      BY <2>13 DEF InstallReceipts
    <2>12. facts' = [facts EXCEPT !.doc = d, !.edits = facts.edits + 1, !.digest = h]
      BY <2>2
    <2>7. PICK n \in Nat : facts' = [facts EXCEPT !.doc = d, !.edits = n, !.digest = h]
      BY <2>12, <2>6, Zenon
    <2> HIDE DEF d
    <2>8. h \in [AttestedFields -> Contents]
      BY <2>3, DigestType DEF InstallReceipts
    <2> HIDE DEF h
    <2>9. facts' \in InstallReceipts
      BY <2>3, <2>7, <2>8 DEF InstallReceipts
    <2>10. /\ facts'.doc = d /\ facts'.disk = facts.disk /\ facts'.prior = facts.prior /\ facts'.writes = facts.writes
           /\ facts'.phase = "idle"
      BY <2>6, <2>7 DEF InstallReceipts
    <2>11. QED
      BY <2>5, <2>6, <2>9, <2>10 DEF RollbackHolds
  <1>2. CASE EditDigest
    <2> DEFINE h == [x \in AttestedFields |-> "none"]
    <2>1. h \in [AttestedFields -> Contents]
      BY DEF Contents
    <2>2. facts.edits + 1 \in Nat
      BY DEF InstallReceipts
    <2>3. PICK n \in Nat : facts' = [facts EXCEPT !.digest = h, !.edits = n]
      BY <1>2, <2>2 DEF EditDigest
    <2> HIDE DEF h
    <2>4. facts' \in InstallReceipts
      BY <2>1, <2>3 DEF InstallReceipts
    <2>5. /\ facts'.doc = facts.doc /\ facts'.disk = facts.disk /\ facts'.prior = facts.prior /\ facts'.writes = facts.writes
          /\ facts'.phase = facts.phase /\ facts'.saved = facts.saved /\ facts'.copy = facts.copy
      BY <2>3 DEF InstallReceipts
    <2>6. QED
      BY <2>4, <2>5 DEF RollbackHolds, CopyAsSaid
  <1>3. CASE EditDisk
    <2>1. PICK x \in DiskPlaces : \E c \in IF x \in TreePlaces THEN Trees ELSE Orders :
            facts' = [facts EXCEPT !.disk[x] = c, !.writes = @ + 1]
      BY <1>3 DEF EditDisk
    <2>2. PICK c \in Contents : facts' = [facts EXCEPT !.disk[x] = c, !.writes = @ + 1]
      BY <2>1 DEF Contents, Trees, Orders
    <2> DEFINE disk == [facts.disk EXCEPT ![x] = c]
    <2>3. disk \in [DiskPlaces -> Contents]
      BY DEF InstallReceipts
    <2>4. facts.writes + 1 \in Nat /\ facts.writes + 1 # 0
      BY DEF InstallReceipts
    <2>5. PICK n \in Nat : facts' = [facts EXCEPT !.disk = disk, !.writes = n] /\ n # 0
      BY <2>2, <2>4
    <2> HIDE DEF disk
    <2>6. facts' \in InstallReceipts
      BY <2>3, <2>5 DEF InstallReceipts
    <2>7. /\ facts'.doc = facts.doc /\ facts'.prior = facts.prior /\ facts'.writes # 0
          /\ facts'.phase = facts.phase /\ facts'.saved = facts.saved /\ facts'.copy = facts.copy
      BY <2>5 DEF InstallReceipts
    <2>8. facts.phase # "restored"
      BY <1>3 DEF EditDisk
    <2>9. QED
      BY <2>6, <2>7, <2>8 DEF RollbackHolds, CopyAsSaid
  <1>4. QED
    BY <1>1, <1>2, <1>3

\* Two fields of a receipt that are believed only if they are equal, and were written so.
Twins(f, a, b) ==
  /\ {a, b} \subseteq FieldsOf(f.version) /\ a # b
  /\ f.doc[a] = f.doc[b] /\ WrittenByInstall(f.prior)[a] = WrittenByInstall(f.prior)[b]

\* Every other field that is bound has another that must be equal to it.
LEMMA EveryFieldHasATwin ==
  ASSUME NEW f, f.version \in 1 .. 3, ReceiptBelieved(f),
         NEW x \in FieldsOf(f.version) \ (Unbound(f.version) \cup PlaceFields \cup AttestedFields \cup {"target_existed"})
  PROVE  \E y : Twins(f, x, y) \/ Twins(f, y, x)
  <1>1. /\ Twins(f, "before_tree", "original_tree") /\ Twins(f, "before_ledger", "before_ledger_sha256")
        /\ Twins(f, "before_order", "order_before") /\ Twins(f, "after_order", "order_after")
        /\ Twins(f, "after_tree", "installed_tree") /\ Twins(f, "after_ledger", "after_ledger_sha256")
    <2>1. ByteStateHolds(f.doc)
      BY DEF ReceiptBelieved
    <2>2. {"after_tree", "installed_tree", "before_tree", "original_tree", "before_order", "order_before", "before_ledger",
           "before_ledger_sha256", "after_order", "order_after", "after_ledger", "after_ledger_sha256"} \subseteq ReceiptFields
      BY DEF ReceiptFields, TreeFields, PriorFields
    <2>3. {"after_tree", "installed_tree", "before_tree", "original_tree", "before_order", "order_before", "before_ledger",
           "before_ledger_sha256", "after_order", "order_after", "after_ledger", "after_ledger_sha256"} \subseteq FieldsOf(f.version)
      BY <2>2 DEF FieldsOf, IdentityFields, AttestedFields
    <2>4. LET w == WrittenByInstall(f.prior) IN
          /\ w["before_tree"] = w["original_tree"] /\ w["before_ledger"] = w["before_ledger_sha256"]
          /\ w["before_order"] = w["order_before"] /\ w["after_order"] = w["order_after"]
          /\ w["after_tree"] = w["installed_tree"] /\ w["after_ledger"] = w["after_ledger_sha256"]
      BY <2>2 DEF WrittenByInstall, PriorFields
    <2>5. QED
      BY <2>1, <2>3, <2>4 DEF ByteStateHolds, Twins
  <1>2. /\ Twins(f, "artifacts_manifest", "manifest") /\ Twins(f, "manifest_artifacts", "artifacts_manifest")
        /\ Twins(f, "localization_artifacts", "artifacts_localization") /\ Twins(f, "conflict", "conflict_sha256")
    <2>1. ArtifactsHold(f.doc) /\ f.doc["conflict"] = f.doc["conflict_sha256"]
      BY DEF ReceiptBelieved
    <2>2. {"artifacts_manifest", "manifest", "manifest_artifacts", "localization_artifacts", "artifacts_localization",
           "conflict", "conflict_sha256"} \subseteq ReceiptFields
      BY DEF ReceiptFields
    <2>3. {"artifacts_manifest", "manifest", "manifest_artifacts", "localization_artifacts", "artifacts_localization",
           "conflict", "conflict_sha256"} \subseteq FieldsOf(f.version)
      BY <2>2 DEF FieldsOf, IdentityFields, AttestedFields
    <2>4. LET w == WrittenByInstall(f.prior) IN
          /\ w["artifacts_manifest"] = w["manifest"] /\ w["manifest_artifacts"] = w["artifacts_manifest"]
          /\ w["localization_artifacts"] = w["artifacts_localization"] /\ w["conflict"] = w["conflict_sha256"]
      BY <2>2 DEF WrittenByInstall, PriorFields
    <2>5. QED
      BY <2>1, <2>3, <2>4 DEF ArtifactsHold, Twins
  <1>3. CASE x \in {"semantic_artifact", "semantic_gate"}
    <2>1. f.version > 1
      BY <1>3 DEF Unbound
    <2>2. AttestationsHold(f.doc, f.digest)
      BY <2>1 DEF ReceiptBelieved
    <2>3. {"semantic_artifact", "semantic_gate", "attested_artifact", "attested_gate"} \subseteq ReceiptFields
      BY DEF ReceiptFields, AttestedFields
    <2>4. {"semantic_artifact", "semantic_gate", "attested_artifact", "attested_gate"} \subseteq FieldsOf(f.version)
      BY <2>1, <2>3 DEF FieldsOf, IdentityFields
    <2>5. LET w == WrittenByInstall(f.prior) IN w["attested_artifact"] = w["semantic_artifact"] /\ w["attested_gate"] = w["semantic_gate"]
      BY <2>3 DEF WrittenByInstall, PriorFields
    <2>6. Twins(f, "attested_artifact", "semantic_artifact") /\ Twins(f, "attested_gate", "semantic_gate")
      BY <2>2, <2>4, <2>5 DEF AttestationsHold, Twins
    <2>7. QED
      BY <1>3, <2>6
  <1>4. CASE x \in IdentityFields \cup {"candidate", "deployment"}
    <2>1. f.version = 3
      BY <1>4 DEF Unbound, FieldsOf
    <2>2. IdentitiesHold(f.doc)
      BY <2>1 DEF ReceiptBelieved
    <2>3. {"id_candidate", "candidate", "id_deployment", "deployment", "id_tree", "installed_tree", "id_artifact",
           "semantic_artifact", "id_build_output", "attested_build_output"} \subseteq ReceiptFields
      BY DEF ReceiptFields, IdentityFields, TreeFields, AttestedFields
    <2>4. FieldsOf(f.version) = ReceiptFields
      BY <2>1 DEF FieldsOf
    <2>5. LET w == WrittenByInstall(f.prior) IN
          /\ w["id_candidate"] = w["candidate"] /\ w["id_deployment"] = w["deployment"] /\ w["id_tree"] = w["installed_tree"]
          /\ w["id_artifact"] = w["semantic_artifact"] /\ w["id_build_output"] = w["attested_build_output"]
      BY <2>3 DEF WrittenByInstall, PriorFields
    <2>6. /\ Twins(f, "id_candidate", "candidate") /\ Twins(f, "id_deployment", "deployment") /\ Twins(f, "id_tree", "installed_tree")
          /\ Twins(f, "id_artifact", "semantic_artifact") /\ Twins(f, "id_build_output", "attested_build_output")
      BY <2>2, <2>3, <2>4, <2>5 DEF IdentitiesHold, Twins
    <2>7. QED
      BY <1>4, <2>6 DEF IdentityFields
  <1>5. CASE x \in {"after_tree", "installed_tree", "before_tree", "original_tree", "before_order", "order_before", "before_ledger",
                    "before_ledger_sha256", "after_order", "order_after", "after_ledger", "after_ledger_sha256"}
    BY <1>1, <1>5
  <1>6. CASE x \in {"artifacts_manifest", "manifest", "manifest_artifacts", "localization_artifacts", "artifacts_localization",
                    "conflict", "conflict_sha256"}
    BY <1>2, <1>6
  <1>7. QED
    BY <1>3, <1>4, <1>5, <1>6 DEF FieldsOf, ReceiptFields, TreeFields, PriorFields, Unbound

LEMMA OneEditRefusedHolds ==
  ASSUME About("receipt") => facts \in InstallReceipts /\ RollbackHolds(facts)
  PROVE  OneEditRefused
  <1> DEFINE w == WrittenByInstall(facts.prior)
             edited == {x \in FieldsOf(facts.version) : facts.doc[x] # w[x]}
  <1> SUFFICES ASSUME About("receipt"), ReceiptBelieved(facts), PlacesHold(facts.doc)
               PROVE  /\ facts.digest = DigestOf(w) => \A x \in FieldsOf(facts.version) \ Unbound(facts.version) : edited # {x}
                      /\ facts.version > 1 /\ edited = {} => facts.digest = DigestOf(w)
    BY DEF OneEditRefused
  <1>0. facts.version \in 1 .. 3 /\ facts.prior \in {"prior", "none"} /\ RollbackHolds(facts)
    BY DEF InstallReceipts
  <1>1. facts.version > 1 => facts.digest = DigestOf(facts.doc)
    BY DEF ReceiptBelieved, AttestationsHold
  <1>2. ASSUME NEW x \in FieldsOf(facts.version) \ Unbound(facts.version), edited = {x}, facts.digest = DigestOf(w)
        PROVE  FALSE
    <2>1. facts.doc[x] # w[x] /\ \A y \in FieldsOf(facts.version) \ {x} : facts.doc[y] = w[y]
      BY <1>2
    <2>2. CASE x \in PlaceFields
      <3>1. facts.doc[x] = "written"
        BY <2>2 DEF PlacesHold
      <3>2. w[x] = "written"
        BY <2>2 DEF WrittenByInstall, PlaceFields, PriorFields, ReceiptFields
      <3>3. QED
        BY <2>1, <3>1, <3>2
    <2>3. CASE x \in AttestedFields
      <3>1. facts.version > 1
        BY <1>0, <1>2, <2>3 DEF FieldsOf
      <3>2. DigestOf(facts.doc)[x] = DigestOf(w)[x]
        BY <1>1, <1>2, <3>1
      <3> HIDE DEF w
      <3>3. QED
        BY <2>1, <2>3, <3>2 DEF DigestOf
    <2>4. CASE x = "target_existed"
      <3>1. "original_tree" \in FieldsOf(facts.version) \ {x}
        BY <2>4 DEF FieldsOf, ReceiptFields, TreeFields, IdentityFields, AttestedFields
      <3>2. facts.doc["original_tree"] = facts.prior
        BY <1>0, <2>1, <3>1, WrittenValues DEF HashesAsWritten
      <3>3. facts.doc["target_existed"] = "none" <=> facts.prior = "none"
        BY <3>2 DEF ReceiptBelieved, ByteStateHolds
      <3>4. QED
        BY <1>0, <2>1, <2>4, <3>3, WrittenValues DEF RollbackHolds
    <2>5. CASE x \notin PlaceFields \cup AttestedFields \cup {"target_existed"}
      <3>1. PICK y : Twins(facts, x, y) \/ Twins(facts, y, x)
        BY <1>0, <2>5, EveryFieldHasATwin
      <3>2. y \in FieldsOf(facts.version) \ {x} /\ facts.doc[y] = facts.doc[x] /\ w[y] = w[x]
        BY <3>1 DEF Twins
      <3>3. QED
        BY <2>1, <3>2
    <2>6. QED
      BY <2>2, <2>3, <2>4, <2>5
  <1>3. ASSUME facts.version > 1, edited = {} PROVE facts.digest = DigestOf(w)
    <2>1. AttestedFields \subseteq FieldsOf(facts.version)
      BY <1>0, <1>3 DEF FieldsOf, ReceiptFields, IdentityFields, AttestedFields
    <2>2. \A x \in AttestedFields : facts.doc[x] = w[x]
      BY <1>3, <2>1
    <2> HIDE DEF w
    <2>3. DigestOf(facts.doc) = DigestOf(w)
      BY <2>2 DEF DigestOf
    <2>4. QED
      BY <1>1, <1>3, <2>3
  <1>4. QED
    BY <1>2, <1>3

LEMMA RollbackAnchoredHolds ==
  ASSUME About("receipt") => facts \in InstallReceipts /\ RollbackHolds(facts)
  PROVE  RollbackAnchored
  <1> DEFINE hashesStand == \A x \in TreeFields : facts.doc[x] = WrittenByInstall(facts.prior)[x]
             diskStands == facts.writes = 0 /\ FolderNamed(facts.doc) = "target"
  <1> SUFFICES ASSUME About("receipt"), facts.phase = "restored", hashesStand \/ diskStands
               PROVE  /\ facts.copy = [tree |-> "installed", order |-> "after"]
                      /\ facts.disk[FolderNamed(facts.doc)] = facts.prior /\ facts.disk["order"] = "before"
    BY DEF RollbackAnchored
  <1>1. ASSUME hashesStand PROVE HashesAsWritten(facts.doc, facts.prior)
    <2>1. HashesAsWritten(WrittenByInstall(facts.prior), facts.prior)
      BY WrittenValues DEF InstallReceipts
    <2>2. QED
      BY <1>1, <2>1 DEF HashesAsWritten, TreeFields
  <1>2. ASSUME diskStands PROVE HashesAsWritten(facts.doc, facts.prior)
    BY <1>2 DEF RollbackHolds
  <1>3. HashesAsWritten(facts.doc, facts.prior)
    BY <1>1, <1>2
  <1>4. CopyAsSaid(facts) /\ facts.disk[FolderNamed(facts.doc)] = facts.doc["original_tree"] /\ facts.disk["order"] = facts.doc["order_before"]
    BY DEF RollbackHolds
  <1>5. QED
    BY <1>3, <1>4 DEF HashesAsWritten, CopyAsSaid

\* An audit for a plan: what was read, while nothing is edited, is what is there.
ReadNames == {"source", "spec_document", "spec_report", "parent", "profile", "inventory", "conflicts", "descriptor",
              "spec_named", "descriptor_named"}
PlanContents == {"fit", "unfit", "partial"}

Plans ==
  [topic : {"plan"}, holds : [PlanFiles -> PlanContents], next : Nat \ {0}, edits : Nat, late : SUBSET PlanFiles,
   read : [ReadNames -> PlanContents \cup {"unread"}]]

\* Two reads are of one file, and that was not edited between its reads.
OfOneFile(f, i, j) == FileRead(PlanReads[i]) = FileRead(PlanReads[j]) /\ FileRead(PlanReads[i]) \notin f.late

\* A file that is still to be read is as its reads up to now found it; those that are
\* done found the same.
PlanHolds(f) ==
  \A i, j \in 1..10 : i < f.next /\ OfOneFile(f, i, j) =>
    f.read[PlanReads[i]] = IF j < f.next THEN f.read[PlanReads[j]] ELSE f.holds[FileRead(PlanReads[i])]

LEMMA PlanOrder ==
  /\ Len(PlanReads) = 10
  /\ \A i \in 1..10 : PlanReads[i] \in ReadNames /\ FileRead(PlanReads[i]) \in PlanFiles
  /\ \A i, j \in 1..10 : PlanReads[i] = PlanReads[j] => i = j
  /\ {PlanReads[i] : i \in DOMAIN PlanReads} = ReadNames
  <1>1. /\ Len(PlanReads) = 10 /\ DOMAIN PlanReads = 1..10
        /\ PlanReads[1] = "source" /\ PlanReads[2] = "spec_document" /\ PlanReads[3] = "spec_report"
        /\ PlanReads[4] = "parent" /\ PlanReads[5] = "profile" /\ PlanReads[6] = "inventory"
        /\ PlanReads[7] = "conflicts" /\ PlanReads[8] = "descriptor" /\ PlanReads[9] = "spec_named"
        /\ PlanReads[10] = "descriptor_named"
    BY DEF PlanReads
  <1>2. \A i : i \in 1..10 <=> i \in {1, 2, 3, 4, 5, 6, 7, 8, 9, 10}
    OBVIOUS
  <1>3. \A i \in 1..10 : PlanReads[i] \in ReadNames
    BY <1>1, <1>2 DEF ReadNames
  <1>4. \A r \in ReadNames : FileRead(r) \in PlanFiles
    BY DEF FileRead, PlanFiles, ReadNames
  <1>5. \A i, j \in 1..10 : PlanReads[i] = PlanReads[j] => i = j
    BY <1>1, <1>2
  <1>6. {PlanReads[i] : i \in DOMAIN PlanReads} = ReadNames
    <2>1. \A r \in ReadNames : \E i \in 1..10 : PlanReads[i] = r
      BY <1>1, <1>2 DEF ReadNames
    <2>2. QED
      BY <1>1, <1>3, <2>1
  <1>7. QED
    BY <1>1, <1>3, <1>4, <1>5, <1>6

LEMMA PlanSteps ==
  ASSUME facts \in Plans, PlanHolds(facts), ReadForPlan \/ EditPlanFile
  PROVE  facts' \in Plans /\ PlanHolds(facts')
  <1>1. CASE ReadForPlan
    <2> DEFINE j == facts.next
               r == PlanReads[j]
               v == facts.holds[FileRead(r)]
               read == [facts.read EXCEPT ![r] = v]
    <2>1. j \in 1..10 /\ facts' = [facts EXCEPT !.read[r] = v, !.next = @ + 1]
      BY <1>1, PlanOrder DEF ReadForPlan, Plans
    <2>2. j + 1 \in Nat \ {0}
      BY <2>1
    <2>3. facts' = [facts EXCEPT !.read = read, !.next = j + 1]
      BY <2>1
    <2>4. r \in ReadNames /\ v \in PlanContents
      BY <2>1, PlanOrder DEF Plans
    <2>5. read \in [ReadNames -> PlanContents \cup {"unread"}] /\ read[r] = v /\ \A q \in ReadNames \ {r} : read[q] = facts.read[q]
      BY <2>4 DEF Plans
    <2>6. \A i \in 1..10 : i # j => read[PlanReads[i]] = facts.read[PlanReads[i]]
      BY <2>1, <2>5, PlanOrder
    <2> HIDE DEF read
    <2>8. facts' \in Plans
      BY <2>2, <2>3, <2>5 DEF Plans
    <2>9. facts'.read = read /\ facts'.next = j + 1 /\ facts'.holds = facts.holds /\ facts'.late = facts.late
      BY <2>3 DEF Plans
    <2>10. PlanHolds(facts')
      <3> SUFFICES ASSUME NEW i \in 1..10, NEW k \in 1..10, i < j + 1, OfOneFile(facts, i, k)
                   PROVE  read[PlanReads[i]] = IF k < j + 1 THEN read[PlanReads[k]] ELSE facts.holds[FileRead(PlanReads[i])]
        BY <2>9 DEF PlanHolds, OfOneFile
      <3>1. read[PlanReads[j]] = facts.holds[FileRead(PlanReads[j])]
        BY <2>5
      <3>2. FileRead(PlanReads[i]) = FileRead(PlanReads[k]) /\ OfOneFile(facts, i, j) = (FileRead(PlanReads[i]) = FileRead(PlanReads[j]))
        BY DEF OfOneFile
      <3> HIDE DEF r, v
      <3>3. ASSUME NEW n \in 1..10, n < j, FileRead(PlanReads[n]) = FileRead(PlanReads[i])
            PROVE  /\ \A q \in 1..10 : FileRead(PlanReads[q]) = FileRead(PlanReads[i]) =>
                        facts.read[PlanReads[n]] = IF q < j THEN facts.read[PlanReads[q]] ELSE facts.holds[FileRead(PlanReads[i])]
        <4>1. \A q \in 1..10 : FileRead(PlanReads[q]) = FileRead(PlanReads[i]) => OfOneFile(facts, n, q)
          BY <3>3 DEF OfOneFile
        <4>2. QED
          BY <3>3, <4>1 DEF PlanHolds
      <3>4. CASE i = j /\ k = j
        BY <3>4
      <3>5. CASE i = j /\ k # j
        <4>1. k < j => facts.read[PlanReads[k]] = facts.holds[FileRead(PlanReads[i])]
          BY <2>1, <3>2, <3>3, <3>5
        <4>2. QED
          BY <2>1, <2>6, <3>1, <3>5, <4>1
      <3>6. CASE i # j /\ k = j
        <4>1. i < j /\ facts.read[PlanReads[i]] = facts.holds[FileRead(PlanReads[i])]
          BY <2>1, <3>2, <3>3, <3>6
        <4>2. QED
          BY <2>1, <2>6, <3>1, <3>2, <3>6, <4>1
      <3>7. CASE i # j /\ k # j
        <4>1. i < j /\ facts.read[PlanReads[i]] = IF k < j THEN facts.read[PlanReads[k]] ELSE facts.holds[FileRead(PlanReads[i])]
          BY <2>1, <3>2, <3>3, <3>7
        <4>2. QED
          BY <2>1, <2>6, <3>7, <4>1
      <3>8. QED
        BY <3>4, <3>5, <3>6, <3>7
    <2>11. QED
      BY <2>8, <2>10
  <1>2. CASE EditPlanFile
    <2>1. PICK x \in PlanFiles, c \in {"fit", "unfit"} :
            facts' = [facts EXCEPT !.holds[x] = c, !.edits = @ + 1, !.late = IF BetweenReads(facts, x) THEN @ \cup {x} ELSE @]
      BY <1>2 DEF EditPlanFile
    <2> DEFINE holds == [facts.holds EXCEPT ![x] = c]
               n == facts.edits + 1
               late == IF BetweenReads(facts, x) THEN facts.late \cup {x} ELSE facts.late
    <2>2. holds \in [PlanFiles -> PlanContents] /\ n \in Nat /\ late \in SUBSET PlanFiles
      BY DEF Plans, PlanContents
    <2>3. \A y \in PlanFiles : y # x => holds[y] = facts.holds[y]
      BY DEF Plans
    <2>4. facts' = [facts EXCEPT !.holds = holds, !.edits = n, !.late = late]
      BY <2>1
    <2>5. facts.late \subseteq late /\ (BetweenReads(facts, x) => x \in late)
      OBVIOUS
    <2> HIDE DEF holds, n, late
    <2>6. facts' \in Plans
      BY <2>2, <2>4 DEF Plans
    <2>7. facts'.holds = holds /\ facts'.late = late /\ facts'.read = facts.read /\ facts'.next = facts.next
      BY <2>4 DEF Plans
    <2>8. PlanHolds(facts')
      <3> SUFFICES ASSUME NEW i \in 1..10, NEW k \in 1..10, i < facts.next, OfOneFile(facts', i, k)
                   PROVE  facts.read[PlanReads[i]] = IF k < facts.next THEN facts.read[PlanReads[k]] ELSE holds[FileRead(PlanReads[i])]
        BY <2>7 DEF PlanHolds
      <3>1. OfOneFile(facts, i, k) /\ FileRead(PlanReads[i]) \notin late
        BY <2>5, <2>7 DEF OfOneFile
      <3>2. facts.read[PlanReads[i]] = IF k < facts.next THEN facts.read[PlanReads[k]] ELSE facts.holds[FileRead(PlanReads[i])]
        BY <3>1 DEF PlanHolds
      <3>3. ASSUME ~(k < facts.next) PROVE FileRead(PlanReads[i]) # x
        <4>1. facts.next <= k /\ DOMAIN PlanReads = 1..10
          BY <3>3, PlanOrder DEF Plans, PlanReads
        <4>2. FileRead(PlanReads[i]) = x => BetweenReads(facts, x)
          BY <3>1, <4>1 DEF BetweenReads, OfOneFile
        <4>3. QED
          BY <2>5, <3>1, <4>2
      <3>4. FileRead(PlanReads[i]) \in PlanFiles
        BY PlanOrder
      <3>5. QED
        BY <2>3, <3>2, <3>3, <3>4
    <2>9. QED
      BY <2>6, <2>8
  <1>3. QED
    BY <1>1, <1>2

LEMMA ReadyNamesHolds ==
  ASSUME About("plan") => facts \in Plans /\ PlanHolds(facts)
  PROVE  ReadyNamesTheAccepted
  <1> SUFFICES ASSUME facts \in Plans, PlanHolds(facts), PlanReady(facts)
               PROVE  /\ \A r \in DOMAIN facts.read : FileRead(r) \notin facts.late => facts.read[r] = "fit"
                      /\ \A x \in {"source", "parent", "inventory"} : Named(facts)[x] = "fit"
    BY DEF ReadyNamesTheAccepted
  <1>1. /\ Named(facts)["source"] = facts.read["source"] /\ Named(facts)["parent"] = facts.read["parent"]
        /\ Named(facts)["inventory"] = facts.read["inventory"]
    BY DEF Named
  <1>2. /\ ParentGate(facts) = "PASS" /\ TopologyGate(facts) = "PASS" /\ ProfileGate(facts) = "PASS" /\ InventoryGate(facts) = "PASS"
        /\ ConflictGate(facts) = "PASS" /\ ComponentsGate(facts) = "PASS" /\ SpecGate(facts) = "PASS"
    <2>1. \A i \in 1 .. 8 : PlanGates(facts)[i] = "PASS"
      BY DEF PlanReady
    <2>2. QED
      BY <2>1 DEF PlanGates
  <1>3. \A b \in BOOLEAN, c \in BOOLEAN : Gate(b, c) = "PASS" => b
    BY DEF Gate
  <1>4. /\ Fits(facts, "source") /\ Fits(facts, "spec_document") /\ Fits(facts, "spec_report") /\ Fits(facts, "parent")
        /\ Fits(facts, "profile") /\ Fits(facts, "inventory") /\ Fits(facts, "conflicts") /\ Fits(facts, "descriptor")
    BY <1>2, <1>3 DEF ParentGate, TopologyGate, ProfileGate, InventoryGate, ConflictGate, ComponentsGate, SpecGate, Fits, Holds
  <1>5. \A r \in ReadNames \ {"spec_named", "descriptor_named"} : facts.read[r] = "fit"
    BY <1>4 DEF ReadNames, Fits, Holds
  <1>6. ASSUME NEW i \in 1..10, NEW j \in 1..10, FileRead(PlanReads[i]) = FileRead(PlanReads[j]), FileRead(PlanReads[i]) \notin facts.late
        PROVE  facts.read[PlanReads[i]] = facts.read[PlanReads[j]]
    <2>1. facts.next > 10 /\ facts.next \in Nat
      BY PlanOrder DEF PlanReady, Plans
    <2>2. i < facts.next /\ j < facts.next
      BY <2>1
    <2>3. OfOneFile(facts, i, j)
      BY <1>6 DEF OfOneFile
    <2>4. QED
      BY <2>2, <2>3 DEF PlanHolds
  <1>7. ASSUME NEW r \in {"spec_named", "descriptor_named"}, FileRead(r) \notin facts.late PROVE facts.read[r] = "fit"
    <2>1. PlanReads[2] = "spec_document" /\ PlanReads[8] = "descriptor" /\ PlanReads[9] = "spec_named" /\ PlanReads[10] = "descriptor_named"
      BY DEF PlanReads
    <2>2. 2 \in 1..10 /\ 8 \in 1..10 /\ 9 \in 1..10 /\ 10 \in 1..10
      OBVIOUS
    <2>3. FileRead("spec_document") = FileRead("spec_named") /\ FileRead("descriptor") = FileRead("descriptor_named")
      BY DEF FileRead
    <2>4. facts.read["spec_document"] = "fit" /\ facts.read["descriptor"] = "fit"
      BY <1>4 DEF Fits, Holds
    <2>5. CASE r = "spec_named"
      BY <1>6, <1>7, <2>1, <2>2, <2>3, <2>4, <2>5
    <2>6. CASE r = "descriptor_named"
      BY <1>6, <1>7, <2>1, <2>2, <2>3, <2>4, <2>6
    <2>7. QED
      BY <2>5, <2>6
  <1>8. DOMAIN facts.read = ReadNames
    BY DEF Plans
  <1>9. QED
    BY <1>1, <1>4, <1>5, <1>7, <1>8 DEF Fits, Holds

-----------------------------------------------------------------------------
\* The refresh of one target: who was asked for is of the target, and what was
\* refreshed is of the contents that the receipt names.
Requests == [stale : SUBSET Observations, version : Nat]
Receipts == [version : Nat, ids : SUBSET Observations, others : Nat, fault : ExecutorFaults]
ObservationShape == [target : Targets, version : Nat, freshness : Freshnesses]
Statuses == {"idle", "capture_inconclusive", "fresh", "asked", "returned", "refresh_confirmed"}

Refreshes ==
  [topic : {"refresh"}, obs : [Observations -> ObservationShape], version : Nat, status : Statuses, request : Requests,
   receipt : Receipts, did : SUBSET Observations]

\* An observation that was not asked for is of the contents that were asked about.
AskedRest(f) ==
  \A o \in OfTarget(f) \ f.request.stale : f.obs[o].freshness = "fresh" /\ f.obs[o].version = f.request.version

DoneAsSaid(f) ==
  /\ f.receipt.ids = f.did \cap OfTarget(f)
  /\ f.receipt.others = Cardinality(f.did \ OfTarget(f))
  /\ \A o \in f.did : f.obs[o].freshness = "fresh" /\ f.obs[o].version = f.receipt.version
  /\ \A o \in (OfTarget(f) \ f.request.stale) \ f.did : f.obs[o].freshness = "fresh" /\ f.obs[o].version = f.request.version

RefreshHolds(f) ==
  /\ f.status = "asked" => AskedRest(f)
  /\ f.status \in {"returned", "refresh_confirmed"} => DoneAsSaid(f)
  /\ f.status = "refresh_confirmed" => ~ReceiptRefused(f)

LEMMA OrchestrateStep ==
  ASSUME facts \in Refreshes, RefreshHolds(facts), Orchestrate
  PROVE  facts' \in Refreshes /\ RefreshHolds(facts')
  <1> DEFINE request == [stale |-> TargetStale(facts), version |-> facts.version]
  <1>1. CASE facts' = [facts EXCEPT !.status = "capture_inconclusive"]
    <2>1. facts' \in Refreshes /\ facts'.status = "capture_inconclusive"
      BY <1>1 DEF Refreshes, Statuses
    <2>2. QED
      BY <2>1 DEF RefreshHolds
  <1>2. CASE facts' = [facts EXCEPT !.status = "fresh"]
    <2>1. facts' \in Refreshes /\ facts'.status = "fresh"
      BY <1>2 DEF Refreshes, Statuses
    <2>2. QED
      BY <2>1 DEF RefreshHolds
  <1>3. CASE facts' = [facts EXCEPT !.status = "asked", !.request = request]
    <2>1. request \in Requests
      BY DEF Requests, TargetStale, OfTarget, Refreshes
    <2>2. \A o \in OfTarget(facts) \ request.stale : facts.obs[o].freshness = "fresh" /\ facts.obs[o].version = request.version
      BY DEF TargetStale, IsStale
    <2> HIDE DEF request
    <2>3. facts' \in Refreshes
      BY <1>3, <2>1 DEF Refreshes, Statuses
    <2>4. facts'.status = "asked" /\ facts'.request = request /\ facts'.obs = facts.obs
      BY <1>3 DEF Refreshes
    <2>5. QED
      BY <2>2, <2>3, <2>4 DEF RefreshHolds, AskedRest, OfTarget
  <1>4. QED
    BY <1>1, <1>2, <1>3 DEF Orchestrate

LEMMA ExecuteRefreshStep ==
  ASSUME facts \in Refreshes, RefreshHolds(facts), ExecuteRefresh
  PROVE  facts' \in Refreshes /\ RefreshHolds(facts')
  <1>1. PICK did \in SUBSET Observations, fault \in ExecutorFaults :
          facts' = [facts EXCEPT !.status = "returned", !.did = did,
                      !.obs = [o \in Observations |-> IF o \in did THEN [facts.obs[o] EXCEPT !.freshness = "fresh", !.version = facts.version]
                                                      ELSE facts.obs[o]],
                      !.receipt = [version |-> facts.version, ids |-> did \cap OfTarget(facts),
                                   others |-> Cardinality(did \ OfTarget(facts)), fault |-> fault]]
    BY ZenonT(30) DEF ExecuteRefresh
  <1> DEFINE obs == [o \in Observations |-> IF o \in did THEN [facts.obs[o] EXCEPT !.freshness = "fresh", !.version = facts.version]
                                            ELSE facts.obs[o]]
             receipt == [version |-> facts.version, ids |-> did \cap OfTarget(facts),
                         others |-> Cardinality(did \ OfTarget(facts)), fault |-> fault]
  <1>2. /\ obs \in [Observations -> ObservationShape]
        /\ \A o \in Observations : obs[o].target = facts.obs[o].target
        /\ \A o \in did : obs[o].freshness = "fresh" /\ obs[o].version = facts.version
        /\ \A o \in Observations \ did : obs[o] = facts.obs[o]
    BY DEF Refreshes, ObservationShape, Freshnesses
  <1>3. Cardinality(did \ OfTarget(facts)) \in Nat
    BY ObservationsAreFinite, FS_Subset, FS_CardinalityType
  <1>4. /\ receipt \in Receipts /\ receipt.version = facts.version /\ receipt.ids = did \cap OfTarget(facts)
        /\ receipt.others = Cardinality(did \ OfTarget(facts))
    BY <1>3 DEF Receipts, Refreshes
  <1>5. facts' = [facts EXCEPT !.status = "returned", !.did = did, !.obs = obs, !.receipt = receipt]
    BY <1>1
  <1> HIDE DEF obs, receipt
  <1>6. facts' \in Refreshes
    BY <1>2, <1>4, <1>5 DEF Refreshes, Statuses
  <1>7. /\ facts'.status = "returned" /\ facts'.did = did /\ facts'.obs = obs /\ facts'.receipt = receipt
        /\ facts'.request = facts.request
    BY <1>5 DEF Refreshes
  <1>8. OfTarget(facts') = OfTarget(facts)
    BY <1>2, <1>7 DEF OfTarget
  <1>9. facts.status = "asked" /\ AskedRest(facts)
    BY DEF ExecuteRefresh, RefreshHolds
  <1>10. DoneAsSaid(facts')
    <2>1. facts'.receipt.ids = facts'.did \cap OfTarget(facts') /\ facts'.receipt.others = Cardinality(facts'.did \ OfTarget(facts'))
      BY <1>4, <1>7, <1>8
    <2>2. \A o \in did : obs[o].freshness = "fresh" /\ obs[o].version = receipt.version
      BY <1>2, <1>4
    <2>3. OfTarget(facts) \subseteq Observations
      BY DEF OfTarget
    <2>4. \A o \in (OfTarget(facts) \ facts.request.stale) \ did :
            obs[o].freshness = "fresh" /\ obs[o].version = facts.request.version
      BY <1>2, <1>9, <2>3 DEF AskedRest
    <2>5. QED
      BY <1>7, <1>8, <2>1, <2>2, <2>4 DEF DoneAsSaid
  <1>11. QED
    BY <1>6, <1>7, <1>10 DEF RefreshHolds

LEMMA JudgeRefreshStep ==
  ASSUME facts \in Refreshes, RefreshHolds(facts), JudgeRefresh \/ RebuildTarget
  PROVE  facts' \in Refreshes /\ RefreshHolds(facts')
  <1>1. CASE JudgeRefresh
    <2>1. PICK s \in {"capture_inconclusive", "refresh_confirmed"} :
            facts' = [facts EXCEPT !.status = s] /\ (s = "refresh_confirmed" => ~ReceiptRefused(facts))
      <3>1. CASE ReceiptRefused(facts)
        BY <1>1, <3>1 DEF JudgeRefresh
      <3>2. CASE ~ReceiptRefused(facts)
        BY <1>1, <3>2 DEF JudgeRefresh
      <3>3. QED
        BY <3>1, <3>2
    <2>2. facts' \in Refreshes
      BY <2>1 DEF Refreshes, Statuses
    <2>3. /\ facts'.status = s /\ facts'.did = facts.did /\ facts'.obs = facts.obs /\ facts'.receipt = facts.receipt
          /\ facts'.request = facts.request
      BY <2>1 DEF Refreshes
    <2>4. DoneAsSaid(facts)
      BY <1>1 DEF JudgeRefresh, RefreshHolds
    <2>5. DoneAsSaid(facts') /\ (ReceiptRefused(facts') <=> ReceiptRefused(facts))
      BY <2>3, <2>4 DEF DoneAsSaid, OfTarget, ReceiptRefused
    <2>6. QED
      BY <2>1, <2>2, <2>3, <2>5 DEF RefreshHolds
  <1>2. CASE RebuildTarget
    <2>1. facts' = [facts EXCEPT !.version = @ + 1] /\ facts.version + 1 \in Nat
      BY <1>2 DEF RebuildTarget, Refreshes
    <2>2. facts' \in Refreshes
      BY <2>1 DEF Refreshes
    <2>3. /\ facts'.status = facts.status /\ facts'.did = facts.did /\ facts'.obs = facts.obs /\ facts'.receipt = facts.receipt
          /\ facts'.request = facts.request
      BY <2>1 DEF Refreshes
    <2>4. /\ DoneAsSaid(facts') <=> DoneAsSaid(facts)
          /\ AskedRest(facts') <=> AskedRest(facts)
          /\ ReceiptRefused(facts') <=> ReceiptRefused(facts)
      BY <2>3 DEF DoneAsSaid, AskedRest, OfTarget, ReceiptRefused
    <2>5. QED
      BY <2>2, <2>3, <2>4 DEF RefreshHolds
  <1>3. QED
    BY <1>1, <1>2

LEMMA ConfirmedIsExactHolds ==
  ASSUME About("refresh") => facts \in Refreshes /\ RefreshHolds(facts)
  PROVE  ConfirmedIsExact
  <1> SUFFICES ASSUME facts \in Refreshes, RefreshHolds(facts), facts.status = "refresh_confirmed"
               PROVE  /\ facts.did \subseteq OfTarget(facts)
                      /\ \A o \in OfTarget(facts) : facts.obs[o].freshness = "fresh" /\ facts.obs[o].version = facts.request.version
    BY DEF ConfirmedIsExact
  <1>1. DoneAsSaid(facts) /\ ~ReceiptRefused(facts)
    BY DEF RefreshHolds
  <1>2. facts.did \ OfTarget(facts) = {}
    <2>1. Cardinality(facts.did \ OfTarget(facts)) = 0
      BY <1>1 DEF DoneAsSaid, ReceiptRefused
    <2>2. IsFiniteSet(facts.did \ OfTarget(facts))
      BY ObservationsAreFinite, FS_Subset DEF Refreshes
    <2>3. QED
      BY <2>1, <2>2, FS_EmptySet
  <1>3. \A o \in OfTarget(facts) : facts.obs[o].freshness = "fresh" /\ facts.obs[o].version = facts.request.version
    BY <1>1, <1>2 DEF DoneAsSaid, ReceiptRefused
  <1>4. QED
    BY <1>2, <1>3

\* The archives that are compared: a member is there in full or not at all.
Ages == {"old", "new"}
Members == [there : {TRUE}, xml : BOOLEAN, area : [Areas -> Seq(Ages)], rest : Ages, spacing : Ages]

Diffs ==
  [topic : {"parent diff"}, parent : [MemberPaths -> Members \cup {NoMember}],
   candidate : [MemberPaths -> Members \cup {NoMember}], contaminated : BOOLEAN, declared : SUBSET Declarations, edits : Nat]

LEMMA MembersAreThere ==
  ASSUME NEW m \in Members \cup {NoMember}
  PROVE  m.there \in BOOLEAN /\ (~m.there <=> m = NoMember) /\ (m.there <=> m \in Members)
  <1>1. CASE m = NoMember
    <2>1. m.there = FALSE
      BY <1>1 DEF NoMember
    <2>2. m \notin Members
      BY <2>1 DEF Members
    <2>3. QED
      BY <1>1, <2>1, <2>2
  <1>2. CASE m \in Members
    <2>1. m.there = TRUE
      BY <1>2 DEF Members
    <2>2. m # NoMember
      BY <2>1 DEF NoMember
    <2>3. QED
      BY <1>2, <2>1, <2>2
  <1>3. QED
    BY <1>1, <1>2

LEMMA EditedMembers ==
  ASSUME NEW m \in Members
  PROVE  EditsOf(m) \subseteq Members \cup {NoMember}
  <1> SUFFICES ASSUME NEW e \in EditsOf(m) PROVE e \in Members \cup {NoMember}
    OBVIOUS
  <1> DEFINE With(s, q) == [m EXCEPT !.area = [m.area EXCEPT ![s] = q]]
  <1>1. ASSUME NEW s \in Areas, NEW q \in Seq(Ages) PROVE With(s, q) \in Members
    <2> DEFINE area == [m.area EXCEPT ![s] = q]
    <2>1. area \in [Areas -> Seq(Ages)]
      BY <1>1 DEF Members
    <2> HIDE DEF area
    <2>2. [m EXCEPT !.area = area] \in Members
      BY <2>1 DEF Members
    <2>3. QED
      BY <2>2 DEF area
  <1>2. \A s \in Areas : m.area[s] \in Seq(Ages)
    BY DEF Members
  <1>3. CASE e \in {NoMember, [m EXCEPT !.rest = "new"], [m EXCEPT !.spacing = "new"], [m EXCEPT !.xml = FALSE]}
    BY <1>3 DEF Members, Ages
  <1>4. ASSUME NEW s \in Areas, e = [m EXCEPT !.area[s] = Append(@, "new")]
        PROVE  e \in Members \cup {NoMember}
    <2>1. Append(m.area[s], "new") \in Seq(Ages)
      BY <1>2 DEF Ages
    <2>2. e = With(s, Append(m.area[s], "new"))
      BY <1>4
    <2>3. QED
      BY <1>1, <2>1, <2>2
  <1>5. ASSUME NEW s \in Areas, e = [m EXCEPT !.area[s] = <<>>]
        PROVE  e \in Members \cup {NoMember}
    <2>1. <<>> \in Seq(Ages) /\ e = With(s, <<>>)
      BY <1>5
    <2>2. QED
      BY <1>1, <2>1
  <1>6. ASSUME NEW s \in Areas, m.area[s] # <<>>, e = [m EXCEPT !.area[s][1] = "new"]
        PROVE  e \in Members \cup {NoMember}
    <2> DEFINE q == m.area[s]
    <2>1. q \in Seq(Ages) /\ q # <<>>
      BY <1>2, <1>6
    <2>2. e = With(s, [q EXCEPT ![1] = "new"])
      BY <1>6
    <2> HIDE DEF q
    <2>3. [q EXCEPT ![1] = "new"] \in Seq(Ages)
      BY <2>1 DEF Ages
    <2>4. QED
      BY <1>1, <2>2, <2>3
  <1>7. QED
    BY <1>3, <1>4, <1>5, <1>6 DEF EditsOf

LEMMA DiffSteps ==
  ASSUME facts \in Diffs, DiffNext
  PROVE  facts' \in Diffs
  <1>1. ASSUME NEW d \in Declarations, facts' = [facts EXCEPT !.declared = @ \cup {d}] PROVE facts' \in Diffs
    BY <1>1 DEF Diffs
  <1>2. ASSUME NEW path \in MemberPaths,
               NEW m, m \in IF facts.candidate[path].there THEN EditsOf(facts.candidate[path]) ELSE {ParentMember},
               facts' = [facts EXCEPT !.candidate[path] = m, !.edits = @ + 1]
        PROVE  facts' \in Diffs
    <2>7. facts.candidate \in [MemberPaths -> Members \cup {NoMember}] /\ facts.edits \in Nat
      BY DEF Diffs
    <2>1. facts.candidate[path] \in Members \cup {NoMember} /\ facts.edits + 1 \in Nat
      BY <2>7
    <2>2. ParentMember \in Members
      BY DEF ParentMember, Members, Ages
    <2>3. m \in Members \cup {NoMember}
      BY <1>2, <2>1, <2>2, MembersAreThere, EditedMembers
    <2> DEFINE candidate == [facts.candidate EXCEPT ![path] = m]
    <2>4. candidate \in [MemberPaths -> Members \cup {NoMember}]
      BY <2>3 DEF Diffs
    <2>5. PICK n \in Nat : facts' = [facts EXCEPT !.candidate = candidate, !.edits = n]
      <3>1. facts' = [facts EXCEPT !.candidate = candidate, !.edits = facts.edits + 1]
        BY <1>2
      <3> HIDE DEF candidate
      <3>2. QED
        BY <2>1, <3>1
    <2> HIDE DEF candidate
    <2>6. QED
      BY <2>4, <2>5 DEF Diffs
  <1>3. QED
    BY <1>1, <1>2 DEF DiffNext

\* An authorized patch keeps the rest and every other area, and the number of records.
StaysInside(old, new, areas) ==
  /\ old.rest = new.rest
  /\ \A s \in Areas : Len(old.area[s]) = Len(new.area[s])
  /\ \A s \in Areas \ areas : old.area[s] = new.area[s]

LEMMA PatchesStayInside ==
  ASSUME NEW old, NEW new, NEW areas, PatchAuthorized(old, new, areas)
  PROVE  StaysInside(old, new, areas)
  <1>1. Masked(old, areas).rest = Masked(new, areas).rest /\ Masked(old, areas).area = Masked(new, areas).area
    BY DEF PatchAuthorized
  <1>2. old.rest = new.rest
    BY <1>1 DEF Masked
  <1>3. \A s \in Areas \ areas : Masked(old, areas).area[s] = old.area[s] /\ Masked(new, areas).area[s] = new.area[s]
    BY DEF Masked
  <1>4. \A s \in Areas \ areas : old.area[s] = new.area[s]
    BY <1>1, <1>3
  <1>5. \A s \in areas : Len(old.area[s]) = Len(new.area[s])
    BY DEF PatchAuthorized
  <1>6. QED
    BY <1>2, <1>4, <1>5 DEF StaysInside

LEMMA NothingUndeclaredHolds ==
  ASSUME About("parent diff") => facts \in Diffs
  PROVE  NothingUndeclared
  <1> SUFFICES ASSUME facts \in Diffs, DiffStatus(facts) = "PASS"
               PROVE  NothingUndeclared
    BY DEF NothingUndeclared
  <1>1. UndeclaredPaths(facts) = {} /\ ~facts.contaminated
    BY DEF DiffStatus
  <1> DEFINE Old(path) == facts.parent[path]
             New(path) == facts.candidate[path]
             Kinds(path) == {d.kind : d \in {x \in facts.declared : x.path = path}}
             Patched(path) == {d.area : d \in Declared(facts, path, "patch_record")}
  <1>2. ASSUME NEW path \in MemberPaths, Old(path) # New(path)
        PROVE  /\ ~Old(path).there => New(path).there /\ Declared(facts, path, "add_member") # {}
               /\ ~New(path).there => Old(path).there /\ Fitting(facts, path, "remove_member") # {}
               /\ Old(path).there /\ New(path).there => ChangeDeclared(facts, path)
    <2>1. /\ Old(path).there \in BOOLEAN /\ New(path).there \in BOOLEAN
          /\ Old(path).there \/ New(path).there
      BY <1>2, MembersAreThere DEF Diffs
    <2>2. ~ CASE ~Old(path).there -> Declared(facts, path, "add_member") = {}
              [] ~New(path).there -> Fitting(facts, path, "remove_member") = {}
              [] OTHER -> ~ChangeDeclared(facts, path)
      BY <1>1, <1>2 DEF UndeclaredPaths
    <2> HIDE DEF Old, New
    <2>3. QED
      BY <2>1, <2>2
  <1>3. ASSUME NEW path \in MemberPaths, NEW kind, Declared(facts, path, kind) # {}
        PROVE  kind \in Kinds(path)
    BY <1>3 DEF Declared
  <1>4. ASSUME NEW path, NEW kind PROVE Fitting(facts, path, kind) \subseteq Declared(facts, path, kind)
    BY DEF Fitting
  <1>5. ASSUME NEW path \in MemberPaths, Old(path) # New(path), Old(path).there, New(path).there
        PROVE  \/ "replace_member" \in Kinds(path)
               \/ /\ Old(path).rest = New(path).rest
                  /\ \A s \in Areas : Len(Old(path).area[s]) = Len(New(path).area[s])
                  /\ \A s \in Areas \ Patched(path) : Old(path).area[s] = New(path).area[s]
    <2>1. CASE Fitting(facts, path, "replace_member") # {}
      BY <2>1, <1>3, <1>4
    <2>2. CASE PatchAuthorized(Old(path), New(path), {d.area : d \in Fitting(facts, path, "patch_record")})
      <3> DEFINE areas == {d.area : d \in Fitting(facts, path, "patch_record")}
      <3>1. areas \subseteq Patched(path)
        BY <1>4
      <3>2. PatchAuthorized(facts.parent[path], facts.candidate[path], areas)
        BY <2>2
      <3> HIDE DEF areas, Patched
      <3>3. StaysInside(Old(path), New(path), areas)
        BY <3>2, PatchesStayInside
      <3>4. QED
        BY <3>1, <3>3 DEF StaysInside
    <2>3. QED
      BY <1>2, <1>5, <2>1, <2>2 DEF ChangeDeclared
  <1>6. ASSUME NEW path \in MemberPaths
        PROVE  CASE Old(path) = New(path) -> TRUE
                 [] Old(path) # New(path) /\ ~Old(path).there -> "add_member" \in Kinds(path)
                 [] Old(path) # New(path) /\ ~New(path).there -> "remove_member" \in Kinds(path)
                 [] OTHER -> \/ "replace_member" \in Kinds(path)
                             \/ /\ Old(path).rest = New(path).rest
                                /\ \A s \in Areas : Len(Old(path).area[s]) = Len(New(path).area[s])
                                /\ \A s \in Areas \ Patched(path) : Old(path).area[s] = New(path).area[s]
    <2>1. CASE Old(path) = New(path)
      BY <2>1
    <2>2. CASE Old(path) # New(path)
      <3>1. ~Old(path).there => New(path).there /\ "add_member" \in Kinds(path)
        BY <1>2, <1>3, <2>2
      <3>2. ~New(path).there => Old(path).there /\ "remove_member" \in Kinds(path)
        BY <1>2, <1>3, <1>4, <2>2
      <3> HIDE DEF Old, New, Kinds, Patched
      <3>3. QED
        BY <1>5, <2>2, <3>1, <3>2
    <2>3. QED
      BY <2>1, <2>2
  <1>7. QED
    BY <1>1, <1>6 DEF NothingUndeclared

\* The invariant of the reviews, by the topic of the evidence.
ReviewInv ==
  \/ facts \in Installs /\ InstallHolds(facts)
  \/ facts \in InstallReceipts /\ RollbackHolds(facts)
  \/ facts \in Plans /\ PlanHolds(facts)
  \/ facts \in Diffs
  \/ facts \in Refreshes /\ RefreshHolds(facts)

LEMMA ReviewTopics ==
  ASSUME ReviewInv
  PROVE  /\ About("install") => facts \in Installs /\ InstallHolds(facts)
         /\ About("receipt") => facts \in InstallReceipts /\ RollbackHolds(facts)
         /\ About("plan") => facts \in Plans /\ PlanHolds(facts)
         /\ About("parent diff") => facts \in Diffs
         /\ About("refresh") => facts \in Refreshes /\ RefreshHolds(facts)
  <1>1. /\ facts \in Installs => facts.topic = "install"
        /\ facts \in InstallReceipts => facts.topic = "receipt"
        /\ facts \in Plans => facts.topic = "plan"
        /\ facts \in Diffs => facts.topic = "parent diff"
        /\ facts \in Refreshes => facts.topic = "refresh"
    BY DEF Installs, InstallReceipts, Plans, Diffs, Refreshes
  <1>2. QED
    BY <1>1 DEF ReviewInv, About

\* Every review starts with nothing done.
LEMMA InstallStarts == InstallGatesInit => ReviewInv
  <1> SUFFICES ASSUME InstallGatesInit PROVE ReviewInv
    OBVIOUS
  <1>1. ASSUME NEW report \in BuildsMade, NEW build \in BuildsMade, NEW xml \in BuildsMade, NEW c \in {"confirmed_none", "partial"},
               NEW refs, refs = [r \in Roles |-> CASE r = "package" -> report [] r = "xml_tbl" -> xml [] OTHER -> build],
               facts = [topic |-> "install", phase |-> "idle", report |-> report, refs |-> refs, file |-> refs, conflict |-> c,
                        source |-> CandidateArtifact, approved |-> NothingApproved, installed |-> NothingApproved, writes |-> 0]
        PROVE  ReviewInv
    <2>1. refs \in [Roles -> BuildsMade]
      BY <1>1
    <2>2. NothingApproved \in Approvings
      BY DEF NothingApproved, NoBundle, Approvings
    <2> HIDE DEF NothingApproved
    <2>3. facts \in Installs /\ facts.phase = "idle"
      BY <1>1, <2>1, <2>2 DEF Installs
    <2>4. QED
      BY <2>3 DEF ReviewInv, InstallHolds
  <1>2. ASSUME NEW v \in 1 .. 3, NEW prior \in {"prior", "none"}, NEW other \in {"installed", "foreign"},
               NEW disk, disk = [x \in DiskPlaces |-> CASE x = "target" -> "installed" [] x = "other_folder" -> other
                                                        [] x = "backup" -> prior [] x = "backup_order" -> "before" [] OTHER -> "after"],
               NEW doc, doc = WrittenByInstall(prior),
               facts = [topic |-> "receipt", version |-> v, prior |-> prior, doc |-> doc, digest |-> DigestOf(doc), disk |-> disk,
                        phase |-> "idle", saved |-> "none", copy |-> NoCopy, edits |-> 0, writes |-> 0]
        PROVE  ReviewInv
    <2>1. doc \in [ReceiptFields -> Contents] /\ doc["target_existed"] \in {"some", "none"}
      BY <1>2, WrittenValues
    <2>2. disk \in [DiskPlaces -> Contents] /\ DiskAsLeft(disk, prior)
      BY <1>2 DEF DiskPlaces, Contents, DiskAsLeft
    <2>3. DigestOf(doc) \in [AttestedFields -> Contents]
      BY <2>1, DigestType
    <2>4. NoCopy \in [tree : Contents, order : Contents] /\ "none" \in Contents
      BY DEF NoCopy, Contents
    <2>5. facts \in InstallReceipts
      BY <1>2, <2>1, <2>2, <2>3, <2>4 DEF InstallReceipts
    <2>6. /\ facts.doc = doc /\ facts.disk = disk /\ facts.prior = prior /\ facts.phase = "idle"
      BY <1>2
    <2>7. RollbackHolds(facts)
      BY <2>1, <2>2, <2>6 DEF RollbackHolds
    <2>8. QED
      BY <2>5, <2>7 DEF ReviewInv
  <1>3. QED
    BY <1>1, <1>2 DEF InstallGatesInit

LEMMA PlanStarts == PlanInit => ReviewInv
  <1> SUFFICES ASSUME PlanInit PROVE ReviewInv
    OBVIOUS
  <1>1. PICK h \in [PlanFiles -> {"fit", "unfit", "partial"}] :
          facts = [topic |-> "plan", holds |-> h, next |-> 1, edits |-> 0, late |-> {}, read |-> [r \in {PlanReads[i] : i \in DOMAIN PlanReads} |-> "unread"]]
    BY DEF PlanInit
  <1>2. facts = [topic |-> "plan", holds |-> h, next |-> 1, edits |-> 0, late |-> {}, read |-> [r \in ReadNames |-> "unread"]]
    BY <1>1, PlanOrder
  <1>3. facts \in Plans
    BY <1>2 DEF Plans, PlanContents
  <1>4. PlanHolds(facts)
    BY <1>2 DEF PlanHolds
  <1>5. QED
    BY <1>3, <1>4 DEF ReviewInv

LEMMA DiffStarts == DiffInit => ReviewInv
  <1> SUFFICES ASSUME DiffInit PROVE ReviewInv
    OBVIOUS
  <1> DEFINE Archive(there) == [path \in MemberPaths |-> IF there[path] THEN ParentMember ELSE NoMember]
  <1>1. PICK there \in [MemberPaths -> BOOLEAN], c \in BOOLEAN :
          facts = [topic |-> "parent diff", parent |-> Archive(there), candidate |-> Archive(there), contaminated |-> c,
                   declared |-> {}, edits |-> 0]
    BY ZenonT(30) DEF DiffInit
  <1>2. ParentMember \in Members
    BY DEF ParentMember, Members, Ages
  <1>3. Archive(there) \in [MemberPaths -> Members \cup {NoMember}]
    BY <1>2
  <1> HIDE DEF Archive
  <1>4. facts \in Diffs
    BY <1>1, <1>3 DEF Diffs
  <1>5. QED
    BY <1>4 DEF ReviewInv

LEMMA RefreshStarts == RefreshInit => ReviewInv
  <1> SUFFICES ASSUME NEW obs \in [Observations -> [target : Targets, version : {0, 1}, freshness : Freshnesses]],
                      facts = [topic |-> "refresh", obs |-> obs, version |-> 1, status |-> "idle", request |-> NoRequest,
                               receipt |-> NoRefresh, did |-> {}]
               PROVE  ReviewInv
    BY DEF RefreshInit
  <1>1. obs \in [Observations -> ObservationShape]
    BY DEF ObservationShape
  <1>2. NoRequest \in Requests /\ NoRefresh \in Receipts
    <2>1. "none" \in ExecutorFaults
      BY DEF ExecutorFaults
    <2>2. QED
      BY <2>1 DEF NoRequest, NoRefresh, Requests, Receipts
  <1>3. facts \in Refreshes /\ facts.status = "idle"
    BY <1>1, <1>2 DEF Refreshes, Statuses
  <1>4. QED
    BY <1>3 DEF ReviewInv, RefreshHolds

\* A step is one of the topic that the evidence is about.
LEMMA ReviewSteps == ReviewInv /\ [ReviewNext]_facts => ReviewInv'
  <1> SUFFICES ASSUME ReviewInv, [ReviewNext]_facts PROVE ReviewInv'
    OBVIOUS
  <1>1. CASE UNCHANGED facts
    BY <1>1 DEF ReviewInv
  <1>2. CASE InstallGatesNext
    BY <1>2, ReviewTopics, InstallSteps, RollbackSteps, ReceiptEdits DEF InstallGatesNext, ReviewInv
  <1>3. CASE PlanNext
    BY <1>3, ReviewTopics, PlanSteps DEF PlanNext, ReviewInv
  <1>4. CASE DiffNext
    BY <1>4, ReviewTopics, DiffSteps DEF DiffNext, ReviewInv
  <1>5. CASE RefreshNext
    BY <1>5, ReviewTopics, OrchestrateStep, ExecuteRefreshStep, JudgeRefreshStep DEF RefreshNext, ReviewInv
  <1>6. QED
    BY <1>1, <1>2, <1>3, <1>4, <1>5 DEF ReviewNext

LEMMA InstalledAsApprovedHolds ==
  ASSUME About("install") => facts \in Installs /\ InstallHolds(facts)
  PROVE  InstalledAsApproved
  BY DEF InstalledAsApproved, InstallHolds, Accepted

\* From the plan to the rollback, what is done is what was looked at: for every set
\* of builds, receipts, edits, members, observations and candidates, whoever writes
\* in between.
THEOREM InstallsAreReviewed == LifecycleSpec /\ ReviewSpec => []InstalledIsReviewed
  <1>1. ReviewInit => ReviewInv
    BY InstallStarts, PlanStarts, DiffStarts, RefreshStarts DEF ReviewInit
  <1>2. LifecycleInv /\ ReviewInv => InstalledIsReviewed
    BY InstallTrueHolds, ReviewTopics, InstalledAsApprovedHolds, OneEditRefusedHolds, RollbackAnchoredHolds, ReadyNamesHolds,
       NothingUndeclaredHolds, ConfirmedIsExactHolds DEF InstalledIsReviewed
  <1>3. QED
    BY <1>1, <1>2, LifecycleStarts, LifecycleSteps, ReviewSteps, PTL DEF LifecycleSpec, ReviewSpec

-----------------------------------------------------------------------------
(***************************************************************************)
(* Claims about the game's sources.                                        *)
(***************************************************************************)

LEMMA EmptyAnswer == Cardinality({}) = 0
  BY FS_EmptySet

\* A set that has one element is that element alone.
LEMMA OneElement ==
  ASSUME NEW S, Cardinality(S) = 1, IsFiniteSet(S)
  PROVE  \E x : S = {x}
  BY FS_Singleton

\* A finite set of not more than one element holds no two.
LEMMA NoTwo ==
  ASSUME NEW S, IsFiniteSet(S), ~(Cardinality(S) > 1)
  PROVE  \A x, y \in S : x = y
  <1>1. Cardinality(S) \in Nat
    BY FS_CardinalityType
  <1>2. Cardinality(S) = 0 \/ Cardinality(S) = 1
    BY <1>1
  <1>3. CASE Cardinality(S) = 0
    BY <1>3, FS_EmptySet
  <1>4. CASE Cardinality(S) = 1
    BY <1>4, OneElement
  <1>5. QED
    BY <1>2, <1>3, <1>4

\* The naturals up to two are finitely many.
LEMMA UpToTwo == IsFiniteSet(0..2)
  <1>1. 0 \in Int /\ 2 \in Int
    OBVIOUS
  <1>2. QED
    BY <1>1, FS_Interval, Zenon

-----------------------------------------------------------------------------
(***************************************************************************)
(* Quest topologies and world records.                                     *)
(***************************************************************************)
NamedProviders == {s.provider : s \in GraphSources} \cup {Nowhere}

Topologies ==
  [topic : {"topology"}, changes : Nat, winner : [PathsOf -> [state : WinnerStates, provider : NamedProviders]],
   flaw : [GraphSources -> DocumentFlaws]]

\* What is said of a topology holds of every evidence of its shape.
LEMMA TopologyHolds ==
  ASSUME About("topology") => facts \in Topologies
  PROVE  TopologyAbsenceEarned
  <1> SUFFICES ASSUME facts \in Topologies, NEW d \in DomainsOf, AbsenceAllowed(facts, d),
                      NEW s \in GraphSources, s.domain = d,
                      facts.winner[s.path].state = "winner" => s.provider = facts.winner[s.path].provider
               PROVE  /\ facts.winner[s.path].state = "contributors"
                           \/ (facts.winner[s.path].state = "winner" /\ Cardinality(Winning(facts, s.path)) = 1)
                      /\ facts.flaw[s] \in {"none", "dangling_edge"}
    BY DEF TopologyAbsenceEarned
  <1> DEFINE w == facts.winner[s.path]
             docs == {x \in Read(facts) : x.domain = d}
             reasons == {JoinReason(facts, x.path) : x \in docs} \ {"none"}
             flaws == {facts.flaw[x] : x \in docs} \ {"none", "dangling_edge"}
  <1>1. s.path \in PathsOf
    BY DEF PathsOf
  <1>2. w.state \in WinnerStates /\ facts.flaw[s] \in DocumentFlaws
    BY <1>1 DEF Topologies
  <1>3. s \in SourcesOf(s.path)
    BY DEF SourcesOf
  <1>4. s \in Selected(facts, s.path)
    <2>1. CASE w.state = "winner"
      BY <1>3, <2>1 DEF Selected, Winning
    <2>2. CASE w.state # "winner"
      BY <1>3, <2>2 DEF Selected
    <2>3. QED
      BY <2>1, <2>2
  <1>5. s \in docs
    BY <1>1, <1>4 DEF Read
  <1>6. TopologyStatus(facts, d) = "complete"
    BY DEF AbsenceAllowed
  <1>7. reasons \cup flaws = {}
    <2> SUFFICES ASSUME reasons \cup flaws # {} PROVE FALSE
      OBVIOUS
    <2>1. CASE reasons \cap {"stale", "partial"} # {}
      BY <1>6, <2>1 DEF TopologyStatus
    <2>2. CASE reasons \cap {"stale", "partial"} = {}
      <3>1. TopologyStatus(facts, d) = "partial"
        BY <2>2 DEF TopologyStatus
      <3>2. QED
        BY <1>6, <3>1
    <2>3. QED
      BY <2>1, <2>2
  <1>8. JoinReason(facts, s.path) = "none" /\ facts.flaw[s] \in {"none", "dangling_edge"}
    <2> HIDE DEF docs
    <2>1. QED
      BY <1>5, <1>7
  <1>9. w.state = "contributors" \/ (w.state = "winner" /\ Cardinality(Winning(facts, s.path)) = 1)
    <2>1. CASE w.state = "winner"
      BY <1>8, <2>1 DEF JoinReason
    <2>2. CASE w.state # "winner" /\ w.state # "contributors"
      <3>1. JoinReason(facts, s.path) = w.state
        BY <2>2 DEF JoinReason
      <3>2. QED
        BY <1>2, <1>8, <3>1 DEF WinnerStates
    <2>3. QED
      BY <2>1, <2>2
  <1>10. QED
    BY <1>8, <1>9

WorldShape(f) ==
  \E changes, kind, owner, references, uncovered, document :
  \E world \in [RecordKeys -> WorldKinds] :
    /\ \A k \in DOMAIN kind : kind[k] = world[k]
    /\ f = [topic |-> "world", changes |-> changes, kind |-> kind, owner |-> owner, references |-> references,
            uncovered |-> uncovered, world |-> world, document |-> document]

\* Whatever the records and documents: a record that was not read is of no
\* consequence for a domain that is called complete.
LEMMA WorldHolds ==
  ASSUME About("world") => WorldShape(facts)
  PROVE  WorldDomainWhole
  <1> SUFFICES ASSUME WorldShape(facts), NEW d \in {"world", "persistence"}, WorldComplete(facts, d),
                      NEW lost \in DOMAIN facts.world \ WorldRecords(facts), NEW k \in WorldRecords(facts),
                      WorldDomain(facts.world[k]) = d
               PROVE  /\ facts.owner[k] # lost
                      /\ <<k, lost>> \notin facts.references /\ <<lost, k>> \notin facts.references
                      /\ WorldDomain(facts.world[lost]) = d /\ facts.document[lost] \in facts.uncovered =>
                           facts.document[k] # facts.document[lost]
    BY DEF WorldDomainWhole
  <1>1. ~ Incomplete(facts, d)
    BY DEF WorldComplete
  <1>2. facts.kind[k] = facts.world[k] /\ lost # Nowhere
    BY NowhereIsNoRecord DEF WorldShape, WorldRecords
  <1>3. facts.owner[k] # lost
    BY <1>1, <1>2 DEF Incomplete
  <1>4. ASSUME NEW r \in facts.references, k \in {r[1], r[2]}
        PROVE  lost \notin {r[1], r[2]}
    <2>1. k \in {r[1], r[2]} \cap WorldRecords(facts)
      BY <1>4
    <2>2. {r[1], r[2]} \subseteq WorldRecords(facts)
      BY <1>1, <1>2, <2>1 DEF Incomplete
    <2>3. QED
      BY <2>2
  <1>5. <<k, lost>> \notin facts.references /\ <<lost, k>> \notin facts.references
    <2>1. ASSUME <<k, lost>> \in facts.references PROVE FALSE
      BY <1>4, <2>1
    <2>2. ASSUME <<lost, k>> \in facts.references PROVE FALSE
      BY <1>4, <2>2
    <2>3. QED
      BY <2>1, <2>2
  <1>6. facts.document[k] \notin facts.uncovered
    BY <1>1, <1>2 DEF Incomplete
  <1>7. QED
    BY <1>3, <1>5, <1>6

-----------------------------------------------------------------------------
(***************************************************************************)
(* References.                                                             *)
(***************************************************************************)
DefinitionLists == UNION {[1..n -> Definitions] : n \in 0..Cardinality(DefinitionIds)}

ReferenceFacts == [topic : {"references"}, definitions : DefinitionLists, covered : BOOLEAN]

\* What is said of a reference holds of any definitions.
LEMMA ReferencesHold ==
  ASSUME About("references") => facts \in ReferenceFacts
  PROVE  ReferencesSound
  <1> SUFFICES ASSUME facts \in ReferenceFacts
               PROVE  /\ ReferenceStatus(facts) = "resolved" =>
                           /\ facts.covered
                           /\ NumberOf(facts, LAMBDA d : d.key = "x" /\ d.active) = 1
                           /\ \E d \in Held(facts) : d.key = "x" /\ d.active /\ d.order <= 1
                      /\ ResolveOne(facts) = "missing_globally" => facts.covered /\ Held(facts) = {}
    BY DEF ReferencesSound
  <1> DEFINE active == {i \in DOMAIN facts.definitions : facts.definitions[i].key = "x" /\ facts.definitions[i].active}
  <1>1. NumberOf(facts, LAMBDA d : d.key = "x" /\ d.active) = Cardinality(active)
    BY DEF NumberOf
  <1>2. NumberOf(facts, LAMBDA d : ExactKey(d) /\ d.active) = Cardinality(active)
    BY DEF NumberOf, ExactKey
  <1>3. \A i \in DOMAIN facts.definitions : facts.definitions[i] \in Definitions
    <2>1. PICK n : facts.definitions \in [1..n -> Definitions]
      BY DEF ReferenceFacts, DefinitionLists
    <2>2. QED
      BY <2>1
  <1>4. ASSUME ReferenceStatus(facts) = "resolved"
        PROVE  /\ facts.covered
               /\ Cardinality(active) = 1
               /\ \E d \in Held(facts) : d.key = "x" /\ d.active /\ d.order <= 1
    <2>1. facts.covered /\ ResolveOne(facts) = "resolved_active"
      BY <1>4, Zenon DEF ReferenceStatus
    <2>2. Cardinality(active) = 1 /\ ~ (\E d \in Held(facts) : ExactKey(d) /\ d.active /\ d.order > 1)
      <3> HIDE DEF active
      <3>1. QED
        BY <1>2, <2>1 DEF ResolveOne
    <2>3. PICK i \in active : TRUE
      BY <2>2, EmptyAnswer
    <2>4. facts.definitions[i] \in Held(facts) /\ facts.definitions[i].order \in 0..2
      BY <1>3, <2>3 DEF Held, Definitions
    <2>5. ~(facts.definitions[i].order > 1)
      BY <2>2, <2>3, <2>4 DEF ExactKey
    <2>6. facts.definitions[i].order <= 1
      BY <2>4, <2>5
    <2>7. QED
      BY <2>1, <2>2, <2>3, <2>4, <2>6
  <1>5. ASSUME ResolveOne(facts) = "missing_globally"
        PROVE  facts.covered /\ Held(facts) = {}
    BY <1>5 DEF ResolveOne
  <1>6. QED
    BY <1>1, <1>4, <1>5

-----------------------------------------------------------------------------
(***************************************************************************)
(* Catalogs.                                                               *)
(***************************************************************************)
Catalogs == [checked : BOOLEAN, covered : SUBSET Roots, found : BOOLEAN, at : Nat, whole : BOOLEAN]

CatalogFacts ==
  [topic : {"catalogs"}, now : Nat, changes : Nat, places : SUBSET (ProviderKinds \X Roots),
   gone : [ProviderKinds -> Nat], catalog : [ProviderKinds -> Catalogs]]

\* A mod that no root of a kind holds is gone now; and a catalog of all roots that
\* did not find it was made when it was gone, or before it was gone again.
CatalogSees(f, k) ==
  /\ f.gone[k] <= f.now
  /\ ~ Installed(f, k) => f.gone[k] = f.now
  /\ f.catalog[k].checked /\ f.catalog[k].covered = Roots /\ ~ f.catalog[k].found => f.catalog[k].at <= f.gone[k]

CatalogsSee(f) == \A k \in ProviderKinds : CatalogSees(f, k)

\* A mod that is confirmed missing was gone when its catalogs were made.
LEMMA MissingHolds ==
  ASSUME About("catalogs") => facts \in CatalogFacts /\ CatalogsSee(facts)
  PROVE  MissingWasMissing
  <1> SUFFICES ASSUME facts \in CatalogFacts, CatalogsSee(facts), ProviderState(facts) = "MISSING_CONFIRMED",
                      NEW k \in ProviderKinds
               PROVE  facts.now - facts.gone[k] <= MaxCatalogAge
    BY DEF MissingWasMissing
  <1> DEFINE present == {x \in ProviderKinds : facts.catalog[x].found}
  <1>1. present # ProviderKinds /\ present # {"local"} /\ present # {"workshop"}
    BY DEF ProviderState
  <1>2. ~ facts.catalog[k].found
    BY <1>1 DEF ProviderKinds
  <1>3. AbsenceReady(facts, k)
    <2>1. \A x \in ProviderKinds : AbsenceReady(facts, x)
      <3> SUFFICES ASSUME ~ \A x \in ProviderKinds : AbsenceReady(facts, x) PROVE FALSE
        OBVIOUS
      <3> HIDE DEF present
      <3>1. ProviderState(facts) = CASE present = ProviderKinds -> "LOCAL_AND_WORKSHOP_PRESENT"
                [] present = {"local"} -> "LOCAL_PRESENT"
                [] present = {"workshop"} -> "WORKSHOP_PRESENT"
                [] OTHER -> CASE \A x \in ProviderKinds : AbsenceReady(facts, x) -> "MISSING_CONFIRMED"
                              [] (\E x \in ProviderKinds : ~AbsenceReady(facts, x)) /\ facts.catalog["workshop"].checked /\ ~CatalogFresh(facts, "workshop")
                                   -> "WORKSHOP_COVERAGE_STALE"
                              [] OTHER -> "POSSIBLY_WORKSHOP_MANAGED"
        BY DEF ProviderState, present
      <3>2. ProviderState(facts) = "WORKSHOP_COVERAGE_STALE" \/ ProviderState(facts) = "POSSIBLY_WORKSHOP_MANAGED"
        BY <1>1, <3>1
      <3>3. QED
        BY <3>2
    <2>2. QED
      BY <2>1
  <1>4. facts.catalog[k].checked /\ facts.catalog[k].covered = Roots /\ facts.now - facts.catalog[k].at <= MaxCatalogAge
    BY <1>3 DEF AbsenceReady, CatalogFresh
  <1>5. facts.catalog[k].at <= facts.gone[k]
    BY <1>2, <1>4 DEF CatalogsSee, CatalogSees
  <1>6. facts.now \in Nat /\ facts.gone[k] \in Nat /\ facts.catalog[k].at \in Nat
    BY DEF CatalogFacts, Catalogs
  <1>7. QED
    BY <1>4, <1>5, <1>6, CatalogAgeAssumption

-----------------------------------------------------------------------------
(***************************************************************************)
(* Boots.                                                                  *)
(***************************************************************************)
BootFacts == [topic : {"boots"}, boots : Seq(Boots), receipt : BootReceipts, look : Looks]

\* What a receipt that counts says of its boot, and what a look saw of it.
ReceiptFits(boots, receipt) ==
  receipt.complete /\ receipt.latest =>
    /\ receipt.boot \in DOMAIN boots /\ receipt.made <= Len(boots)
    /\ boots[receipt.boot].whole /\ \A j \in receipt.boot + 1..receipt.made : ~boots[j].whole
    /\ receipt.conclusion \in {boots[receipt.boot].pak, "incomplete"}

LookFits(boots, look) ==
  look.lua # "incomplete" => look.boot \in DOMAIN boots /\ look.lua = boots[look.boot].lua

BootsKnown(f) == ReceiptFits(f.boots, f.receipt) /\ LookFits(f.boots, f.look)

\* A loaded state is that of the one boot that receipt and look are of.
LEMMA LoadedHolds ==
  ASSUME About("boots") => facts \in BootFacts /\ BootsKnown(facts)
  PROVE  LoadedInOneBoot
  <1> SUFFICES ASSUME facts \in BootFacts, BootsKnown(facts), LoadedState(facts) # "capture_inconclusive"
               PROVE  LoadedInOneBoot
    BY DEF LoadedInOneBoot
  <1> DEFINE i == facts.receipt.boot
             b == facts.boots[i]
             lua == facts.look.lua
  <1>1. /\ facts.receipt.complete /\ facts.receipt.latest /\ facts.look.boot = i
        /\ facts.receipt.conclusion # "incomplete" /\ lua # "incomplete"
    BY DEF LoadedState, SameCompleteBoot, PakState
  <1>2. /\ i \in DOMAIN facts.boots
        /\ b.whole /\ \A j \in i + 1..facts.receipt.made : ~facts.boots[j].whole
        /\ facts.receipt.conclusion = b.pak /\ lua = b.lua
    BY <1>1 DEF BootsKnown, ReceiptFits, LookFits
  <1>3. LoadedState(facts) = IF b.pak = "not_observed"
                             THEN IF lua = "not_observed" THEN "pak_not_opened" ELSE "capture_inconclusive"
                             ELSE CASE lua = "loaded" -> "pak_opened_lua_loaded"
                                    [] lua = "failed" -> "pak_opened_lua_failed"
                                    [] OTHER -> "pak_opened_lua_not_observed"
    BY <1>1, <1>2 DEF LoadedState, SameCompleteBoot, PakState
  <1>4. b.pak \in {"confirmed", "not_observed"}
    <2>1. facts.boots \in Seq(Boots)
      BY DEF BootFacts
    <2>2. b \in Boots
      BY <1>2, <2>1
    <2>3. QED
      BY <2>2 DEF Boots
  <1> HIDE DEF b, lua
  <1>5. LoadedState(facts) = CASE b.pak = "not_observed" -> "pak_not_opened"
                               [] b.pak = "confirmed" /\ b.lua = "loaded" -> "pak_opened_lua_loaded"
                               [] b.pak = "confirmed" /\ b.lua = "failed" -> "pak_opened_lua_failed"
                               [] OTHER -> "pak_opened_lua_not_observed"
    BY <1>2, <1>3, <1>4
  <1>6. QED
    BY <1>1, <1>2, <1>5 DEF LoadedInOneBoot, b

-----------------------------------------------------------------------------
(***************************************************************************)
(* Texts and voices.                                                       *)
(***************************************************************************)
Audits == {NotAudited} \cup [at : {1}, coverage : {"COMPLETE", "PARTIAL"}, world : TextWorlds]

TextFacts ==
  [topic : {"texts"}, world : TextWorlds, moves : Nat, audit : Audits,
   seen : {Unseen} \cup [at : {1}, text : TextProviders, voice : TextProviders], flaws : SUBSET Faults]

\* A winner is alone at the top.
LEMMA WinnerAlone ==
  ASSUME NEW w, NEW S, IsFiniteSet(S), Winner(w, S) # NoTextProvider
  PROVE  Top(w, S) = {Winner(w, S)}
  <1>1. Cardinality(Top(w, S)) = 1 /\ Winner(w, S) = CHOOSE p \in Top(w, S) : TRUE
    BY DEF Winner
  <1>2. IsFiniteSet(Top(w, S))
    BY FS_Subset DEF Top
  <1>3. PICK x : Top(w, S) = {x}
    BY <1>1, <1>2, OneElement
  <1>4. QED
    BY <1>1, <1>3

\* A release that is accepted has an audit without reasons and issues.
LEMMA ReleaseHolds ==
  ASSUME About("texts") => facts \in TextFacts
  PROVE  ReleaseAsAudited
  <1> DEFINE w == facts.audit.world
  <1> SUFFICES ASSUME facts \in TextFacts, facts.audit # NotAudited, ReleaseStatus(facts) = "accepted"
               PROVE  /\ facts.seen.at > 0 /\ Top(w, WithVoice(w)) = {facts.seen.voice}
                      /\ \A p, q \in w.loaded : w.text[p] # 0 /\ w.text[q] # 0 => w.text[p] = w.text[q]
    BY DEF ReleaseAsAudited
  <1>1. facts.audit \in [at : {1}, coverage : {"COMPLETE", "PARTIAL"}, world : TextWorlds]
    BY DEF TextFacts, Audits
  <1>2. w \in TextWorlds
    BY <1>1
  <1>3. IsFiniteSet(w.loaded) /\ IsFiniteSet(WithText(w)) /\ IsFiniteSet(WithVoice(w))
    <2>1. w.loaded \subseteq TextProviders
      BY <1>2 DEF TextWorlds
    <2>2. WithText(w) \subseteq TextProviders /\ WithVoice(w) \subseteq TextProviders
      BY <2>1 DEF WithText, WithVoice
    <2>3. QED
      BY <2>1, <2>2, FS_Subset, TextProvidersAreFinite
  <1> DEFINE partial == AuditStatus(facts.audit) # "resolved"
             runtime == {"capture_incomplete", "correlation_invalid"} \cap facts.flaws
             observed == facts.seen.at > 0
             diagnosed == (facts.flaws \ runtime) # {} \/ (observed /\ ~LinksMatched(facts)) \/ (runtime = {} /\ ~observed)
  <1>4. ~ (partial \/ runtime # {}) /\ ~ diagnosed
    <2>1. ReleaseStatus(facts) = CASE partial \/ runtime # {} -> "capture_inconclusive"
                                   [] ~(partial \/ runtime # {}) /\ diagnosed -> "rejected"
                                   [] OTHER -> "accepted"
      BY DEF ReleaseStatus
    <2> HIDE DEF partial, runtime, diagnosed
    <2>2. CASE partial \/ runtime # {}
      BY <2>1, <2>2
    <2>3. CASE ~(partial \/ runtime # {}) /\ diagnosed
      BY <2>1, <2>3
    <2>4. QED
      BY <2>2, <2>3
  <1>5. AuditReasons(facts.audit) = {} /\ AuditIssues(facts.audit) = {}
    <2>1. AuditStatus(facts.audit) = "resolved"
      BY <1>4
    <2>2. CASE AuditReasons(facts.audit) # {}
      BY <2>1, <2>2 DEF AuditStatus
    <2>3. CASE AuditReasons(facts.audit) = {} /\ AuditIssues(facts.audit) # {}
      BY <2>1, <2>3 DEF AuditStatus
    <2>4. QED
      BY <2>2, <2>3
  <1>6. facts.audit.coverage = "COMPLETE"
    BY <1>5 DEF AuditReasons
  <1>7. Winner(w, WithVoice(w)) # NoTextProvider /\ ~ TextConflict(w)
    BY <1>5, <1>6 DEF AuditIssues
  <1>8. observed /\ LinksMatched(facts)
    BY <1>4
  <1>9. facts.seen.voice = Winner(w, WithVoice(w))
    BY <1>7, <1>8 DEF LinksMatched
  <1>10. Top(w, WithVoice(w)) = {facts.seen.voice}
    BY <1>3, <1>7, <1>9, WinnerAlone
  <1>11. ASSUME NEW p \in w.loaded, NEW q \in w.loaded, w.text[p] # 0, w.text[q] # 0
         PROVE  w.text[p] = w.text[q]
    <2> DEFINE texts == {w.text[x] : x \in WithText(w)}
    <2>1. IsFiniteSet(texts)
      <3>1. \A x \in WithText(w) : w.text[x] \in 0..2
        BY <1>2 DEF TextWorlds, WithText
      <3>2. texts \subseteq 0..2
        BY <3>1
      <3> HIDE DEF texts
      <3>3. QED
        BY <3>2, UpToTwo, FS_Subset
    <2>2. ~ (Cardinality(texts) > 1)
      BY <1>7 DEF TextConflict
    <2>3. w.text[p] \in texts /\ w.text[q] \in texts
      BY <1>11 DEF WithText
    <2> HIDE DEF texts
    <2>4. QED
      BY <2>1, <2>2, <2>3, NoTwo
  <1>12. QED
    BY <1>8, <1>10, <1>11

-----------------------------------------------------------------------------
(***************************************************************************)
(* The steps of the sources.                                               *)
(***************************************************************************)
ClaimsInv ==
  \/ facts \in Topologies
  \/ WorldShape(facts)
  \/ facts \in ReferenceFacts
  \/ facts \in CatalogFacts /\ CatalogsSee(facts)
  \/ facts \in BootFacts /\ BootsKnown(facts)
  \/ facts \in TextFacts

\* The topic tells the shape of the evidence.
LEMMA ClaimTopics ==
  ASSUME ClaimsInv
  PROVE  /\ About("topology") => facts \in Topologies
         /\ About("world") => WorldShape(facts)
         /\ About("references") => facts \in ReferenceFacts
         /\ About("catalogs") => facts \in CatalogFacts /\ CatalogsSee(facts)
         /\ About("boots") => facts \in BootFacts /\ BootsKnown(facts)
         /\ About("texts") => facts \in TextFacts
  <1>1. /\ facts \in Topologies => facts.topic = "topology"
        /\ facts \in ReferenceFacts => facts.topic = "references"
        /\ facts \in CatalogFacts => facts.topic = "catalogs"
        /\ facts \in BootFacts => facts.topic = "boots"
        /\ facts \in TextFacts => facts.topic = "texts"
        /\ WorldShape(facts) => facts.topic = "world"
    BY DEF Topologies, ReferenceFacts, CatalogFacts, BootFacts, TextFacts, WorldShape
  <1>2. QED
    BY <1>1 DEF ClaimsInv, About

\* Evidence in order has its shape.
LEMMA ClaimsStart == ClaimsInit => ClaimsInv
  <1> SUFFICES ASSUME ClaimsInit PROVE ClaimsInv
    OBVIOUS
  <1>1. CASE GraphInit
    <2>1. ASSUME NEW w \in [PathsOf -> {[state |-> "winner", provider |-> s.provider] : s \in GraphSources}
                                         \cup {[state |-> "contributors", provider |-> Nowhere]}],
                 facts = [topic |-> "topology", changes |-> 0, winner |-> w, flaw |-> [s \in GraphSources |-> "none"]]
          PROVE  facts \in Topologies
      <3>1. \A v \in {[state |-> "winner", provider |-> s.provider] : s \in GraphSources}
                       \cup {[state |-> "contributors", provider |-> Nowhere]} :
              v \in [state : WinnerStates, provider : NamedProviders]
        BY DEF WinnerStates, NamedProviders
      <3>2. w \in [PathsOf -> [state : WinnerStates, provider : NamedProviders]]
        BY <3>1
      <3>3. [s \in GraphSources |-> "none"] \in [GraphSources -> DocumentFlaws]
        BY DEF DocumentFlaws
      <3>4. QED
        BY <2>1, <3>2, <3>3 DEF Topologies
    <2>2. CASE \E kind \in [RecordKeys -> WorldKinds], refs \in SUBSET {r \in RecordKeys \X RecordKeys : r[1] # r[2]} :
               \E owner \in [RecordKeys -> RecordKeys \cup {Nowhere}], document \in [RecordKeys -> WorldDocuments] :
                 facts = [topic |-> "world", changes |-> 0, kind |-> kind, owner |-> owner, references |-> refs, uncovered |-> {},
                          world |-> kind, document |-> document]
      BY <2>2 DEF ClaimsInv, WorldShape
    <2>3. QED
      BY <1>1, <2>1, <2>2 DEF GraphInit, ClaimsInv
  <1>2. CASE SourcesInit
    <2>1. ASSUME NEW n \in 0..Cardinality(DefinitionIds), NEW d \in [1..n -> Definitions],
                 facts = [topic |-> "references", definitions |-> d, covered |-> TRUE]
          PROVE  facts \in ReferenceFacts
      BY <2>1 DEF ReferenceFacts, DefinitionLists
    <2>2. ASSUME facts = [topic |-> "catalogs", now |-> 0, changes |-> 0, places |-> {}, gone |-> [k \in ProviderKinds |-> 0],
                          catalog |-> [k \in ProviderKinds |-> NotChecked]]
          PROVE  facts \in CatalogFacts /\ CatalogsSee(facts)
      <3>1. NotChecked \in Catalogs /\ ~ NotChecked.checked
        BY DEF NotChecked, Catalogs
      <3>2. facts \in CatalogFacts
        BY <2>2, <3>1 DEF CatalogFacts
      <3>3. QED
        BY <2>2, <3>1, <3>2 DEF CatalogsSee, CatalogSees
    <2>3. ASSUME facts = [topic |-> "boots", boots |-> <<>>, receipt |-> NoReceipt, look |-> NoLook]
          PROVE  facts \in BootFacts /\ BootsKnown(facts)
      <3>1. NoReceipt \in BootReceipts /\ NoLook \in Looks
        BY DEF NoReceipt, BootReceipts, PakConclusions, NoLook, Looks, LuaStates
      <3>2. facts \in BootFacts
        BY <2>3, <3>1 DEF BootFacts
      <3>3. facts.receipt = NoReceipt /\ facts.look = NoLook
        BY <2>3
      <3>4. QED
        BY <3>2, <3>3 DEF BootsKnown, ReceiptFits, LookFits, NoReceipt, NoLook
    <2>4. QED
      BY <1>2, <2>1, <2>2, <2>3 DEF SourcesInit, ClaimsInv
  <1>3. CASE LocalizationInit
    <2>1. PICK w \in TextWorlds :
            facts = [topic |-> "texts", world |-> w, moves |-> 0, audit |-> NotAudited, seen |-> Unseen, flaws |-> {}]
      BY <1>3 DEF LocalizationInit
    <2>2. facts \in TextFacts
      BY <2>1 DEF TextFacts, Audits
    <2>3. QED
      BY <2>2 DEF ClaimsInv
  <1>4. QED
    BY <1>1, <1>2, <1>3 DEF ClaimsInit

\* A flaw, another winner, a lost record and an uncovered domain keep the shape.
LEMMA GraphSteps ==
  ASSUME ClaimsInv, GraphNext
  PROVE  ClaimsInv'
  <1>1. CASE About("topology")
    <2>1. facts \in Topologies
      BY <1>1, ClaimTopics
    <2>2. facts.changes + 1 \in Nat
      BY <2>1 DEF Topologies
    <2>3. ASSUME NEW s \in GraphSources, NEW d \in DocumentFlaws,
                 facts' = [facts EXCEPT !.changes = @ + 1, !.flaw[s] = d]
          PROVE  facts' \in Topologies
      <3> DEFINE flaw == [facts.flaw EXCEPT ![s] = d]
      <3>1. flaw \in [GraphSources -> DocumentFlaws]
        BY <2>1 DEF Topologies
      <3>2. PICK n \in Nat : facts' = [facts EXCEPT !.changes = n, !.flaw = flaw]
        BY <2>2, <2>3
      <3> HIDE DEF flaw
      <3>3. QED
        BY <2>1, <3>1, <3>2 DEF Topologies
    <2>4. ASSUME NEW p \in PathsOf, NEW w \in WinnerStates,
                 facts' = [facts EXCEPT !.changes = @ + 1, !.winner[p].state = w]
          PROVE  facts' \in Topologies
      <3> DEFINE winner == [facts.winner EXCEPT ![p].state = w]
      <3>1. winner \in [PathsOf -> [state : WinnerStates, provider : NamedProviders]]
        BY <2>1 DEF Topologies
      <3>2. PICK n \in Nat : facts' = [facts EXCEPT !.changes = n, !.winner = winner]
        BY <2>2, <2>4
      <3> HIDE DEF winner
      <3>3. QED
        BY <2>1, <3>1, <3>2 DEF Topologies
    <2>5. QED
      BY <1>1, <2>3, <2>4 DEF GraphNext, ClaimsInv, About
  <1>2. CASE About("world")
    <2>1. WorldShape(facts)
      BY <1>2, ClaimTopics
    <2>2. PICK c, kind, owner, refs, uncovered, document : \E world \in [RecordKeys -> WorldKinds] :
            /\ \A k \in DOMAIN kind : kind[k] = world[k]
            /\ facts = [topic |-> "world", changes |-> c, kind |-> kind, owner |-> owner, references |-> refs,
                        uncovered |-> uncovered, world |-> world, document |-> document]
      BY <2>1 DEF WorldShape
    <2>3. ASSUME NEW k \in WorldRecords(facts), facts' = WithoutRecord(facts, k)
          PROVE  WorldShape(facts)'
      <3> DEFINE kinds == [x \in WorldRecords(facts) \ {k} |-> facts.kind[x]]
                 owners == [x \in WorldRecords(facts) \ {k} |-> facts.owner[x]]
      <3>1. facts' = [facts EXCEPT !.changes = facts.changes + 1, !.kind = kinds, !.owner = owners]
        BY <2>3 DEF WithoutRecord
      <3>2. PICK world \in [RecordKeys -> WorldKinds] :
              /\ \A x \in DOMAIN kind : kind[x] = world[x]
              /\ facts = [topic |-> "world", changes |-> c, kind |-> kind, owner |-> owner, references |-> refs,
                          uncovered |-> uncovered, world |-> world, document |-> document]
        BY <2>2
      <3>3. \A x \in DOMAIN kinds : kinds[x] = world[x]
        BY <3>2 DEF WorldRecords
      <3> HIDE DEF kinds, owners
      <3>4. facts' = [topic |-> "world", changes |-> facts.changes + 1, kind |-> kinds, owner |-> owners, references |-> refs,
                      uncovered |-> uncovered, world |-> world, document |-> document]
        BY <3>1, <3>2
      <3>5. QED
        BY <3>3, <3>4 DEF WorldShape
    <2>4. ASSUME NEW d, facts' = [facts EXCEPT !.changes = @ + 1, !.uncovered = @ \cup {d}]
          PROVE  WorldShape(facts)'
      <3>1. PICK world \in [RecordKeys -> WorldKinds] :
              /\ \A x \in DOMAIN kind : kind[x] = world[x]
              /\ facts = [topic |-> "world", changes |-> c, kind |-> kind, owner |-> owner, references |-> refs,
                          uncovered |-> uncovered, world |-> world, document |-> document]
        BY <2>2
      <3>2. facts' = [topic |-> "world", changes |-> facts.changes + 1, kind |-> kind, owner |-> owner, references |-> refs,
                      uncovered |-> facts.uncovered \cup {d}, world |-> world, document |-> document]
        BY <2>4, <3>1
      <3>3. QED
        BY <3>1, <3>2 DEF WorldShape
    <2>5. ~ About("topology")
      BY <1>2 DEF About
    <2>6. WorldShape(facts)'
      BY <2>3, <2>4, <2>5 DEF GraphNext
    <2>7. QED
      BY <2>6 DEF ClaimsInv
  <1>3. QED
    BY <1>1, <1>2 DEF GraphNext

\* Time passes, a mod is moved, or a catalog is captured.
LEMMA CatalogSteps ==
  ASSUME facts \in CatalogFacts, CatalogsSee(facts),
         \/ facts' = PassTime(facts)
         \/ \E k \in ProviderKinds, r \in Roots :
              facts' = Moved(facts, facts.places \cup {<<k, r>>}) \/ facts' = Moved(facts, facts.places \ {<<k, r>>})
         \/ \E k \in ProviderKinds, c \in SUBSET Roots, w \in BOOLEAN : facts' = CaptureCatalog(facts, k, c, w)
  PROVE  facts' \in CatalogFacts /\ CatalogsSee(facts')
  <1>0. /\ facts.now \in Nat /\ facts.changes \in Nat /\ facts.gone \in [ProviderKinds -> Nat]
        /\ facts.catalog \in [ProviderKinds -> Catalogs] /\ facts.places \in SUBSET (ProviderKinds \X Roots)
    BY DEF CatalogFacts
  <1>1. \A k \in ProviderKinds : facts.gone[k] \in Nat /\ facts.catalog[k].at \in Nat
    BY <1>0 DEF Catalogs
  <1>2. CASE facts' = PassTime(facts)
    <2> DEFINE gone == [k \in ProviderKinds |-> IF Installed(facts, k) THEN facts.gone[k] ELSE facts.now + 1]
    <2>1. facts.now + 1 \in Nat
      BY <1>0
    <2>2. gone \in [ProviderKinds -> Nat]
      BY <1>1, <2>1
    <2>3. PICK n \in Nat : n = facts.now + 1 /\ facts' = [facts EXCEPT !.now = n, !.gone = gone]
      BY <2>1, <1>2 DEF PassTime
    <2>4. \A k \in ProviderKinds : gone[k] = IF Installed(facts, k) THEN facts.gone[k] ELSE n
      BY <2>3
    <2> HIDE DEF gone
    <2>5. facts' \in CatalogFacts
      BY <2>2, <2>3 DEF CatalogFacts
    <2>6. facts'.now = n /\ facts'.gone = gone /\ facts'.places = facts.places /\ facts'.catalog = facts.catalog
      BY <2>3 DEF CatalogFacts
    <2>7. ASSUME NEW k \in ProviderKinds PROVE CatalogSees(facts', k)
      <3>1. Installed(facts', k) <=> Installed(facts, k)
        BY <2>6 DEF Installed
      <3>2. CatalogSees(facts, k)
        BY DEF CatalogsSee
      <3>3. facts.gone[k] <= n
        BY <1>0, <1>1, <2>3, <3>2 DEF CatalogSees
      <3>4. CASE Installed(facts, k)
        BY <2>4, <2>6, <3>1, <3>2, <3>3, <3>4 DEF CatalogSees
      <3>5. CASE ~ Installed(facts, k)
        <4>1. gone[k] = n
          BY <2>4, <3>5
        <4>2. facts.catalog[k].at <= facts.gone[k] => facts.catalog[k].at <= n
          BY <1>1, <3>3
        <4>3. QED
          BY <2>6, <3>1, <3>2, <4>1, <4>2 DEF CatalogSees
      <3>6. QED
        BY <3>4, <3>5
    <2>8. QED
      BY <2>5, <2>7 DEF CatalogsSee
  <1>3. ASSUME NEW places \in SUBSET (ProviderKinds \X Roots), facts' = Moved(facts, places)
        PROVE  facts' \in CatalogFacts /\ CatalogsSee(facts')
    <2> DEFINE gone == [k \in ProviderKinds |-> IF \A r \in Roots : <<k, r>> \notin places THEN facts.now ELSE facts.gone[k]]
    <2>1. facts.changes + 1 \in Nat
      BY <1>0
    <2>2. gone \in [ProviderKinds -> Nat]
      BY <1>0, <1>1
    <2>3. PICK n \in Nat : facts' = [facts EXCEPT !.places = places, !.changes = n, !.gone = gone]
      <3>1. facts' = [facts EXCEPT !.places = places, !.changes = facts.changes + 1, !.gone = gone]
        BY <1>0, <1>3 DEF Moved
      <3> HIDE DEF gone
      <3>2. QED
        BY <2>1, <3>1
    <2>4. \A k \in ProviderKinds : gone[k] = IF \A r \in Roots : <<k, r>> \notin places THEN facts.now ELSE facts.gone[k]
      OBVIOUS
    <2> HIDE DEF gone
    <2>5. facts' \in CatalogFacts
      BY <2>2, <2>3 DEF CatalogFacts
    <2>6. facts'.now = facts.now /\ facts'.gone = gone /\ facts'.places = places /\ facts'.catalog = facts.catalog
      BY <2>3 DEF CatalogFacts
    <2>7. ASSUME NEW k \in ProviderKinds PROVE CatalogSees(facts', k)
      <3>1. Installed(facts', k) <=> ~ \A r \in Roots : <<k, r>> \notin places
        BY <2>6 DEF Installed
      <3>2. CatalogSees(facts, k)
        BY DEF CatalogsSee
      <3>3. facts.gone[k] <= facts.now
        BY <3>2 DEF CatalogSees
      <3>4. CASE Installed(facts', k)
        <4>1. gone[k] = facts.gone[k]
          BY <2>4, <3>1, <3>4
        <4>2. QED
          BY <2>6, <3>2, <3>3, <3>4, <4>1 DEF CatalogSees
      <3>5. CASE ~ Installed(facts', k)
        <4>1. gone[k] = facts.now
          BY <2>4, <3>1, <3>5
        <4>2. facts.catalog[k].at <= facts.gone[k] => facts.catalog[k].at <= facts.now
          BY <1>0, <1>1, <3>3
        <4>3. facts.now <= facts.now
          BY <1>0
        <4>4. QED
          BY <2>6, <3>2, <4>1, <4>2, <4>3 DEF CatalogSees
      <3>6. QED
        BY <3>4, <3>5
    <2>8. QED
      BY <2>5, <2>7 DEF CatalogsSee
  <1>4. ASSUME NEW k \in ProviderKinds, NEW c \in SUBSET Roots, NEW w \in BOOLEAN, facts' = CaptureCatalog(facts, k, c, w)
        PROVE  facts' \in CatalogFacts /\ CatalogsSee(facts')
    <2> DEFINE found == \E r \in c : <<k, r>> \in facts.places
               new == [checked |-> TRUE, covered |-> c, at |-> facts.now, whole |-> w, found |-> found]
               catalog == [facts.catalog EXCEPT ![k] = new]
    <2>1. new \in Catalogs
      BY <1>0 DEF Catalogs
    <2>2. new.covered = c /\ new.at = facts.now /\ (new.found <=> found)
      OBVIOUS
    <2>3. facts' = [facts EXCEPT !.catalog = catalog]
      BY <1>4 DEF CaptureCatalog
    <2> HIDE DEF new
    <2>4. catalog \in [ProviderKinds -> Catalogs]
      BY <1>0, <2>1
    <2>5. \A x \in ProviderKinds : catalog[x] = IF x = k THEN new ELSE facts.catalog[x]
      BY <1>0
    <2> HIDE DEF catalog
    <2>6. facts' \in CatalogFacts
      BY <2>3, <2>4 DEF CatalogFacts
    <2>7. facts'.now = facts.now /\ facts'.gone = facts.gone /\ facts'.places = facts.places /\ facts'.catalog = catalog
      BY <2>3 DEF CatalogFacts
    <2>8. ASSUME NEW x \in ProviderKinds PROVE CatalogSees(facts', x)
      <3>1. Installed(facts', x) <=> Installed(facts, x)
        BY <2>7 DEF Installed
      <3>2. CatalogSees(facts, x)
        BY DEF CatalogsSee
      <3>3. CASE x # k
        BY <2>5, <2>7, <3>1, <3>2, <3>3 DEF CatalogSees
      <3>4. CASE x = k
        <4>1. catalog[x] = new
          BY <2>5, <3>4
        <4>2. new.covered = Roots /\ ~ new.found => ~ Installed(facts, x)
          BY <2>2, <3>4 DEF Installed
        <4>3. new.covered = Roots /\ ~ new.found => new.at <= facts.gone[x]
          <5>1. facts.now <= facts.now
            BY <1>0
          <5>2. QED
            BY <2>2, <3>2, <4>2, <5>1 DEF CatalogSees
        <4>4. QED
          BY <2>7, <3>1, <3>2, <4>1, <4>3 DEF CatalogSees
      <3>5. QED
        BY <3>3, <3>4
    <2>9. QED
      BY <2>6, <2>8 DEF CatalogsSee
  <1>5. \A k \in ProviderKinds, r \in Roots :
          /\ facts.places \cup {<<k, r>>} \in SUBSET (ProviderKinds \X Roots)
          /\ facts.places \ {<<k, r>>} \in SUBSET (ProviderKinds \X Roots)
    BY <1>0
  <1>6. QED
    BY <1>2, <1>3, <1>4, <1>5

\* The game is started, and its log and its script are looked at.
LEMMA BootSteps ==
  ASSUME facts \in BootFacts, BootsKnown(facts),
         \/ \E b \in Boots : facts' = [facts EXCEPT !.boots = Append(@, b)]
         \/ \E i \in DOMAIN facts.boots : \E c \in {facts.boots[i].pak, "incomplete"} :
              facts' = [facts EXCEPT !.receipt = ReceiptOf(facts, i, c)]
         \/ \E i \in DOMAIN facts.boots : \E s \in {facts.boots[i].lua, "incomplete"} :
              facts' = [facts EXCEPT !.look = [boot |-> i, lua |-> s]]
  PROVE  facts' \in BootFacts /\ BootsKnown(facts')
  <1>0. /\ facts.boots \in Seq(Boots) /\ Len(facts.boots) \in Nat /\ DOMAIN facts.boots = 1..Len(facts.boots)
        /\ \A i \in DOMAIN facts.boots : i \in Nat /\ facts.boots[i] \in Boots
    <2>1. facts.boots \in Seq(Boots)
      BY DEF BootFacts
    <2>2. QED
      BY <2>1
  <1>1. ASSUME NEW b \in Boots, facts' = [facts EXCEPT !.boots = Append(@, b)]
        PROVE  facts' \in BootFacts /\ BootsKnown(facts')
    <2> DEFINE boots == Append(facts.boots, b)
    <2>1. /\ boots \in Seq(Boots) /\ Len(boots) = Len(facts.boots) + 1
          /\ \A i \in DOMAIN facts.boots : i \in DOMAIN boots /\ boots[i] = facts.boots[i]
      BY <1>0
    <2>2. facts' = [facts EXCEPT !.boots = boots]
      BY <1>1
    <2> HIDE DEF boots
    <2>3. facts' \in BootFacts
      BY <2>1, <2>2 DEF BootFacts
    <2>4. facts'.boots = boots /\ facts'.receipt = facts.receipt /\ facts'.look = facts.look
      BY <2>2 DEF BootFacts
    <2>5. LookFits(boots, facts.look)
      BY <2>1 DEF BootsKnown, LookFits
    <2>6. ReceiptFits(boots, facts.receipt)
      <3> DEFINE r == facts.receipt
      <3>1. r.boot \in Nat /\ r.made \in Nat
        BY DEF BootFacts, BootReceipts
      <3>2. ReceiptFits(facts.boots, r)
        BY DEF BootsKnown
      <3> HIDE DEF r
      <3>3. SUFFICES ASSUME r.complete, r.latest
                     PROVE  /\ r.boot \in DOMAIN boots /\ r.made <= Len(boots)
                            /\ boots[r.boot].whole /\ \A j \in r.boot + 1..r.made : ~boots[j].whole
                            /\ r.conclusion \in {boots[r.boot].pak, "incomplete"}
        BY DEF ReceiptFits, r
      <3>4. /\ r.boot \in DOMAIN facts.boots /\ r.made <= Len(facts.boots)
            /\ facts.boots[r.boot].whole /\ \A j \in r.boot + 1..r.made : ~facts.boots[j].whole
            /\ r.conclusion \in {facts.boots[r.boot].pak, "incomplete"}
        BY <3>2, <3>3 DEF ReceiptFits
      <3>5. r.made <= Len(boots)
        BY <1>0, <2>1, <3>1, <3>4
      <3>6. ASSUME NEW j \in r.boot + 1..r.made PROVE ~boots[j].whole
        <4>1. j \in DOMAIN facts.boots
          BY <1>0, <3>1, <3>4
        <4>2. QED
          BY <2>1, <3>4, <4>1
      <3>7. QED
        BY <2>1, <3>4, <3>5, <3>6
    <2>7. QED
      BY <2>3, <2>4, <2>5, <2>6 DEF BootsKnown
  <1>2. ASSUME NEW i \in DOMAIN facts.boots, NEW c \in {facts.boots[i].pak, "incomplete"},
               facts' = [facts EXCEPT !.receipt = ReceiptOf(facts, i, c)]
        PROVE  facts' \in BootFacts /\ BootsKnown(facts')
    <2> DEFINE r == ReceiptOf(facts, i, c)
    <2>1. /\ r.boot = i /\ r.complete = facts.boots[i].whole /\ r.latest = ~WholeSince(facts, i, Len(facts.boots))
          /\ r.conclusion = c /\ r.made = Len(facts.boots)
      BY DEF ReceiptOf
    <2>2. r \in BootReceipts
      <3>1. facts.boots[i].whole \in BOOLEAN /\ c \in PakConclusions
        BY <1>0 DEF Boots, PakConclusions
      <3>2. (~WholeSince(facts, i, Len(facts.boots))) \in BOOLEAN
        BY DEF WholeSince
      <3>3. QED
        BY <1>0, <3>1, <3>2 DEF ReceiptOf, BootReceipts
    <2>3. facts' = [facts EXCEPT !.receipt = r]
      BY <1>2
    <2> HIDE DEF r
    <2>4. facts' \in BootFacts
      BY <2>2, <2>3 DEF BootFacts
    <2>5. facts'.boots = facts.boots /\ facts'.receipt = r /\ facts'.look = facts.look
      BY <2>3 DEF BootFacts
    <2>6. ReceiptFits(facts.boots, r)
      <3>1. SUFFICES ASSUME r.complete, r.latest
                     PROVE  /\ i \in DOMAIN facts.boots /\ Len(facts.boots) <= Len(facts.boots)
                            /\ facts.boots[i].whole /\ \A j \in i + 1..Len(facts.boots) : ~facts.boots[j].whole
                            /\ c \in {facts.boots[i].pak, "incomplete"}
        BY <2>1 DEF ReceiptFits
      <3>2. \A j \in i + 1..Len(facts.boots) : ~facts.boots[j].whole
        BY <2>1, <3>1 DEF WholeSince
      <3>3. QED
        BY <1>0, <2>1, <3>1, <3>2
    <2>7. QED
      BY <2>4, <2>5, <2>6 DEF BootsKnown
  <1>3. ASSUME NEW i \in DOMAIN facts.boots, NEW s \in {facts.boots[i].lua, "incomplete"},
               facts' = [facts EXCEPT !.look = [boot |-> i, lua |-> s]]
        PROVE  facts' \in BootFacts /\ BootsKnown(facts')
    <2> DEFINE look == [boot |-> i, lua |-> s]
    <2>1. look \in Looks
      <3>1. s \in LuaStates
        BY <1>0 DEF Boots, LuaStates
      <3>2. QED
        BY <1>0, <3>1 DEF Looks
    <2>2. LookFits(facts.boots, look)
      BY DEF LookFits
    <2>3. facts' = [facts EXCEPT !.look = look]
      BY <1>3
    <2> HIDE DEF look
    <2>4. facts' \in BootFacts
      BY <2>1, <2>3 DEF BootFacts
    <2>5. facts'.boots = facts.boots /\ facts'.receipt = facts.receipt /\ facts'.look = look
      BY <2>3 DEF BootFacts
    <2>6. QED
      BY <2>2, <2>4, <2>5 DEF BootsKnown
  <1>4. QED
    BY <1>1, <1>2, <1>3

\* What happens to definitions, catalogs and boots keeps what is known of them.
LEMMA SourceSteps ==
  ASSUME ClaimsInv, SourcesNext
  PROVE  ClaimsInv'
  <1>1. CASE About("references")
    <2>1. facts \in ReferenceFacts
      BY <1>1, ClaimTopics
    <2>2. facts' = [facts EXCEPT !.covered = FALSE]
      BY <1>1 DEF SourcesNext, About
    <2>3. facts' \in ReferenceFacts
      BY <2>1, <2>2 DEF ReferenceFacts
    <2>4. QED
      BY <2>3 DEF ClaimsInv
  <1>2. CASE About("catalogs")
    <2>1. facts \in CatalogFacts /\ CatalogsSee(facts)
      BY <1>2, ClaimTopics
    <2>2. ~ About("references") /\ ~ About("boots")
      BY <1>2 DEF About
    <2>3. \/ facts' = PassTime(facts)
          \/ \E k \in ProviderKinds, r \in Roots :
               facts' = Moved(facts, facts.places \cup {<<k, r>>}) \/ facts' = Moved(facts, facts.places \ {<<k, r>>})
          \/ \E k \in ProviderKinds, c \in SUBSET Roots, w \in BOOLEAN : facts' = CaptureCatalog(facts, k, c, w)
      BY <2>2, ZenonT(30) DEF SourcesNext
    <2>4. facts' \in CatalogFacts /\ CatalogsSee(facts')
      BY <2>1, <2>3, CatalogSteps
    <2>5. QED
      BY <2>4 DEF ClaimsInv
  <1>3. CASE About("boots")
    <2>1. facts \in BootFacts /\ BootsKnown(facts)
      BY <1>3, ClaimTopics
    <2>2. ~ About("references") /\ ~ About("catalogs")
      BY <1>3 DEF About
    <2>3. \/ \E b \in Boots : facts' = [facts EXCEPT !.boots = Append(@, b)]
          \/ \E i \in DOMAIN facts.boots : \E c \in {facts.boots[i].pak, "incomplete"} :
               facts' = [facts EXCEPT !.receipt = ReceiptOf(facts, i, c)]
          \/ \E i \in DOMAIN facts.boots : \E s \in {facts.boots[i].lua, "incomplete"} :
               facts' = [facts EXCEPT !.look = [boot |-> i, lua |-> s]]
      BY <2>2, ZenonT(30) DEF SourcesNext
    <2>4. facts' \in BootFacts /\ BootsKnown(facts')
      BY <2>1, <2>3, BootSteps
    <2>5. QED
      BY <2>4 DEF ClaimsInv
  <1>4. QED
    BY <1>1, <1>2, <1>3, ZenonT(30) DEF SourcesNext

\* What happens to texts and voices keeps the shape.
LEMMA TextSteps ==
  ASSUME ClaimsInv, LocalizationNext
  PROVE  ClaimsInv'
  <1>1. facts \in TextFacts
    BY ClaimTopics DEF LocalizationNext
  <1>2. SUFFICES facts' \in TextFacts
    BY DEF ClaimsInv
  <1>3. facts.world \in TextWorlds /\ facts.moves \in Nat /\ facts.moves + 1 \in Nat
    BY <1>1 DEF TextFacts
  <1>4. ASSUME NEW w \in TextWorlds, facts' = [facts EXCEPT !.moves = @ + 1, !.world = w]
        PROVE  facts' \in TextFacts
    <2>1. PICK n \in Nat : facts' = [facts EXCEPT !.moves = n, !.world = w]
      BY <1>3, <1>4
    <2>2. QED
      BY <1>1, <2>1 DEF TextFacts
  <1>5. CASE WorldMoves
    <2>1. PICK p \in TextProviders, i \in {0, 1}, t \in 0..2 :
            \/ facts' = [facts EXCEPT !.moves = @ + 1, !.world.priority[p] = i]
            \/ facts' = [facts EXCEPT !.moves = @ + 1, !.world.loaded = IF p \in @ THEN @ \ {p} ELSE @ \cup {p}]
            \/ facts' = [facts EXCEPT !.moves = @ + 1, !.world.text[p] = t]
      BY <1>5, ZenonT(30) DEF WorldMoves
    <2>2. CASE facts' = [facts EXCEPT !.moves = @ + 1, !.world.priority[p] = i]
      <3> DEFINE w == [facts.world EXCEPT !.priority[p] = i]
      <3>1. w \in TextWorlds
        BY <1>3 DEF TextWorlds
      <3>2. facts' = [facts EXCEPT !.moves = @ + 1, !.world = w]
        BY <2>2
      <3> HIDE DEF w
      <3>3. QED
        BY <1>4, <3>1, <3>2
    <2>3. CASE facts' = [facts EXCEPT !.moves = @ + 1, !.world.loaded = IF p \in @ THEN @ \ {p} ELSE @ \cup {p}]
      <3> DEFINE loaded == IF p \in facts.world.loaded THEN facts.world.loaded \ {p} ELSE facts.world.loaded \cup {p}
                 w == [facts.world EXCEPT !.loaded = loaded]
      <3>1. loaded \in SUBSET TextProviders
        BY <1>3 DEF TextWorlds
      <3>2. facts' = [facts EXCEPT !.moves = @ + 1, !.world = w]
        BY <2>3
      <3> HIDE DEF loaded
      <3>3. w \in TextWorlds
        BY <1>3, <3>1 DEF TextWorlds
      <3> HIDE DEF w
      <3>4. QED
        BY <1>4, <3>2, <3>3
    <2>4. CASE facts' = [facts EXCEPT !.moves = @ + 1, !.world.text[p] = t]
      <3> DEFINE w == [facts.world EXCEPT !.text[p] = t]
      <3>1. w \in TextWorlds
        BY <1>3 DEF TextWorlds
      <3>2. facts' = [facts EXCEPT !.moves = @ + 1, !.world = w]
        BY <2>4
      <3> HIDE DEF w
      <3>3. QED
        BY <1>4, <3>1, <3>2
    <2>5. QED
      BY <2>1, <2>2, <2>3, <2>4
  <1>6. CASE TakeAudit
    <2>1. PICK a \in Audits : facts' = [facts EXCEPT !.audit = a]
      <3>1. PICK c \in {"COMPLETE", "PARTIAL"} :
              facts' = [facts EXCEPT !.audit = [at |-> 1, coverage |-> c, world |-> facts.world]]
        BY <1>6 DEF TakeAudit
      <3>2. [at |-> 1, coverage |-> c, world |-> facts.world] \in Audits
        BY <1>3 DEF Audits
      <3>3. QED
        BY <3>1, <3>2
    <2>2. QED
      BY <1>1, <2>1 DEF TextFacts
  <1>7. CASE PlayDialog
    <2>1. PICK t \in Top(facts.world, WithText(facts.world)), v \in Top(facts.world, WithVoice(facts.world)) :
            facts' = [facts EXCEPT !.seen = [at |-> 1, text |-> t, voice |-> v]]
      BY <1>7, ZenonT(30) DEF PlayDialog
    <2>2. t \in TextProviders /\ v \in TextProviders
      BY <1>3 DEF Top, WithText, WithVoice, TextWorlds
    <2>3. PICK s \in [at : {1}, text : TextProviders, voice : TextProviders] : facts' = [facts EXCEPT !.seen = s]
      BY <2>1, <2>2
    <2>4. QED
      BY <1>1, <2>3 DEF TextFacts
  <1>8. CASE GetsWorse("texts", Faults, 1)
    <2>1. PICK d \in Faults : facts' = [facts EXCEPT !.flaws = @ \cup {d}]
      BY <1>8 DEF GetsWorse
    <2>2. QED
      BY <1>1, <2>1 DEF TextFacts
  <1>9. QED
    BY <1>5, <1>6, <1>7, <1>8 DEF LocalizationNext

\* Every step of the sources keeps what is known of them.
LEMMA ClaimSteps == ClaimsInv /\ [ClaimsNext]_facts => ClaimsInv'
  <1> SUFFICES ASSUME ClaimsInv, [ClaimsNext]_facts PROVE ClaimsInv'
    OBVIOUS
  <1>1. CASE UNCHANGED facts
    BY <1>1 DEF ClaimsInv
  <1>2. QED
    BY <1>1, GraphSteps, SourceSteps, TextSteps DEF ClaimsNext

\* A set of naturals that is not empty has a least element.
LEMMA LeastNatural ==
  ASSUME NEW T \in SUBSET Nat, T # {}
  PROVE  \E x \in T : \A y \in T : x <= y
  <1> DEFINE R == {ss \in Nat \X Nat : ss[1] < ss[2]}
  <1>1. IsWellFoundedOn(R, Nat)
    BY NatLessThanWellFounded DEF OpToRel
  <1>2. \A x, y \in Nat : y < x => <<y, x>> \in R
    OBVIOUS
  <1> HIDE DEF R
  <1>3. PICK x \in T : \A y \in T : ~ (<<y, x>> \in R)
    BY <1>1, WFMin
  <1>4. \A y \in T : ~ (y < x)
    BY <1>2, <1>3
  <1>5. \A y \in T : x <= y
    BY <1>4
  <1>6. QED
    BY <1>5

-----------------------------------------------------------------------------
(***************************************************************************)
(* A captured session of play.                                             *)
(***************************************************************************)
MarkedValues == StateValues \cup {0}

MarkerKinds == {"state_mutated", "save_started", "save_completed", "load_started", "load_completed",
                "persistence_checked", "session_cleanup"}

QuestMarkers == [kind : MarkerKinds, id : Nat, value : MarkedValues]

QuestGames == [value : MarkedValues, saves : Seq(MarkedValues), busy : Nat, honest : BOOLEAN, restored : BOOLEAN, over : BOOLEAN]

\* The game began to load at l, and the state was not set again since.
LoadedAt(ms, l) ==
  /\ l \in DOMAIN ms /\ ms[l].kind = "load_started"
  /\ \A m \in DOMAIN ms : ms[m].kind = "state_mutated" => m < l

\* From then on a game that honours no save has the value that a new game has, and
\* every check shows it.
Forgetful(g, ms) ==
  \A l \in DOMAIN ms : LoadedAt(ms, l) =>
    /\ g.value = 0
    /\ \A c \in DOMAIN ms : l < c /\ ms[c].kind = "persistence_checked" => ms[c].value = 0

QuestInv ==
  /\ game \in QuestGames /\ markers \in Seq(QuestMarkers) /\ drops \in Nat
  /\ ~ game.honest /\ drops = 0 => Forgetful(game, markers)

\* The game does something and leaves a marker of it, or the marker is lost.
LEMMA MarkerLeft ==
  ASSUME QuestInv, NEW x \in QuestMarkers, Leaves(x), game' \in QuestGames, game'.honest = game.honest,
         x.kind # "state_mutated" /\ ~ game.honest => game'.value = game.value \/ game'.value = 0,
         x.kind = "load_started" /\ ~ game.honest => game'.value = 0,
         x.kind = "persistence_checked" => x.value = game.value
  PROVE  QuestInv'
  <1>0. markers \in Seq(QuestMarkers) /\ drops \in Nat /\ Len(markers) \in Nat /\ DOMAIN markers = 1..Len(markers)
    BY DEF QuestInv
  <1>1. CASE drops' = drops + 1 /\ UNCHANGED markers
    BY <1>0, <1>1 DEF QuestInv
  <1>2. CASE markers' = Append(markers, x) /\ UNCHANGED drops
    <2> DEFINE ms == Append(markers, x)
               n == Len(markers) + 1
    <2>1. /\ ms \in Seq(QuestMarkers) /\ n \in Nat /\ DOMAIN ms = 1..n /\ ms[n] = x
          /\ \A i \in DOMAIN markers : ms[i] = markers[i] /\ i \in Nat /\ i < n /\ i \in DOMAIN ms
          /\ \A i \in DOMAIN ms : i \in Nat /\ i <= n /\ (i # n => i \in DOMAIN markers)
      BY <1>0
    <2> HIDE DEF ms, n
    <2>2. ASSUME ~ game'.honest, drops' = 0 PROVE Forgetful(game', ms)
      <3>1. Forgetful(game, markers) /\ ~ game.honest
        BY <1>2, <2>2 DEF QuestInv
      <3> SUFFICES ASSUME NEW l \in DOMAIN ms, LoadedAt(ms, l)
                   PROVE  /\ game'.value = 0
                          /\ \A c \in DOMAIN ms : l < c /\ ms[c].kind = "persistence_checked" => ms[c].value = 0
        BY DEF Forgetful
      <3>2. x.kind # "state_mutated"
        <4> SUFFICES ASSUME x.kind = "state_mutated" PROVE FALSE
          OBVIOUS
        <4>1. n \in DOMAIN ms /\ n < l
          BY <1>0, <2>1 DEF LoadedAt, n
        <4>2. l <= n /\ l \in Nat
          BY <2>1
        <4>3. QED
          BY <2>1, <4>1, <4>2
      <3>3. CASE l = n
        <4>1. x.kind = "load_started"
          BY <2>1, <3>3 DEF LoadedAt
        <4>2. game'.value = 0
          BY <3>1, <4>1
        <4>3. \A c \in DOMAIN ms : ~ (l < c)
          BY <2>1, <3>3
        <4>4. QED
          BY <4>2, <4>3
      <3>4. CASE l # n
        <4>1. l \in DOMAIN markers /\ LoadedAt(markers, l)
          BY <2>1, <3>4 DEF LoadedAt
        <4>2. game.value = 0 /\ \A c \in DOMAIN markers : l < c /\ markers[c].kind = "persistence_checked" => markers[c].value = 0
          BY <3>1, <4>1 DEF Forgetful
        <4>3. game'.value = 0
          BY <3>1, <3>2, <4>2
        <4>4. ASSUME NEW c \in DOMAIN ms, l < c, ms[c].kind = "persistence_checked" PROVE ms[c].value = 0
          <5>1. CASE c = n
            BY <2>1, <4>2, <4>4, <5>1
          <5>2. CASE c # n
            BY <2>1, <4>2, <4>4, <5>2
          <5>3. QED
            BY <5>1, <5>2
        <4>5. QED
          BY <4>3, <4>4
      <3>5. QED
        BY <3>3, <3>4
    <2>3. markers' = ms
      BY <1>2 DEF ms
    <2>4. drops' \in Nat
      BY <1>0, <1>2
    <2>5. QED
      BY <2>1, <2>2, <2>3, <2>4 DEF QuestInv
  <1>3. QED
    BY <1>1, <1>2 DEF Leaves

\* A new game has left no marker.
LEMMA QuestStarts == QuestInit => QuestInv
  <1> SUFFICES ASSUME QuestInit PROVE QuestInv
    OBVIOUS
  <1>1. game \in QuestGames
    BY DEF QuestInit, QuestGames, MarkedValues
  <1>2. markers \in Seq(QuestMarkers) /\ drops \in Nat /\ DOMAIN markers = {}
    BY DEF QuestInit
  <1>3. QED
    BY <1>1, <1>2 DEF QuestInv, Forgetful

\* Every step of the game keeps what its markers tell.
LEMMA QuestSteps == QuestInv /\ [QuestNext]_questVars => QuestInv'
  <1> SUFFICES ASSUME QuestInv, [QuestNext]_questVars PROVE QuestInv'
    OBVIOUS
  <1>0. /\ game \in QuestGames /\ game.value \in MarkedValues /\ game.saves \in Seq(MarkedValues) /\ game.busy \in Nat
        /\ 0 \in MarkedValues /\ Len(game.saves) + 1 \in Nat
    <2>1. game \in QuestGames
      BY DEF QuestInv
    <2>2. game.saves \in Seq(MarkedValues)
      BY <2>1 DEF QuestGames
    <2>3. Len(game.saves) \in Nat
      BY <2>2, LenProperties
    <2>4. QED
      BY <2>1, <2>2, <2>3 DEF QuestGames, MarkedValues
  <1>1. \A k \in MarkerKinds, i \in Nat, v \in MarkedValues :
          /\ Marker(k, i, v) \in QuestMarkers
          /\ Marker(k, i, v).kind = k /\ Marker(k, i, v).value = v
    BY DEF Marker, QuestMarkers
  <1>2. CASE Mutate
    <2>1. PICK v \in StateValues : /\ game' = [game EXCEPT !.value = v, !.restored = FALSE]
                                   /\ Leaves(Marker("state_mutated", 0, v))
      BY <1>2 DEF Mutate
    <2> DEFINE x == Marker("state_mutated", 0, v)
    <2>2. x \in QuestMarkers /\ x.kind = "state_mutated"
      BY <1>1 DEF MarkedValues, MarkerKinds
    <2>3. game' \in QuestGames /\ game'.honest = game.honest
      BY <1>0, <2>1 DEF QuestGames, MarkedValues
    <2> HIDE DEF x
    <2>4. Leaves(x)
      BY <2>1 DEF x
    <2>5. QED
      BY <2>2, <2>3, <2>4, MarkerLeft
  <1>3. CASE SaveStart
    <2> DEFINE x == Marker("save_started", Len(game.saves) + 1, 0)
               saves == Append(game.saves, game.value)
    <2>1. x \in QuestMarkers /\ x.kind = "save_started"
      BY <1>0, <1>1 DEF MarkerKinds
    <2>2. saves \in Seq(MarkedValues)
      BY <1>0
    <2>3. PICK n \in Nat : game' = [game EXCEPT !.saves = saves, !.busy = n]
      BY <1>0, <1>3 DEF SaveStart
    <2>4. Leaves(x)
      BY <1>3 DEF SaveStart
    <2> HIDE DEF x, saves
    <2>5. game' \in QuestGames /\ game'.honest = game.honest /\ game'.value = game.value
      BY <1>0, <2>2, <2>3 DEF QuestGames
    <2>6. QED
      BY <2>1, <2>4, <2>5, MarkerLeft
  <1>4. CASE SaveEnd
    <2> DEFINE x == Marker("save_completed", game.busy, 0)
    <2>1. x \in QuestMarkers /\ x.kind = "save_completed"
      BY <1>0, <1>1 DEF MarkerKinds
    <2>2. Leaves(x)
      BY <1>4 DEF SaveEnd
    <2>3. game' \in QuestGames /\ game'.honest = game.honest /\ game'.value = game.value
      BY <1>0, <1>4 DEF SaveEnd, QuestGames
    <2> HIDE DEF x
    <2>4. QED
      BY <2>1, <2>2, <2>3, MarkerLeft
  <1>5. CASE LoadStart
    <2>1. PICK id \in DOMAIN game.saves :
            /\ game' = [game EXCEPT !.value = IF game.honest THEN game.saves[id] ELSE 0, !.restored = TRUE]
            /\ Leaves(Marker("load_started", id, 0))
      BY <1>5 DEF LoadStart
    <2> DEFINE x == Marker("load_started", id, 0)
    <2>2. id \in Nat /\ game.saves[id] \in MarkedValues
      BY <1>0
    <2>3. x \in QuestMarkers /\ x.kind = "load_started"
      BY <1>0, <1>1, <2>2 DEF MarkerKinds
    <2>4. Leaves(x)
      BY <2>1
    <2>5. PICK v \in MarkedValues : game' = [game EXCEPT !.value = v, !.restored = TRUE] /\ (~ game.honest => v = 0)
      BY <1>0, <2>1, <2>2
    <2>6. game' \in QuestGames /\ game'.honest = game.honest /\ (~ game.honest => game'.value = 0)
      BY <1>0, <2>5 DEF QuestGames
    <2> HIDE DEF x
    <2>7. QED
      BY <2>3, <2>4, <2>6, MarkerLeft
  <1>6. CASE LoadEnd
    <2>1. PICK id \in DOMAIN game.saves : Leaves(Marker("load_completed", id, 0))
      BY <1>6 DEF LoadEnd
    <2> DEFINE x == Marker("load_completed", id, 0)
    <2>2. id \in Nat
      BY <1>0
    <2>3. x \in QuestMarkers /\ x.kind = "load_completed"
      BY <1>0, <1>1, <2>2 DEF MarkerKinds
    <2>4. Leaves(x)
      BY <2>1
    <2>5. game' = game
      BY <1>6 DEF LoadEnd
    <2> HIDE DEF x
    <2>6. QED
      BY <1>0, <2>3, <2>4, <2>5, MarkerLeft
  <1>7. CASE Check
    <2> DEFINE x == Marker("persistence_checked", 0, game.value)
    <2>1. x \in QuestMarkers /\ x.kind = "persistence_checked" /\ x.value = game.value
      BY <1>0, <1>1 DEF MarkerKinds
    <2>2. Leaves(x) /\ game' = game
      BY <1>7 DEF Check
    <2> HIDE DEF x
    <2>3. QED
      BY <1>0, <2>1, <2>2, MarkerLeft
  <1>8. CASE Cleanup
    <2> DEFINE x == Marker("session_cleanup", 0, 0)
    <2>1. x \in QuestMarkers /\ x.kind = "session_cleanup"
      BY <1>0, <1>1 DEF MarkerKinds
    <2>2. Leaves(x)
      BY <1>8 DEF Cleanup
    <2>3. game' \in QuestGames /\ game'.honest = game.honest /\ game'.value = game.value
      BY <1>0, <1>8 DEF Cleanup, QuestGames
    <2> HIDE DEF x
    <2>4. QED
      BY <2>1, <2>2, <2>3, MarkerLeft
  <1>9. CASE UNCHANGED questVars
    <2>1. game' = game /\ markers' = markers /\ drops' = drops
      BY <1>9 DEF questVars
    <2>2. QED
      BY <2>1 DEF QuestInv
  <1>10. QED
    BY <1>2, <1>3, <1>4, <1>5, <1>6, <1>7, <1>8, <1>9 DEF QuestNext

\* The earliest marker of a kind that was captured is one of that kind.
LEMMA EarliestIsOne ==
  ASSUME markers \in Seq(QuestMarkers), NEW kind, Observed(kind) # {}
  PROVE  Earliest(kind) \in Observed(kind) /\ \A j \in Observed(kind) : Earliest(kind) <= j
  <1>1. Observed(kind) \in SUBSET Nat
    BY DEF Observed
  <1>2. \E i \in Observed(kind) : \A j \in Observed(kind) : i <= j
    BY <1>1, LeastNatural
  <1>3. QED
    BY <1>2 DEF Earliest

\* A game that honours no save shows the new value when it is checked.
LEMMA PersistenceHolds == QuestInv => PersistenceClaimTrue
  <1> SUFFICES ASSUME QuestInv, PersistenceClaimed, \A i \in Observed("state_mutated") : i < Earliest("load_started"),
                      ~ game.honest
               PROVE  markers[Earliest("state_mutated")].value = 0
    BY DEF PersistenceClaimTrue
  <1>1. markers \in Seq(QuestMarkers) /\ drops = 0 /\ Forgetful(game, markers)
    BY DEF QuestInv, PersistenceClaimed, CaptureComplete
  <1> DEFINE l == Earliest("load_started")
             c == Earliest("persistence_checked")
             e == Earliest("load_completed")
  <1>2. /\ DOMAIN Stages = 1..6 /\ Stages[4] = "load_started" /\ Stages[5] = "load_completed"
        /\ Stages[6] = "persistence_checked"
    BY DEF Stages
  <1>3. Observed("load_started") # {} /\ Observed("load_completed") # {} /\ Observed("persistence_checked") # {}
    <2>1. \A i \in 1..6 : Observed(Stages[i]) # {}
      BY <1>2 DEF PersistenceClaimed, PersistenceVerified
    <2>2. 4 \in 1..6 /\ 5 \in 1..6 /\ 6 \in 1..6
      OBVIOUS
    <2>3. QED
      BY <1>2, <2>1, <2>2
  <1>4. l \in Observed("load_started") /\ c \in Observed("persistence_checked") /\ e \in Observed("load_completed")
    BY <1>1, <1>3, EarliestIsOne
  <1>5. l < e /\ e < c
    <2>1. \A i \in 1..5 : Earliest(Stages[i]) < Earliest(Stages[i + 1])
      BY DEF PersistenceClaimed, PersistenceVerified, InSequence
    <2>2. 4 \in 1..5 /\ 5 \in 1..5 /\ 4 + 1 = 5 /\ 5 + 1 = 6
      OBVIOUS
    <2>3. Earliest(Stages[4]) < Earliest(Stages[5]) /\ Earliest(Stages[5]) < Earliest(Stages[6])
      <3>1. Earliest(Stages[4]) < Earliest(Stages[4 + 1]) /\ Earliest(Stages[5]) < Earliest(Stages[5 + 1])
        BY <2>1, <2>2
      <3>2. QED
        BY <2>2, <3>1
    <2>4. QED
      BY <1>2, <2>3
  <1>6. l \in DOMAIN markers /\ c \in DOMAIN markers /\ e \in DOMAIN markers
        /\ markers[l].kind = "load_started" /\ markers[c].kind = "persistence_checked"
    BY <1>4 DEF Observed
  <1>7. l \in Nat /\ c \in Nat /\ e \in Nat
    BY <1>1, <1>6
  <1>8. LoadedAt(markers, l)
    BY <1>6 DEF LoadedAt, Observed
  <1>9. l < c
    BY <1>5, <1>7
  <1>10. markers[c].value = 0
    <2> HIDE DEF l, c, e
    <2>1. QED
      BY <1>1, <1>6, <1>8, <1>9 DEF Forgetful
  <1>11. markers[c].value = markers[Earliest("state_mutated")].value
    BY DEF PersistenceClaimed, PersistenceVerified
  <1>12. QED
    BY <1>10, <1>11

\* A claim about the game's sources rests on evidence that covers it and is of one
\* moment: for every set of documents, records, definitions, roots, boots, texts and
\* markers, whatever of it goes wrong and in whatever order.
THEOREM ClaimsStayEarned == ClaimsSpec /\ QuestSpec => []ClaimsRest
  <1>1. ClaimsInv /\ QuestInv => ClaimsRest
    BY ClaimTopics, TopologyHolds, WorldHolds, PersistenceHolds, ReferencesHold, MissingHolds, LoadedHolds, ReleaseHolds
       DEF ClaimsRest
  <1>2. QED
    BY <1>1, ClaimsStart, ClaimSteps, QuestStarts, QuestSteps, PTL DEF ClaimsSpec, QuestSpec

-----------------------------------------------------------------------------
(***************************************************************************)
(* SourceEvidence: a declared winner wins, and a conflict that is ruled    *)
(* out is none.                                                            *)
(***************************************************************************)

PathFields == {"topic", "changes", "semantics", "basis", "order", "layers", "manual", "orderComplete", "manifests",
               "intended", "protected", "table"}

\* What is gathered about a path.
PathsHolds ==
  /\ DOMAIN facts = PathFields /\ facts.topic = "paths"
  /\ facts.semantics \in Semantics /\ facts.basis \in Bases /\ facts.manifests \in {1, 2}
  /\ DOMAIN facts.layers = Layers /\ \A l \in Layers : facts.layers[l] \in LayerStates
  /\ \A p \in DOMAIN facts.order : facts.order[p] \in 0..Cardinality(Providers)

LEMMA PathsStart == PathsInit => PathsHolds
  <1> SUFFICES ASSUME PathsInit PROVE PathsHolds
    OBVIOUS
  <1>1. PICK semantics \in Semantics, basis \in Bases, contributors \in SUBSET Providers,
             declared \in {Nobody} \cup Providers, table \in {"none", "unresolved"} :
        \E order \in [contributors -> 1..Cardinality(Providers)] :
          facts = [topic |-> "paths", changes |-> 0, semantics |-> semantics, basis |-> basis, order |-> order,
                layers |-> [l \in Layers |-> "whole"], manual |-> {}, orderComplete |-> TRUE, manifests |-> 1,
                intended |-> IF semantics = "override_last_wins" THEN declared ELSE Nobody, protected |-> declared,
                table |-> table]
    BY ZenonT(30) DEF PathsInit
  <1>2. PICK order \in [contributors -> 1..Cardinality(Providers)] :
          facts = [topic |-> "paths", changes |-> 0, semantics |-> semantics, basis |-> basis, order |-> order,
                layers |-> [l \in Layers |-> "whole"], manual |-> {}, orderComplete |-> TRUE, manifests |-> 1,
                intended |-> IF semantics = "override_last_wins" THEN declared ELSE Nobody, protected |-> declared,
                table |-> table]
    BY <1>1
  <1>3. /\ DOMAIN facts = PathFields /\ facts.topic = "paths" /\ facts.semantics = semantics /\ facts.basis = basis
        /\ facts.manifests = 1 /\ facts.layers = [l \in Layers |-> "whole"] /\ facts.order = order
    BY <1>2 DEF PathFields
  <1>4. \A p \in DOMAIN facts.order : facts.order[p] \in 0..Cardinality(Providers)
    <2>1. Cardinality(Providers) \in Nat
      BY PathsAssumption, FS_CardinalityType
    <2>2. QED
      BY <1>3, <2>1
  <1>5. DOMAIN facts.layers = Layers /\ \A l \in Layers : facts.layers[l] \in LayerStates
    BY <1>3 DEF LayerStates
  <1>6. QED
    BY <1>3, <1>4, <1>5 DEF PathsHolds

\* The layers and the order change as a whole or not at all.
LEMMA PathsStep ==
  ASSUME PathsHolds, [PathsNext]_facts
  PROVE  PathsHolds'
  <1>1. ASSUME NEW layers, NEW order, NEW m \in {1, 2},
               DOMAIN facts' = PathFields, facts'.topic = "paths", facts'.semantics = facts.semantics, facts'.basis = facts.basis,
               facts'.manifests = m, facts'.layers = layers, facts'.order = order,
               DOMAIN layers = Layers, \A l \in Layers : layers[l] \in LayerStates,
               \A p \in DOMAIN order : order[p] \in 0..Cardinality(Providers)
        PROVE  PathsHolds'
    BY <1>1 DEF PathsHolds
  <1>2. CASE UNCHANGED facts
    BY <1>2 DEF PathsHolds
  <1>3. ASSUME NEW l \in Layers, NEW s \in LayerStates, Changed1([facts EXCEPT !.layers[l] = s])
        PROVE  PathsHolds'
    <2> DEFINE layers == [facts.layers EXCEPT ![l] = s]
    <2>1. /\ DOMAIN facts' = PathFields /\ facts'.topic = "paths" /\ facts'.semantics = facts.semantics
          /\ facts'.basis = facts.basis /\ facts'.manifests = facts.manifests /\ facts'.layers = layers
          /\ facts'.order = facts.order
      BY <1>3 DEF PathsHolds, Changed1, PathFields
    <2>2. DOMAIN layers = Layers /\ \A k \in Layers : layers[k] \in LayerStates
      BY DEF PathsHolds
    <2>3. QED
      BY <1>1, <2>1, <2>2 DEF PathsHolds
  <1>4. ASSUME NEW p \in Contributors(facts), NEW i \in 0..Cardinality(Providers), Changed1([facts EXCEPT !.order[p] = i])
        PROVE  PathsHolds'
    <2> DEFINE order == [facts.order EXCEPT ![p] = i]
    <2>1. /\ DOMAIN facts' = PathFields /\ facts'.topic = "paths" /\ facts'.semantics = facts.semantics
          /\ facts'.basis = facts.basis /\ facts'.manifests = facts.manifests /\ facts'.layers = facts.layers
          /\ facts'.order = order
      BY <1>4 DEF PathsHolds, Changed1, PathFields
    <2>2. \A q \in DOMAIN order : order[q] \in 0..Cardinality(Providers)
      BY DEF PathsHolds
    <2>3. QED
      BY <1>1, <2>1, <2>2 DEF PathsHolds
  <1>5. ASSUME \/ \E p : Changed1([facts EXCEPT !.manual = @ \cup {p}])
               \/ Changed1([facts EXCEPT !.orderComplete = FALSE])
               \/ Changed1([facts EXCEPT !.manifests = 2])
        PROVE  PathsHolds'
    <2>1. /\ DOMAIN facts' = PathFields /\ facts'.topic = "paths" /\ facts'.semantics = facts.semantics
          /\ facts'.basis = facts.basis /\ facts'.layers = facts.layers /\ facts'.order = facts.order
          /\ facts'.manifests \in {1, 2}
      BY <1>5 DEF PathsHolds, Changed1, PathFields
    <2>2. QED
      BY <1>1, <2>1 DEF PathsHolds
  <1>6. QED
    BY <1>2, <1>3, <1>4, <1>5 DEF PathsNext

\* A layer is complete only if it was scanned to its end.
LEMMA OnlyWholeIsComplete ==
  ASSUME NEW s \in LayerStates, NEW basis, LayerStatus(s, basis) = LayerStatus("whole", basis)
  PROVE  s \in {"whole", "with_reasons"}
  BY DEF LayerStatus, LayerStates

\* What may be claimed rests on a survey that calls each of its layers complete.
LEMMA ClaimsAreSurveyed ==
  ASSUME PathsHolds, ClaimAllowed(facts)
  PROVE  Surveyed(facts)
  <1> DEFINE basis == facts.basis
             found == {LayerStatus(facts.layers[l], basis) : l \in Layers}
  <1>1. /\ basis \notin {"manual_contributions", "hybrid"}
        /\ found \subseteq {LayerStatus("whole", basis)}
    <2>1. OverallStatus(facts.layers, basis) \in {"COMPLETE", "COMPLETE_FOR_REQUESTED_SCOPE"}
      BY DEF ClaimAllowed
    <2> DEFINE whole == LayerStatus("whole", basis)
    <2>2. OverallStatus(facts.layers, basis) =
            CASE basis \in {"manual_contributions", "hybrid"} -> "INCONCLUSIVE"
              [] basis \notin {"manual_contributions", "hybrid"} /\ "PARTIAL_LIMIT_REACHED" \in found -> "PARTIAL_LIMIT_REACHED"
              [] OTHER ->
                   IF "PARTIAL_STALE" \in found THEN "PARTIAL_STALE"
                   ELSE IF found = {"UNAVAILABLE"} THEN "UNAVAILABLE"
                   ELSE IF found \subseteq {whole} THEN whole
                   ELSE "INCONCLUSIVE"
      BY DEF OverallStatus
    <2> HIDE DEF found, whole, basis
    <2>3. basis \notin {"manual_contributions", "hybrid"} /\ found \subseteq {whole}
      BY <2>1, <2>2
    <2>4. QED
      BY <2>3 DEF whole
  <1>2. basis \in {"active_snapshot", "direct_exact_scan"}
    BY <1>1, PathsAssumption DEF PathsHolds
  <1>3. ASSUME NEW l \in Layers PROVE facts.layers[l] \in {"whole", "with_reasons"}
    <2>1. LayerStatus(facts.layers[l], basis) = LayerStatus("whole", basis)
      BY <1>1
    <2>2. facts.layers[l] \in LayerStates
      BY DEF PathsHolds
    <2>3. QED
      BY <2>1, <2>2, OnlyWholeIsComplete
  <1>4. QED
    BY <1>2, <1>3 DEF Surveyed

\* Contributors of which each has its own place have a last one.
LEMMA LastIsLast ==
  ASSUME PathsHolds, Contributors(facts) # {}
  PROVE  /\ LastContributor(facts) \in Contributors(facts)
         /\ \A q \in Contributors(facts) : facts.order[q] <= facts.order[LastContributor(facts)]
  <1> DEFINE n == Cardinality(Providers)
             behind == {k \in Nat : \E p \in Contributors(facts) : k = n - facts.order[p]}
  <1>1. n \in Nat /\ \A p \in Contributors(facts) : facts.order[p] \in Nat /\ facts.order[p] <= n
    BY PathsAssumption, FS_CardinalityType DEF PathsHolds, Contributors
  <1> HIDE DEF n
  <1>2. behind # {} /\ behind \in SUBSET Nat
    <2>1. PICK p \in Contributors(facts) : TRUE
      OBVIOUS
    <2>2. n - facts.order[p] \in Nat
      BY <1>1
    <2>3. n - facts.order[p] \in behind
      BY <2>2
    <2>4. QED
      BY <2>3
  <1>3. PICK k \in behind : \A j \in behind : k <= j
    <2> HIDE DEF behind
    <2>1. QED
      BY <1>2, LeastNatural
  <1>4. PICK p \in Contributors(facts) : k = n - facts.order[p]
    OBVIOUS
  <1>5. ASSUME NEW q \in Contributors(facts) PROVE facts.order[q] <= facts.order[p]
    <2>1. n - facts.order[q] \in behind
      BY <1>1
    <2>2. n - facts.order[p] <= n - facts.order[q]
      BY <1>3, <1>4, <2>1
    <2>3. QED
      BY <1>1, <2>2
  <1>6. QED
    BY <1>4, <1>5 DEF LastContributor

\* A winner that passes is the last contributor of such a survey.
LEMMA WinnerWins == PathsHolds => DeclaredReallyWins
  <1> DEFINE r == ResolveSelection(facts)
             last == LastContributor(facts)
  <1> SUFFICES ASSUME PathsHolds, AnalysisResult(facts) = "PASS", facts.semantics = "override_last_wins", facts.protected # Nobody
               PROVE  /\ Surveyed(facts) /\ facts.manual = {} /\ facts.orderComplete
                      /\ facts.protected \in Contributors(facts)
                      /\ \A q \in Contributors(facts) \ {facts.protected} :
                           facts.order[q] < facts.order[facts.protected] /\ facts.order[q] # 0
    BY DEF DeclaredReallyWins
  <1>1. r.conclusion # "inconclusive" /\ facts.protected \in EffectiveProviders(facts)
    BY DEF AnalysisResult
  <1>2. \/ r.conclusion = "inconclusive"
        \/ r.conclusion = "no_provider_observed"
        \/ /\ facts.manual = {} /\ Contributors(facts) # {} /\ ClaimAllowed(facts) /\ OrderIsComplete(facts)
           /\ r.conclusion = "winner" /\ r.winner = last
    <2> HIDE DEF last
    <2>1. QED
      BY DEF ResolveSelection, last
  <1> HIDE DEF r, last
  <1>3. /\ facts.manual = {} /\ Contributors(facts) # {} /\ ClaimAllowed(facts) /\ OrderIsComplete(facts)
        /\ facts.protected = last
    BY <1>1, <1>2 DEF EffectiveProviders, r
  <1>4. last \in Contributors(facts) /\ \A q \in Contributors(facts) : facts.order[q] <= facts.order[last]
    BY <1>3, LastIsLast DEF last
  <1>5. ASSUME NEW q \in Contributors(facts), q # last PROVE facts.order[q] < facts.order[last] /\ facts.order[q] # 0
    <2>1. facts.order[q] # facts.order[last] /\ facts.order[q] # 0
      BY <1>3, <1>4, <1>5 DEF OrderIsComplete
    <2>2. facts.order[q] \in Nat /\ facts.order[last] \in Nat
      BY <1>4, PathsAssumption, FS_CardinalityType DEF PathsHolds, Contributors
    <2>3. QED
      BY <1>4, <2>1, <2>2
  <1>6. QED
    BY <1>3, <1>4, <1>5, ClaimsAreSurveyed DEF OrderIsComplete

\* No conflict is confirmed only where providers cannot displace each other.
LEMMA NoneIsNone == PathsHolds => ConfirmedNoneIsNone
  <1> SUFFICES ASSUME PathsHolds, ConflictConclusion(facts) = "CONFIRMED_NONE"
               PROVE  /\ Surveyed(facts) /\ facts.manifests = 1
                      /\ Cardinality(Contributors(facts) \cup facts.manual) > 1 =>
                           facts.semantics \in {"parallel_load", "no_runtime_override"}
    BY DEF ConfirmedNoneIsNone
  <1>1. ClaimAllowed(facts) /\ ~ObservedOverlap(facts) /\ ~UnsupportedOverlap(facts) /\ ~(facts.manifests > 1)
    BY DEF ConflictConclusion
  <1>2. QED
    BY <1>1, ClaimsAreSurveyed DEF ObservedOverlap, UnsupportedOverlap, PathsHolds, Semantics

\* For any providers, layers and changes of what is known of them: a declared
\* winner that passes really is the last of a survey that calls each of its layers
\* complete, and where no conflict is confirmed none can be.
\* (coverage.py, path_contributions.py, conflict_classifier.py)
THEOREM PathClaimsAreTrue == PathsSpec => [](DeclaredReallyWins /\ ConfirmedNoneIsNone)
  <1>1. PathsHolds => DeclaredReallyWins /\ ConfirmedNoneIsNone
    BY WinnerWins, NoneIsNone
  <1>2. PathsHolds /\ [PathsNext]_facts => PathsHolds'
    BY PathsStep
  <1>3. QED
    BY <1>1, <1>2, PathsStart, PTL DEF PathsSpec

===============================================================================
