---------------------- MODULE TransactionAttemptsProofs ----------------------
(***************************************************************************)
(* Proofs about TransactionAttempts, for every number of helpers, inputs,  *)
(* phases, artifacts and attempts.                                         *)
(***************************************************************************)
EXTENDS TransactionAttempts, FiniteSetTheorems, FunctionTheorems, SequenceTheorems, TLAPS

-----------------------------------------------------------------------------
(***************************************************************************)
(* The latest phase.                                                       *)
(***************************************************************************)

LEMMA PhaseNumbers ==
  /\ AttemptPhase \subseteq Nat
  /\ \A f \in AttemptPhase : 0 <= f /\ f <= FAILED
  /\ {CREATED, VERIFIED, FAILED} \subseteq AttemptPhase
  BY ConstantsOK DEF AttemptPhase, CREATED, VERIFIED, FAILED

\* A finite set of numbers that is not empty has a greatest element.
LEMMA GreatestExists ==
  ASSUME NEW S \in SUBSET Nat, IsFiniteSet(S), S # {}
  PROVE  \E f \in S : \A g \in S : g <= f
<1> DEFINE Later(f) == {g \in S : g > f}
           T == {Later(f) : f \in S}
<1>1. T \subseteq FiniteSubsetsOf(S)
  <2> SUFFICES ASSUME NEW f \in S PROVE Later(f) \in FiniteSubsetsOf(S)
    OBVIOUS
  <2>1. Later(f) \in SUBSET S
    OBVIOUS
  <2> HIDE DEF Later
  <2> QED
    BY <2>1, FS_Subset DEF FiniteSubsetsOf
<1>2. PICK X \in T : \A Y \in T : <<Y, X>> \notin StrictSubsetOrdering(S)
  <2>1. T # {}
    OBVIOUS
  <2> HIDE DEF T
  <2> QED
    BY <1>1, <2>1, FS_StrictSubsetOrderingWellFounded, WFMin
<1>3. PICK f \in S : X = Later(f)
  OBVIOUS
<1>4. ASSUME NEW h \in S, h > f PROVE FALSE
  <2>1. h \in Later(f) /\ h \notin Later(h)
    BY <1>4
  <2>2. Later(h) \subseteq Later(f)
    <3> SUFFICES ASSUME NEW g \in S, g > h PROVE g > f
      OBVIOUS
    <3>1. f \in Nat /\ g \in Nat /\ h \in Nat
      OBVIOUS
    <3> QED
      BY <1>4, <3>1
  <2>3. <<Later(h), Later(f)>> \in StrictSubsetOrdering(S)
    <3>1. Later(h) \in SUBSET S /\ Later(f) \in SUBSET S
      OBVIOUS
    <3> HIDE DEF Later
    <3>2. <<Later(h), Later(f)>> \in (SUBSET S) \X (SUBSET S)
      BY <3>1
    <3>3. Later(h) # Later(f)
      BY <2>1
    <3> QED
      BY <2>2, <3>2, <3>3 DEF StrictSubsetOrdering
  <2> QED
    BY <1>2, <1>3, <2>3
<1>5. \A g \in S : g <= f
  BY <1>4
<1> QED
  BY <1>5

\* A set of phases that is not empty has a latest one.
LEMMA LatestExists ==
  ASSUME NEW S \in SUBSET AttemptPhase, S # {}
  PROVE  \E f \in S : \A g \in S : g <= f
<1>1. IsFiniteSet(S)
  <2>1. IsFiniteSet(0..FAILED)
    <3>1. 0 \in Int /\ FAILED \in Int
      BY DEF FAILED
    <3> QED
      BY <3>1, FS_Interval
  <2>2. \A f \in S : f \in 0..FAILED
    BY PhaseNumbers DEF FAILED
  <2> QED
    BY <2>1, <2>2, FS_Subset
<1> QED
  BY <1>1, GreatestExists, PhaseNumbers

\* LastPhase is the latest recorded phase.
LEMMA LastPhaseIs ==
  ASSUME NEW n, NEW f \in Recorded(n), \A g \in Recorded(n) : g <= f
  PROVE  LastPhase(n) = f
<1>1. \A g \in Recorded(n) : (\A h \in Recorded(n) : h <= g) => g = f
  BY PhaseNumbers DEF Recorded
<1> QED
  BY <1>1 DEF LastPhase

LEMMA LastPhaseRecorded ==
  ASSUME NEW n, Recorded(n) # {}
  PROVE  /\ LastPhase(n) \in Recorded(n)
         /\ \A g \in Recorded(n) : g <= LastPhase(n)
<1>1. PICK f \in Recorded(n) : \A g \in Recorded(n) : g <= f
  BY LatestExists DEF Recorded
<1> QED
  BY <1>1, LastPhaseIs

\* A whole receipt.
LEMMA LastReceiptType ==
  ASSUME TypeOK, NEW n \in 1..Len(attempts), Loads(n)
  PROVE  LastReceipt(n) \in Documents
<1>1. LastPhase(n) \in Recorded(n)
  BY LastPhaseRecorded DEF Loads
<1>2. attempts[n].receipt \in [AttemptPhase -> Receipts]
  <2>1. attempts[n] \in Folders
    BY ElementOfSeq DEF TypeOK
  <2> QED
    BY <2>1 DEF Folders
<1> QED
  BY <1>1, <1>2 DEF Loads, LastReceipt, Recorded, Receipts

-----------------------------------------------------------------------------
(***************************************************************************)
(* Folders.                                                                *)
(***************************************************************************)

\* A folder is replaced by another.
LEMMA SetFolder ==
  ASSUME NEW s \in Seq(Folders), NEW n \in 1..Len(s), NEW a \in Folders,
         NEW t, t = [s EXCEPT ![n] = a]
  PROVE  /\ t \in Seq(Folders) /\ Len(t) = Len(s)
         /\ t[n] = a
         /\ \A m \in 1..Len(s) : m # n => t[m] = s[m]
  OBVIOUS

\* The attempts with a temporary file written or removed, with one turned into
\* a receipt, with an artifact file written.
WithTmp(s, n, f, x) == [s EXCEPT ![n].tmp[f] = x]
WithReceipt(s, n, f) == [s EXCEPT ![n].receipt[f] = s[n].tmp[f], ![n].tmp[f] = Absent]
WithFile(s, n, b) == [s EXCEPT ![n].file = b]

LEMMA SetTmp ==
  ASSUME NEW s \in Seq(Folders), NEW n \in 1..Len(s), NEW f \in AttemptPhase,
         NEW x \in Receipts, NEW t, t = WithTmp(s, n, f, x)
  PROVE  /\ t \in Seq(Folders) /\ Len(t) = Len(s)
         /\ \A m \in 1..Len(s) :
              /\ t[m].receipt = s[m].receipt /\ t[m].file = s[m].file
              /\ m # n => t[m].tmp = s[m].tmp
         /\ t[n].tmp = [s[n].tmp EXCEPT ![f] = x]
<1> DEFINE a == [s[n] EXCEPT !.tmp = [s[n].tmp EXCEPT ![f] = x]]
<1>1. s[n] \in Folders
  BY ElementOfSeq
<1>2. a \in Folders /\ a.receipt = s[n].receipt /\ a.file = s[n].file
      /\ a.tmp = [s[n].tmp EXCEPT ![f] = x]
  BY <1>1 DEF Folders
<1>3. t = [s EXCEPT ![n] = a]
  BY DEF WithTmp
<1> HIDE DEF a
<1>4. /\ t \in Seq(Folders) /\ Len(t) = Len(s) /\ t[n] = a
      /\ \A m \in 1..Len(s) : m # n => t[m] = s[m]
  BY <1>2, <1>3, SetFolder
<1> QED
  BY <1>2, <1>4

\* Folder n of t is that of s with a temporary file made a receipt; the others
\* are the same.
Replaced(s, t, n, f) ==
  /\ \A m \in 1..Len(s) : m # n => t[m] = s[m]
  /\ t[n].receipt = [s[n].receipt EXCEPT ![f] = s[n].tmp[f]]
  /\ t[n].tmp = [s[n].tmp EXCEPT ![f] = Absent]
  /\ t[n].file = s[n].file

LEMMA SetReceipt ==
  ASSUME NEW s \in Seq(Folders), NEW n \in 1..Len(s), NEW f \in AttemptPhase,
         NEW t, t = WithReceipt(s, n, f)
  PROVE  t \in Seq(Folders) /\ Len(t) = Len(s) /\ Replaced(s, t, n, f)
<1> DEFINE a == [s[n] EXCEPT !.receipt = [s[n].receipt EXCEPT ![f] = s[n].tmp[f]],
                             !.tmp = [s[n].tmp EXCEPT ![f] = Absent]]
<1>1. s[n] \in Folders
  BY ElementOfSeq
<1>2. a \in Folders /\ a.file = s[n].file
      /\ a.receipt = [s[n].receipt EXCEPT ![f] = s[n].tmp[f]]
      /\ a.tmp = [s[n].tmp EXCEPT ![f] = Absent]
  BY <1>1 DEF Folders, Receipts
<1>3. t = [s EXCEPT ![n] = a]
  BY <1>1, LenProperties DEF Folders, WithReceipt
<1> HIDE DEF a
<1>4. /\ t \in Seq(Folders) /\ Len(t) = Len(s) /\ t[n] = a
      /\ \A m \in 1..Len(s) : m # n => t[m] = s[m]
  BY <1>2, <1>3, SetFolder
<1> QED
  BY <1>2, <1>4 DEF Replaced

LEMMA SetFile ==
  ASSUME NEW s \in Seq(Folders), NEW n \in 1..Len(s), NEW b \in Bytes,
         NEW t, t = WithFile(s, n, b)
  PROVE  /\ t \in Seq(Folders) /\ Len(t) = Len(s)
         /\ \A m \in 1..Len(s) : t[m].receipt = s[m].receipt /\ t[m].tmp = s[m].tmp
<1> DEFINE a == [s[n] EXCEPT !.file = b]
<1>1. s[n] \in Folders
  BY ElementOfSeq
<1>2. a \in Folders /\ a.receipt = s[n].receipt /\ a.tmp = s[n].tmp
  BY <1>1 DEF Folders
<1>3. t = [s EXCEPT ![n] = a]
  BY DEF WithFile
<1> HIDE DEF a
<1>4. /\ t \in Seq(Folders) /\ Len(t) = Len(s) /\ t[n] = a
      /\ \A m \in 1..Len(s) : m # n => t[m] = s[m]
  BY <1>2, <1>3, SetFolder
<1> QED
  BY <1>2, <1>4

\* The attempts stay folders.
LEMMA StayFolders ==
  /\ \A s \in Seq(Folders) : \A n \in 1..Len(s), f \in AttemptPhase, x \in Receipts :
       WithTmp(s, n, f, x) \in Seq(Folders) /\ Len(WithTmp(s, n, f, x)) = Len(s)
  /\ \A s \in Seq(Folders) : \A n \in 1..Len(s), f \in AttemptPhase :
       WithReceipt(s, n, f) \in Seq(Folders) /\ Len(WithReceipt(s, n, f)) = Len(s)
  /\ \A s \in Seq(Folders) : \A n \in 1..Len(s), b \in Bytes :
       WithFile(s, n, b) \in Seq(Folders) /\ Len(WithFile(s, n, b)) = Len(s)
<1>1. ASSUME NEW s \in Seq(Folders), NEW n \in 1..Len(s), NEW f \in AttemptPhase,
             NEW x \in Receipts
      PROVE  WithTmp(s, n, f, x) \in Seq(Folders) /\ Len(WithTmp(s, n, f, x)) = Len(s)
  <2> DEFINE a == [s[n] EXCEPT !.tmp = [s[n].tmp EXCEPT ![f] = x]]
  <2>1. s[n] \in Folders
    BY ElementOfSeq
  <2>2. a \in Folders
    BY <2>1 DEF Folders
  <2>3. WithTmp(s, n, f, x) = [s EXCEPT ![n] = a]
    BY DEF WithTmp
  <2> HIDE DEF a
  <2> QED
    BY <2>2, <2>3, SetFolder
<1>2. ASSUME NEW s \in Seq(Folders), NEW n \in 1..Len(s), NEW f \in AttemptPhase
      PROVE  WithReceipt(s, n, f) \in Seq(Folders) /\ Len(WithReceipt(s, n, f)) = Len(s)
  BY SetReceipt
<1>3. ASSUME NEW s \in Seq(Folders), NEW n \in 1..Len(s), NEW b \in Bytes
      PROVE  WithFile(s, n, b) \in Seq(Folders) /\ Len(WithFile(s, n, b)) = Len(s)
  BY SetFile
<1> QED
  BY <1>1, <1>2, <1>3

\* An empty folder is added.
LEMMA AddFolder ==
  ASSUME NEW s \in Seq(Folders)
  PROVE  /\ Append(s, EmptyAttempt) \in Seq(Folders)
         /\ Len(Append(s, EmptyAttempt)) = Len(s) + 1
         /\ \A m \in 1..Len(s) : Append(s, EmptyAttempt)[m] = s[m]
         /\ Append(s, EmptyAttempt)[Len(s) + 1] = EmptyAttempt
<1>1. EmptyAttempt \in Folders
  BY DEF EmptyAttempt, Folders, Receipts
<1> QED
  BY <1>1, AppendProperties

-----------------------------------------------------------------------------
(***************************************************************************)
(* Steps.                                                                  *)
(***************************************************************************)

Busy == {"mkdir", "check", "write_tmp", "replace"}
Writing == {"check", "write_tmp", "replace"}
Held == [n : 1..Len(attempts), receipt : Documents]
Jobs == [n : 0..MaxAttempts, receipt : Documents \cup {Absent}]

\* The receipt a helper is about to write: for a folder that exists, or the
\* first receipt of one to be made.
JobsOK ==
  \A p \in Procs : pc[p] \in Busy =>
    /\ job[p].n \in 1..MaxAttempts
    /\ job[p].receipt \in Documents /\ job[p].receipt.chain # <<>>
    /\ job[p].n <= Len(attempts) + 1
    /\ pc[p] \in Writing => job[p].n <= Len(attempts)

TypeInv == TypeOK /\ JobsOK

\* One helper takes a step; what the others hold stays.
StepOf(p) ==
  \/ Open(p) \/ MakeAttempt(p)
  \/ \E f \in AttemptPhase : RecordPhase(p, f)
  \/ CheckReceipt(p) \/ WriteTemporary(p) \/ ReplaceReceipt(p) \/ WriteFails(p)
  \/ \E b \in scope.bytes : WriteArtifact(p, b)
  \/ Crash(p)

Frame(p) ==
  /\ scope' = scope
  /\ pc' = [pc EXCEPT ![p] = pc'[p]]
  /\ job' = [job EXCEPT ![p] = job'[p]]
  /\ owner' = [owner EXCEPT ![p] = owner'[p]]

LEMMA StepFrame ==
  ASSUME TypeOK, NEW p \in Procs, StepOf(p), scope' = scope
  PROVE  Frame(p)
<1> USE DEF TypeOK, Frame
<1>1. CASE Open(p)
  BY <1>1 DEF Open, ResumeAttempt, AllocateAttempt, Return
<1>2. CASE MakeAttempt(p)
  BY <1>2 DEF MakeAttempt, Return
<1>3. CASE \E f \in AttemptPhase : RecordPhase(p, f)
  BY <1>3 DEF RecordPhase
<1>4. CASE CheckReceipt(p)
  BY <1>4 DEF CheckReceipt, Return
<1>5. CASE WriteTemporary(p)
  BY <1>5 DEF WriteTemporary, Return
<1>6. CASE ReplaceReceipt(p)
  BY <1>6 DEF ReplaceReceipt, Return
<1>7. CASE WriteFails(p)
  BY <1>7 DEF WriteFails, Return
<1>8. CASE \E b \in scope.bytes : WriteArtifact(p, b)
  BY <1>8 DEF WriteArtifact
<1>9. CASE Crash(p)
  BY <1>9 DEF Crash, Return
<1> QED
  BY <1>1, <1>2, <1>3, <1>4, <1>5, <1>6, <1>7, <1>8, <1>9 DEF StepOf

\* The phase of a receipt.
LEMMA PhaseOfType ==
  ASSUME NEW r \in Documents, r.chain # <<>>
  PROVE  PhaseOf(r) \in AttemptPhase
<1>1. Len(r.chain) \in 1..Len(r.chain)
  BY EmptySeq, LenProperties DEF Documents
<1>2. r.chain \in Seq([phase : AttemptPhase, artifact : Bytes \cup {Absent}])
  BY DEF Documents
<1>3. r.chain[Len(r.chain)] \in [phase : AttemptPhase, artifact : Bytes \cup {Absent}]
  BY <1>1, <1>2, ElementOfSeq
<1> QED
  BY <1>3 DEF PhaseOf

\* The type invariant of the next state, from what the step did for its helper.
LEMMA StepType ==
  ASSUME TypeInv, NEW p \in Procs, Frame(p),
         attempts' \in Seq(Folders), Len(attempts') \in Len(attempts)..MaxAttempts,
         pc'[p] \in {"idle"} \cup Busy,
         job'[p] \in Jobs,
         owner'[p] \in {Absent} \cup Held',
         pc'[p] \in Busy =>
           /\ job'[p].n \in 1..MaxAttempts
           /\ job'[p].receipt \in Documents /\ job'[p].receipt.chain # <<>>
           /\ job'[p].n <= Len(attempts') + 1
           /\ pc'[p] \in Writing => job'[p].n <= Len(attempts')
  PROVE  TypeInv'
<1>1. Len(attempts) \in Nat
  BY LenProperties DEF TypeInv, TypeOK
<1>2. owner' \in [Procs -> {Absent} \cup Held']
  <2>1. Held \subseteq Held'
    BY <1>1 DEF Held
  <2>2. owner \in [Procs -> {Absent} \cup Held]
    BY DEF TypeInv, TypeOK, Held
  <2> QED
    BY <2>1, <2>2 DEF Frame
<1>3. TypeOK'
  <2>1. pc' \in [Procs -> {"idle"} \cup Busy]
    BY DEF TypeInv, TypeOK, Frame, Busy
  <2>2. job' \in [Procs -> Jobs]
    BY DEF TypeInv, TypeOK, Frame, Jobs
  <2>3. scope' \in Scopes /\ Len(attempts') <= MaxAttempts
    BY <1>1, ConstantsOK DEF TypeInv, TypeOK, Frame
  <2> QED
    BY <1>2, <2>1, <2>2, <2>3 DEF TypeOK, Busy, Jobs, Held
<1>4. JobsOK'
  <2> SUFFICES ASSUME NEW q \in Procs, pc'[q] \in Busy
               PROVE  /\ job'[q].n \in 1..MaxAttempts
                      /\ job'[q].receipt \in Documents /\ job'[q].receipt.chain # <<>>
                      /\ job'[q].n <= Len(attempts') + 1
                      /\ pc'[q] \in Writing => job'[q].n <= Len(attempts')
    BY DEF JobsOK
  <2>1. CASE q = p
    BY <2>1
  <2>2. CASE q # p
    <3>1. pc'[q] = pc[q] /\ job'[q] = job[q]
      BY <2>2 DEF Frame, TypeInv, TypeOK
    <3> QED
      BY <1>1, <3>1 DEF TypeInv, JobsOK
  <2> QED
    BY <2>1, <2>2
<1> QED
  BY <1>3, <1>4 DEF TypeInv

\* The attempts in numbers.
LEMMA Folding ==
  ASSUME TypeOK
  PROVE  /\ attempts \in Seq(Folders) /\ Len(attempts) \in Nat
         /\ Len(attempts) <= MaxAttempts /\ MaxAttempts \in Nat
         /\ NoJob \in Jobs
         /\ \A p \in Procs : owner[p] \in {Absent} \cup Held
  BY LenProperties, ConstantsOK DEF TypeOK, NoJob, Jobs, Held

\* What the helper holds, in later states too.
LEMMA HeldStays ==
  ASSUME TypeOK, NEW p \in Procs, Len(attempts') \in Nat, Len(attempts) <= Len(attempts')
  PROVE  owner[p] \in {Absent} \cup Held'
<1>1. owner[p] \in {Absent} \cup Held /\ Len(attempts) \in Nat
  BY Folding
<1> QED
  BY <1>1 DEF Held

\* A call that returns.
LEMMA ReturnType ==
  ASSUME TypeInv, NEW p \in Procs, NEW held, Return(p, held), scope' = scope,
         attempts' \in Seq(Folders), Len(attempts') \in Len(attempts)..MaxAttempts,
         held \in {Absent} \cup Held'
  PROVE  TypeInv'
<1>1. Frame(p) /\ pc'[p] = "idle" /\ job'[p] = NoJob /\ owner'[p] = held
  BY DEF Return, Frame, TypeInv, TypeOK
<1> QED
  BY <1>1, StepType, Folding DEF TypeInv, Busy

LEMMA ResumeType ==
  ASSUME TypeInv, NEW p \in Procs, NEW input, ResumeAttempt(p, input), scope' = scope
  PROVE  TypeInv'
<1> DEFINE n == Len(attempts)
<1>1. n \in 1..n /\ attempts' = attempts /\ Return(p, [n |-> n, receipt |-> LastReceipt(n)])
  BY Folding DEF ResumeAttempt, TypeInv
<1>2. LastReceipt(n) \in Documents
  BY <1>1, LastReceiptType DEF ResumeAttempt, TypeInv
<1>3. [n |-> n, receipt |-> LastReceipt(n)] \in Held'
  BY <1>1, <1>2 DEF Held
<1> HIDE DEF n
<1> QED
  BY <1>1, <1>3, ReturnType, Folding DEF TypeInv, n

\* A receipt that names its phase first.
LEMMA FirstReceiptType ==
  ASSUME NEW input \in Inputs
  PROVE  /\ Document(input, <<Entry(CREATED, Absent)>>) \in Documents
         /\ Document(input, <<Entry(CREATED, Absent)>>).chain = <<Entry(CREATED, Absent)>>
         /\ <<Entry(CREATED, Absent)>> # <<>>
         /\ PhaseOf(Document(input, <<Entry(CREATED, Absent)>>)) = CREATED
  BY PhaseNumbers DEF Document, Entry, Documents, PhaseOf

LEMMA AllocateType ==
  ASSUME TypeInv, NEW p \in Procs, NEW input \in scope.inputs, AllocateAttempt(p, input),
         scope' = scope
  PROVE  TypeInv'
<1> DEFINE r == Document(input, <<Entry(CREATED, Absent)>>)
           n == Len(attempts)
<1>1. input \in Inputs
  BY ConstantsOK DEF TypeInv, TypeOK
<1>2. r \in Documents /\ r.chain # <<>>
  BY <1>1, FirstReceiptType
<1> HIDE DEF r
<1>3. /\ pc'[p] = "mkdir" /\ job'[p] = [n |-> n + 1, receipt |-> r] /\ owner'[p] = owner[p]
      /\ attempts' = attempts /\ n < MaxAttempts
  BY DEF AllocateAttempt, TypeInv, TypeOK, r
<1>4. n + 1 \in 1..MaxAttempts
  BY <1>3, Folding DEF TypeInv
<1>5. Frame(p)
  BY StepFrame DEF StepOf, Open, TypeInv
<1>6. job'[p] \in Jobs
  BY <1>2, <1>3, <1>4 DEF Jobs
<1>7. owner'[p] \in {Absent} \cup Held'
  BY <1>3, HeldStays, Folding DEF TypeInv
<1>8. attempts' \in Seq(Folders) /\ Len(attempts') \in Len(attempts)..MaxAttempts
  BY <1>3, Folding DEF TypeInv
<1> QED
  BY <1>2, <1>3, <1>4, <1>5, <1>6, <1>7, <1>8, StepType DEF Busy, Writing

LEMMA MakeType ==
  ASSUME TypeInv, NEW p \in Procs, MakeAttempt(p), scope' = scope
  PROVE  TypeInv'
<1>1. pc[p] = "mkdir" /\ job[p] \in Jobs /\ job[p].n \in 1..MaxAttempts
      /\ job[p].receipt \in Documents /\ job[p].receipt.chain # <<>>
  BY DEF MakeAttempt, TypeInv, TypeOK, JobsOK, Busy, Jobs
<1>2. CASE job[p].n = Len(attempts) + 1
  <2>1. /\ attempts' = Append(attempts, EmptyAttempt)
        /\ pc'[p] = "check" /\ job'[p] = job[p] /\ owner'[p] = owner[p]
    BY <1>2 DEF MakeAttempt, TypeInv, TypeOK
  <2>2. /\ attempts' \in Seq(Folders) /\ Len(attempts') = Len(attempts) + 1
    BY <2>1, AddFolder, Folding DEF TypeInv
  <2>3. Frame(p)
    BY StepFrame DEF StepOf, TypeInv
  <2>4. owner'[p] \in {Absent} \cup Held'
    BY <2>1, <2>2, HeldStays, Folding DEF TypeInv
  <2>5. Len(attempts') \in Len(attempts)..MaxAttempts /\ job'[p].n <= Len(attempts')
    BY <1>1, <1>2, <2>1, <2>2, Folding DEF TypeInv
  <2>6. job'[p].n <= Len(attempts') + 1
    BY <1>1, <2>1, <2>2, <2>5, Folding DEF TypeInv
  <2> QED
    BY <1>1, <2>1, <2>2, <2>3, <2>4, <2>5, <2>6, StepType DEF Busy, Writing
<1>3. CASE job[p].n # Len(attempts) + 1
  BY <1>3, ReturnType, HeldStays, Folding DEF MakeAttempt, TypeInv
<1> QED
  BY <1>2, <1>3

\* The receipt of the next phase.
LEMMA NextReceiptType ==
  ASSUME NEW r \in Documents, NEW f \in AttemptPhase, NEW artifact \in Bytes \cup {Absent},
         NEW d, d = Document(r.input, Append(r.chain, Entry(f, artifact)))
  PROVE  /\ d \in Documents /\ d.input = r.input
         /\ d.chain = Append(r.chain, Entry(f, artifact)) /\ d.chain # <<>>
         /\ PhaseOf(d) = f
<1> DEFINE E == [phase : AttemptPhase, artifact : Bytes \cup {Absent}]
           e == Entry(f, artifact)
<1>1. r.chain \in Seq(E) /\ r.input \in Inputs
  BY DEF Documents
<1>2. e \in E /\ e.phase = f
  BY DEF Entry
<1>3. d.input = r.input /\ d.chain = Append(r.chain, e)
  BY DEF Document
<1> HIDE DEF E, e
<1>4. /\ Append(r.chain, e) \in Seq(E) /\ Append(r.chain, e) # <<>>
      /\ Append(r.chain, e)[Len(Append(r.chain, e))] = e
  BY <1>1, <1>2, AppendProperties
<1>5. d \in Documents
  BY <1>1, <1>4 DEF Document, Documents, E, e
<1> QED
  BY <1>2, <1>3, <1>4, <1>5 DEF PhaseOf, e

\* What RecordPhase is about: a whole, current receipt and the next one.
LEMMA RecordEffect ==
  ASSUME TypeInv, NEW p \in Procs, NEW f \in AttemptPhase, RecordPhase(p, f), scope' = scope
  PROVE  /\ owner[p] \in Held
         /\ \E artifact \in {Absent, attempts[owner[p].n].file} :
              /\ artifact \in Bytes \cup {Absent}
              /\ job'[p].receipt = Document(owner[p].receipt.input,
                                     Append(owner[p].receipt.chain, Entry(f, artifact)))
              /\ job'[p].receipt \in Documents /\ job'[p].receipt.chain # <<>>
              /\ PhaseOf(job'[p].receipt) = f
         /\ job'[p] \in Jobs /\ job'[p].n = owner[p].n
         /\ pc[p] = "idle" /\ pc'[p] = "check" /\ owner'[p] = owner[p]
         /\ attempts' = attempts
<1> DEFINE n == owner[p].n
<1>1. owner[p] \in Held
  BY Folding DEF RecordPhase, TypeInv
<1>2. n \in 1..Len(attempts) /\ owner[p].receipt \in Documents
  BY <1>1 DEF Held
<1>3. LastReceipt(n) = owner[p].receipt
  BY DEF RecordPhase, MayRecord
<1>4. attempts[n].file \in Bytes \cup {Absent}
  <2>1. attempts[n] \in Folders
    BY <1>2, ElementOfSeq, Folding DEF TypeInv
  <2> QED
    BY <2>1 DEF Folders
<1>5. PICK artifact \in {Absent, attempts[n].file} :
        job' = [job EXCEPT ![p] =
                 [n |-> n, receipt |-> Document(owner[p].receipt.input,
                                Append(owner[p].receipt.chain, Entry(f, artifact)))]]
  BY <1>3 DEF RecordPhase
<1> HIDE DEF n
<1>6. /\ job'[p].n = n
      /\ job'[p].receipt = Document(owner[p].receipt.input,
                              Append(owner[p].receipt.chain, Entry(f, artifact)))
      /\ job'[p] = [n |-> n, receipt |-> job'[p].receipt]
  BY <1>5 DEF TypeInv, TypeOK
<1>7. /\ artifact \in Bytes \cup {Absent}
      /\ job'[p].receipt \in Documents /\ job'[p].receipt.chain # <<>>
      /\ PhaseOf(job'[p].receipt) = f
  BY <1>2, <1>4, <1>5, <1>6, NextReceiptType
<1>8. job'[p] \in Jobs
  BY <1>2, <1>6, <1>7, Folding DEF Jobs, TypeInv
<1>9. pc[p] = "idle" /\ pc'[p] = "check" /\ owner'[p] = owner[p] /\ attempts' = attempts
  BY DEF RecordPhase, TypeInv, TypeOK
<1> QED
  BY <1>1, <1>6, <1>7, <1>8, <1>9 DEF n

LEMMA RecordType ==
  ASSUME TypeInv, NEW p \in Procs, NEW f \in AttemptPhase, RecordPhase(p, f), scope' = scope
  PROVE  TypeInv'
<1>1. Frame(p)
  BY StepFrame DEF StepOf, TypeInv
<1>2. /\ owner[p] \in Held /\ job'[p].receipt \in Documents /\ job'[p].receipt.chain # <<>>
      /\ job'[p] \in Jobs /\ job'[p].n = owner[p].n
      /\ pc'[p] = "check" /\ owner'[p] = owner[p] /\ attempts' = attempts
  BY RecordEffect
<1>3. /\ attempts' \in Seq(Folders) /\ Len(attempts') \in Len(attempts)..MaxAttempts
      /\ owner'[p] \in {Absent} \cup Held'
  BY <1>2, Folding DEF TypeInv, Held
<1>4. job'[p].n \in 1..MaxAttempts /\ job'[p].n <= Len(attempts')
      /\ job'[p].n <= Len(attempts') + 1
  BY <1>2, Folding DEF TypeInv, Held
<1> QED
  BY <1>1, <1>2, <1>3, <1>4, StepType DEF Busy, Writing

\* A helper that is writing a receipt.
LEMMA WritingJob ==
  ASSUME TypeInv, NEW p \in Procs, pc[p] \in Writing
  PROVE  /\ job[p] \in Jobs /\ job[p].n \in 1..Len(attempts) /\ job[p].n \in 1..MaxAttempts
         /\ job[p].n <= Len(attempts) + 1
         /\ job[p].receipt \in Documents /\ job[p].receipt.chain # <<>>
         /\ PhaseOf(job[p].receipt) \in AttemptPhase
         /\ attempts[job[p].n] \in Folders
<1>1. /\ job[p] \in Jobs /\ job[p].n \in 1..MaxAttempts /\ job[p].n <= Len(attempts)
      /\ job[p].receipt \in Documents /\ job[p].receipt.chain # <<>>
  BY DEF TypeInv, TypeOK, JobsOK, Writing, Busy, Jobs
<1>2. job[p].n \in 1..Len(attempts) /\ job[p].n <= Len(attempts) + 1
  BY <1>1, Folding DEF TypeInv
<1>3. attempts[job[p].n] \in Folders
  BY <1>2, ElementOfSeq, Folding DEF TypeInv
<1> QED
  BY <1>1, <1>2, <1>3, PhaseOfType

\* A step of a helper that goes on writing the receipt it writes.
LEMMA GoOnType ==
  ASSUME TypeInv, NEW p \in Procs, Frame(p), pc[p] \in Writing, pc'[p] \in Writing,
         job'[p] = job[p], owner'[p] = owner[p],
         attempts' \in Seq(Folders), Len(attempts') = Len(attempts)
  PROVE  TypeInv'
<1>1. owner'[p] \in {Absent} \cup Held' /\ Len(attempts') \in Len(attempts)..MaxAttempts
  BY HeldStays, Folding DEF TypeInv
<1> QED
  BY <1>1, WritingJob, StepType DEF Busy, Writing

LEMMA CheckType ==
  ASSUME TypeInv, NEW p \in Procs, CheckReceipt(p), scope' = scope
  PROVE  TypeInv'
<1>1. Frame(p) /\ pc[p] \in Writing /\ attempts' = attempts
  BY StepFrame DEF StepOf, TypeInv, CheckReceipt, Writing
<1>2. CASE Return(p, owner[p])
  BY <1>1, <1>2, ReturnType, HeldStays, Folding DEF TypeInv
<1>3. CASE pc' = [pc EXCEPT ![p] = "write_tmp"] /\ UNCHANGED <<owner, job>>
  BY <1>1, <1>3, GoOnType, Folding DEF TypeInv, TypeOK, Writing
<1> QED
  BY <1>2, <1>3 DEF CheckReceipt

LEMMA WriteType ==
  ASSUME TypeInv, NEW p \in Procs, WriteTemporary(p), scope' = scope
  PROVE  TypeInv'
<1> DEFINE f == PhaseOf(job[p].receipt)
           n == job[p].n
<1>1. Frame(p) /\ pc[p] \in Writing
  BY StepFrame DEF StepOf, TypeInv, WriteTemporary, Writing
<1>2. n \in 1..Len(attempts) /\ f \in AttemptPhase /\ job[p].receipt \in Receipts
      /\ Absent \in Receipts
  BY <1>1, WritingJob DEF Receipts
<1>3. \/ /\ attempts' = WithTmp(attempts, n, f, job[p].receipt)
         /\ pc'[p] = "replace" /\ job'[p] = job[p] /\ owner'[p] = owner[p]
      \/ attempts' = WithTmp(attempts, n, f, Absent) /\ Return(p, owner[p])
  BY DEF WriteTemporary, TypeInv, TypeOK, WithTmp
<1> HIDE DEF f, n
<1>4. attempts' \in Seq(Folders) /\ Len(attempts') = Len(attempts)
  BY <1>2, <1>3, StayFolders, Folding DEF TypeInv
<1>5. CASE Return(p, owner[p])
  BY <1>4, <1>5, ReturnType, HeldStays, Folding DEF TypeInv
<1>6. CASE pc'[p] = "replace" /\ job'[p] = job[p] /\ owner'[p] = owner[p]
  BY <1>1, <1>4, <1>6, GoOnType DEF Writing
<1> QED
  BY <1>3, <1>5, <1>6

LEMMA ReplaceType ==
  ASSUME TypeInv, NEW p \in Procs, ReplaceReceipt(p), scope' = scope
  PROVE  TypeInv'
<1> DEFINE f == PhaseOf(job[p].receipt)
           n == job[p].n
<1>1. pc[p] \in Writing
  BY DEF ReplaceReceipt, Writing
<1>2. n \in 1..Len(attempts) /\ f \in AttemptPhase /\ job[p].receipt \in Documents
  BY <1>1, WritingJob
<1>3. \/ attempts' = attempts /\ Return(p, owner[p])
      \/ /\ attempts' = WithReceipt(attempts, n, f)
         /\ Return(p, [n |-> n, receipt |-> job[p].receipt])
  BY DEF ReplaceReceipt, WithReceipt
<1> HIDE DEF f, n
<1>4. attempts' \in Seq(Folders) /\ Len(attempts') = Len(attempts)
  BY <1>2, <1>3, StayFolders, Folding DEF TypeInv
<1>5. [n |-> n, receipt |-> job[p].receipt] \in Held'
  BY <1>2, <1>4 DEF Held
<1> QED
  BY <1>3, <1>4, <1>5, ReturnType, HeldStays, Folding DEF TypeInv

LEMMA FailsType ==
  ASSUME TypeInv, NEW p \in Procs, WriteFails(p), scope' = scope
  PROVE  TypeInv'
<1> DEFINE f == PhaseOf(job[p].receipt)
           n == job[p].n
<1>1. \/ attempts' = attempts
      \/ pc[p] \in Writing /\ attempts' = WithTmp(attempts, n, f, Absent)
  BY DEF WriteFails, Writing, WithTmp
<1>2. Absent \in Receipts /\ Return(p, owner[p])
  BY DEF Receipts, WriteFails
<1>3. attempts' \in Seq(Folders) /\ Len(attempts') = Len(attempts)
  BY <1>1, <1>2, WritingJob, StayFolders, Folding DEF TypeInv
<1> QED
  BY <1>2, <1>3, ReturnType, HeldStays, Folding DEF TypeInv

LEMMA ArtifactType ==
  ASSUME TypeInv, NEW p \in Procs, NEW b \in scope.bytes, WriteArtifact(p, b), scope' = scope
  PROVE  TypeInv'
<1> DEFINE n == owner[p].n
<1>1. Frame(p)
  BY StepFrame DEF StepOf, TypeInv
<1>2. b \in Bytes /\ owner[p] \in Held
  BY ConstantsOK, Folding DEF TypeInv, TypeOK, WriteArtifact
<1>3. /\ n \in 1..Len(attempts) /\ attempts' = WithFile(attempts, n, b)
      /\ pc[p] = "idle" /\ pc'[p] = "idle" /\ job'[p] = job[p] /\ owner'[p] = owner[p]
  BY <1>2 DEF WriteArtifact, WithFile, Held
<1> HIDE DEF n
<1>4. attempts' \in Seq(Folders) /\ Len(attempts') = Len(attempts)
  BY <1>2, <1>3, StayFolders, Folding DEF TypeInv
<1>5. job'[p] \in Jobs /\ owner'[p] \in {Absent} \cup Held'
  BY <1>3, <1>4, HeldStays, Folding DEF TypeInv, TypeOK, Jobs
<1> QED
  BY <1>1, <1>3, <1>4, <1>5, StepType, Folding DEF TypeInv, Busy

LEMMA CrashType ==
  ASSUME TypeInv, NEW p \in Procs, Crash(p), scope' = scope
  PROVE  TypeInv'
<1> DEFINE f == PhaseOf(job[p].receipt)
           n == job[p].n
<1>1. \/ attempts' = attempts
      \/ pc[p] \in Writing /\ attempts' = WithTmp(attempts, n, f, Torn)
  BY DEF Crash, Writing, WithTmp
<1>2. Torn \in Receipts /\ Return(p, Absent)
  BY DEF Receipts, Crash
<1>3. attempts' \in Seq(Folders) /\ Len(attempts') = Len(attempts)
  BY <1>1, <1>2, WritingJob, StayFolders, Folding DEF TypeInv
<1> QED
  BY <1>2, <1>3, ReturnType, Folding DEF TypeInv

LEMMA InitType == Init => TypeInv
<1> SUFFICES ASSUME Init PROVE TypeInv
  OBVIOUS
<1>1. attempts \in Seq(Folders) /\ Len(attempts) = 0
  BY EmptySeq DEF Init
<1>2. scope \in Scopes /\ Len(attempts) <= MaxAttempts
  BY <1>1, ConstantsOK DEF Init
<1>3. owner \in [Procs -> {Absent} \cup [n : 1..Len(attempts), receipt : Documents]]
  BY DEF Init
<1>4. pc \in [Procs -> {"idle", "mkdir", "check", "write_tmp", "replace"}]
  BY DEF Init
<1>5. job \in [Procs -> [n : 0..MaxAttempts, receipt : Documents \cup {Absent}]]
  BY ConstantsOK DEF Init, NoJob
<1>6. TypeOK
  BY <1>1, <1>2, <1>3, <1>4, <1>5 DEF TypeOK
<1> QED
  BY <1>6 DEF TypeInv, JobsOK, Init, Busy

LEMMA NextType == TypeInv /\ [Next]_vars => TypeInv'
<1> SUFFICES ASSUME TypeInv, [Next]_vars PROVE TypeInv'
  OBVIOUS
<1>1. ASSUME NEW p \in Procs, StepOf(p), scope' = scope PROVE TypeInv'
  BY <1>1, ResumeType, AllocateType, MakeType, RecordType, CheckType, WriteType,
     ReplaceType, FailsType, ArtifactType, CrashType DEF StepOf, Open
<1>2. CASE UNCHANGED vars
  BY <1>2 DEF vars, TypeInv, TypeOK, JobsOK
<1> QED
  BY <1>1, <1>2 DEF Next, StepOf

\* Every variable keeps its type, whatever overlaps, fails or dies.
THEOREM TypeCorrect == Spec => []TypeOK
<1>1. TypeInv => TypeOK
  BY DEF TypeInv
<1> QED
  BY <1>1, InitType, NextType, PTL DEF Spec

-----------------------------------------------------------------------------
(***************************************************************************)
(* What a step does to the files.                                          *)
(***************************************************************************)

JobPhase(p) == PhaseOf(job[p].receipt)

\* The attempts of the next state: the same, with a folder, a temporary file
\* or an artifact file more or less, or with a temporary file made a receipt.
FilesStep(p) ==
  \/ attempts' = attempts
  \/ /\ pc[p] = "mkdir" /\ job[p].n = Len(attempts) + 1
     /\ attempts' = Append(attempts, EmptyAttempt)
  \/ /\ pc[p] \in {"write_tmp", "replace"}
     /\ \E x \in {job[p].receipt, Absent, Torn} :
          attempts' = WithTmp(attempts, job[p].n, JobPhase(p), x)
  \/ /\ pc[p] = "replace"
     /\ attempts[job[p].n].tmp[JobPhase(p)] # Absent
     /\ attempts' = WithReceipt(attempts, job[p].n, JobPhase(p))
  \/ \E n \in 1..Len(attempts), b \in Bytes : attempts' = WithFile(attempts, n, b)

LEMMA StepFiles ==
  ASSUME TypeInv, NEW p \in Procs, StepOf(p), scope' = scope
  PROVE  FilesStep(p)
<1>1. CASE Open(p)
  BY <1>1 DEF Open, ResumeAttempt, AllocateAttempt, FilesStep
<1>2. CASE MakeAttempt(p)
  BY <1>2 DEF MakeAttempt, FilesStep
<1>3. CASE \E f \in AttemptPhase : RecordPhase(p, f)
  BY <1>3 DEF RecordPhase, FilesStep
<1>4. CASE CheckReceipt(p)
  BY <1>4 DEF CheckReceipt, FilesStep
<1>5. CASE WriteTemporary(p)
  <2>1. /\ pc[p] = "write_tmp"
        /\ \/ attempts' = WithTmp(attempts, job[p].n, JobPhase(p), job[p].receipt)
           \/ attempts' = WithTmp(attempts, job[p].n, JobPhase(p), Absent)
    BY <1>5 DEF WriteTemporary, WithTmp, JobPhase
  <2> QED
    BY <2>1 DEF FilesStep
<1>6. CASE ReplaceReceipt(p)
  <2>1. /\ pc[p] = "replace"
        /\ \/ attempts' = attempts
           \/ /\ attempts[job[p].n].tmp[JobPhase(p)] # Absent
              /\ attempts' = WithReceipt(attempts, job[p].n, JobPhase(p))
    BY <1>6 DEF ReplaceReceipt, WithReceipt, JobPhase
  <2> QED
    BY <2>1 DEF FilesStep
<1>7. CASE WriteFails(p)
  <2>1. \/ attempts' = attempts
        \/ /\ pc[p] \in {"write_tmp", "replace"}
           /\ attempts' = WithTmp(attempts, job[p].n, JobPhase(p), Absent)
    BY <1>7 DEF WriteFails, WithTmp, JobPhase
  <2> QED
    BY <2>1 DEF FilesStep
<1>8. CASE \E b \in scope.bytes : WriteArtifact(p, b)
  <2>1. PICK b \in scope.bytes : WriteArtifact(p, b)
    BY <1>8
  <2>2. b \in Bytes /\ owner[p] \in Held
    BY <2>1, ConstantsOK, Folding DEF TypeInv, TypeOK, WriteArtifact
  <2>3. owner[p].n \in 1..Len(attempts) /\ attempts' = WithFile(attempts, owner[p].n, b)
    BY <2>1, <2>2 DEF WriteArtifact, WithFile, Held
  <2> QED
    BY <2>2, <2>3 DEF FilesStep
<1>9. CASE Crash(p)
  <2>1. \/ attempts' = attempts
        \/ /\ pc[p] = "write_tmp"
           /\ attempts' = WithTmp(attempts, job[p].n, JobPhase(p), Torn)
    BY <1>9 DEF Crash, WithTmp, JobPhase
  <2> QED
    BY <2>1 DEF FilesStep
<1> QED
  BY <1>1, <1>2, <1>3, <1>4, <1>5, <1>6, <1>7, <1>8, <1>9 DEF StepOf

\* Whether folder n has its receipts unchanged, or its helper's temporary file
\* became one; and the same of the temporary files.
ReceiptsStep(p, n) ==
  \/ attempts'[n].receipt = attempts[n].receipt
  \/ /\ pc[p] = "replace" /\ n = job[p].n
     /\ attempts[n].tmp[JobPhase(p)] # Absent
     /\ attempts'[n].receipt =
          [attempts[n].receipt EXCEPT ![JobPhase(p)] = attempts[n].tmp[JobPhase(p)]]
TmpStep(p, n) ==
  \/ attempts'[n].tmp = attempts[n].tmp
  \/ /\ pc[p] \in {"write_tmp", "replace"} /\ n = job[p].n
     /\ \E x \in {job[p].receipt, Absent, Torn} :
          attempts'[n].tmp = [attempts[n].tmp EXCEPT ![JobPhase(p)] = x]

LEMMA FolderStep ==
  ASSUME TypeInv, NEW p \in Procs, FilesStep(p), NEW n \in 1..Len(attempts)
  PROVE  ReceiptsStep(p, n) /\ TmpStep(p, n)
<1> DEFINE k == job[p].n
           f == JobPhase(p)
<1>0. attempts \in Seq(Folders)
  BY Folding DEF TypeInv
<1>1. pc[p] \in Writing => k \in 1..Len(attempts) /\ f \in AttemptPhase
                           /\ {job[p].receipt, Absent, Torn} \subseteq Receipts
  BY WritingJob DEF JobPhase, Receipts
<1>2. CASE attempts' = attempts
  BY <1>2 DEF ReceiptsStep, TmpStep
<1>3. CASE attempts' = Append(attempts, EmptyAttempt)
  <2>1. attempts'[n] = attempts[n]
    BY <1>0, <1>3, AddFolder
  <2> QED
    BY <2>1 DEF ReceiptsStep, TmpStep
<1>4. CASE /\ pc[p] \in {"write_tmp", "replace"}
           /\ \E x \in {job[p].receipt, Absent, Torn} : attempts' = WithTmp(attempts, k, f, x)
  <2>1. PICK x \in {job[p].receipt, Absent, Torn} : attempts' = WithTmp(attempts, k, f, x)
    BY <1>4
  <2>2. k \in 1..Len(attempts) /\ f \in AttemptPhase /\ x \in Receipts
    BY <1>1, <1>4, <2>1 DEF Writing
  <2> HIDE DEF k, f
  <2>3. /\ attempts'[n].receipt = attempts[n].receipt
        /\ n # k => attempts'[n].tmp = attempts[n].tmp
        /\ attempts'[k].tmp = [attempts[k].tmp EXCEPT ![f] = x]
    BY <1>0, <2>1, <2>2, SetTmp
  <2>4. CASE n = k
    BY <1>4, <2>3, <2>4 DEF ReceiptsStep, TmpStep, k, f
  <2> QED
    BY <2>3, <2>4 DEF ReceiptsStep, TmpStep
<1>5. CASE /\ pc[p] = "replace"
           /\ attempts[k].tmp[f] # Absent
           /\ attempts' = WithReceipt(attempts, k, f)
  <2>1. k \in 1..Len(attempts) /\ f \in AttemptPhase
    BY <1>1, <1>5 DEF Writing
  <2>4. attempts' = WithReceipt(attempts, k, f)
    BY <1>5
  <2> HIDE DEF k, f
  <2>5. Replaced(attempts, attempts', k, f)
    BY <1>0, <2>1, <2>4, SetReceipt
  <2>2. /\ n # k => attempts'[n] = attempts[n]
        /\ attempts'[k].receipt = [attempts[k].receipt EXCEPT ![f] = attempts[k].tmp[f]]
        /\ attempts'[k].tmp = [attempts[k].tmp EXCEPT ![f] = Absent]
    BY <2>5 DEF Replaced
  <2>3. CASE n = k
    BY <1>5, <2>2, <2>3 DEF ReceiptsStep, TmpStep, k, f
  <2> QED
    BY <2>2, <2>3 DEF ReceiptsStep, TmpStep
<1>6. CASE \E m \in 1..Len(attempts), b \in Bytes : attempts' = WithFile(attempts, m, b)
  <2>1. attempts'[n].receipt = attempts[n].receipt /\ attempts'[n].tmp = attempts[n].tmp
    BY <1>0, <1>6, SetFile
  <2> QED
    BY <2>1 DEF ReceiptsStep, TmpStep
<1> QED
  BY <1>2, <1>3, <1>4, <1>5, <1>6 DEF FilesStep

\* The number of folders: a new one is empty, and made by its helper.
LEMMA GrowthStep ==
  ASSUME TypeInv, NEW p \in Procs, FilesStep(p)
  PROVE  \/ Len(attempts') = Len(attempts)
         \/ /\ Len(attempts') = Len(attempts) + 1
            /\ pc[p] = "mkdir" /\ job[p].n = Len(attempts')
            /\ attempts'[Len(attempts')] = EmptyAttempt
<1> DEFINE k == job[p].n
           f == JobPhase(p)
<1>0. attempts \in Seq(Folders)
  BY Folding DEF TypeInv
<1>1. pc[p] \in Writing => k \in 1..Len(attempts) /\ f \in AttemptPhase
                           /\ {job[p].receipt, Absent, Torn} \subseteq Receipts
  BY WritingJob DEF JobPhase, Receipts
<1>2. CASE pc[p] = "mkdir" /\ k = Len(attempts) + 1 /\ attempts' = Append(attempts, EmptyAttempt)
  BY <1>0, <1>2, AddFolder
<1>3. CASE /\ pc[p] \in {"write_tmp", "replace"}
           /\ \E x \in {job[p].receipt, Absent, Torn} : attempts' = WithTmp(attempts, k, f, x)
  <2> HIDE DEF k, f
  <2> QED
    BY <1>0, <1>1, <1>3, StayFolders DEF Writing
<1>4. CASE pc[p] = "replace" /\ attempts' = WithReceipt(attempts, k, f)
  <2> HIDE DEF k, f
  <2> QED
    BY <1>0, <1>1, <1>4, StayFolders DEF Writing
<1>5. CASE \E m \in 1..Len(attempts), b \in Bytes : attempts' = WithFile(attempts, m, b)
  BY <1>0, <1>5, StayFolders
<1> QED
  BY <1>2, <1>3, <1>4, <1>5 DEF FilesStep

\* A file that is there stays there: the recorded phases only grow.
LEMMA RecordedGrows ==
  ASSUME TypeInv, NEW p \in Procs, FilesStep(p), NEW n \in 1..Len(attempts)
  PROVE  Recorded(n) \subseteq Recorded(n)'
<1>1. ReceiptsStep(p, n)
  BY FolderStep
<1>2. attempts[n].receipt \in [AttemptPhase -> Receipts]
  <2>1. attempts[n] \in Folders
    BY ElementOfSeq, Folding DEF TypeInv
  <2> QED
    BY <2>1 DEF Folders
<1> QED
  BY <1>1, <1>2 DEF ReceiptsStep, Recorded

\* What a step does to the receipt its helper is writing.
JobStep(p) ==
  \/ pc'[p] = "idle"
  \/ /\ pc[p] = "check" /\ pc'[p] = "write_tmp" /\ job'[p] = job[p]
     /\ attempts' = attempts
  \/ /\ pc[p] = "write_tmp" /\ pc'[p] = "replace" /\ job'[p] = job[p]
     /\ attempts' = WithTmp(attempts, job[p].n, JobPhase(p), job[p].receipt)
  \/ /\ pc[p] = "mkdir" /\ pc'[p] = "check" /\ job'[p] = job[p]
     /\ Len(attempts') = Len(attempts) + 1 /\ job[p].n = Len(attempts')
  \/ /\ \E input \in Inputs : AllocateAttempt(p, input)
     /\ pc'[p] = "mkdir" /\ job'[p].n = Len(attempts) + 1
     /\ job'[p].receipt.chain = <<Entry(CREATED, Absent)>>
     /\ attempts' = attempts
  \/ \E f \in AttemptPhase : RecordPhase(p, f)

LEMMA StepJob ==
  ASSUME TypeInv, NEW p \in Procs, StepOf(p), scope' = scope
  PROVE  JobStep(p)
<1>0. pc \in [Procs -> {"idle", "mkdir", "check", "write_tmp", "replace"}] /\ p \in DOMAIN job
  BY DEF TypeInv, TypeOK
<1>1. ASSUME NEW held, Return(p, held) PROVE JobStep(p)
  BY <1>0, <1>1 DEF Return, JobStep
<1>2. CASE Open(p)
  <2>1. PICK input \in scope.inputs : ResumeAttempt(p, input) \/ AllocateAttempt(p, input)
    BY <1>2 DEF Open
  <2>2. CASE ResumeAttempt(p, input)
    BY <1>1, <2>2 DEF ResumeAttempt
  <2>3. CASE AllocateAttempt(p, input)
    <3>1. input \in Inputs
      BY ConstantsOK DEF TypeInv, TypeOK
    <3> DEFINE r == Document(input, <<Entry(CREATED, Absent)>>)
    <3>2. r.chain = <<Entry(CREATED, Absent)>>
      BY <3>1, FirstReceiptType
    <3> HIDE DEF r
    <3>3. pc'[p] = "mkdir" /\ job'[p] = [n |-> Len(attempts) + 1, receipt |-> r]
          /\ attempts' = attempts
      BY <1>0, <2>3 DEF AllocateAttempt, r
    <3> QED
      BY <2>3, <3>1, <3>2, <3>3 DEF JobStep
  <2> QED
    BY <2>1, <2>2, <2>3
<1>3. CASE MakeAttempt(p)
  <2>1. CASE job[p].n = Len(attempts) + 1
    <3>1. /\ pc[p] = "mkdir" /\ attempts' = Append(attempts, EmptyAttempt)
          /\ pc'[p] = "check" /\ job'[p] = job[p]
      BY <1>0, <1>3, <2>1 DEF MakeAttempt
    <3>2. Len(attempts') = Len(attempts) + 1
      BY <3>1, AddFolder, Folding DEF TypeInv
    <3> QED
      BY <2>1, <3>1, <3>2 DEF JobStep
  <2> QED
    BY <1>1, <1>3, <2>1 DEF MakeAttempt
<1>4. CASE \E f \in AttemptPhase : RecordPhase(p, f)
  BY <1>4 DEF JobStep
<1>5. CASE CheckReceipt(p)
  <2>1. CASE pc' = [pc EXCEPT ![p] = "write_tmp"] /\ UNCHANGED <<owner, job>>
    BY <1>0, <1>5, <2>1 DEF CheckReceipt, JobStep, Writing
  <2> QED
    BY <1>1, <1>5, <2>1 DEF CheckReceipt
<1>6. CASE WriteTemporary(p)
  <2>1. CASE /\ attempts' = WithTmp(attempts, job[p].n, JobPhase(p), job[p].receipt)
             /\ pc' = [pc EXCEPT ![p] = "replace"] /\ UNCHANGED <<owner, job>>
    BY <1>0, <1>6, <2>1 DEF WriteTemporary, JobStep
  <2>2. CASE Return(p, owner[p])
    BY <1>1, <2>2
  <2> QED
    BY <1>6, <2>1, <2>2 DEF WriteTemporary, WithTmp, JobPhase
<1>7. CASE ReplaceReceipt(p)
  BY <1>1, <1>7 DEF ReplaceReceipt
<1>8. CASE WriteFails(p)
  BY <1>1, <1>8 DEF WriteFails
<1>9. CASE \E b \in scope.bytes : WriteArtifact(p, b)
  BY <1>9 DEF WriteArtifact, JobStep
<1>10. CASE Crash(p)
  BY <1>1, <1>10 DEF Crash
<1> QED
  BY <1>2, <1>3, <1>4, <1>5, <1>6, <1>7, <1>8, <1>9, <1>10 DEF StepOf

-----------------------------------------------------------------------------
(***************************************************************************)
(* A new attempt is begun only once the one before has failed.             *)
(***************************************************************************)

\* A helper about to make a folder saw the one before it fail, if there is one;
\* the receipt of that failure is never removed.
Superseding ==
  \A p \in Procs : pc[p] = "mkdir" => job[p].n = 1 \/ FAILED \in Recorded(job[p].n - 1)

SupersededInv == SupersededFailed /\ Superseding

LEMMA SupersededStep ==
  ASSUME TypeInv, SupersededInv, NEW p \in Procs, StepOf(p), scope' = scope
  PROVE  SupersededInv'
<1> DEFINE len == Len(attempts)
<1>1. FilesStep(p) /\ Frame(p) /\ JobStep(p)
  BY StepFiles, StepFrame, StepJob DEF TypeInv
<1>2. len \in Nat
  BY Folding DEF TypeInv
<1>3. \A n \in 1..len : FAILED \in Recorded(n) => attempts'[n].receipt[FAILED] # Absent
  BY <1>1, RecordedGrows DEF Recorded
<1>4. SupersededFailed'
  <2>1. CASE Len(attempts') = len
    BY <1>2, <1>3, <2>1, PhaseNumbers DEF SupersededInv, SupersededFailed, Recorded
  <2>2. CASE Len(attempts') = len + 1 /\ pc[p] = "mkdir" /\ job[p].n = Len(attempts')
    <3>1. len \in 1..len => FAILED \in Recorded(len)
      BY <1>2, <2>2 DEF SupersededInv, Superseding
    <3> QED
      BY <1>2, <1>3, <2>2, <3>1, PhaseNumbers DEF SupersededInv, SupersededFailed, Recorded
  <2> QED
    BY <1>1, <2>1, <2>2, GrowthStep
<1>5. Superseding'
  <2> SUFFICES ASSUME NEW q \in Procs, pc'[q] = "mkdir", job'[q].n # 1
               PROVE  attempts'[job'[q].n - 1].receipt[FAILED] # Absent
    BY PhaseNumbers DEF Superseding, Recorded
  <2>1. CASE q # p
    <3>1. pc[q] = "mkdir" /\ job'[q] = job[q]
      BY <1>1, <2>1 DEF Frame, TypeInv, TypeOK
    <3>2. job[q].n - 1 \in 1..len /\ FAILED \in Recorded(job[q].n - 1)
      BY <1>2, <3>1, ConstantsOK DEF SupersededInv, Superseding, TypeInv, JobsOK, Busy
    <3> QED
      BY <1>3, <3>1, <3>2
  <2>2. CASE q = p /\ \E input \in Inputs : AllocateAttempt(p, input)
    <3>1. job'[p].n = len + 1 /\ attempts' = attempts
      BY <2>2 DEF AllocateAttempt, TypeInv, TypeOK
    <3>2. len \in 1..len /\ Loads(len) /\ LastPhase(len) = FAILED
      BY <1>2, <2>2, <3>1 DEF AllocateAttempt
    <3>3. FAILED \in Recorded(len)
      BY <3>2, LastPhaseRecorded DEF Loads
    <3> QED
      BY <1>2, <1>3, <2>2, <3>1, <3>2, <3>3
  <2>3. CASE q = p /\ \E f \in AttemptPhase : RecordPhase(p, f)
    BY <2>3 DEF RecordPhase, TypeInv, TypeOK
  <2>4. pc'[p] = "mkdir" => \/ \E input \in Inputs : AllocateAttempt(p, input)
                            \/ \E f \in AttemptPhase : RecordPhase(p, f)
    BY <1>1 DEF JobStep, Writing
  <2> QED
    BY <2>1, <2>2, <2>3, <2>4
<1> QED
  BY <1>4, <1>5 DEF SupersededInv

LEMMA InitSuperseded == Init => SupersededInv
  BY DEF Init, SupersededInv, SupersededFailed, Superseding

LEMMA NextSuperseded == TypeInv /\ SupersededInv /\ [Next]_vars => SupersededInv'
<1> SUFFICES ASSUME TypeInv, SupersededInv, [Next]_vars PROVE SupersededInv'
  OBVIOUS
<1>1. CASE UNCHANGED vars
  BY <1>1 DEF vars, SupersededInv, SupersededFailed, Superseding, Recorded
<1> QED
  BY <1>1, SupersededStep DEF Next, StepOf

\* A new attempt is only begun once the one before has failed, whatever
\* overlaps or dies.  (open_transaction_attempt)
THEOREM SupersedesOnlyFailed == Spec => []SupersededFailed
<1>1. SupersededInv => SupersededFailed
  BY DEF SupersededInv
<1> QED
  BY <1>1, InitSuperseded, NextSuperseded, InitType, NextType, PTL DEF Spec

-----------------------------------------------------------------------------
(***************************************************************************)
(* An attempt is bound to one input.                                       *)
(***************************************************************************)

\* What a step does to the attempt its helper holds.
HeldStep(p) ==
  \/ owner'[p] \in {owner[p], Absent}
  \/ pc[p] = "replace" /\ owner'[p] = [n |-> job[p].n, receipt |-> job[p].receipt]
  \/ /\ Len(attempts) \in 1..Len(attempts) /\ Loads(Len(attempts))
     /\ owner'[p] = [n |-> Len(attempts), receipt |-> LastReceipt(Len(attempts))]

LEMMA StepHeld ==
  ASSUME TypeInv, NEW p \in Procs, StepOf(p), scope' = scope
  PROVE  HeldStep(p)
<1>0. p \in DOMAIN owner
  BY DEF TypeInv, TypeOK
<1>1. ASSUME NEW held, Return(p, held) PROVE owner'[p] = held
  BY <1>0, <1>1 DEF Return
<1>2. CASE Open(p)
  <2>1. PICK input \in scope.inputs : ResumeAttempt(p, input) \/ AllocateAttempt(p, input)
    BY <1>2 DEF Open
  <2>2. CASE ResumeAttempt(p, input)
    <3>1. owner'[p] = [n |-> Len(attempts), receipt |-> LastReceipt(Len(attempts))]
      BY <1>1, <2>2 DEF ResumeAttempt
    <3>2. Len(attempts) \in 1..Len(attempts) /\ Loads(Len(attempts))
      BY <2>2, Folding DEF ResumeAttempt, TypeInv
    <3> QED
      BY <3>1, <3>2 DEF HeldStep
  <2> QED
    BY <2>1, <2>2 DEF AllocateAttempt, HeldStep
<1>3. CASE MakeAttempt(p)
  BY <1>1, <1>3 DEF MakeAttempt, HeldStep
<1>4. CASE \E f \in AttemptPhase : RecordPhase(p, f)
  BY <1>4 DEF RecordPhase, HeldStep
<1>5. CASE CheckReceipt(p)
  BY <1>1, <1>5 DEF CheckReceipt, HeldStep
<1>6. CASE WriteTemporary(p)
  <2>1. owner' = owner \/ Return(p, owner[p])
    BY <1>6 DEF WriteTemporary
  <2> QED
    BY <1>1, <2>1 DEF HeldStep
<1>7. CASE ReplaceReceipt(p)
  <2>1. pc[p] = "replace" /\ (Return(p, owner[p])
                              \/ Return(p, [n |-> job[p].n, receipt |-> job[p].receipt]))
    BY <1>7 DEF ReplaceReceipt
  <2> QED
    BY <1>1, <2>1 DEF HeldStep
<1>8. CASE WriteFails(p)
  BY <1>1, <1>8 DEF WriteFails, HeldStep
<1>9. CASE \E b \in scope.bytes : WriteArtifact(p, b)
  BY <1>9 DEF WriteArtifact, HeldStep
<1>10. CASE Crash(p)
  BY <1>1, <1>10 DEF Crash, HeldStep
<1> QED
  BY <1>2, <1>3, <1>4, <1>5, <1>6, <1>7, <1>8, <1>9, <1>10 DEF StepOf

\* Everything about attempt n that names an input names input i: its receipts
\* and temporary files, what helpers write into it and what they hold of it.
FilesBound(n, i) ==
  \A f \in AttemptPhase :
    /\ attempts[n].receipt[f] \in Documents => attempts[n].receipt[f].input = i
    /\ attempts[n].tmp[f] \in Documents => attempts[n].tmp[f].input = i
JobBound(p, n, i) ==
  pc[p] \in Writing /\ job[p].n = n => job[p].receipt.input = i
HeldBound(p, n, i) ==
  owner[p] # Absent /\ owner[p].n = n => owner[p].receipt.input = i

Bound(n, i) == FilesBound(n, i) /\ \A p \in Procs : JobBound(p, n, i) /\ HeldBound(p, n, i)

InputInv == \A n \in 1..Len(attempts) : \E i \in Inputs : Bound(n, i)

LEMMA BoundStays ==
  ASSUME TypeInv, NEW p \in Procs, StepOf(p), scope' = scope,
         NEW n \in 1..Len(attempts), NEW i \in Inputs, Bound(n, i)
  PROVE  Bound(n, i)'
<1>1. FilesStep(p) /\ Frame(p) /\ JobStep(p) /\ HeldStep(p)
  BY StepFiles, StepFrame, StepJob, StepHeld DEF TypeInv
<1>2. FilesBound(n, i)'
  <2> SUFFICES ASSUME NEW f \in AttemptPhase
               PROVE  /\ attempts'[n].receipt[f] \in Documents => attempts'[n].receipt[f].input = i
                      /\ attempts'[n].tmp[f] \in Documents => attempts'[n].tmp[f].input = i
    BY DEF FilesBound
  <2>1. /\ attempts[n].receipt \in [AttemptPhase -> Receipts]
        /\ attempts[n].tmp \in [AttemptPhase -> Receipts]
    <3>1. attempts[n] \in Folders
      BY ElementOfSeq, Folding DEF TypeInv
    <3> QED
      BY <3>1 DEF Folders
  <2>2. ReceiptsStep(p, n) /\ TmpStep(p, n)
    BY <1>1, FolderStep
  <2>3. attempts'[n].receipt[f] \in {attempts[n].receipt[f], attempts[n].tmp[f]}
    BY <2>1, <2>2 DEF ReceiptsStep
  <2>4. \/ attempts'[n].tmp[f] \in {attempts[n].tmp[f], Absent, Torn}
        \/ pc[p] \in Writing /\ n = job[p].n /\ attempts'[n].tmp[f] = job[p].receipt
    BY <2>1, <2>2 DEF TmpStep, Writing
  <2>5. Absent \notin Documents /\ Torn \notin Documents
    BY ConstantsOK
  <2> QED
    BY <2>3, <2>4, <2>5 DEF Bound, FilesBound, JobBound
<1>3. ASSUME NEW q \in Procs PROVE JobBound(q, n, i)'
  <2>0. JobBound(q, n, i)
    BY DEF Bound
  <2>1. CASE q # p
    <3>1. pc'[q] = pc[q] /\ job'[q] = job[q]
      BY <1>1, <2>1 DEF Frame, TypeInv, TypeOK
    <3> QED
      BY <2>0, <3>1 DEF JobBound
  <2>2. CASE q = p /\ pc'[p] \notin Writing
    BY <2>2 DEF JobBound
  <2>3. CASE q = p /\ pc[p] \in Writing /\ job'[p] = job[p]
    BY <2>0, <2>3 DEF JobBound
  <2>4. CASE q = p /\ job'[p] = job[p] /\ job[p].n = Len(attempts) + 1
    BY <2>4, Folding DEF JobBound, TypeInv
  <2>5. CASE q = p /\ \E f \in AttemptPhase : RecordPhase(p, f)
    <3>1. PICK f \in AttemptPhase : RecordPhase(p, f)
      BY <2>5
    <3>2. job'[p].n = owner[p].n /\ job'[p].receipt.input = owner[p].receipt.input
      <4>1. /\ job'[p].n = owner[p].n
            /\ \E chain : job'[p].receipt = Document(owner[p].receipt.input, chain)
        BY <3>1, RecordEffect
      <4> QED
        BY <4>1 DEF Document
    <3>3. owner[p] # Absent
      BY <3>1 DEF RecordPhase
    <3> QED
      BY <2>5, <3>2, <3>3 DEF Bound, HeldBound, JobBound
  <2>6. \/ pc'[p] \notin Writing
        \/ pc[p] \in Writing /\ job'[p] = job[p]
        \/ job'[p] = job[p] /\ job[p].n = Len(attempts) + 1
        \/ \E f \in AttemptPhase : RecordPhase(p, f)
    BY <1>1 DEF JobStep, Writing
  <2> QED
    BY <2>1, <2>2, <2>3, <2>4, <2>5, <2>6
<1>4. ASSUME NEW q \in Procs PROVE HeldBound(q, n, i)'
  <2>0. HeldBound(q, n, i) /\ JobBound(p, n, i)
    BY DEF Bound
  <2>1. CASE q # p \/ owner'[p] = owner[p]
    <3>1. owner'[q] = owner[q]
      BY <1>1, <2>1 DEF Frame, TypeInv, TypeOK
    <3> QED
      BY <2>0, <3>1 DEF HeldBound
  <2>2. CASE q = p /\ owner'[p] = Absent
    BY <2>2 DEF HeldBound
  <2>3. CASE q = p /\ pc[p] = "replace"
             /\ owner'[p] = [n |-> job[p].n, receipt |-> job[p].receipt]
    BY <2>0, <2>3 DEF HeldBound, JobBound, Writing
  <2>4. CASE /\ q = p /\ n = Len(attempts) /\ Loads(n)
             /\ owner'[p] = [n |-> n, receipt |-> LastReceipt(n)]
    <3>1. LastReceipt(n) \in Documents /\ LastPhase(n) \in AttemptPhase
      BY <2>4, LastReceiptType, LastPhaseRecorded DEF TypeInv, Loads, Recorded
    <3>2. LastReceipt(n).input = i
      BY <3>1 DEF Bound, FilesBound, LastReceipt
    <3> QED
      BY <2>4, <3>2 DEF HeldBound
  <2>5. CASE n # Len(attempts) /\ owner'[p].n = Len(attempts) /\ q = p
    BY <2>5 DEF HeldBound
  <2> QED
    BY <1>1, <2>1, <2>2, <2>3, <2>4, <2>5 DEF HeldStep
<1> QED
  BY <1>2, <1>3, <1>4 DEF Bound

LEMMA InputStep ==
  ASSUME TypeInv, TypeInv', InputInv, NEW p \in Procs, StepOf(p), scope' = scope
  PROVE  InputInv'
<1> DEFINE len == Len(attempts)
<1>1. FilesStep(p) /\ Frame(p) /\ JobStep(p) /\ HeldStep(p) /\ len \in Nat
  BY StepFiles, StepFrame, StepJob, StepHeld, Folding DEF TypeInv
<1> SUFFICES ASSUME NEW n \in 1..Len(attempts') PROVE \E i \in Inputs : Bound(n, i)'
  BY DEF InputInv
<1>2. CASE n \in 1..len
  <2>1. PICK i \in Inputs : Bound(n, i)
    BY <1>2 DEF InputInv
  <2> QED
    BY <1>2, <2>1, BoundStays
<1>3. CASE n \notin 1..len
  <2>1. /\ n = len + 1 /\ pc[p] = "mkdir" /\ job[p].n = n
        /\ attempts'[n] = EmptyAttempt
    BY <1>1, <1>3, GrowthStep
  <2>2. job[p].receipt \in Documents
    BY <2>1 DEF TypeInv, JobsOK, Busy
  <2>3. PICK i \in Inputs : i = job[p].receipt.input
    BY <2>2 DEF Documents
  <2> HIDE DEF len
  <2>4. FilesBound(n, i)'
    BY <2>1, ConstantsOK DEF FilesBound, EmptyAttempt
  <2>5. ASSUME NEW q \in Procs PROVE JobBound(q, n, i)'
    <3>1. CASE q = p
      <4>1. pc'[p] \in Writing => job'[p] = job[p]
        BY <1>1, <2>1 DEF JobStep, Writing, AllocateAttempt, RecordPhase
      <4> QED
        BY <2>3, <3>1, <4>1 DEF JobBound
    <3>2. CASE q # p
      <4>1. pc'[q] = pc[q] /\ job'[q] = job[q]
        BY <1>1, <3>2 DEF Frame, TypeInv, TypeOK
      <4>2. pc[q] \in Writing => job[q].n # n
        BY <1>1, <2>1, WritingJob DEF len
      <4> QED
        BY <4>1, <4>2 DEF JobBound
    <3> QED
      BY <3>1, <3>2
  <2>6. ASSUME NEW q \in Procs PROVE HeldBound(q, n, i)'
    <3>1. owner[q] # Absent => owner[q].n # n
      BY <1>1, <2>1, Folding DEF TypeInv, Held, len
    <3>2. CASE q = p
      <4>1. owner'[p] \in {owner[p], Absent} \/ owner'[p].n = len
        BY <1>1, <2>1 DEF HeldStep, len
      <4> QED
        BY <1>1, <2>1, <3>1, <3>2, <4>1 DEF HeldBound
    <3>3. CASE q # p
      <4>1. owner'[q] = owner[q]
        BY <1>1, <3>3 DEF Frame, TypeInv, TypeOK
      <4> QED
        BY <3>1, <4>1 DEF HeldBound
    <3> QED
      BY <3>2, <3>3
  <2> QED
    BY <2>4, <2>5, <2>6 DEF Bound
<1> QED
  BY <1>2, <1>3

\* All receipts of an attempt are bound to one input: the exclusive mkdir gives
\* an attempt one creator.
THEOREM BoundToOneInput == Spec => []OneInput
<1>1. Init => InputInv
  BY DEF Init, InputInv
<1>2. TypeInv /\ InputInv /\ TypeInv' /\ [Next]_vars => InputInv'
  <2> SUFFICES ASSUME TypeInv, TypeInv', InputInv, [Next]_vars PROVE InputInv'
    OBVIOUS
  <2>1. CASE UNCHANGED vars
    BY <2>1 DEF vars, InputInv, Bound, FilesBound, JobBound, HeldBound
  <2> QED
    BY <2>1, InputStep DEF Next, StepOf
<1>3. TypeInv /\ InputInv => OneInput
  <2> SUFFICES ASSUME TypeInv, InputInv, NEW n \in 1..Len(attempts),
                      NEW f \in Recorded(n), NEW g \in Recorded(n),
                      attempts[n].receipt[f] # Torn, attempts[n].receipt[g] # Torn
               PROVE  attempts[n].receipt[f].input = attempts[n].receipt[g].input
    BY DEF OneInput
  <2>1. attempts[n] \in Folders
    BY ElementOfSeq, Folding DEF TypeInv
  <2>2. attempts[n].receipt \in [AttemptPhase -> Receipts]
    BY <2>1 DEF Folders
  <2>3. attempts[n].receipt[f] \in Documents /\ attempts[n].receipt[g] \in Documents
    BY <2>2 DEF Recorded, Receipts
  <2> QED
    BY <2>3 DEF InputInv, Bound, FilesBound, Recorded
<1> QED
  BY <1>1, <1>2, <1>3, InitType, NextType, PTL DEF Spec

-----------------------------------------------------------------------------
(***************************************************************************)
(* The chain of digests, when helpers take turns.                          *)
(***************************************************************************)

Entries == [phase : AttemptPhase, artifact : Bytes \cup {Absent}]

\* A chain begins with CREATED, goes to later phases and ends at a terminal one.
Steady(chain) ==
  /\ chain # <<>> /\ chain[1] = Entry(CREATED, Absent)
  /\ \A i, j \in 1..Len(chain) : i < j => chain[i].phase < chain[j].phase
  /\ \A i \in 1..Len(chain) : chain[i].phase \in Terminal => i = Len(chain)

\* The receipts of a folder are those of the phases of r, up to r itself.
Present(files) == {f \in AttemptPhase : files[f] # Absent}
Chained(files, r) ==
  /\ Steady(r.chain)
  /\ Present(files) = {r.chain[i].phase : i \in 1..Len(r.chain)}
  /\ \A i \in 1..Len(r.chain) :
       files[r.chain[i].phase] = Document(r.input, SubSeq(r.chain, 1, i))

\* As many phases as entries.
LEMMA PhaseCount ==
  ASSUME NEW chain \in Seq(Entries), Steady(chain), NEW k \in 0..Len(chain)
  PROVE  Cardinality({chain[i].phase : i \in 1..k}) = k
<1> DEFINE S == {chain[i].phase : i \in 1..k}
           f == [i \in 1..k |-> chain[i].phase]
<1>1. \A i \in 1..Len(chain) : chain[i] \in Entries
  BY ElementOfSeq
<1>0. Len(chain) \in Nat /\ k \in Nat /\ \A i \in 1..k : i \in 1..Len(chain)
  BY LenProperties
<1>2. \A i \in 1..k : chain[i].phase \in Nat
  <2> TAKE i \in 1..k
  <2>1. chain[i].phase \in AttemptPhase
    BY <1>0, <1>1 DEF Entries
  <2> QED
    BY <2>1, PhaseNumbers
<1>3. f \in Bijection(1..k, S)
  <2>1. f \in [1..k -> S]
    OBVIOUS
  <2>2. \A i, j \in 1..k : i # j => f[i] # f[j]
    <3> SUFFICES ASSUME NEW i \in 1..k, NEW j \in 1..k, i < j PROVE f[i] # f[j]
      OBVIOUS
    <3>1. chain[i].phase < chain[j].phase
      BY <1>0 DEF Steady
    <3> QED
      BY <1>2, <3>1
  <2>3. \A x \in S : \E i \in 1..k : f[i] = x
    OBVIOUS
  <2> HIDE DEF f, S
  <2> QED
    BY <2>1, <2>2, <2>3, Fun_IsBij
<1>4. k \in Nat /\ ExistsBijection(1..k, S)
  <2> HIDE DEF f, S
  <2> QED
    BY <1>0, <1>3 DEF ExistsBijection
<1> HIDE DEF S
<1> QED
  BY <1>4, FS_CountingElements DEF S

\* The entries of a receipt.
LEMMA ChainType ==
  ASSUME NEW r \in Documents, Steady(r.chain)
  PROVE  /\ r.chain \in Seq(Entries) /\ r.input \in Inputs
         /\ Len(r.chain) \in Nat /\ Len(r.chain) >= 1
         /\ \A i \in 1..Len(r.chain) : r.chain[i] \in Entries /\ r.chain[i].phase \in AttemptPhase
         /\ PhaseOf(r) = r.chain[Len(r.chain)].phase
         /\ \A i \in 1..Len(r.chain) : r.chain[i].phase <= PhaseOf(r)
         /\ r = Document(r.input, r.chain)
<1>1. r.chain \in Seq(Entries) /\ r.input \in Inputs
  BY DEF Documents, Entries
<1>2. Len(r.chain) \in Nat /\ Len(r.chain) >= 1
  BY <1>1, EmptySeq, LenProperties DEF Steady
<1>3. \A i \in 1..Len(r.chain) : r.chain[i] \in Entries
  BY <1>1, ElementOfSeq
<1>4. \A i \in 1..Len(r.chain) : r.chain[i].phase \in AttemptPhase
  BY <1>3 DEF Entries
<1>5. \A i \in 1..Len(r.chain) : r.chain[i].phase <= r.chain[Len(r.chain)].phase
  <2> SUFFICES ASSUME NEW i \in 1..Len(r.chain)
               PROVE  r.chain[i].phase <= r.chain[Len(r.chain)].phase
    OBVIOUS
  <2>1. r.chain[i].phase \in Nat
    BY <1>4, PhaseNumbers
  <2>4. Len(r.chain) \in 1..Len(r.chain)
    BY <1>2
  <2>2. r.chain[Len(r.chain)].phase \in Nat
    BY <1>4, <2>4, PhaseNumbers
  <2>3. i = Len(r.chain) \/ i < Len(r.chain)
    BY <1>2
  <2> QED
    BY <2>1, <2>2, <2>3 DEF Steady
<1>6. r = Document(r.input, r.chain)
  BY DEF Document, Documents
<1> QED
  BY <1>1, <1>2, <1>3, <1>4, <1>5, <1>6 DEF PhaseOf

\* The first receipts of a chain are receipts.
LEMMA Beginning ==
  ASSUME NEW r \in Documents, Steady(r.chain), NEW k \in 1..Len(r.chain)
  PROVE  /\ Document(r.input, SubSeq(r.chain, 1, k)) \in Documents
         /\ Document(r.input, SubSeq(r.chain, 1, k)).chain = SubSeq(r.chain, 1, k)
         /\ Len(SubSeq(r.chain, 1, k)) = k
         /\ \A i \in 1..k : SubSeq(r.chain, 1, k)[i] = r.chain[i]
<1> DEFINE c == SubSeq(r.chain, 1, k)
<1>1. k \in Int /\ 1 \in Int /\ 1 <= k /\ \A i \in 1..k : r.chain[i] \in Entries
  BY ChainType
<1>2. c \in Seq(Entries) /\ Len(c) = k - 1 + 1 /\ \A i \in 1..(k - 1 + 1) : c[i] = r.chain[1 + i - 1]
  BY <1>1, SubSeqProperties
<1>3. Len(c) = k /\ \A i \in 1..k : c[i] = r.chain[i]
  BY <1>1, <1>2
<1>4. r.input \in Inputs
  BY ChainType
<1> HIDE DEF c
<1>5. Document(r.input, c) \in Documents /\ Document(r.input, c).chain = c
  BY <1>2, <1>4 DEF Document, Documents, Entries
<1> QED
  BY <1>3, <1>5 DEF c

\* An attempt whose receipts are those of r loads, and r is its last.
LEMMA ChainedLoads ==
  ASSUME NEW n, NEW r \in Documents, Chained(attempts[n].receipt, r)
  PROVE  /\ Recorded(n) # {} /\ Loads(n)
         /\ LastPhase(n) = PhaseOf(r) /\ LastReceipt(n) = r
<1> DEFINE c == r.chain
           files == attempts[n].receipt
<1>1. Steady(c) /\ Recorded(n) = {c[i].phase : i \in 1..Len(c)}
      /\ \A i \in 1..Len(c) : files[c[i].phase] = Document(r.input, SubSeq(c, 1, i))
  BY DEF Chained, Present, Recorded
<1>2. /\ c \in Seq(Entries) /\ Len(c) \in Nat /\ Len(c) >= 1
      /\ \A i \in 1..Len(c) : c[i].phase \in AttemptPhase /\ c[i].phase <= PhaseOf(r)
      /\ PhaseOf(r) = c[Len(c)].phase /\ r = Document(r.input, c)
  BY <1>1, ChainType
<1>3. \A i \in 1..Len(c) : files[c[i].phase] \in Documents
  BY <1>1, Beginning
<1> HIDE DEF c, files
<1>4. Len(c) \in 1..Len(c) /\ 1 \in 1..Len(c)
  BY <1>2
<1>5. PhaseOf(r) \in Recorded(n) /\ \A g \in Recorded(n) : g <= PhaseOf(r)
  BY <1>1, <1>2, <1>4
<1>6. LastPhase(n) = PhaseOf(r)
  BY <1>5, LastPhaseIs
<1>7. LastReceipt(n) = r
  <2>1. SubSeq(c, 1, Len(c)) = c
    BY <1>2, SubSeqFull
  <2> QED
    BY <1>1, <1>2, <1>4, <1>6, <2>1 DEF LastReceipt, files
<1>8. CREATED \in Recorded(n)
  BY <1>1, <1>4 DEF Steady, Entry
<1>9. \A f \in Recorded(n) : files[f] # Torn
  BY <1>1, <1>3, ConstantsOK
<1>10. Recorded(n) \cap Terminal \subseteq {LastPhase(n)}
  BY <1>1, <1>2, <1>6 DEF Steady
<1>11. Len(c) = Cardinality(Recorded(n))
  <2>1. Len(c) \in 0..Len(c)
    BY <1>2
  <2>2. Cardinality({c[i].phase : i \in 1..Len(c)}) = Len(c)
    BY <1>1, <1>2, <2>1, PhaseCount
  <2> QED
    BY <1>1, <2>2
<1>12. ASSUME NEW f \in Recorded(n), NEW k, k = Cardinality({g \in Recorded(n) : g <= f})
       PROVE  c[k].phase = f /\ files[f] = Document(r.input, SubSeq(c, 1, k))
  <2>1. PICK j \in 1..Len(c) : f = c[j].phase
    BY <1>1
  <2>2. {g \in Recorded(n) : g <= f} = {c[i].phase : i \in 1..j}
    <3>1. \A i \in 1..Len(c) : c[i].phase <= c[j].phase <=> i <= j
      <4> SUFFICES ASSUME NEW i \in 1..Len(c) PROVE c[i].phase <= c[j].phase <=> i <= j
        OBVIOUS
      <4>1. c[i].phase \in Nat /\ c[j].phase \in Nat
        BY <1>2, PhaseNumbers
      <4>2. i \in Nat /\ j \in Nat /\ (i < j \/ i = j \/ j < i)
        BY <1>2
      <4> QED
        BY <1>1, <4>1, <4>2 DEF Steady
    <3>2. \A i \in 1..j : i \in 1..Len(c) /\ i <= j
      BY <1>2
    <3>3. \A i \in 1..Len(c) : i <= j => i \in 1..j
      BY <1>2
    <3> QED
      BY <1>1, <2>1, <3>1, <3>2, <3>3
  <2>3. j \in 0..Len(c)
    BY <1>2
  <2>4. k = j
    BY <1>1, <1>2, <1>12, <2>2, <2>3, PhaseCount
  <2> QED
    BY <1>1, <2>1, <2>4
<1>13. Loads(n)
  BY <1>7, <1>8, <1>9, <1>10, <1>11, <1>12 DEF Loads, c, files
<1> QED
  BY <1>6, <1>7, <1>8, <1>13

\* The receipt r begins the chain of an empty folder, or goes on the one that
\* the folder holds; an artifact it lists agrees with those listed before.
Begins(files, r) == Present(files) = {} /\ r.chain = <<Entry(CREATED, Absent)>>
GoesOn(files, d, f, a, r) ==
  /\ Chained(files, d)
  /\ PhaseOf(d) \notin Terminal /\ PhaseOf(d) < f
  /\ a # Absent => \A i \in 1..Len(d.chain) : d.chain[i].artifact \in {Absent, a}
  /\ r = Document(d.input, Append(d.chain, Entry(f, a)))
Extends(files, r) ==
  \/ Begins(files, r)
  \/ \E d \in Documents, f \in AttemptPhase, a \in Bytes \cup {Absent} : GoesOn(files, d, f, a, r)

\* Putting the receipt in its place gives its chain.
LEMMA BeginsChain ==
  ASSUME NEW files \in [AttemptPhase -> Receipts], NEW r \in Documents, Begins(files, r),
         NEW new, new = [files EXCEPT ![PhaseOf(r)] = r]
  PROVE  Chained(new, r)
<1>1. /\ r.chain = <<Entry(CREATED, Absent)>> /\ Len(r.chain) = 1
      /\ r.chain[1] = Entry(CREATED, Absent) /\ r.chain # <<>>
  BY DEF Begins
<1>2. PhaseOf(r) = CREATED /\ r.chain[1].phase = CREATED
  BY <1>1 DEF PhaseOf, Entry
<1>3. Steady(r.chain)
  BY <1>1 DEF Steady
<1>4. Present(new) = {CREATED} /\ new[CREATED] = r
  BY <1>2, PhaseNumbers, ConstantsOK DEF Begins, Present
<1>7. 1..Len(r.chain) = {1}
  BY <1>1
<1>5. Present(new) = {r.chain[i].phase : i \in 1..Len(r.chain)}
  <2>1. {r.chain[i].phase : i \in {1}} = {r.chain[1].phase}
    OBVIOUS
  <2> QED
    BY <1>2, <1>4, <1>7, <2>1
<1>6. r = Document(r.input, SubSeq(r.chain, 1, 1))
  <2>1. SubSeq(r.chain, 1, Len(r.chain)) = r.chain
    BY <1>3, ChainType, SubSeqFull
  <2> QED
    BY <1>1, <1>3, <2>1, ChainType
<1>8. \A i \in 1..Len(r.chain) :
        new[r.chain[i].phase] = Document(r.input, SubSeq(r.chain, 1, i))
  BY <1>2, <1>4, <1>6, <1>7
<1> QED
  BY <1>3, <1>5, <1>8 DEF Chained

\* A steady chain that goes on is steady; its beginnings are the same.
LEMMA LongerChain ==
  ASSUME NEW d \in Documents, Steady(d.chain), NEW f \in AttemptPhase,
         NEW a \in Bytes \cup {Absent}, PhaseOf(d) \notin Terminal, PhaseOf(d) < f,
         NEW r, r = Document(d.input, Append(d.chain, Entry(f, a)))
  PROVE  /\ r \in Documents /\ Steady(r.chain) /\ r.input = d.input
         /\ PhaseOf(r) = f
         /\ Len(r.chain) = Len(d.chain) + 1
         /\ r.chain[Len(d.chain) + 1] = Entry(f, a)
         /\ \A i \in 1..Len(d.chain) :
              /\ r.chain[i] = d.chain[i]
              /\ SubSeq(r.chain, 1, i) = SubSeq(d.chain, 1, i)
<1> DEFINE len == Len(d.chain)
           c == r.chain
           e == Entry(f, a)
<1>1. /\ d.chain \in Seq(Entries) /\ len \in Nat /\ len >= 1
      /\ \A i \in 1..len : /\ d.chain[i] \in Entries /\ d.chain[i].phase \in AttemptPhase
                           /\ d.chain[i].phase <= PhaseOf(d)
      /\ PhaseOf(d) = d.chain[len].phase
  BY ChainType
<1>2. /\ r \in Documents /\ r.input = d.input /\ PhaseOf(r) = f
      /\ c = Append(d.chain, e) /\ c # <<>>
  BY NextReceiptType
<1>3. e \in Entries /\ e.phase = f
  BY DEF Entry, Entries
<1> HIDE DEF e
<1>4. /\ c \in Seq(Entries) /\ Len(c) = len + 1 /\ c[len + 1] = e
      /\ \A i \in 1..len : c[i] = d.chain[i]
  BY <1>1, <1>2, <1>3, AppendProperties
<1> HIDE DEF c, len
<1>5. Steady(c)
  <2>1. c[1] = Entry(CREATED, Absent)
    BY <1>1, <1>4 DEF Steady
  <2>2. \A i \in 1..len : d.chain[i].phase \in Nat /\ d.chain[i].phase < f
    <3> TAKE i \in 1..len
    <3>1. d.chain[i].phase \in AttemptPhase /\ d.chain[i].phase <= PhaseOf(d)
      BY <1>1
    <3>2. len \in 1..len
      BY <1>1
    <3>3. PhaseOf(d) \in AttemptPhase
      BY <1>1, <3>2
    <3>4. d.chain[i].phase \in Nat /\ PhaseOf(d) \in Nat /\ f \in Nat
      BY <3>1, <3>3, PhaseNumbers
    <3> QED
      BY <3>1, <3>4
  <2>3. ASSUME NEW i \in 1..Len(c), NEW j \in 1..Len(c), i < j
        PROVE  c[i].phase < c[j].phase
    <3>1. i \in 1..len /\ (j \in 1..len \/ j = len + 1)
      BY <1>1, <1>4, <2>3
    <3>2. CASE j \in 1..len
      BY <1>4, <2>3, <3>1, <3>2 DEF Steady, len
    <3>3. CASE j = len + 1
      BY <1>3, <1>4, <2>2, <3>1, <3>3
    <3> QED
      BY <3>1, <3>2, <3>3
  <2>4. ASSUME NEW i \in 1..Len(c), c[i].phase \in Terminal PROVE i = Len(c)
    <3>1. CASE i \in 1..len
      <4>1. i = len
        BY <1>4, <2>4, <3>1 DEF Steady, len
      <4> QED
        BY <1>1, <1>4, <2>4, <3>1, <4>1
    <3> QED
      BY <1>1, <1>4, <3>1
  <2> QED
    BY <1>2, <2>1, <2>3, <2>4 DEF Steady
<1>6. ASSUME NEW i \in 1..len PROVE SubSeq(c, 1, i) = SubSeq(d.chain, 1, i)
  <2>1. /\ SubSeq(d.chain, 1, i) \in Seq(Entries) /\ Len(SubSeq(d.chain, 1, i)) = i
        /\ \A j \in 1..i : SubSeq(d.chain, 1, i)[j] = d.chain[j]
    <3>1. i \in Int /\ 1 \in Int /\ 1 <= i /\ \A j \in 1..i : d.chain[j] \in Entries
      BY <1>1
    <3>2. /\ SubSeq(d.chain, 1, i) \in Seq(Entries) /\ Len(SubSeq(d.chain, 1, i)) = i - 1 + 1
          /\ \A j \in 1..(i - 1 + 1) : SubSeq(d.chain, 1, i)[j] = d.chain[1 + j - 1]
      BY <3>1, SubSeqProperties
    <3> QED
      BY <3>1, <3>2
  <2>2. /\ SubSeq(c, 1, i) \in Seq(Entries) /\ Len(SubSeq(c, 1, i)) = i
        /\ \A j \in 1..i : SubSeq(c, 1, i)[j] = c[j]
    <3>1. i \in Int /\ 1 \in Int /\ 1 <= i /\ \A j \in 1..i : c[j] \in Entries
      BY <1>1, <1>4
    <3>2. /\ SubSeq(c, 1, i) \in Seq(Entries) /\ Len(SubSeq(c, 1, i)) = i - 1 + 1
          /\ \A j \in 1..(i - 1 + 1) : SubSeq(c, 1, i)[j] = c[1 + j - 1]
      BY <3>1, SubSeqProperties
    <3> QED
      BY <3>1, <3>2
  <2>3. \A j \in 1..i : c[j] = d.chain[j]
    BY <1>1, <1>4
  <2> QED
    BY <2>1, <2>2, <2>3, SeqEqual
<1> QED
  BY <1>2, <1>4, <1>5, <1>6 DEF c, len, e

LEMMA LongerFiles ==
  ASSUME NEW files \in [AttemptPhase -> Receipts], NEW d \in Documents,
         NEW f \in AttemptPhase, NEW a \in Bytes \cup {Absent}, NEW r,
         GoesOn(files, d, f, a, r),
         NEW new, new = [files EXCEPT ![f] = r]
  PROVE  r \in Documents /\ PhaseOf(r) = f /\ Chained(new, r)
<1> DEFINE len == Len(d.chain)
<1>1. /\ Steady(d.chain)
      /\ Present(files) = {d.chain[i].phase : i \in 1..len}
      /\ \A i \in 1..len : files[d.chain[i].phase] = Document(d.input, SubSeq(d.chain, 1, i))
  BY DEF GoesOn, Chained
<1>2. /\ len \in Nat /\ PhaseOf(d) \in AttemptPhase
      /\ \A i \in 1..len : d.chain[i].phase \in AttemptPhase /\ d.chain[i].phase <= PhaseOf(d)
  <2>1. len \in Nat /\ len >= 1 /\ PhaseOf(d) = d.chain[len].phase
        /\ \A i \in 1..len : d.chain[i].phase \in AttemptPhase /\ d.chain[i].phase <= PhaseOf(d)
    BY <1>1, ChainType
  <2>2. len \in 1..len
    BY <2>1
  <2> QED
    BY <2>1, <2>2
<1>3. /\ r \in Documents /\ Steady(r.chain) /\ r.input = d.input /\ PhaseOf(r) = f
      /\ Len(r.chain) = len + 1 /\ r.chain[len + 1] = Entry(f, a)
      /\ \A i \in 1..len : /\ r.chain[i] = d.chain[i]
                           /\ SubSeq(r.chain, 1, i) = SubSeq(d.chain, 1, i)
  BY <1>1, LongerChain DEF GoesOn
<1>4. \A i \in 1..len : d.chain[i].phase # f
  <2> TAKE i \in 1..len
  <2>1. d.chain[i].phase \in Nat /\ PhaseOf(d) \in Nat /\ f \in Nat
    BY <1>2, PhaseNumbers
  <2> QED
    BY <1>2, <2>1 DEF GoesOn
<1>5. r # Absent
  BY <1>3, ConstantsOK
<1> HIDE DEF len
<1>6. 1..Len(r.chain) = (1..len) \cup {len + 1} /\ r.chain[len + 1].phase = f
  BY <1>2, <1>3 DEF Entry
<1>7. Present(new) = Present(files) \cup {f}
  BY <1>5 DEF Present
<1>8. Present(new) = {r.chain[i].phase : i \in 1..Len(r.chain)}
  <2>1. {r.chain[i].phase : i \in (1..len) \cup {len + 1}}
          = {r.chain[i].phase : i \in 1..len} \cup {r.chain[len + 1].phase}
    OBVIOUS
  <2>2. {r.chain[i].phase : i \in 1..len} = {d.chain[i].phase : i \in 1..len}
    BY <1>3
  <2> QED
    BY <1>1, <1>6, <1>7, <2>1, <2>2
<1>9. r = Document(r.input, SubSeq(r.chain, 1, Len(r.chain)))
  <2>1. SubSeq(r.chain, 1, Len(r.chain)) = r.chain
    BY <1>3, ChainType, SubSeqFull
  <2> QED
    BY <1>3, <2>1, ChainType
<1>10. ASSUME NEW i \in 1..Len(r.chain)
       PROVE  new[r.chain[i].phase] = Document(r.input, SubSeq(r.chain, 1, i))
  <2>1. CASE i \in 1..len
    <3>1. new[r.chain[i].phase] = files[d.chain[i].phase]
      BY <1>2, <1>3, <1>4, <2>1
    <3> QED
      BY <1>1, <1>3, <2>1, <3>1
  <2>2. CASE i = len + 1
    BY <1>3, <1>6, <1>9, <2>2
  <2> QED
    BY <1>6, <2>1, <2>2
<1> QED
  BY <1>3, <1>8, <1>10 DEF Chained

LEMMA ExtendsChain ==
  ASSUME NEW files \in [AttemptPhase -> Receipts], NEW r \in Documents, Extends(files, r),
         NEW new, new = [files EXCEPT ![PhaseOf(r)] = r]
  PROVE  Chained(new, r)
<1>1. CASE Begins(files, r)
  BY <1>1, BeginsChain
<1>2. ASSUME NEW d \in Documents, NEW f \in AttemptPhase, NEW a \in Bytes \cup {Absent},
             GoesOn(files, d, f, a, r)
      PROVE  Chained(new, r)
  <2>1. PhaseOf(r) = f
    <3>1. PICK w : w = [files EXCEPT ![f] = r]
      OBVIOUS
    <3> QED
      BY <1>2, <3>1, LongerFiles
  <2> QED
    BY <1>2, <2>1, LongerFiles
<1> QED
  BY <1>1, <1>2 DEF Extends

\* One helper is in an operation; every attempt has the receipts of a chain, or
\* none; and the receipt being written goes on that chain, whole in its
\* temporary file when it is about to be put in its place.
Alone == \A p, q \in Procs : pc[p] # "idle" /\ pc[q] # "idle" => p = q
Whole(n) == Recorded(n) = {} \/ \E r \in Documents : Chained(attempts[n].receipt, r)
Composed(p) ==
  /\ pc[p] = "mkdir" => job[p].receipt.chain = <<Entry(CREATED, Absent)>>
  /\ pc[p] \in Writing => Extends(attempts[job[p].n].receipt, job[p].receipt)
  /\ pc[p] = "replace" => attempts[job[p].n].tmp[JobPhase(p)] = job[p].receipt

TurnsInv ==
  scope.isolated =>
    /\ Alone
    /\ \A n \in 1..Len(attempts) : Whole(n)
    /\ \A p \in Procs : Composed(p)

LEMMA FolderType ==
  ASSUME TypeInv, NEW n \in 1..Len(attempts)
  PROVE  /\ attempts[n].receipt \in [AttemptPhase -> Receipts]
         /\ attempts[n].tmp \in [AttemptPhase -> Receipts]
         /\ attempts[n].file \in Bytes \cup {Absent}
<1>1. attempts[n] \in Folders
  BY ElementOfSeq, Folding DEF TypeInv
<1> QED
  BY <1>1 DEF Folders

LEMMA AloneStep ==
  ASSUME TypeInv, Alone, scope.isolated, NEW p \in Procs, StepOf(p), scope' = scope
  PROVE  Alone'
<1>1. Frame(p) /\ JobStep(p)
  BY StepFrame, StepJob DEF TypeInv
<1>2. ASSUME NEW q \in Procs, q # p PROVE pc'[q] = pc[q]
  BY <1>1, <1>2 DEF Frame, TypeInv, TypeOK
<1>3. ASSUME pc'[p] # "idle", NEW q \in Procs, q # p PROVE pc[q] = "idle"
  <2>1. CASE pc[p] # "idle"
    BY <1>3, <2>1 DEF Alone
  <2>2. CASE pc[p] = "idle"
    <3>1. \/ \E input \in Inputs : AllocateAttempt(p, input)
          \/ \E f \in AttemptPhase : RecordPhase(p, f)
      BY <1>1, <1>3, <2>2 DEF JobStep
    <3>2. Quiet(p)
      BY <3>1 DEF AllocateAttempt, RecordPhase
    <3> QED
      BY <1>3, <3>2 DEF Quiet
  <2> QED
    BY <2>1, <2>2
<1> QED
  BY <1>2, <1>3 DEF Alone

\* The recorded attempt has the chain of the receipt that its helper holds.
LEMMA RecordExtends ==
  ASSUME TypeInv, scope.isolated, TurnsInv, NEW p \in Procs, NEW f \in AttemptPhase,
         RecordPhase(p, f), scope' = scope
  PROVE  Extends(attempts[owner[p].n].receipt, job'[p].receipt)
<1> DEFINE n == owner[p].n
           files == attempts[n].receipt
<1>1. owner[p] \in Held
  BY Folding DEF RecordPhase, TypeInv
<1>2. n \in 1..Len(attempts)
  BY <1>1 DEF Held
<1>3. /\ LastReceipt(n) = owner[p].receipt /\ Loads(n) /\ ArtifactsVerify(n)
      /\ LastPhase(n) \notin Terminal /\ f > LastPhase(n)
  BY DEF RecordPhase, MayRecord
<1>4. PICK d \in Documents : Chained(files, d)
  BY <1>2, <1>3 DEF TurnsInv, Whole, Loads
<1>5. LastPhase(n) = PhaseOf(d) /\ LastReceipt(n) = d
  BY <1>4, ChainedLoads
<1>6. PICK a \in {Absent, attempts[n].file} :
        /\ a \in Bytes \cup {Absent}
        /\ job'[p].receipt = Document(d.input, Append(d.chain, Entry(f, a)))
  <2>1. owner[p].receipt = d
    BY <1>3, <1>5
  <2>2. \E a \in {Absent, attempts[owner[p].n].file} :
          /\ a \in Bytes \cup {Absent}
          /\ job'[p].receipt = Document(owner[p].receipt.input,
                                 Append(owner[p].receipt.chain, Entry(f, a)))
    BY RecordEffect
  <2> QED
    BY <2>1, <2>2
<1>7. ASSUME NEW i \in 1..Len(d.chain) PROVE d.chain[i].artifact \in {Absent, attempts[n].file}
  <2> DEFINE g == d.chain[i].phase
             c == SubSeq(d.chain, 1, i)
  <2>1. g \in Recorded(n) /\ files[g] = Document(d.input, c)
    BY <1>4 DEF Chained, Present, Recorded
  <2>2. files[g].chain = c /\ Len(c) = i /\ i \in 1..i /\ c[i] = d.chain[i]
    <3>1. Steady(d.chain)
      BY <1>4 DEF Chained
    <3>2. i \in 1..i
      BY <3>1, ChainType
    <3> QED
      BY <2>1, <3>1, <3>2, Beginning
  <2>3. files[g].chain[Len(files[g].chain)].artifact \in {Absent, attempts[n].file}
    BY <1>3, <2>1 DEF ArtifactsVerify
  <2> QED
    BY <2>2, <2>3
<1>8. PhaseOf(d) < f
  <2>1. LastPhase(n) \in AttemptPhase
    BY <1>3, LastPhaseRecorded DEF Loads, Recorded
  <2>2. LastPhase(n) \in Nat /\ f \in Nat
    BY <2>1, PhaseNumbers
  <2> QED
    BY <1>3, <1>5, <2>2
<1> HIDE DEF n, files
<1>9. GoesOn(files, d, f, a, job'[p].receipt)
  BY <1>3, <1>4, <1>5, <1>6, <1>7, <1>8 DEF GoesOn
<1>10. Extends(files, job'[p].receipt)
  BY <1>6, <1>9 DEF Extends
<1> QED
  BY <1>10 DEF n, files

LEMMA WholeStep ==
  ASSUME TypeInv, scope.isolated, TurnsInv, NEW p \in Procs, StepOf(p), scope' = scope,
         NEW n \in 1..Len(attempts')
  PROVE  Whole(n)'
<1> DEFINE k == job[p].n
           f == JobPhase(p)
           r == job[p].receipt
<1>1. FilesStep(p) /\ Len(attempts) \in Nat
  BY StepFiles, Folding DEF TypeInv
<1>2. CASE n \in 1..Len(attempts) /\ attempts'[n].receipt = attempts[n].receipt
  BY <1>2 DEF TurnsInv, Whole, Recorded
<1>3. CASE /\ n \in 1..Len(attempts) /\ pc[p] = "replace" /\ n = k
           /\ attempts'[n].receipt = [attempts[n].receipt EXCEPT ![f] = attempts[n].tmp[f]]
  <2>1. r \in Documents
    BY <1>3, WritingJob DEF Writing
  <2>2. Extends(attempts[n].receipt, r) /\ attempts[n].tmp[f] = r
    BY <1>3 DEF TurnsInv, Composed, Writing
  <2>3. attempts[n].receipt \in [AttemptPhase -> Receipts]
    BY <1>3, FolderType
  <2>4. PICK new : new = [attempts[n].receipt EXCEPT ![PhaseOf(r)] = r]
    OBVIOUS
  <2>5. attempts'[n].receipt = new
    BY <1>3, <2>2, <2>4 DEF JobPhase
  <2> HIDE DEF k, f, r
  <2>6. Chained(new, r)
    BY <2>1, <2>2, <2>3, <2>4, ExtendsChain
  <2> QED
    BY <2>1, <2>5, <2>6 DEF Whole
<1>4. CASE n \notin 1..Len(attempts)
  <2>1. attempts'[n] = EmptyAttempt
    BY <1>1, <1>4, GrowthStep
  <2> QED
    BY <2>1 DEF Whole, Recorded, EmptyAttempt
<1> QED
  BY <1>1, <1>2, <1>3, <1>4, FolderStep DEF ReceiptsStep

\* The helper of the step.
LEMMA ComposedStep ==
  ASSUME TypeInv, scope.isolated, TurnsInv, NEW p \in Procs, StepOf(p), scope' = scope
  PROVE  Composed(p)'
<1> DEFINE k == job[p].n
           f == JobPhase(p)
           r == job[p].receipt
<1>1. FilesStep(p) /\ JobStep(p) /\ Composed(p)
  BY StepFiles, StepJob DEF TypeInv, TurnsInv
<1>2. CASE pc'[p] = "idle"
  BY <1>2 DEF Composed, Writing
<1>3. CASE /\ pc[p] = "check" /\ pc'[p] = "write_tmp" /\ job'[p] = job[p]
           /\ attempts' = attempts
  BY <1>1, <1>3 DEF Composed, Writing
<1>4. CASE /\ pc[p] = "write_tmp" /\ pc'[p] = "replace" /\ job'[p] = job[p]
           /\ attempts' = WithTmp(attempts, k, f, r)
  <2>1. /\ k \in 1..Len(attempts) /\ f \in AttemptPhase /\ r \in Receipts
        /\ attempts \in Seq(Folders)
    BY <1>4, WritingJob, Folding DEF TypeInv, Writing, JobPhase, Receipts
  <2>2. Extends(attempts[k].receipt, r)
    BY <1>1, <1>4 DEF Composed, Writing
  <2>3. attempts[k].tmp \in [AttemptPhase -> Receipts]
    BY <2>1, FolderType
  <2> HIDE DEF k, f, r
  <2>4. /\ attempts'[k].receipt = attempts[k].receipt
        /\ attempts'[k].tmp = [attempts[k].tmp EXCEPT ![f] = r]
    BY <1>4, <2>1, SetTmp
  <2>5. attempts'[k].tmp[f] = r
    BY <2>1, <2>3, <2>4
  <2>6. JobPhase(p)' = f /\ job'[p].n = k /\ job'[p].receipt = r
    BY <1>4 DEF JobPhase, k, f, r
  <2> QED
    BY <1>4, <2>2, <2>4, <2>5, <2>6 DEF Composed
<1>5. CASE /\ pc[p] = "mkdir" /\ pc'[p] = "check" /\ job'[p] = job[p]
           /\ Len(attempts') = Len(attempts) + 1 /\ job[p].n = Len(attempts')
  <2>1. attempts'[k] = EmptyAttempt
    BY <1>1, <1>5, GrowthStep, Folding DEF TypeInv
  <2>2. Begins(attempts'[k].receipt, r)
    BY <1>1, <1>5, <2>1 DEF Begins, Present, EmptyAttempt, Composed
  <2> QED
    BY <1>5, <2>2 DEF Composed, Writing, Extends
<1>6. CASE pc'[p] = "mkdir" /\ job'[p].receipt.chain = <<Entry(CREATED, Absent)>>
  BY <1>6 DEF Composed, Writing
<1>7. CASE \E g \in AttemptPhase : RecordPhase(p, g)
  <2>1. PICK g \in AttemptPhase : RecordPhase(p, g)
    BY <1>7
  <2>2. job'[p].n = owner[p].n /\ pc'[p] = "check" /\ attempts' = attempts
    BY <2>1, RecordEffect
  <2>3. Extends(attempts[owner[p].n].receipt, job'[p].receipt)
    BY <2>1, RecordExtends
  <2> QED
    BY <2>2, <2>3 DEF Composed
<1> QED
  BY <1>1, <1>2, <1>3, <1>4, <1>5, <1>6, <1>7 DEF JobStep

\* Another helper, while it is in an operation.
LEMMA ComposedStays ==
  ASSUME TypeInv, scope.isolated, TurnsInv, NEW p \in Procs, StepOf(p), scope' = scope,
         NEW q \in Procs, q # p
  PROVE  Composed(q)'
<1>1. FilesStep(p) /\ Frame(p) /\ Composed(q) /\ Alone
  BY StepFiles, StepFrame DEF TypeInv, TurnsInv
<1>2. pc'[q] = pc[q] /\ job'[q] = job[q] /\ JobPhase(q)' = JobPhase(q)
  BY <1>1 DEF Frame, TypeInv, TypeOK, JobPhase
<1>3. ASSUME pc[q] \in Writing
      PROVE  /\ attempts'[job[q].n].receipt = attempts[job[q].n].receipt
             /\ attempts'[job[q].n].tmp = attempts[job[q].n].tmp
  <2>1. pc[p] = "idle" /\ job[q].n \in 1..Len(attempts)
    BY <1>1, <1>3, WritingJob DEF Alone, Writing
  <2> QED
    BY <1>1, <2>1, FolderStep DEF ReceiptsStep, TmpStep
<1> QED
  BY <1>1, <1>2, <1>3 DEF Composed, Writing

LEMMA TurnsStep ==
  ASSUME TypeInv, TurnsInv, NEW p \in Procs, StepOf(p), scope' = scope
  PROVE  TurnsInv'
<1> SUFFICES ASSUME scope.isolated
             PROVE  /\ Alone'
                    /\ \A n \in 1..Len(attempts') : Whole(n)'
                    /\ \A q \in Procs : Composed(q)'
  BY DEF TurnsInv
<1>1. Alone'
  BY AloneStep DEF TurnsInv
<1>2. \A n \in 1..Len(attempts') : Whole(n)'
  BY WholeStep
<1>3. \A q \in Procs : Composed(q)'
  BY ComposedStep, ComposedStays
<1> QED
  BY <1>1, <1>2, <1>3

LEMMA InitTurns == Init => TurnsInv
  BY DEF Init, TurnsInv, Alone, Composed, Writing

LEMMA NextTurns == TypeInv /\ TurnsInv /\ [Next]_vars => TurnsInv'
<1> SUFFICES ASSUME TypeInv, TurnsInv, [Next]_vars PROVE TurnsInv'
  OBVIOUS
<1>1. CASE UNCHANGED vars
  BY <1>1 DEF vars, TurnsInv, Alone, Whole, Composed, Recorded, JobPhase
<1> QED
  BY <1>1, TurnsStep DEF Next, StepOf

\* With one operation at a time, whatever fails or dies, an attempt that has
\* a receipt always loads: its chain of digests is never broken.
THEOREM ChainsNeverBreak == Spec => []ChainsHold
<1>1. TurnsInv => ChainsHold
  BY ChainedLoads DEF TurnsInv, Whole, ChainsHold
<1> QED
  BY <1>1, InitTurns, NextTurns, InitType, NextType, PTL DEF Spec

-----------------------------------------------------------------------------
(***************************************************************************)
(* The attempts implement the ledger.                                      *)
(***************************************************************************)

\* The last receipt of a folder; how many folders of s have one, the last of
\* them being the only one that may have none; and their last receipts.
LastOf(files) == files[CHOOSE f \in Present(files) : \A g \in Present(files) : g <= f]
Size(s) == IF Len(s) > 0 /\ Present(s[Len(s)].receipt) = {} THEN Len(s) - 1 ELSE Len(s)
Pages(s) == [n \in 1..Size(s) |-> LastOf(s[n].receipt)]

\* Every folder but the last holds the receipt of a failure.
Superseded(s) == \A n \in 1..Len(s) : n + 1 <= Len(s) => FAILED \in Present(s[n].receipt)

LEMMA LastOfChain ==
  ASSUME NEW files, NEW r \in Documents, Chained(files, r)
  PROVE  LastOf(files) = r /\ Present(files) # {}
<1> DEFINE c == r.chain
<1>1. Steady(c) /\ Present(files) = {c[i].phase : i \in 1..Len(c)}
      /\ \A i \in 1..Len(c) : files[c[i].phase] = Document(r.input, SubSeq(c, 1, i))
  BY DEF Chained
<1>2. /\ c \in Seq(Entries) /\ Len(c) \in 1..Len(c)
      /\ \A i \in 1..Len(c) : c[i].phase \in AttemptPhase /\ c[i].phase <= PhaseOf(r)
      /\ PhaseOf(r) = c[Len(c)].phase /\ r = Document(r.input, c)
  BY <1>1, ChainType
<1> HIDE DEF c
<1>3. PhaseOf(r) \in Present(files) /\ \A g \in Present(files) : g <= PhaseOf(r)
  BY <1>1, <1>2
<1>4. \A f \in Present(files) : (\A g \in Present(files) : g <= f) => f = PhaseOf(r)
  <2> SUFFICES ASSUME NEW f \in Present(files), \A g \in Present(files) : g <= f
               PROVE  f = PhaseOf(r)
    OBVIOUS
  <2>1. f \in Nat /\ PhaseOf(r) \in Nat
    BY <1>3, PhaseNumbers DEF Present
  <2> QED
    BY <1>3, <2>1
<1>5. LastOf(files) = files[PhaseOf(r)]
  BY <1>3, <1>4 DEF LastOf
<1>6. SubSeq(c, 1, Len(c)) = c
  BY <1>2, SubSeqFull
<1> QED
  BY <1>1, <1>2, <1>3, <1>5, <1>6

\* The folders that have a receipt are the first ones.
LEMMA SizeCounts ==
  ASSUME NEW s \in Seq(Folders), Superseded(s)
  PROVE  /\ Size(s) \in Nat /\ Size(s) <= Len(s) /\ Len(s) \in Nat
         /\ Cardinality({n \in 1..Len(s) : Present(s[n].receipt) # {}}) = Size(s)
<1> DEFINE Filed == {n \in 1..Len(s) : Present(s[n].receipt) # {}}
<1>1. Len(s) \in Nat
  BY LenProperties
<1>2. \A n \in 1..Len(s) : n # Len(s) => Present(s[n].receipt) # {}
  BY <1>1 DEF Superseded
<1>3. Size(s) \in Nat /\ Size(s) <= Len(s) /\ Filed = 1..Size(s)
  BY <1>1, <1>2 DEF Size
<1>4. Cardinality(1..Size(s)) = Size(s)
  <2>1. 1 \in Int /\ Size(s) \in Int
    BY <1>3
  <2>2. Cardinality(1..Size(s)) = IF 1 > Size(s) THEN 0 ELSE Size(s) - 1 + 1
    BY <2>1, FS_Interval
  <2> QED
    BY <1>3, <2>2
<1> QED
  BY <1>1, <1>3, <1>4

LEMMA BookIs ==
  ASSUME TypeOK, SupersededFailed, scope.isolated
  PROVE  Superseded(attempts) /\ Book = Pages(attempts)
<1>1. Superseded(attempts) /\ attempts \in Seq(Folders)
  BY DEF TypeOK, SupersededFailed, Superseded, Recorded, Present
<1>2. Shown = {n \in 1..Len(attempts) : Present(attempts[n].receipt) # {}}
  BY DEF Shown, Recorded, Present
<1>3. Cardinality(Shown) = Size(attempts)
  BY <1>1, <1>2, SizeCounts
<1>4. \A n : LastReceipt(n) = LastOf(attempts[n].receipt)
  BY DEF LastReceipt, LastPhase, LastOf, Recorded, Present
<1> QED
  BY <1>1, <1>3, <1>4 DEF Book, Pages

\* The same, of the next state.
LEMMA BookIsNext ==
  ASSUME TypeOK', SupersededFailed', scope'.isolated
  PROVE  Superseded(attempts') /\ Book' = Pages(attempts')
<1>1. Superseded(attempts') /\ attempts' \in Seq(Folders)
  BY DEF TypeOK, SupersededFailed, Superseded, Recorded, Present
<1>2. Shown' = {n \in 1..Len(attempts') : Present(attempts'[n].receipt) # {}}
  BY DEF Shown, Recorded, Present
<1>3. Cardinality(Shown') = Size(attempts')
  BY <1>1, <1>2, SizeCounts
<1>4. \A n : LastReceipt(n)' = LastOf(attempts'[n].receipt)
  BY DEF LastReceipt, LastPhase, LastOf, Recorded, Present
<1> QED
  BY <1>1, <1>3, <1>4 DEF Book, Pages

\* The ledger of attempts whose folders hold chains.
LEMMA PagesAre ==
  ASSUME TypeInv, SupersededFailed, scope.isolated, TurnsInv
  PROVE  /\ Pages(attempts) \in Seq(Documents)
         /\ Len(Pages(attempts)) = Size(attempts) /\ Size(attempts) \in Nat
         /\ Size(attempts) <= Len(attempts)
         /\ \A n \in 1..Size(attempts) :
              /\ n \in 1..Len(attempts)
              /\ Pages(attempts)[n] \in Documents
              /\ Chained(attempts[n].receipt, Pages(attempts)[n])
<1>1. Superseded(attempts) /\ attempts \in Seq(Folders)
  BY BookIs DEF TypeInv, TypeOK
<1>2. Size(attempts) \in Nat /\ Size(attempts) <= Len(attempts) /\ Len(attempts) \in Nat
  BY <1>1, SizeCounts
<1>3. ASSUME NEW n \in 1..Size(attempts)
      PROVE  /\ n \in 1..Len(attempts)
             /\ Pages(attempts)[n] \in Documents
             /\ Chained(attempts[n].receipt, Pages(attempts)[n])
  <2>1. n \in 1..Len(attempts)
    BY <1>2
  <2>2. Present(attempts[n].receipt) # {}
    <3>1. CASE n + 1 <= Len(attempts)
      BY <1>1, <2>1, <3>1 DEF Superseded
    <3>2. CASE n = Len(attempts)
      BY <1>2, <3>2 DEF Size
    <3> QED
      BY <1>2, <2>1, <3>1, <3>2
  <2>3. PICK r \in Documents : Chained(attempts[n].receipt, r)
    BY <2>1, <2>2 DEF TurnsInv, Whole, Recorded, Present
  <2> QED
    BY <2>1, <2>3, LastOfChain DEF Pages
<1>4. Pages(attempts) \in [1..Size(attempts) -> Documents]
  BY <1>3 DEF Pages
<1> QED
  BY <1>2, <1>3, <1>4, IsASeq

\* A state that the ledger does not see.
LEMMA SamePages ==
  ASSUME NEW s, NEW t, Size(t) = Size(s), \A n \in 1..Size(s) : t[n].receipt = s[n].receipt
  PROVE  Pages(t) = Pages(s)
  BY DEF Pages

LEMMA StaysLedger ==
  ASSUME TypeInv, SupersededInv, TurnsInv, TypeInv', SupersededInv', TurnsInv', scope.isolated,
         NEW p \in Procs, StepOf(p), scope' = scope,
         \A n \in 1..Len(attempts) : attempts'[n].receipt = attempts[n].receipt
  PROVE  Book' = Book
<1> DEFINE len == Len(attempts)
<1>1. Book = Pages(attempts) /\ Book' = Pages(attempts')
  BY BookIs, BookIsNext DEF TypeInv, SupersededInv
<1>2. FilesStep(p) /\ len \in Nat
  BY StepFiles, Folding DEF TypeInv
<1>3. CASE Len(attempts') = len
  <2>1. Size(attempts') = Size(attempts) /\ Size(attempts) <= len /\ Size(attempts) \in Nat
    BY <1>2, <1>3 DEF Size
  <2> QED
    BY <1>1, <1>2, <2>1, SamePages
<1>4. CASE /\ Len(attempts') = len + 1
           /\ pc[p] = "mkdir" /\ job[p].n = Len(attempts')
           /\ attempts'[Len(attempts')] = EmptyAttempt
  <2>1. Size(attempts') = len
    BY <1>2, <1>4 DEF Size, Present, EmptyAttempt
  <2>2. len > 0 => FAILED \in Recorded(len)
    BY <1>2, <1>4 DEF SupersededInv, Superseding
  <2>3. Size(attempts) = len
    BY <1>2, <2>2 DEF Size, Recorded, Present
  <2> QED
    BY <1>1, <1>2, <2>1, <2>3, SamePages
<1> QED
  BY <1>2, <1>3, <1>4, GrowthStep

\* A step that changes a receipt puts that of its helper in its place, in the
\* last folder.
LEMMA PlacesReceipt ==
  ASSUME TypeInv, SupersededInv, TurnsInv, scope.isolated,
         NEW p \in Procs, StepOf(p), scope' = scope,
         \E n \in 1..Len(attempts) : attempts'[n].receipt # attempts[n].receipt
  PROVE  LET k == Len(attempts)
             r == job[p].receipt
         IN  /\ k \in 1..k /\ Len(attempts') = k /\ r \in Documents
             /\ Extends(attempts[k].receipt, r)
             /\ Chained(attempts'[k].receipt, r)
             /\ \A n \in 1..k : n # k => attempts'[n].receipt = attempts[n].receipt
<1> DEFINE len == Len(attempts)
           k == job[p].n
           r == job[p].receipt
           f == JobPhase(p)
<1>1. FilesStep(p) /\ len \in Nat
  BY StepFiles, Folding DEF TypeInv
<1>2. PICK n \in 1..len : attempts'[n].receipt # attempts[n].receipt
  OBVIOUS
<1>3. /\ pc[p] = "replace" /\ n = k
      /\ attempts'[k].receipt = [attempts[k].receipt EXCEPT ![f] = attempts[k].tmp[f]]
  <2>1. ReceiptsStep(p, n)
    BY <1>1, FolderStep
  <2> QED
    BY <1>2, <2>1 DEF ReceiptsStep
<1>4. r \in Documents /\ k \in 1..len
  BY <1>3, WritingJob DEF Writing
<1>5. Extends(attempts[k].receipt, r) /\ attempts[k].tmp[f] = r
  BY <1>3 DEF TurnsInv, Composed, Writing
<1>6. attempts[k].receipt \in [AttemptPhase -> Receipts]
  BY <1>4, FolderType
<1>7. Chained(attempts'[k].receipt, r)
  <2>1. PICK new : new = [attempts[k].receipt EXCEPT ![PhaseOf(r)] = r]
    OBVIOUS
  <2>2. attempts'[k].receipt = new
    BY <1>3, <1>5, <2>1 DEF JobPhase
  <2> HIDE DEF k, r
  <2> QED
    BY <1>4, <1>5, <1>6, <2>1, <2>2, ExtendsChain
<1>8. \A m \in 1..len : m # k => attempts'[m].receipt = attempts[m].receipt
  BY <1>1, FolderStep DEF ReceiptsStep
<1>9. Len(attempts') = len
  BY <1>1, <1>3, GrowthStep
<1>10. k = len
  <2>1. SUFFICES ASSUME k # len PROVE FALSE
    OBVIOUS
  <2>2. FAILED \in Present(attempts[k].receipt)
    BY <1>1, <1>4, <2>1 DEF SupersededInv, SupersededFailed, Recorded, Present
  <2>3. ASSUME NEW d \in Documents, Chained(attempts[k].receipt, d), PhaseOf(d) \notin Terminal
        PROVE  FALSE
    <3>1. PICK i \in 1..Len(d.chain) : d.chain[i].phase = FAILED
      BY <2>2, <2>3 DEF Chained
    <3>2. i = Len(d.chain)
      BY <2>3, <3>1 DEF Chained, Steady, Terminal
    <3> QED
      BY <2>3, <3>1, <3>2 DEF PhaseOf, Terminal
  <2> QED
    BY <1>5, <2>2, <2>3 DEF Extends, Begins, GoesOn
<1> HIDE DEF k, r, f
<1>11. len \in 1..len
  BY <1>4, <1>10
<1> QED
  BY <1>4, <1>5, <1>7, <1>8, <1>9, <1>10, <1>11 DEF r

\* The first receipt of the last folder starts an entry of the ledger.
LEMMA StartsLedger ==
  ASSUME TypeInv, SupersededInv, TurnsInv, TypeInv', SupersededInv', scope.isolated,
         scope' = scope, NEW r \in Documents,
         Len(attempts) \in 1..Len(attempts), Len(attempts') = Len(attempts),
         Begins(attempts[Len(attempts)].receipt, r),
         Chained(attempts'[Len(attempts)].receipt, r),
         \A n \in 1..Len(attempts) : n # Len(attempts) =>
           attempts'[n].receipt = attempts[n].receipt
  PROVE  \E input \in Inputs : Ledger!Start(input)
<1> DEFINE len == Len(attempts)
           b == Pages(attempts)
<1>1. Book = b /\ Book' = Pages(attempts')
  BY BookIs, BookIsNext DEF TypeInv, SupersededInv
<1>2. /\ len \in Nat /\ len >= 1 /\ len <= MaxAttempts /\ MaxAttempts \in Nat
  BY Folding DEF TypeInv
<1>3. Size(attempts) = len - 1
  BY <1>2 DEF Size, Begins
<1>4. /\ b \in Seq(Documents) /\ Len(b) = len - 1
      /\ \A n \in 1..(len - 1) : b[n] \in Documents /\ Chained(attempts[n].receipt, b[n])
  BY <1>3, PagesAre DEF SupersededInv
<1>5. LastOf(attempts'[len].receipt) = r /\ Present(attempts'[len].receipt) # {}
  BY LastOfChain
<1>6. Size(attempts') = len
  BY <1>2, <1>5 DEF Size
<1>7. Pages(attempts') = Append(b, r)
  <2>1. Append(b, r) = [n \in 1..len |-> IF n = len THEN r ELSE b[n]]
    <3>1. /\ Append(b, r) \in Seq(Documents) /\ Len(Append(b, r)) = len
          /\ \A n \in 1..(len - 1) : Append(b, r)[n] = b[n]
          /\ Append(b, r)[len] = r
      BY <1>2, <1>4, AppendProperties
    <3>2. \A n \in 1..len : Append(b, r)[n] = IF n = len THEN r ELSE b[n]
      BY <1>2, <3>1
    <3>3. Append(b, r) = [n \in 1..len |-> Append(b, r)[n]]
      BY <3>1, LenProperties
    <3> HIDE DEF b, len
    <3> QED
      BY <3>2, <3>3
  <2>2. \A n \in 1..len : LastOf(attempts'[n].receipt) = IF n = len THEN r ELSE b[n]
    <3> TAKE n \in 1..len
    <3>1. CASE n = len
      BY <1>5, <3>1
    <3>2. CASE n # len
      <4>1. n \in 1..(len - 1) /\ attempts'[n].receipt = attempts[n].receipt
        BY <1>2, <3>2
      <4> QED
        BY <1>3, <3>2, <4>1 DEF Pages
    <3> QED
      BY <3>1, <3>2
  <2> HIDE DEF b, len
  <2> QED
    BY <1>6, <2>1, <2>2 DEF Pages
<1>8. r = [input |-> r.input, chain |-> <<[phase |-> Ledger!CREATED, artifact |-> Absent]>>]
  <2>1. r = [input |-> r.input, chain |-> r.chain]
    BY DEF Documents
  <2> QED
    BY <2>1 DEF Begins, Entry, CREATED, Ledger!CREATED
<1>9. Book = <<>> \/ Ledger!Phase = Ledger!FAILED
  <2>1. CASE len = 1
    BY <1>1, <1>4, <2>1, EmptySeq
  <2>2. CASE len > 1
    <3> DEFINE k == len - 1
    <3>1. k \in 1..len /\ k + 1 <= len /\ k \in 1..k
      BY <1>2, <2>2
    <3>2. FAILED \in Present(attempts[k].receipt)
      BY <3>1 DEF SupersededInv, SupersededFailed, Recorded, Present
    <3>3. Chained(attempts[k].receipt, b[k])
      BY <1>4, <3>1
    <3>4. PICK i \in 1..Len(b[k].chain) : b[k].chain[i].phase = FAILED
      BY <3>2, <3>3 DEF Chained
    <3>5. i = Len(b[k].chain)
      BY <3>3, <3>4 DEF Chained, Steady, Terminal
    <3>6. Ledger!Last = b[k]
      BY <1>1, <1>4 DEF Ledger!Last
    <3> HIDE DEF b, k
    <3> QED
      BY <3>4, <3>5, <3>6 DEF Ledger!Phase, Ledger!FAILED, FAILED
  <2> QED
    BY <1>2, <2>1, <2>2
<1>10. r.input \in Inputs
  BY DEF Documents
<1>11. Len(Book) < MaxAttempts
  BY <1>1, <1>2, <1>4
<1> HIDE DEF b, len
<1>12. Book' = Append(Book, [input |-> r.input,
                             chain |-> <<[phase |-> Ledger!CREATED, artifact |-> Absent]>>])
  BY <1>1, <1>7, <1>8
<1>13. Ledger!Start(r.input)
  BY <1>9, <1>11, <1>12 DEF Ledger!Start
<1> QED
  BY <1>10, <1>13

\* A later receipt of the last folder advances the last entry.
LEMMA AdvancesLedger ==
  ASSUME TypeInv, SupersededInv, TurnsInv, TypeInv', SupersededInv', scope.isolated,
         scope' = scope, NEW r \in Documents,
         NEW d \in Documents, NEW f \in AttemptPhase, NEW a \in Bytes \cup {Absent},
         Len(attempts) \in 1..Len(attempts), Len(attempts') = Len(attempts),
         GoesOn(attempts[Len(attempts)].receipt, d, f, a, r),
         Chained(attempts'[Len(attempts)].receipt, r),
         \A n \in 1..Len(attempts) : n # Len(attempts) =>
           attempts'[n].receipt = attempts[n].receipt
  PROVE  /\ f \in Middle \cup {Ledger!VERIFIED, Ledger!FAILED}
         /\ Ledger!Advance(f, a)
<1> DEFINE len == Len(attempts)
           b == Pages(attempts)
<1>1. Book = b /\ Book' = Pages(attempts')
  BY BookIs, BookIsNext DEF TypeInv, SupersededInv
<1>2. len \in Nat /\ len >= 1
  BY Folding DEF TypeInv
<1>3. LastOf(attempts[len].receipt) = d /\ Present(attempts[len].receipt) # {}
  BY LastOfChain DEF GoesOn
<1>4. Size(attempts) = len
  BY <1>2, <1>3 DEF Size
<1>5. b \in Seq(Documents) /\ Len(b) = len /\ b[len] = d
  BY <1>2, <1>3, <1>4, PagesAre DEF SupersededInv, Pages
<1>6. LastOf(attempts'[len].receipt) = r /\ Present(attempts'[len].receipt) # {}
  BY LastOfChain
<1>7. Size(attempts') = len
  BY <1>2, <1>6 DEF Size
<1>8. Pages(attempts') = [b EXCEPT ![len] = r]
  <2>1. \A n \in 1..len : LastOf(attempts'[n].receipt) = IF n = len THEN r ELSE b[n]
    <3> TAKE n \in 1..len
    <3>1. CASE n = len
      BY <1>6, <3>1
    <3>2. CASE n # len
      BY <1>4, <3>2 DEF Pages
    <3> QED
      BY <3>1, <3>2
  <2>2. b = [n \in 1..len |-> b[n]]
    BY <1>4 DEF Pages
  <2> HIDE DEF b, len
  <2> QED
    BY <1>7, <2>1, <2>2 DEF Pages
<1>9. /\ PhaseOf(d) \notin Terminal /\ PhaseOf(d) < f
      /\ a # Absent => \A i \in 1..Len(d.chain) : d.chain[i].artifact \in {Absent, a}
      /\ r = [d EXCEPT !.chain = Append(d.chain, Entry(f, a))]
  <2>1. /\ PhaseOf(d) \notin Terminal /\ PhaseOf(d) < f
        /\ a # Absent => \A i \in 1..Len(d.chain) : d.chain[i].artifact \in {Absent, a}
        /\ r = Document(d.input, Append(d.chain, Entry(f, a)))
    BY DEF GoesOn
  <2>2. \A c : Document(d.input, c) = [d EXCEPT !.chain = c]
    BY DEF Document, Documents
  <2> QED
    BY <2>1, <2>2
<1>10. PhaseOf(d) \in Nat /\ f \in Nat
  <2>1. Steady(d.chain)
    BY DEF GoesOn, Chained
  <2>2. Len(d.chain) \in 1..Len(d.chain) /\ PhaseOf(d) = d.chain[Len(d.chain)].phase
    BY <2>1, ChainType
  <2>3. PhaseOf(d) \in AttemptPhase
    BY <2>1, <2>2, ChainType
  <2> QED
    BY <2>3, PhaseNumbers
<1>11. f \in Middle \cup {Ledger!VERIFIED, Ledger!FAILED}
  BY <1>9, <1>10 DEF AttemptPhase, CREATED, VERIFIED, FAILED, Ledger!VERIFIED, Ledger!FAILED
<1> HIDE DEF b, len
<1>12. Ledger!Last = d
  BY <1>1, <1>5 DEF Ledger!Last
<1>13. Ledger!Phase = PhaseOf(d)
  BY <1>12 DEF Ledger!Phase, PhaseOf
<1>14. Ledger!Phase \notin {Ledger!VERIFIED, Ledger!FAILED} /\ f > Ledger!Phase
  BY <1>9, <1>10, <1>13 DEF Terminal, VERIFIED, FAILED, Ledger!VERIFIED, Ledger!FAILED
<1>15. Book # <<>>
  BY <1>1, <1>2, <1>5, EmptySeq
<1>16. a # Absent => \A i \in 1..Len(Ledger!Last.chain) :
                       Ledger!Last.chain[i].artifact \in {Absent, a}
  BY <1>9, <1>12
<1>17. Book' = [Book EXCEPT ![Len(Book)].chain =
                 Append(@, [phase |-> f, artifact |-> a])]
  <2>1. Len(b) = len /\ r = [b[len] EXCEPT !.chain = Append(b[len].chain, Entry(f, a))]
    BY <1>5, <1>9
  <2> QED
    BY <1>1, <1>8, <2>1 DEF Entry
<1>18. Ledger!Advance(f, a)
  BY <1>14, <1>15, <1>16, <1>17 DEF Ledger!Advance
<1> QED
  BY <1>11, <1>18

LEMMA LedgerStep ==
  ASSUME TypeInv, SupersededInv, TurnsInv, TypeInv', SupersededInv', TurnsInv',
         NEW p \in Procs, StepOf(p), scope' = scope
  PROVE  Ledger!Next \/ Book' = Book
<1>1. CASE ~scope.isolated
  BY <1>1 DEF Book
<1>2. CASE scope.isolated /\ \A n \in 1..Len(attempts) : attempts'[n].receipt = attempts[n].receipt
  BY <1>2, StaysLedger
<1>3. CASE /\ scope.isolated
           /\ \E n \in 1..Len(attempts) : attempts'[n].receipt # attempts[n].receipt
  <2> DEFINE k == Len(attempts)
             r == job[p].receipt
  <2>1. /\ k \in 1..k /\ Len(attempts') = k /\ r \in Documents
        /\ Extends(attempts[k].receipt, r)
        /\ Chained(attempts'[k].receipt, r)
        /\ \A n \in 1..k : n # k => attempts'[n].receipt = attempts[n].receipt
    BY <1>3, PlacesReceipt
  <2>2. PICK x \in Documents : x = r
    BY <2>1
  <2> HIDE DEF r
  <2>3. CASE Begins(attempts[k].receipt, r)
    BY <1>3, <2>1, <2>2, <2>3, StartsLedger DEF Ledger!Next
  <2>4. ASSUME NEW d \in Documents, NEW f \in AttemptPhase, NEW a \in Bytes \cup {Absent},
               GoesOn(attempts[k].receipt, d, f, a, r)
        PROVE  Ledger!Next
    BY <1>3, <2>1, <2>2, <2>4, AdvancesLedger DEF Ledger!Next
  <2> QED
    BY <2>1, <2>3, <2>4 DEF Extends
<1> QED
  BY <1>1, <1>2, <1>3

\* With one operation at a time, the files implement an append-only ledger: of
\* the attempts that have a receipt only the last grows, by later phases, and
\* a new one starts only after a failure.
THEOREM AttemptsImplementLedger == Spec => AppendOnly
<1>1. Init => Ledger!Init
  <2> SUFFICES ASSUME Init PROVE Book = <<>>
    BY DEF Ledger!Init
  <2>1. Superseded(attempts) /\ attempts \in Seq(Folders) /\ Len(attempts) = 0
    BY EmptySeq DEF Init, Superseded
  <2>2. TypeInv /\ SupersededFailed
    BY InitType, <2>1 DEF SupersededFailed
  <2>3. Size(attempts) = 0
    BY <2>1 DEF Size
  <2>4. CASE scope.isolated
    <3>1. Book = [n \in 1..0 |-> LastOf(attempts[n].receipt)]
      BY <2>2, <2>3, <2>4, BookIs DEF TypeInv, Pages
    <3> QED
      BY <3>1
  <2> QED
    BY <2>4 DEF Book
<1>2. TypeInv /\ SupersededInv /\ TurnsInv /\ TypeInv' /\ SupersededInv' /\ TurnsInv'
      /\ [Next]_vars => [Ledger!Next]_Book
  <2> SUFFICES ASSUME TypeInv, SupersededInv, TurnsInv, TypeInv', SupersededInv', TurnsInv',
                      [Next]_vars
               PROVE  Ledger!Next \/ Book' = Book
    OBVIOUS
  <2>1. CASE UNCHANGED vars
    BY <2>1 DEF vars, Book, Shown, Recorded, LastReceipt, LastPhase
  <2> QED
    BY <2>1, LedgerStep DEF Next, StepOf
<1> QED
  BY <1>1, <1>2, InitType, NextType, InitSuperseded, NextSuperseded, InitTurns, NextTurns, PTL
     DEF Spec, AppendOnly, Ledger!Spec
=============================================================================
