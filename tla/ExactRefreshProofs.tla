------------------------- MODULE ExactRefreshProofs -------------------------
(***************************************************************************)
(* Proofs about ExactRefresh, for every number of processes, providers,    *)
(* requests, files and records.                                            *)
(***************************************************************************)
EXTENDS ExactRefresh, TLAPS

-----------------------------------------------------------------------------
(***************************************************************************)
(* The inductive invariant.                                                *)
(***************************************************************************)

\* Only a call hashes files.
HashingBusy == \A p \in Procs : todo[p] # {} => pc[p] # "idle"

\* While a commit holds the write lock, held has every file that is as planned
\* now, and every file that was when it was hashed.
HeldComplete ==
  \A p \in Procs : pc[p] \in {"rehash", "final"} =>
    /\ AsPlanned(p, files[Provider(p)]) \subseteq held[p]
    /\ \A f \in Files \ todo[p] : found[p][f] = work[p].hashes[f] => f \in held[p]

\* Inside a transaction the committed rows are those its checks have met, and
\* the transaction sees the rows it is going to leave.
RowsPinned ==
  \A p \in Procs :
    /\ pc[p] \in {"rehash", "final"} => rows[Provider(p)] = work[p].baseline
    /\ pc[p] = "final" => txn = work[p].desired
    /\ pc[p] = "undone" => rows[Provider(p)] = work[p].post /\ txn = work[p].pre

RefreshInv == TypeOK /\ HashingBusy /\ HeldComplete /\ RowsPinned

-----------------------------------------------------------------------------
(***************************************************************************)
(* Operators.                                                              *)
(***************************************************************************)

\* No file hashed, no row, and what follows from the kinds of values.
LEMMA Values ==
  /\ [f \in Files |-> Absent] \in Hashes
  /\ NoRows \in Tables
  /\ \A t \in Tables, k \in Keys : t[k] \in Rows \cup {Absent}
  BY DEF Hashes, NoRows, Tables

\* The operations between two tables, and their inverses.
LEMMA OperationsType ==
  ASSUME NEW before \in Tables, NEW after \in Tables
  PROVE  Operations(before, after) \in SUBSET Operation
  BY DEF Operations, Operation, Tables

LEMMA InverseType ==
  ASSUME NEW ops \in SUBSET Operation
  PROVE  Inverse(ops) \in SUBSET Operation
  BY DEF Inverse, Operation

\* A dry run makes a plan, a commit makes a journal.
LEMMA MakePlanType ==
  ASSUME NEW u \in Units, NEW hashes \in Hashes, NEW before \in Tables
  PROVE  MakePlan(u, hashes, before) \in Plans
  BY UnitAssumption, OperationsType DEF MakePlan, Plans

LEMMA MakeJournalType ==
  ASSUME NEW w \in Plans
  PROVE  MakeJournal(w) \in Journals
  BY InverseType DEF MakeJournal, Plans, Journals

\* A call of a process is for a provider.
LEMMA ProviderType ==
  ASSUME TypeOK, NEW p \in Procs, pc[p] # "idle"
  PROVE  unit[p] \in Units /\ Provider(p) \in Providers
  BY UnitAssumption DEF TypeOK, Provider

-----------------------------------------------------------------------------
(***************************************************************************)
(* The inductive invariant holds initially and is kept by every action.    *)
(***************************************************************************)

LEMMA InitInv == Init => RefreshInv
<1> SUFFICES ASSUME Init PROVE RefreshInv
  OBVIOUS
<1>1. TypeOK
  BY Values, AbsentAssumption DEF Init, TypeOK, Committing, InTransaction
<1>2. HashingBusy /\ HeldComplete /\ RowsPinned
  BY DEF Init, HashingBusy, HeldComplete, RowsPinned
<1> QED
  BY <1>1, <1>2 DEF RefreshInv

LEMMA HashFileInv ==
  ASSUME RefreshInv, NEW p \in Procs, HashFile(p)
  PROVE  RefreshInv'
<1> USE DEF RefreshInv
<1>1. PICK f \in todo[p] :
        /\ todo' = [todo EXCEPT ![p] = @ \ {f}]
        /\ found' = [found EXCEPT ![p] = [@ EXCEPT ![f] = files[Provider(p)][f]]]
        /\ UNCHANGED <<files, rows, lock, txn, plan, journal, pc, unit, work, held>>
  BY DEF HashFile
<1>2. pc[p] # "idle" /\ Provider(p) \in Providers /\ f \in Files
  BY ProviderType DEF HashingBusy, TypeOK
<1>3. TypeOK'
  <2>1. found' \in [Procs -> Hashes]
    BY <1>1, <1>2 DEF TypeOK, Hashes
  <2>2. todo' \in [Procs -> SUBSET Files]
    BY <1>1 DEF TypeOK
  <2> QED
    BY <1>1, <2>1, <2>2 DEF TypeOK
<1>4. HashingBusy'
  BY <1>1, <1>2 DEF HashingBusy, TypeOK
<1>5. HeldComplete'
  <2> SUFFICES ASSUME NEW q \in Procs, pc[q] \in {"rehash", "final"}
               PROVE  /\ AsPlanned(q, files[Provider(q)]) \subseteq held[q]
                      /\ \A g \in Files \ todo'[q] :
                           found'[q][g] = work[q].hashes[g] => g \in held[q]
    BY <1>1 DEF HeldComplete, AsPlanned, Provider
  <2>1. CASE q # p
    BY <1>1, <2>1 DEF HeldComplete, TypeOK
  <2>2. CASE q = p
    <3>1. /\ todo'[p] = todo[p] \ {f}
          /\ found'[p][f] = files[Provider(p)][f]
          /\ \A g \in Files \ {f} : found'[p][g] = found[p][g]
      BY <1>1, <1>2 DEF TypeOK, Hashes
    <3> QED
      BY <2>2, <3>1 DEF HeldComplete, AsPlanned
  <2> QED
    BY <2>1, <2>2
<1>6. RowsPinned'
  BY <1>1 DEF RowsPinned, Provider
<1> QED
  BY <1>3, <1>4, <1>5, <1>6

\* A call that ends: what Forget leaves of the type invariant.
LEMMA ForgetType ==
  ASSUME TypeOK, NEW p \in Procs, Forget(p)
  PROVE  /\ pc' \in [Procs -> {"idle", "dry", "undo"} \cup Committing \cup InTransaction]
         /\ unit' \in [Procs -> Units \cup {Absent}]
         /\ work' \in [Procs -> Plans \cup Journals \cup {Absent}]
         /\ todo' \in [Procs -> SUBSET Files]
         /\ found' \in [Procs -> Hashes]
         /\ held' \in [Procs -> SUBSET Files]
         /\ pc'[p] = "idle" /\ todo'[p] = {}
         /\ \A q \in Procs \ {p} :
              /\ pc'[q] = pc[q] /\ unit'[q] = unit[q] /\ work'[q] = work[q]
              /\ todo'[q] = todo[q] /\ found'[q] = found[q] /\ held'[q] = held[q]
<1>1. [f \in Files |-> Absent] \in Hashes
  BY Values
<1> QED
  BY <1>1 DEF TypeOK, Forget

\* A call that ends keeps the invariant, if it leaves the rows as they are or
\* gives the lock up, and the lock is its own to give.
LEMMA ForgetInv ==
  ASSUME RefreshInv, NEW p \in Procs, Forget(p), UNCHANGED files,
         rows' \in [Providers -> Tables],
         plan' \in [Units -> Plans \cup {Absent}],
         journal' \in [Units -> Journals \cup {Absent}],
         \/ lock # p /\ UNCHANGED <<rows, lock, txn>>
         \/ lock = p /\ lock' = Absent /\ txn' = NoRows
  PROVE  RefreshInv'
<1> USE DEF RefreshInv
<1>1. TypeOK'
  <2>1. lock' \in Procs \cup {Absent} /\ txn' \in Tables
    BY Values DEF TypeOK
  <2>2. \A q \in Procs : lock' = q <=> pc'[q] \in InTransaction
    BY ForgetType, AbsentAssumption DEF TypeOK, InTransaction
  <2>3. \A q \in Procs :
          /\ pc'[q] # "idle" => unit'[q] \in Units
          /\ pc'[q] \in Committing => work'[q] \in Plans
          /\ pc'[q] \in {"undo", "undone"} => work'[q] \in Journals
    BY ForgetType DEF TypeOK, Committing
  <2> QED
    BY <2>1, <2>2, <2>3, ForgetType DEF TypeOK
<1>2. HashingBusy'
  BY ForgetType DEF HashingBusy
<1>3. HeldComplete'
  BY ForgetType DEF HeldComplete, AsPlanned, Provider
<1>4. RowsPinned'
  <2> SUFFICES ASSUME NEW q \in Procs \ {p}
               PROVE  /\ pc[q] \in {"rehash", "final"} =>
                           rows'[Provider(q)] = work[q].baseline
                      /\ pc[q] = "final" => txn' = work[q].desired
                      /\ pc[q] = "undone" =>
                           rows'[Provider(q)] = work[q].post /\ txn' = work[q].pre
    BY ForgetType DEF RowsPinned, Provider
  <2>1. CASE UNCHANGED <<rows, txn>>
    BY <2>1 DEF RowsPinned
  <2>2. CASE lock = p
    BY <2>2 DEF TypeOK, InTransaction
  <2> QED
    BY <2>1, <2>2
<1> QED
  BY <1>1, <1>2, <1>3, <1>4

LEMMA ReviewInv ==
  ASSUME RefreshInv, NEW p \in Procs, Review(p)
  PROVE  RefreshInv'
<1> USE DEF RefreshInv
<1>1. unit[p] \in Units /\ Provider(p) \in Providers
  BY ProviderType DEF Review
<1>2. MakePlan(unit[p], found[p], rows[Provider(p)]) \in Plans
  BY <1>1, MakePlanType DEF TypeOK
<1>3. plan' \in [Units -> Plans \cup {Absent}]
  BY <1>2 DEF Review, TypeOK
<1>4. lock # p
  BY DEF Review, TypeOK, InTransaction
<1> QED
  BY <1>3, <1>4, ForgetInv DEF Review, TypeOK

LEMMA ResultInv ==
  ASSUME RefreshInv, NEW p \in Procs, Result(p)
  PROVE  RefreshInv'
<1> USE DEF RefreshInv
<1>1. unit[p] \in Units /\ work[p] \in Plans /\ lock # p
  BY DEF Result, TypeOK, Committing, InTransaction
<1>2. journal' \in [Units -> Journals \cup {Absent}]
  BY <1>1, MakeJournalType DEF Result, TypeOK
<1> QED
  BY <1>1, <1>2, ForgetInv DEF Result, TypeOK

LEMMA CommitRollbackInv ==
  ASSUME RefreshInv, NEW p \in Procs, CommitRollback(p)
  PROVE  RefreshInv'
<1> USE DEF RefreshInv
<1>1. lock = p
  BY DEF CommitRollback, TypeOK, InTransaction
<1>2. rows' \in [Providers -> Tables]
  BY DEF CommitRollback, TypeOK
<1> QED
  BY <1>1, <1>2, ForgetInv DEF CommitRollback, TypeOK

LEMMA FailsInv ==
  ASSUME RefreshInv, NEW p \in Procs, Fails(p)
  PROVE  RefreshInv'
<1> USE DEF RefreshInv
<1>1. \/ lock # p /\ UNCHANGED <<rows, lock, txn>>
      \/ lock = p /\ lock' = Absent /\ txn' = NoRows
  BY DEF Fails, Released
<1> QED
  BY <1>1, ForgetInv DEF Fails, TypeOK

\* A call starts outside any transaction and disturbs no other call.
LEMMA BeginCallInv ==
  ASSUME RefreshInv, NEW p \in Procs, NEW u \in Units,
         BeginDryRun(p, u) \/ BeginCommit(p, u) \/ BeginRollback(p, u)
  PROVE  RefreshInv'
<1> USE DEF RefreshInv
<1>1. /\ pc[p] = "idle" /\ pc'[p] \in {"dry", "commit", "undo"}
      /\ pc' = [pc EXCEPT ![p] = pc'[p]]
      /\ unit' = [unit EXCEPT ![p] = u]
      /\ work' = [work EXCEPT ![p] = work'[p]]
      /\ UNCHANGED <<files, rows, lock, txn, plan, journal, held>>
  BY DEF BeginDryRun, BeginCommit, BeginRollback, Start, Goto, TypeOK
<1>2. /\ todo' = [todo EXCEPT ![p] = todo'[p]] /\ todo'[p] \in SUBSET Files
      /\ found' = [found EXCEPT ![p] = found'[p]] /\ found'[p] \in Hashes
  BY Values DEF BeginDryRun, BeginCommit, BeginRollback, StartHashing, TypeOK
<1>3. \A q \in Procs \ {p} :
        /\ pc'[q] = pc[q] /\ unit'[q] = unit[q] /\ work'[q] = work[q]
        /\ todo'[q] = todo[q] /\ found'[q] = found[q]
  BY <1>1, <1>2 DEF BeginDryRun, BeginCommit, BeginRollback, Start, TypeOK
<1>4. TypeOK'
  <2>1. /\ pc'[p] = "commit" => work'[p] \in Plans
        /\ pc'[p] = "undo" => work'[p] \in Journals
        /\ work'[p] \in Plans \cup Journals \cup {Absent}
    BY DEF BeginDryRun, BeginCommit, BeginRollback, Start, Goto, TypeOK
  <2>2. \A q \in Procs :
          /\ pc'[q] # "idle" => unit'[q] \in Units
          /\ pc'[q] \in Committing => work'[q] \in Plans
          /\ pc'[q] \in {"undo", "undone"} => work'[q] \in Journals
          /\ lock' = q <=> pc'[q] \in InTransaction
    BY <1>1, <1>3, <2>1 DEF TypeOK, Committing, InTransaction
  <2>3. pc' \in [Procs -> {"idle", "dry", "undo"} \cup Committing \cup InTransaction]
    BY <1>1 DEF TypeOK, Committing
  <2>4. /\ unit' \in [Procs -> Units \cup {Absent}]
        /\ work' \in [Procs -> Plans \cup Journals \cup {Absent}]
    BY <1>1, <2>1 DEF TypeOK
  <2>5. todo' \in [Procs -> SUBSET Files] /\ found' \in [Procs -> Hashes]
    BY <1>2 DEF TypeOK
  <2> QED
    BY <1>1, <2>2, <2>3, <2>4, <2>5 DEF TypeOK
<1>5. HashingBusy'
  BY <1>1, <1>3 DEF HashingBusy
<1>6. HeldComplete'
  BY <1>1, <1>3 DEF HeldComplete, AsPlanned, Provider
<1>7. RowsPinned'
  BY <1>1, <1>3 DEF RowsPinned, Provider
<1> QED
  BY <1>4, <1>5, <1>6, <1>7

\* A step of p within its call: everything of the others stays.
LEMMA OthersStay ==
  ASSUME TypeOK, NEW p \in Procs,
         CheckInputs(p) \/ Begin(p) \/ Apply(p) \/ Commit(p) \/ Revert(p)
  PROVE  /\ UNCHANGED <<files, plan, journal, unit, work>>
         /\ pc' = [pc EXCEPT ![p] = pc'[p]]
         /\ \A q \in Procs \ {p} : pc'[q] = pc[q] /\ todo'[q] = todo[q]
                                   /\ found'[q] = found[q] /\ held'[q] = held[q]
         /\ todo' \in [Procs -> SUBSET Files] /\ found' \in [Procs -> Hashes]
         /\ held' \in [Procs -> SUBSET Files]
<1>1. [f \in Files |-> Absent] \in Hashes
  BY Values
<1>2. AsPlanned(p, files[Provider(p)]) \in SUBSET Files
  BY DEF AsPlanned
<1>3. CASE CheckInputs(p)
  BY <1>1, <1>3 DEF CheckInputs, Goto, TypeOK
<1>4. CASE Begin(p)
  BY <1>1, <1>2, <1>4 DEF Begin, StartHashing, Goto, TypeOK
<1>5. CASE Apply(p)
  BY <1>1, <1>5 DEF Apply, StartHashing, Goto, TypeOK
<1>6. CASE Commit(p)
  BY <1>1, <1>6 DEF Commit, Goto, TypeOK
<1>7. CASE Revert(p)
  BY <1>7 DEF Revert, Goto, TypeOK
<1> QED
  BY <1>3, <1>4, <1>5, <1>6, <1>7

\* Such a step keeps the types if it takes and gives up the lock as its pc says.
LEMMA StepType ==
  ASSUME TypeOK, NEW p \in Procs,
         CheckInputs(p) \/ Begin(p) \/ Apply(p) \/ Commit(p) \/ Revert(p),
         rows' \in [Providers -> Tables], txn' \in Tables,
         \/ pc[p] \in Committing /\ pc'[p] \in Committing
         \/ pc[p] = "undo" /\ pc'[p] = "undone",
         \/ lock' = lock /\ (pc[p] \in InTransaction <=> pc'[p] \in InTransaction)
         \/ lock = Absent /\ lock' = p /\ pc'[p] \in InTransaction
         \/ lock = p /\ lock' = Absent /\ pc'[p] \notin InTransaction
  PROVE  TypeOK'
<1>1. \A q \in Procs : lock' = q <=> pc'[q] \in InTransaction
  BY OthersStay, AbsentAssumption DEF TypeOK
<1>2. \A q \in Procs :
        /\ pc'[q] # "idle" => unit'[q] \in Units
        /\ pc'[q] \in Committing => work'[q] \in Plans
        /\ pc'[q] \in {"undo", "undone"} => work'[q] \in Journals
  BY OthersStay DEF TypeOK, Committing
<1>3. pc' \in [Procs -> {"idle", "dry", "undo"} \cup Committing \cup InTransaction]
  BY OthersStay DEF TypeOK, InTransaction
<1>4. lock' \in Procs \cup {Absent}
  BY DEF TypeOK
<1> QED
  BY <1>1, <1>2, <1>3, <1>4, OthersStay DEF TypeOK

LEMMA CheckInputsInv ==
  ASSUME RefreshInv, NEW p \in Procs, CheckInputs(p)
  PROVE  RefreshInv'
<1> USE DEF RefreshInv
<1>1. pc[p] = "commit" /\ pc'[p] = "begin" /\ todo' = todo /\ held' = held
      /\ UNCHANGED <<rows, lock, txn>>
  BY DEF CheckInputs, Goto, TypeOK
<1>2. TypeOK'
  BY <1>1, StepType DEF TypeOK, Committing, InTransaction
<1>3. HashingBusy' /\ HeldComplete' /\ RowsPinned'
  BY <1>1, OthersStay DEF HashingBusy, HeldComplete, RowsPinned, AsPlanned, Provider
<1> QED
  BY <1>2, <1>3

LEMMA BeginInv ==
  ASSUME RefreshInv, NEW p \in Procs, Begin(p)
  PROVE  RefreshInv'
<1> USE DEF RefreshInv
<1>1. /\ pc[p] = "begin" /\ pc'[p] = "rehash" /\ lock = Absent /\ lock' = p
      /\ rows[Provider(p)] = work[p].baseline /\ rows' = rows
      /\ todo'[p] = Files /\ held'[p] = AsPlanned(p, files[Provider(p)])
  BY DEF Begin, Goto, StartHashing, TypeOK
<1>2. rows' \in [Providers -> Tables] /\ txn' \in Tables
  BY <1>1, ProviderType DEF Begin, TypeOK
<1>3. TypeOK'
  BY <1>1, <1>2, StepType DEF Committing, InTransaction
<1>4. HashingBusy'
  BY <1>1, OthersStay DEF HashingBusy
<1>5. HeldComplete'
  BY <1>1, OthersStay DEF HeldComplete, AsPlanned, Provider
<1>6. \A q \in Procs \ {p} : pc'[q] \notin InTransaction
  BY <1>1, OthersStay, AbsentAssumption DEF TypeOK
<1>7. RowsPinned'
  BY <1>1, <1>6, OthersStay DEF RowsPinned, Provider, InTransaction
<1> QED
  BY <1>3, <1>4, <1>5, <1>7

LEMMA ApplyInv ==
  ASSUME RefreshInv, NEW p \in Procs, Apply(p)
  PROVE  RefreshInv'
<1> USE DEF RefreshInv
<1>1. /\ pc[p] = "rehash" /\ pc'[p] = "final" /\ txn' = work[p].desired
      /\ UNCHANGED <<rows, lock>> /\ held' = held /\ todo'[p] = Files
  BY DEF Apply, Goto, StartHashing, TypeOK
<1>2. lock = p /\ work[p] \in Plans
  BY <1>1 DEF TypeOK, InTransaction, Committing
<1>3. TypeOK'
  <2>1. rows' \in [Providers -> Tables] /\ txn' \in Tables
    BY <1>1, <1>2 DEF TypeOK, Plans
  <2> QED
    BY <1>1, <2>1, StepType DEF Committing, InTransaction
<1>4. HashingBusy'
  BY <1>1, OthersStay DEF HashingBusy
<1>5. HeldComplete'
  BY <1>1, OthersStay DEF HeldComplete, AsPlanned, Provider
<1>6. \A q \in Procs \ {p} : pc'[q] \notin InTransaction
  BY <1>2, OthersStay DEF TypeOK
<1>7. RowsPinned'
  BY <1>1, <1>6, OthersStay DEF RowsPinned, Provider, InTransaction
<1> QED
  BY <1>3, <1>4, <1>5, <1>7

LEMMA CommitInv ==
  ASSUME RefreshInv, NEW p \in Procs, Commit(p)
  PROVE  RefreshInv'
<1> USE DEF RefreshInv
<1>1. /\ pc[p] = "final" /\ pc'[p] = "result" /\ lock' = Absent /\ txn' = NoRows
      /\ rows' = [rows EXCEPT ![Provider(p)] = txn] /\ todo' = todo
  BY DEF Commit, Goto, TypeOK
<1>2. lock = p
  BY <1>1 DEF TypeOK, InTransaction
<1>3. TypeOK'
  <2>1. rows' \in [Providers -> Tables] /\ txn' \in Tables
    BY <1>1, Values DEF TypeOK
  <2> QED
    BY <1>1, <1>2, <2>1, StepType DEF Committing, InTransaction
<1>4. HashingBusy'
  BY <1>1, OthersStay DEF HashingBusy
<1>5. HeldComplete'
  BY <1>1, OthersStay DEF HeldComplete, AsPlanned, Provider
<1>6. \A q \in Procs : pc'[q] \notin InTransaction
  BY <1>1, <1>2, OthersStay DEF TypeOK, InTransaction
<1>7. RowsPinned'
  BY <1>6 DEF RowsPinned, InTransaction
<1> QED
  BY <1>3, <1>4, <1>5, <1>7

LEMMA RevertInv ==
  ASSUME RefreshInv, NEW p \in Procs, Revert(p)
  PROVE  RefreshInv'
<1> USE DEF RefreshInv
<1>1. /\ pc[p] = "undo" /\ pc'[p] = "undone" /\ lock = Absent /\ lock' = p
      /\ rows[Provider(p)] = work[p].post /\ txn' = work[p].pre
      /\ UNCHANGED <<rows, todo>>
  BY DEF Revert, Goto, TypeOK
<1>2. TypeOK'
  <2>1. work[p] \in Journals
    BY <1>1 DEF TypeOK
  <2>2. rows' \in [Providers -> Tables] /\ txn' \in Tables
    BY <1>1, <2>1 DEF TypeOK, Journals
  <2> QED
    BY <1>1, <2>2, StepType DEF InTransaction
<1>3. HashingBusy'
  BY <1>1, OthersStay DEF HashingBusy
<1>4. HeldComplete'
  BY <1>1, OthersStay DEF HeldComplete, AsPlanned, Provider
<1>5. \A q \in Procs \ {p} : pc'[q] \notin InTransaction
  BY <1>1, OthersStay, AbsentAssumption DEF TypeOK
<1>6. RowsPinned'
  BY <1>1, <1>5, OthersStay DEF RowsPinned, Provider, InTransaction
<1> QED
  BY <1>2, <1>3, <1>4, <1>6

LEMMA EditFileInv ==
  ASSUME RefreshInv, NEW v \in Providers, NEW f \in Files, NEW c \in Contents,
         EditFile(v, f, c)
  PROVE  RefreshInv'
<1> USE DEF RefreshInv
<1>1. /\ files' \in [Providers -> [Files -> Contents]]
      /\ \A w \in Providers \ {v} : files'[w] = files[w]
      /\ UNCHANGED <<rows, lock, txn, plan, journal, pc, unit, work, todo, found>>
  BY DEF EditFile, TypeOK
<1>2. \A q \in Procs : AsPlanned(q, files'[v]) \in SUBSET Files
  BY DEF AsPlanned
<1>3. /\ held' \in [Procs -> SUBSET Files]
      /\ \A q \in Procs : pc[q] \in {"rehash", "final"} =>
           held'[q] = IF Provider(q) = v THEN held[q] \cup AsPlanned(q, files'[v]) ELSE held[q]
  BY <1>2 DEF EditFile, TypeOK
<1>4. TypeOK'
  BY <1>1, <1>3 DEF TypeOK
<1>5. HashingBusy'
  BY <1>1 DEF HashingBusy
<1>6. HeldComplete'
  <2> SUFFICES ASSUME NEW q \in Procs, pc[q] \in {"rehash", "final"}
               PROVE  /\ AsPlanned(q, files'[Provider(q)]) \subseteq held'[q]
                      /\ \A g \in Files \ todo[q] :
                           found[q][g] = work[q].hashes[g] => g \in held'[q]
    BY <1>1 DEF HeldComplete, AsPlanned, Provider
  <2>1. Provider(q) \in Providers
    BY ProviderType
  <2> QED
    BY <1>1, <1>3, <2>1 DEF HeldComplete
<1>7. RowsPinned'
  BY <1>1 DEF RowsPinned, Provider
<1> QED
  BY <1>4, <1>5, <1>6, <1>7

LEMMA NextInv ==
  ASSUME RefreshInv, [Next]_vars
  PROVE  RefreshInv'
<1>1. ASSUME NEW p \in Procs, Step(p) PROVE RefreshInv'
  BY <1>1, HashFileInv, ReviewInv, CheckInputsInv, BeginInv, ApplyInv, CommitInv,
     ResultInv, RevertInv, CommitRollbackInv, FailsInv DEF Step
<1>2. CASE UNCHANGED vars
  BY <1>2 DEF vars, RefreshInv, TypeOK, HashingBusy, HeldComplete, RowsPinned,
              AsPlanned, Provider
<1> QED
  BY <1>1, <1>2, BeginCallInv, EditFileInv DEF Next

\* The inductive invariant holds in every reachable state.
THEOREM Invariance == Spec => []RefreshInv
  BY InitInv, NextInv, PTL DEF Spec

\* Every variable keeps its type, and the write lock is held by exactly the
\* process that is in its transaction.
THEOREM TypeCorrect == Spec => []TypeOK
<1>1. RefreshInv => TypeOK
  BY DEF RefreshInv
<1> QED
  BY <1>1, Invariance, PTL

-----------------------------------------------------------------------------
(***************************************************************************)
(* A commit is for the inputs that were reviewed.                          *)
(***************************************************************************)

\* Rows change only where a transaction commits.
LEMMA RowsChange ==
  ASSUME [Next]_vars, rows' # rows
  PROVE  \E p \in Procs : Commit(p) \/ CommitRollback(p)
<1>1. \A p \in Procs : Step(p) => Commit(p) \/ CommitRollback(p)
  BY DEF Step, HashFile, Review, CheckInputs, Begin, Apply, Result, Revert, Fails
<1>2. \A p \in Procs, u \in Units : ~(BeginDryRun(p, u) \/ BeginCommit(p, u) \/ BeginRollback(p, u))
  BY DEF BeginDryRun, BeginCommit, BeginRollback
<1>3. \A v \in Providers, f \in Files, c \in Contents : ~EditFile(v, f, c)
  BY DEF EditFile
<1> QED
  BY <1>1, <1>2, <1>3 DEF Next, vars

LEMMA CommitsReviewed ==
  ASSUME RefreshInv, [Next]_vars, NEW p \in Procs, lock = p, pc[p] = "final", rows' # rows
  PROVE  held[p] = Files
<1>1. PICK q \in Procs : Commit(q) \/ CommitRollback(q)
  BY RowsChange
<1>2. pc[q] \in InTransaction
  BY <1>1 DEF Commit, CommitRollback, Goto, InTransaction
<1>3. q = p
  BY <1>2 DEF RefreshInv, TypeOK
<1>4. todo[p] = {} /\ found[p] = work[p].hashes
  BY <1>1, <1>3 DEF Commit, CommitRollback, SameInputs, Hashed
<1>5. Files \subseteq held[p]
  BY <1>4 DEF RefreshInv, HeldComplete
<1> QED
  BY <1>5 DEF RefreshInv, TypeOK

\* Rows are committed only while every file of the provider was, at some moment
\* under the write lock, as the reviewed plan has it.
THEOREM CommitsReviewedInputs == Spec => ReviewedInputs
<1>1. RefreshInv /\ [Next]_vars =>
        [\A p \in Procs : (lock = p /\ pc[p] = "final" /\ rows' # rows) => held[p] = Files]_vars
  BY CommitsReviewed
<1> QED
  BY <1>1, Invariance, PTL DEF Spec, ReviewedInputs

-----------------------------------------------------------------------------
(***************************************************************************)
(* Refinement: the refresh implements the contract of atomic swaps.        *)
(***************************************************************************)

\* The swap that a committing call, or one that takes a journal back, is about.
CommitOf(p) == SwapOf(Provider(p), work[p].baseline, work[p].desired)
UndoOf(p) == SwapOf(Provider(p), work[p].pre, work[p].post)

\* What a reviewed plan or a held journal is about.
PlanOf(u) == SwapOf(ProviderOf[u], plan[u].baseline, plan[u].desired)
JournalOf(u) == SwapOf(ProviderOf[u], journal[u].pre, journal[u].post)

\* A swap is shown if a plan or a committing call is about it.
LEMMA ShownMembers ==
  \A s : s \in Shown <=>
    \/ \E u \in Units : plan[u] # Absent /\ s = PlanOf(u)
    \/ \E p \in Procs : pc[p] \in Committing /\ s = CommitOf(p)
  BY DEF Shown, PlanOf, CommitOf

\* A swap is done if a journal, a call that takes it back, or a call that has
\* still to hand its journal out is about it.
LEMMA DoneMembers ==
  \A s : s \in Done <=>
    \/ \E u \in Units : journal[u] # Absent /\ s = JournalOf(u)
    \/ \E p \in Procs : pc[p] \in {"undo", "undone"} /\ s = UndoOf(p)
    \/ \E p \in Procs : pc[p] = "result" /\ s = CommitOf(p)
  BY DEF Done, JournalOf, UndoOf, CommitOf

\* The same of the next state.
LEMMA NextShownMembers ==
  \A s : s \in Shown' <=>
    \/ \E u \in Units : plan'[u] # Absent /\ s = PlanOf(u)'
    \/ \E p \in Procs : pc'[p] \in Committing /\ s = CommitOf(p)'
  BY DEF Shown, PlanOf, CommitOf, Committing

LEMMA NextDoneMembers ==
  \A s : s \in Done' <=>
    \/ \E u \in Units : journal'[u] # Absent /\ s = JournalOf(u)'
    \/ \E p \in Procs : pc'[p] \in {"undo", "undone"} /\ s = UndoOf(p)'
    \/ \E p \in Procs : pc'[p] = "result" /\ s = CommitOf(p)'
  BY DEF Done, JournalOf, UndoOf, CommitOf

\* A call that goes on is about the same swap as before.
Same(p) == unit'[p] = unit[p] /\ work'[p] = work[p]

LEMMA SameSwaps ==
  ASSUME NEW p \in Procs, Same(p)
  PROVE  CommitOf(p)' = CommitOf(p) /\ UndoOf(p)' = UndoOf(p)
  BY DEF Same, CommitOf, UndoOf, Provider, SwapOf

\* Nothing new is shown where a commit goes on or starts from a reviewed plan.
LEMMA ShownShrinks ==
  ASSUME plan' = plan,
         \A p \in Procs : pc'[p] \in Committing =>
           \/ pc[p] \in Committing /\ Same(p)
           \/ unit'[p] \in Units /\ plan[unit'[p]] # Absent /\ work'[p] = plan[unit'[p]]
  PROVE  Shown' \subseteq Shown
<1> SUFFICES ASSUME NEW s \in Shown' PROVE s \in Shown
  OBVIOUS
<1>1. CASE \E u \in Units : plan'[u] # Absent /\ s = PlanOf(u)'
  BY <1>1, ShownMembers DEF PlanOf
<1>2. ASSUME NEW p \in Procs, pc'[p] \in Committing, s = CommitOf(p)'
      PROVE  s \in Shown
  <2>1. CASE pc[p] \in Committing /\ Same(p)
    BY <1>2, <2>1, SameSwaps, ShownMembers
  <2>2. CASE unit'[p] \in Units /\ plan[unit'[p]] # Absent /\ work'[p] = plan[unit'[p]]
    <3>1. s = PlanOf(unit'[p])
      BY <1>2, <2>2 DEF CommitOf, PlanOf, Provider
    <3> QED
      BY <2>2, <3>1, ShownMembers
  <2> QED
    BY <1>2, <2>1, <2>2
<1> QED
  BY <1>1, <1>2, NextShownMembers

\* Nothing new is done where no commit has just happened.
LEMMA DoneShrinks ==
  ASSUME journal' = journal,
         \A p \in Procs : pc'[p] \in {"undo", "undone"} =>
           \/ pc[p] \in {"undo", "undone"} /\ Same(p)
           \/ unit'[p] \in Units /\ journal[unit'[p]] # Absent /\ work'[p] = journal[unit'[p]],
         \A p \in Procs : pc'[p] = "result" => pc[p] = "result" /\ Same(p)
  PROVE  Done' \subseteq Done
<1> SUFFICES ASSUME NEW s \in Done' PROVE s \in Done
  OBVIOUS
<1>1. CASE \E u \in Units : journal'[u] # Absent /\ s = JournalOf(u)'
  BY <1>1, DoneMembers DEF JournalOf
<1>2. ASSUME NEW p \in Procs, pc'[p] \in {"undo", "undone"}, s = UndoOf(p)'
      PROVE  s \in Done
  <2>1. CASE pc[p] \in {"undo", "undone"} /\ Same(p)
    BY <1>2, <2>1, SameSwaps, DoneMembers
  <2>2. CASE unit'[p] \in Units /\ journal[unit'[p]] # Absent /\ work'[p] = journal[unit'[p]]
    <3>1. s = JournalOf(unit'[p])
      BY <1>2, <2>2 DEF UndoOf, JournalOf, Provider
    <3> QED
      BY <2>2, <3>1, DoneMembers
  <2> QED
    BY <1>2, <2>1, <2>2
<1>3. ASSUME NEW p \in Procs, pc'[p] = "result", s = CommitOf(p)'
      PROVE  s \in Done
  BY <1>3, SameSwaps, DoneMembers
<1> QED
  BY <1>1, <1>2, <1>3, NextDoneMembers

\* The swaps are swaps of the contract.
LEMMA SwapTypes ==
  ASSUME TypeOK
  PROVE  /\ \A p \in Procs : pc[p] \in Committing => CommitOf(p) \in Contract!Swaps
         /\ \A p \in Procs : pc[p] \in {"undo", "undone"} => UndoOf(p) \in Contract!Swaps
         /\ \A p \in Procs : pc[p] # "idle" =>
              \A t \in Tables :
                SwapOf(Provider(p), t, Desired[unit[p]]) \in Contract!Swaps
<1>1. \A p \in Procs : pc[p] \in Committing \cup {"undo", "undone"} => pc[p] # "idle"
  BY DEF Committing
<1>2. \A p \in Procs : pc[p] # "idle" => Provider(p) \in Providers /\ Desired[unit[p]] \in Tables
  BY ProviderType, UnitAssumption
<1>3. \A p \in Procs : pc[p] \in Committing =>
        work[p].baseline \in Tables /\ work[p].desired \in Tables
  BY DEF TypeOK, Plans
<1>4. \A p \in Procs : pc[p] \in {"undo", "undone"} =>
        work[p].pre \in Tables /\ work[p].post \in Tables
  BY DEF TypeOK, Journals
<1> QED
  BY <1>1, <1>2, <1>3, <1>4 DEF CommitOf, UndoOf, SwapOf, Contract!Swaps

LEMMA InitContract == Init => Contract!Init
  BY DEF Init, Contract!Init, Shown, Done, Committing

\* An action that only forgets, seen from the contract.
LEMMA StaysAbstract ==
  ASSUME TypeOK, NEW p \in Procs,
         \/ HashFile(p) \/ CheckInputs(p) \/ Begin(p) \/ Apply(p) \/ Revert(p) \/ Fails(p)
         \/ \E u \in Units : BeginDryRun(p, u) \/ BeginCommit(p, u) \/ BeginRollback(p, u)
  PROVE  Contract!Forget
<1>1. UNCHANGED <<rows, plan, journal>>
  BY DEF HashFile, CheckInputs, Begin, Apply, Revert, Fails,
         BeginDryRun, BeginCommit, BeginRollback
<1>2. \A q \in Procs \ {p} : pc'[q] = pc[q] /\ Same(q)
  <2>1. CASE CheckInputs(p) \/ Begin(p) \/ Apply(p) \/ Revert(p)
    BY <2>1, OthersStay DEF Same
  <2>2. CASE Fails(p)
    BY <2>2, ForgetType DEF Fails, Same
  <2>3. CASE HashFile(p)
    BY <2>3 DEF HashFile, Same
  <2>4. CASE \E u \in Units : BeginDryRun(p, u) \/ BeginCommit(p, u) \/ BeginRollback(p, u)
    BY <2>4 DEF BeginDryRun, BeginCommit, BeginRollback, Start, Goto, TypeOK, Same
  <2> QED
    BY <2>1, <2>2, <2>3, <2>4
<1>3. CASE HashFile(p)
  <2>1. pc' = pc /\ Same(p)
    BY <1>3 DEF HashFile, Same
  <2> QED
    BY <1>1, <1>2, <2>1, ShownShrinks, DoneShrinks DEF Contract!Forget
<1>4. CASE CheckInputs(p) \/ Begin(p) \/ Apply(p)
  <2>1. Same(p) /\ pc[p] \in Committing /\ pc'[p] \in Committing \ {"result"}
    BY <1>4, OthersStay DEF CheckInputs, Begin, Apply, Goto, TypeOK, Same, Committing
  <2> QED
    BY <1>1, <1>2, <2>1, ShownShrinks, DoneShrinks DEF Contract!Forget, Committing
<1>5. CASE Revert(p)
  <2>1. Same(p) /\ pc[p] = "undo" /\ pc'[p] = "undone"
    BY <1>5, OthersStay DEF Revert, Goto, TypeOK, Same
  <2> QED
    BY <1>1, <1>2, <2>1, ShownShrinks, DoneShrinks DEF Contract!Forget, Committing
<1>6. CASE Fails(p)
  <2>1. pc'[p] = "idle"
    BY <1>6, ForgetType DEF Fails
  <2> QED
    BY <1>1, <1>2, <2>1, ShownShrinks, DoneShrinks DEF Contract!Forget, Committing
<1>7. ASSUME NEW u \in Units, BeginDryRun(p, u) PROVE Contract!Forget
  <2>1. pc'[p] = "dry"
    BY <1>7 DEF BeginDryRun, Start, Goto, TypeOK
  <2> QED
    BY <1>1, <1>2, <2>1, ShownShrinks, DoneShrinks DEF Contract!Forget, Committing
<1>8. ASSUME NEW u \in Units, BeginCommit(p, u) PROVE Contract!Forget
  <2>1. /\ pc'[p] = "commit" /\ unit'[p] = u /\ plan[u] # Absent /\ work'[p] = plan[u]
    BY <1>8 DEF BeginCommit, Start, Goto, TypeOK
  <2> QED
    BY <1>1, <1>2, <2>1, ShownShrinks, DoneShrinks DEF Contract!Forget, Committing
<1>9. ASSUME NEW u \in Units, BeginRollback(p, u) PROVE Contract!Forget
  <2>1. /\ pc'[p] = "undo" /\ unit'[p] = u /\ journal[u] # Absent /\ work'[p] = journal[u]
    BY <1>9 DEF BeginRollback, Start, Goto, TypeOK
  <2> QED
    BY <1>1, <1>2, <2>1, ShownShrinks, DoneShrinks DEF Contract!Forget, Committing
<1> QED
  BY <1>3, <1>4, <1>5, <1>6, <1>7, <1>8, <1>9

LEMMA EditFileAbstract ==
  ASSUME NEW v \in Providers, NEW f \in Files, NEW c \in Contents, EditFile(v, f, c)
  PROVE  UNCHANGED <<rows, Shown, Done>>
  BY DEF EditFile, Shown, Done, Provider

\* A dry run shows the swap it has planned, from the rows as they are.
LEMMA ReviewAbstract ==
  ASSUME TypeOK, NEW p \in Procs, Review(p)
  PROVE  \E s \in Contract!Swaps : Contract!Show(s)
<1> DEFINE u == unit[p]
           s == SwapOf(Provider(p), rows[Provider(p)], Desired[u])
<1>1. /\ pc[p] = "dry" /\ pc'[p] = "idle" /\ u \in Units /\ Provider(p) \in Providers
      /\ \A q \in Procs \ {p} : pc'[q] = pc[q] /\ Same(q)
  BY ForgetType, ProviderType DEF Review, Same
<1>2. s \in Contract!Swaps
  BY <1>1, SwapTypes DEF TypeOK
<1>3. rows' = rows /\ journal' = journal
  BY DEF Review
<1>4. Done' = Done
  <2>1. Done' \subseteq Done
    BY <1>1, <1>3, DoneShrinks
  <2>2. Done \subseteq Done'
    <3> SUFFICES ASSUME NEW d \in Done PROVE d \in Done'
      OBVIOUS
    <3>1. \A q \in Procs : pc[q] \in {"undo", "undone", "result"} =>
            pc'[q] = pc[q] /\ UndoOf(q)' = UndoOf(q) /\ CommitOf(q)' = CommitOf(q)
      BY <1>1, SameSwaps
    <3>2. \A x \in Units : JournalOf(x)' = JournalOf(x)
      BY <1>3 DEF JournalOf
    <3> QED
      BY <1>3, <3>1, <3>2, DoneMembers, NextDoneMembers
  <2> QED
    BY <2>1, <2>2
<1>5. Shown' \subseteq Shown \cup {s}
  <2> SUFFICES ASSUME NEW d \in Shown', d # s PROVE d \in Shown
    OBVIOUS
  <2>1. ASSUME NEW q \in Procs, pc'[q] \in Committing, d = CommitOf(q)' PROVE d \in Shown
    BY <1>1, <2>1, SameSwaps, ShownMembers DEF Committing
  <2>2. ASSUME NEW x \in Units, plan'[x] # Absent, d = PlanOf(x)' PROVE d \in Shown
    <3>1. CASE x = u
      <4>1. plan'[x] = MakePlan(u, found[p], rows[Provider(p)])
        BY <3>1, <1>1 DEF Review, TypeOK
      <4>2. d = s
        BY <2>2, <3>1, <4>1 DEF PlanOf, MakePlan, Provider
      <4> QED
        BY <4>2
    <3>2. CASE x # u
      <4>1. plan'[x] = plan[x]
        BY <3>2, <1>1 DEF Review, TypeOK
      <4> QED
        BY <2>2, <4>1, ShownMembers DEF PlanOf
    <3> QED
      BY <3>1, <3>2
  <2> QED
    BY <2>1, <2>2, NextShownMembers
<1>6. rows[s.provider] = s.before
  BY DEF SwapOf
<1> QED
  BY <1>2, <1>3, <1>4, <1>5, <1>6 DEF Contract!Show

\* A commit makes a swap that was shown, from exactly the rows it was shown for.
LEMMA CommitAbstract ==
  ASSUME RefreshInv, NEW p \in Procs, Commit(p)
  PROVE  \E s \in Contract!Swaps : Contract!Swap(s)
<1> DEFINE s == CommitOf(p)
<1>1. /\ pc[p] = "final" /\ pc'[p] = "result" /\ Same(p)
      /\ \A q \in Procs \ {p} : pc'[q] = pc[q] /\ Same(q)
      /\ UNCHANGED <<plan, journal>>
  BY OthersStay DEF RefreshInv, Commit, Goto, TypeOK, Same
<1>2. s \in Contract!Swaps /\ s \in Shown
  BY <1>1, SwapTypes, ShownMembers DEF RefreshInv, Committing
<1>3. rows[s.provider] = s.before /\ rows' = [rows EXCEPT ![s.provider] = s.after]
  BY <1>1 DEF RefreshInv, RowsPinned, Commit, CommitOf, SwapOf
<1>4. Shown' = Shown
  <2>1. Shown' \subseteq Shown
    BY <1>1, ShownShrinks DEF Committing
  <2>2. Shown \subseteq Shown'
    <3> SUFFICES ASSUME NEW d \in Shown PROVE d \in Shown'
      OBVIOUS
    <3>1. \A q \in Procs : pc[q] \in Committing =>
            pc'[q] \in Committing /\ CommitOf(q)' = CommitOf(q)
      BY <1>1, SameSwaps DEF Committing
    <3>2. \A x \in Units : PlanOf(x)' = PlanOf(x)
      BY <1>1 DEF PlanOf
    <3> QED
      BY <1>1, <3>1, <3>2, ShownMembers, NextShownMembers
  <2> QED
    BY <2>1, <2>2
<1>5. Done' \subseteq Done \cup {s}
  <2> SUFFICES ASSUME NEW d \in Done', d # s PROVE d \in Done
    OBVIOUS
  <2>1. \A q \in Procs \ {p} : pc'[q] \in {"undo", "undone", "result"} =>
          pc[q] = pc'[q] /\ UndoOf(q)' = UndoOf(q) /\ CommitOf(q)' = CommitOf(q)
    BY <1>1, SameSwaps
  <2>2. \A x \in Units : JournalOf(x)' = JournalOf(x)
    BY <1>1 DEF JournalOf
  <2>3. CommitOf(p)' = s
    BY <1>1, SameSwaps
  <2> QED
    BY <1>1, <2>1, <2>2, <2>3, DoneMembers, NextDoneMembers
<1> QED
  BY <1>2, <1>3, <1>4, <1>5 DEF Contract!Swap

\* The journal of a commit is about the swap the commit has made.
LEMMA ResultAbstract ==
  ASSUME TypeOK, NEW p \in Procs, Result(p)
  PROVE  Contract!Forget
<1> DEFINE u == unit[p]
<1>1. /\ pc[p] = "result" /\ pc'[p] = "idle" /\ u \in Units /\ work[p] \in Plans
      /\ \A q \in Procs \ {p} : pc'[q] = pc[q] /\ Same(q)
      /\ UNCHANGED <<rows, plan>>
  BY ForgetType DEF Result, Same, TypeOK, Committing
<1>2. Shown' \subseteq Shown
  BY <1>1, ShownShrinks DEF Committing
<1>3. Done' \subseteq Done
  <2> SUFFICES ASSUME NEW d \in Done' PROVE d \in Done
    OBVIOUS
  <2>1. ASSUME NEW q \in Procs,
               \/ pc'[q] \in {"undo", "undone"} /\ d = UndoOf(q)'
               \/ pc'[q] = "result" /\ d = CommitOf(q)'
        PROVE  d \in Done
    <3>1. pc'[q] = pc[q] /\ UndoOf(q)' = UndoOf(q) /\ CommitOf(q)' = CommitOf(q)
      BY <1>1, <2>1, SameSwaps
    <3> QED
      BY <2>1, <3>1, DoneMembers
  <2>2. ASSUME NEW x \in Units, journal'[x] # Absent, d = JournalOf(x)' PROVE d \in Done
    <3>1. CASE x = u
      <4>1. journal'[x] = MakeJournal(work[p])
        BY <3>1, <1>1 DEF Result, TypeOK
      <4>2. d = CommitOf(p)
        BY <2>2, <3>1, <4>1 DEF JournalOf, MakeJournal, CommitOf, Provider
      <4> QED
        BY <1>1, <4>2, DoneMembers
    <3>2. CASE x # u
      <4>1. journal'[x] = journal[x]
        BY <3>2, <1>1 DEF Result, TypeOK
      <4> QED
        BY <2>2, <4>1, DoneMembers DEF JournalOf
    <3> QED
      BY <3>1, <3>2
  <2> QED
    BY <2>1, <2>2, NextDoneMembers
<1> QED
  BY <1>1, <1>2, <1>3 DEF Contract!Forget

\* A rollback takes back a swap that was made, from the rows it left.
LEMMA CommitRollbackAbstract ==
  ASSUME RefreshInv, NEW p \in Procs, CommitRollback(p)
  PROVE  \E s \in Contract!Swaps : Contract!Undo(s)
<1> DEFINE s == UndoOf(p)
<1>1. /\ pc[p] = "undone" /\ pc'[p] = "idle"
      /\ \A q \in Procs \ {p} : pc'[q] = pc[q] /\ Same(q)
      /\ UNCHANGED <<plan, journal>>
  BY ForgetType DEF RefreshInv, CommitRollback, Same
<1>2. s \in Contract!Swaps /\ s \in Done
  BY <1>1, SwapTypes, DoneMembers DEF RefreshInv
<1>3. rows[s.provider] = s.after /\ rows' = [rows EXCEPT ![s.provider] = s.before]
  BY <1>1 DEF RefreshInv, RowsPinned, CommitRollback, UndoOf, SwapOf
<1>4. Shown' \subseteq Shown /\ Done' \subseteq Done
  BY <1>1, ShownShrinks, DoneShrinks DEF Committing
<1> QED
  BY <1>2, <1>3, <1>4 DEF Contract!Undo

LEMMA NextContract ==
  ASSUME RefreshInv, [Next]_vars
  PROVE  [Contract!Next]_<<rows, Shown, Done>>
<1>1. ASSUME NEW p \in Procs, Step(p) PROVE Contract!Next
  BY <1>1, StaysAbstract, ReviewAbstract, CommitAbstract, ResultAbstract,
     CommitRollbackAbstract DEF Step, RefreshInv, Contract!Next
<1>2. ASSUME NEW p \in Procs, NEW u \in Units,
             BeginDryRun(p, u) \/ BeginCommit(p, u) \/ BeginRollback(p, u)
      PROVE  Contract!Next
  BY <1>2, StaysAbstract DEF RefreshInv, Contract!Next
<1>3. CASE UNCHANGED vars
  BY <1>3 DEF vars, Shown, Done, Provider
<1> QED
  BY <1>1, <1>2, <1>3, EditFileAbstract DEF Next

\* The rows of every provider change only by swaps that a dry run has shown,
\* from exactly the rows shown, or back: whatever processes overlap, fail or
\* die, and whatever edits the provider's files.
THEOREM RefreshImplementsContract == Spec => AtomicSwap
<1>1. Init => Contract!Init
  BY InitContract
<1>2. RefreshInv /\ [Next]_vars => [Contract!Next]_<<rows, Shown, Done>>
  BY NextContract
<1>3. [Contract!Next]_<<rows, Shown, Done>> => [Contract!Next]_Contract!cvars
  BY DEF Contract!cvars
<1> QED
  BY <1>1, <1>2, <1>3, Invariance, PTL DEF Spec, AtomicSwap, Contract!Spec
=============================================================================
