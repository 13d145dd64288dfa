---------------------------- MODULE ExactRefresh ----------------------------
(***************************************************************************)
(* The exact refresh of one provider's rows in the staged Index database   *)
(* (kcd2_index_adapter/exact_refresh.py): a dry run makes a plan, a commit *)
(* runs the reviewed plan in one transaction, a rollback runs the inverse  *)
(* operations of a journal.  Several processes refresh and roll back over  *)
(* one database while other programs edit the providers' files.            *)
(*                                                                         *)
(* A unit is one request: the provider it names and the rows it desires.   *)
(* A file is hashed in one step (a change during the reading raises,       *)
(* l.252-263), the files of a provider in as many.  SQLite is external:    *)
(* one write transaction at a time, readers see committed rows, and the    *)
(* transaction of a process that dies is rolled back.                      *)
(***************************************************************************)
CONSTANTS
  Procs, Providers, Units, Files,
  Contents,      \* what a provider file may hold
  Keys, Rows,    \* the record keys and the records
  Absent,        \* no record under a key, no plan, no journal, no unit
  ProviderOf,    \* the provider a unit names
  Desired        \* the rows a unit desires

Tables == [Keys -> Rows \cup {Absent}]
Hashes == [Files -> Contents \cup {Absent}]
NoRows == [k \in Keys |-> Absent]

ASSUME AbsentAssumption ==
  Absent \notin Rows \cup Tables \cup Contents \cup Units \cup Procs
ASSUME UnitAssumption ==
  /\ ProviderOf \in [Units -> Providers]
  /\ Desired \in [Units -> Tables]

VARIABLES
  files,    \* what the files of each provider hold
  rows,     \* the committed rows of each provider
  lock,     \* the process in a write transaction, or Absent
  txn,      \* the rows of its provider as that transaction sees them
  plan,     \* the last reviewed plan of each unit
  journal,  \* the rollback journal the caller holds, for each unit
  pc, unit, \* where each process is, and for which unit
  work,     \* the plan it commits or the journal it rolls back
  todo,     \* the files it has still to hash
  found,    \* what it has hashed
  held      \* history: the files that were as planned in the transaction

vars == <<files, rows, lock, txn, plan, journal, pc, unit, work, todo, found, held>>
-----------------------------------------------------------------------------
(***************************************************************************)
(* Operations of a plan.                                                   *)
(***************************************************************************)
Operation == [key : Keys, before : Rows \cup {Absent}, after : Rows \cup {Absent}]

Operations(before, after) ==
  {[key |-> k, before |-> before[k], after |-> after[k]] :
      k \in {j \in Keys : before[j] # after[j]}}

Inverse(ops) ==
  {[key |-> o.key, before |-> o.after, after |-> o.before] : o \in ops}

\* An INSERT needs the key free; an UPDATE or a DELETE must meet one row.
Applicable(t, ops) ==
  \A o \in ops : (o.before = Absent) <=> (t[o.key] = Absent)

ApplyOps(t, ops) ==
  [k \in Keys |-> IF \E o \in ops : o.key = k
                  THEN (CHOOSE o \in ops : o.key = k).after ELSE t[k]]

Plans == [hashes : Hashes, baseline : Tables, desired : Tables,
          operations : SUBSET Operation]
Journals == [inverse : SUBSET Operation, pre : Tables, post : Tables]

MakePlan(u, hashes, before) ==
  [hashes |-> hashes, baseline |-> before, desired |-> Desired[u],
   operations |-> Operations(before, Desired[u])]

MakeJournal(p) ==
  [inverse |-> Inverse(p.operations), pre |-> p.baseline, post |-> p.desired]
-----------------------------------------------------------------------------
Init ==
  /\ files \in [Providers -> [Files -> Contents]]
  /\ rows \in [Providers -> Tables]
  /\ lock = Absent
  /\ txn = NoRows
  /\ plan = [u \in Units |-> Absent]
  /\ journal = [u \in Units |-> Absent]
  /\ pc = [p \in Procs |-> "idle"]
  /\ unit = [p \in Procs |-> Absent]
  /\ work = [p \in Procs |-> Absent]
  /\ todo = [p \in Procs |-> {}]
  /\ found = [p \in Procs |-> [f \in Files |-> Absent]]
  /\ held = [p \in Procs |-> {}]

Provider(p) == ProviderOf[unit[p]]
Goto(p, from, to) == pc[p] = from /\ pc' = [pc EXCEPT ![p] = to]

\* A call starts: it is for unit u and works from w.
Start(p, u, w, to) ==
  /\ Goto(p, "idle", to)
  /\ unit' = [unit EXCEPT ![p] = u]
  /\ work' = [work EXCEPT ![p] = w]

\* A call returns or raises.
Forget(p) ==
  /\ pc' = [pc EXCEPT ![p] = "idle"]
  /\ unit' = [unit EXCEPT ![p] = Absent]
  /\ work' = [work EXCEPT ![p] = Absent]
  /\ todo' = [todo EXCEPT ![p] = {}]
  /\ found' = [found EXCEPT ![p] = [f \in Files |-> Absent]]
  /\ held' = [held EXCEPT ![p] = {}]

\* _hash_provider begins, reads a file, has read them all.
StartHashing(p) ==
  /\ todo' = [todo EXCEPT ![p] = Files]
  /\ found' = [found EXCEPT ![p] = [f \in Files |-> Absent]]

HashFile(p) ==
  \E f \in todo[p] :
    /\ todo' = [todo EXCEPT ![p] = @ \ {f}]
    /\ found' = [found EXCEPT ![p] = [@ EXCEPT ![f] = files[Provider(p)][f]]]
    /\ UNCHANGED <<files, rows, lock, txn, plan, journal, pc, unit, work, held>>

Hashed(p) == todo[p] = {}

\* A slip: what was hashed is not compared again.
HashedOnly(p) == Hashed(p)

\* The hashes just taken are those of the reviewed plan.
SameInputs(p) == Hashed(p) /\ found[p] = work[p].hashes

(***************************************************************************)
(* The dry run.                                                            *)
(***************************************************************************)
BeginDryRun(p, u) ==
  /\ Start(p, u, Absent, "dry")
  /\ StartHashing(p)
  /\ UNCHANGED <<files, rows, lock, txn, plan, journal, held>>

Review(p) ==
  /\ pc[p] = "dry" /\ Hashed(p)
  /\ plan' = [plan EXCEPT ![unit[p]] = MakePlan(unit[p], found[p], rows[Provider(p)])]
  /\ Forget(p)
  /\ UNCHANGED <<files, rows, journal, lock, txn>>

(***************************************************************************)
(* The commit of a reviewed plan.                                          *)
(***************************************************************************)
BeginCommit(p, u) ==
  /\ plan[u] # Absent
  /\ Start(p, u, plan[u], "commit")
  /\ StartHashing(p)
  /\ UNCHANGED <<files, rows, lock, txn, plan, journal, held>>

CheckInputs(p) ==
  /\ Goto(p, "commit", "begin")
  /\ SameInputs(p)
  /\ found' = [found EXCEPT ![p] = [f \in Files |-> Absent]]
  /\ UNCHANGED <<files, rows, lock, txn, plan, journal, unit, work, todo, held>>

AsPlanned(p, contents) == {f \in Files : contents[f] = work[p].hashes[f]}

\* A slip: the rows are taken to be those of the dry run.
BeginUnchecked(p) ==
  /\ Goto(p, "begin", "rehash")
  /\ lock = Absent
  /\ lock' = p
  /\ txn' = work[p].baseline
  /\ held' = [held EXCEPT ![p] = AsPlanned(p, files[Provider(p)])]
  /\ StartHashing(p)
  /\ UNCHANGED <<files, rows, plan, journal, unit, work>>

\* BEGIN IMMEDIATE, the marker, the baseline.
Begin(p) ==
  /\ Goto(p, "begin", "rehash")
  /\ lock = Absent
  /\ rows[Provider(p)] = work[p].baseline
  /\ lock' = p
  /\ txn' = rows[Provider(p)]
  /\ held' = [held EXCEPT ![p] = AsPlanned(p, files[Provider(p)])]
  /\ StartHashing(p)
  /\ UNCHANGED <<files, rows, plan, journal, unit, work>>

Apply(p) ==
  /\ Goto(p, "rehash", "final")
  /\ SameInputs(p)
  /\ Applicable(txn, work[p].operations)
  /\ txn' = ApplyOps(txn, work[p].operations)
  /\ txn' = work[p].desired
  /\ StartHashing(p)
  /\ UNCHANGED <<files, rows, lock, plan, journal, unit, work, held>>

Commit(p) ==
  /\ Goto(p, "final", "result")
  /\ SameInputs(p)
  /\ rows' = [rows EXCEPT ![Provider(p)] = txn]
  /\ lock' = Absent
  /\ txn' = NoRows
  /\ found' = [found EXCEPT ![p] = [f \in Files |-> Absent]]
  /\ held' = [held EXCEPT ![p] = {}]
  /\ UNCHANGED <<files, plan, journal, unit, work, todo>>

\* The journal reaches the caller, unless building the result raises.
Result(p) ==
  /\ pc[p] = "result"
  /\ journal' = [journal EXCEPT ![unit[p]] = MakeJournal(work[p])]
  /\ Forget(p)
  /\ UNCHANGED <<files, rows, lock, txn, plan>>

(***************************************************************************)
(* The rollback of a journal.                                              *)
(***************************************************************************)
BeginRollback(p, u) ==
  /\ journal[u] # Absent
  /\ Start(p, u, journal[u], "undo")
  /\ UNCHANGED <<files, rows, lock, txn, plan, journal, todo, found, held>>

Revert(p) ==
  /\ Goto(p, "undo", "undone")
  /\ lock = Absent
  /\ rows[Provider(p)] = work[p].post
  /\ Applicable(rows[Provider(p)], work[p].inverse)
  /\ txn' = ApplyOps(rows[Provider(p)], work[p].inverse)
  /\ txn' = work[p].pre
  /\ lock' = p
  /\ UNCHANGED <<files, rows, plan, journal, unit, work, todo, found, held>>

CommitRollback(p) ==
  /\ pc[p] = "undone"
  /\ rows' = [rows EXCEPT ![Provider(p)] = txn]
  /\ lock' = Absent
  /\ txn' = NoRows
  /\ Forget(p)
  /\ UNCHANGED <<files, plan, journal>>

(***************************************************************************)
(* A check fails, a statement raises, the lock times out, or the process   *)
(* dies: ROLLBACK, and the caller gets no plan and no journal.             *)
(***************************************************************************)
\* A slip: the connection is left open.
StillLocked(p) == lock

Released(p) == IF lock = p THEN Absent ELSE lock

Fails(p) ==
  /\ pc[p] # "idle"
  /\ lock' = Released(p)
  /\ txn' = IF lock = p THEN NoRows ELSE txn
  /\ Forget(p)
  /\ UNCHANGED <<files, rows, plan, journal>>

\* Another program rewrites a file of a provider.
EditFile(v, f, c) ==
  /\ files[v][f] # c
  /\ files' = [files EXCEPT ![v] = [@ EXCEPT ![f] = c]]
  /\ held' = [p \in Procs |->
       IF pc[p] \in {"rehash", "final"} /\ Provider(p) = v
       THEN held[p] \cup AsPlanned(p, files'[v]) ELSE held[p]]
  /\ UNCHANGED <<rows, lock, txn, plan, journal, pc, unit, work, todo, found>>

Step(p) ==
  \/ HashFile(p) \/ Review(p) \/ CheckInputs(p) \/ Begin(p) \/ Apply(p)
  \/ Commit(p) \/ Result(p) \/ Revert(p) \/ CommitRollback(p) \/ Fails(p)

Next ==
  \/ \E p \in Procs : Step(p)
  \/ \E p \in Procs, u \in Units :
       BeginDryRun(p, u) \/ BeginCommit(p, u) \/ BeginRollback(p, u)
  \/ \E v \in Providers, f \in Files, c \in Contents : EditFile(v, f, c)

Spec == Init /\ [][Next]_vars
-----------------------------------------------------------------------------
InTransaction == {"rehash", "final", "undone"}
Committing == {"commit", "begin", "rehash", "final", "result"}

\* The type of the state: a process holds the write lock exactly while it is
\* in its transaction (l.588-616, 686-702).
TypeOK ==
  /\ files \in [Providers -> [Files -> Contents]]
  /\ rows \in [Providers -> Tables]
  /\ lock \in Procs \cup {Absent}
  /\ txn \in Tables
  /\ plan \in [Units -> Plans \cup {Absent}]
  /\ journal \in [Units -> Journals \cup {Absent}]
  /\ pc \in [Procs -> {"idle", "dry", "undo"} \cup Committing \cup InTransaction]
  /\ unit \in [Procs -> Units \cup {Absent}]
  /\ work \in [Procs -> Plans \cup Journals \cup {Absent}]
  /\ \A p \in Procs : pc[p] # "idle" => unit[p] \in Units
  /\ \A p \in Procs : pc[p] \in Committing => work[p] \in Plans
  /\ \A p \in Procs : pc[p] \in {"undo", "undone"} => work[p] \in Journals
  /\ todo \in [Procs -> SUBSET Files]
  /\ found \in [Procs -> Hashes]
  /\ held \in [Procs -> SUBSET Files]
  /\ \A p \in Procs : lock = p <=> pc[p] \in InTransaction

\* A commit happens only for provider files that were as reviewed while the
\* write lock was held, each of them, whatever edits them meanwhile: the
\* hashes of l.577, 585, 595 and 605 are compared inside the transaction too.
ReviewedInputs ==
  [][\A p \in Procs : (lock = p /\ pc[p] = "final" /\ rows' # rows) => held[p] = Files]_vars

\* The rows of a provider change only by swaps a dry run has shown, from
\* exactly the rows it has shown, and by the swap back from a journal.
SwapOf(v, before, after) == [provider |-> v, before |-> before, after |-> after]

Shown ==
  {SwapOf(ProviderOf[u], plan[u].baseline, plan[u].desired) :
      u \in {x \in Units : plan[x] # Absent}}
  \cup
  {SwapOf(Provider(p), work[p].baseline, work[p].desired) :
      p \in {q \in Procs : pc[q] \in Committing}}

Done ==
  {SwapOf(ProviderOf[u], journal[u].pre, journal[u].post) :
      u \in {x \in Units : journal[x] # Absent}}
  \cup
  {SwapOf(Provider(p), work[p].pre, work[p].post) :
      p \in {q \in Procs : pc[q] \in {"undo", "undone"}}}
  \cup
  {SwapOf(Provider(p), work[p].baseline, work[p].desired) :
      p \in {q \in Procs : pc[q] = "result"}}

Contract == INSTANCE RefreshContract WITH table <- rows, shown <- Shown, done <- Done

AtomicSwap == Contract!Spec
=============================================================================
