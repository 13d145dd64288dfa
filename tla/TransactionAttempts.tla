------------------------ MODULE TransactionAttempts ------------------------
(***************************************************************************)
(* Resumable transaction attempts                                          *)
(* (kcd2_mod_build_deploy/transaction_attempts.py).  A transaction root    *)
(* holds attempt-001, attempt-002, ...; an attempt holds one receipt file  *)
(* per phase, each carrying the digest of the one before.  Helpers open or *)
(* resume the latest attempt and record phases; every file operation is a  *)
(* step, any step may raise, and a helper may die between two of them.     *)
(***************************************************************************)
EXTENDS Integers, Sequences, FiniteSets

CONSTANTS
  Procs,       \* helper processes
  Scopes,      \* the kinds of work: the inputs, the contents, do helpers take turns
  Inputs,      \* digests of transaction inputs
  Middle,      \* ordinals of the phases between CREATED and VERIFIED
  Bytes,       \* contents of the artifact file of an attempt
  MaxAttempts, \* max_attempts
  MaxLitter,   \* bound on the temporary files that failures leave behind
  Absent,      \* no file, no artifact, no attempt in hand
  Torn         \* a file whose writer died half way

CREATED == 0
VERIFIED == 70
FAILED == 999

AttemptPhase == {CREATED, VERIFIED, FAILED} \cup Middle

\* Receipts, and what their files may hold; attempt folders.
Documents == [input : Inputs,
              chain : Seq([phase : AttemptPhase, artifact : Bytes \cup {Absent}])]
Receipts == Documents \cup {Absent, Torn}
Folders == [receipt : [AttemptPhase -> Receipts], tmp : [AttemptPhase -> Receipts],
            file : Bytes \cup {Absent}]

ASSUME ConstantsOK ==
  /\ Scopes \subseteq [isolated : BOOLEAN, inputs : SUBSET Inputs, bytes : SUBSET Bytes]
  /\ Middle \subseteq 1..69
  /\ MaxAttempts \in 1..999
  /\ MaxLitter \in Nat
  /\ Absent # Torn
  /\ {Absent, Torn} \cap (Bytes \cup Documents) = {}

Terminal == {FAILED, VERIFIED}

VARIABLES
  scope,     \* the kind of work of this behaviour
  attempts,  \* the attempt folders: sequence of [receipt, tmp, file]
  owner,     \* owner[p]: the TransactionAttempt that p holds
  pc,        \* pc[p]: next step of process p
  job        \* job[p]: the phase receipt p is writing, and where

vars == <<scope, attempts, owner, pc, job>>

\* A receipt binds the input and, through the digest of the one before, every
\* phase up to its own; its digest is told apart by all of this.
Document(input, chain) == [input |-> input, chain |-> chain]

\* One recorded phase, with the artifact it lists.
Entry(phase, artifact) == [phase |-> phase, artifact |-> artifact]

EmptyAttempt == [receipt |-> [f \in AttemptPhase |-> Absent],
                 tmp     |-> [f \in AttemptPhase |-> Absent],
                 file    |-> Absent]

\* The phases of attempt n that have a receipt file.
Recorded(n) == {f \in AttemptPhase : attempts[n].receipt[f] # Absent}

\* The last receipt of attempt n in the order of the file names.
LastPhase(n) == CHOOSE f \in Recorded(n) : \A g \in Recorded(n) : g <= f
LastReceipt(n) == attempts[n].receipt[LastPhase(n)]

\* _load_attempt accepts attempt n: whole receipts, the first CREATED, each
\* with the input and the digest of the one before, none after a terminal one.
Loads(n) ==
  /\ CREATED \in Recorded(n)
  /\ \A f \in Recorded(n) : attempts[n].receipt[f] # Torn
  /\ Recorded(n) \cap Terminal \subseteq {LastPhase(n)}
  /\ LET last == LastReceipt(n)
     IN  /\ Len(last.chain) = Cardinality(Recorded(n))
         /\ \A f \in Recorded(n) :
              LET k == Cardinality({g \in Recorded(n) : g <= f})
              IN  /\ last.chain[k].phase = f
                  /\ attempts[n].receipt[f] = Document(last.input, SubSeq(last.chain, 1, k))

\* _verify_recorded_artifacts: the recorded artifact is still there unchanged.
ArtifactsVerify(n) ==
  \A f \in Recorded(n) :
    LET chain == attempts[n].receipt[f].chain
    IN  chain[Len(chain)].artifact \in {Absent, attempts[n].file}

\* Helpers that take turns wait until nobody else is in an operation.
Quiet(p) == scope.isolated => \A q \in Procs \ {p} : pc[q] = "idle"

NoJob == [n |-> 0, receipt |-> Absent]

PhaseOf(receipt) == receipt.chain[Len(receipt.chain)].phase

Init ==
  /\ scope \in Scopes
  /\ attempts = <<>>
  /\ owner = [p \in Procs |-> Absent]
  /\ pc = [p \in Procs |-> "idle"]
  /\ job = [p \in Procs |-> NoJob]

\* The call returns or raises.
Return(p, held) ==
  /\ pc' = [pc EXCEPT ![p] = "idle"]
  /\ job' = [job EXCEPT ![p] = NoJob]
  /\ owner' = [owner EXCEPT ![p] = held]

-----------------------------------------------------------------------------
(***************************************************************************)
(* open_transaction_attempt.                                               *)
(***************************************************************************)

\* The latest attempt is for the same input, has not failed and is intact.
ResumeAttempt(p, input) ==
  LET n == Len(attempts)
  IN  /\ pc[p] = "idle"
      /\ Quiet(p)
      /\ n > 0
      /\ Loads(n)
      /\ LastReceipt(n).input = input
      /\ LastPhase(n) # FAILED
      /\ ArtifactsVerify(n)
      /\ Return(p, [n |-> n, receipt |-> LastReceipt(n)])
      /\ UNCHANGED attempts

\* Mutant: the attempt limit is not looked at.
AllocateAttemptUnbounded(p, input) ==
  LET n == Len(attempts)
  IN  /\ pc[p] = "idle"
      /\ Quiet(p)
      /\ n > 0 => Loads(n) /\ LastPhase(n) = FAILED
      /\ job' = [job EXCEPT ![p] =
                   [n |-> n + 1, receipt |-> Document(input, <<Entry(CREATED, Absent)>>)]]
      /\ pc' = [pc EXCEPT ![p] = "mkdir"]
      /\ UNCHANGED <<attempts, owner>>

\* Mutant: a verified attempt counts as finished too.
AllocateAttemptAfterVerified(p, input) ==
  LET n == Len(attempts)
  IN  /\ pc[p] = "idle"
      /\ Quiet(p)
      /\ n > 0 => Loads(n) /\ LastPhase(n) \in Terminal
      /\ n < MaxAttempts
      /\ job' = [job EXCEPT ![p] =
                   [n |-> n + 1, receipt |-> Document(input, <<Entry(CREATED, Absent)>>)]]
      /\ pc' = [pc EXCEPT ![p] = "mkdir"]
      /\ UNCHANGED <<attempts, owner>>

\* There is no attempt, or the latest has failed: allocate the next number.
AllocateAttempt(p, input) ==
  LET n == Len(attempts)
  IN  /\ pc[p] = "idle"
      /\ Quiet(p)
      /\ n > 0 => Loads(n) /\ LastPhase(n) = FAILED
      /\ n < MaxAttempts
      /\ job' = [job EXCEPT ![p] =
                   [n |-> n + 1, receipt |-> Document(input, <<Entry(CREATED, Absent)>>)]]
      /\ pc' = [pc EXCEPT ![p] = "mkdir"]
      /\ UNCHANGED <<attempts, owner>>

\* Mutant: mkdir(exist_ok=True).
MakeAttemptShared(p) ==
  /\ pc[p] = "mkdir"
  /\ attempts' = IF job[p].n = Len(attempts) + 1 THEN Append(attempts, EmptyAttempt) ELSE attempts
  /\ pc' = [pc EXCEPT ![p] = "check"]
  /\ UNCHANGED <<owner, job>>

\* attempt_path.mkdir() is exclusive.
MakeAttempt(p) ==
  /\ pc[p] = "mkdir"
  /\ IF job[p].n = Len(attempts) + 1
     THEN /\ attempts' = Append(attempts, EmptyAttempt)
          /\ pc' = [pc EXCEPT ![p] = "check"]
          /\ UNCHANGED <<owner, job>>
     ELSE Return(p, owner[p]) /\ UNCHANGED attempts

-----------------------------------------------------------------------------
(***************************************************************************)
(* record_attempt_phase and fail_transaction_attempt.                      *)
(***************************************************************************)

\* Mutant: terminal attempts may advance.
MayRecordAfterTerminal(p, phase) ==
  LET n == owner[p].n
  IN  /\ LastReceipt(n) = owner[p].receipt
      /\ Loads(n)
      /\ ArtifactsVerify(n)
      /\ phase > LastPhase(n)

\* Mutant: recorded artifacts are not verified again.
MayRecordUnverified(p, phase) ==
  LET n == owner[p].n
  IN  /\ LastReceipt(n) = owner[p].receipt
      /\ Loads(n)
      /\ LastPhase(n) \notin Terminal
      /\ phase > LastPhase(n)

\* The attempt may advance: it is the one p holds, at the receipt p holds, not
\* terminal, and the phase is FAILED or later than the current one.
MayRecord(p, phase) ==
  LET n == owner[p].n
  IN  /\ LastReceipt(n) = owner[p].receipt
      /\ Loads(n)
      /\ ArtifactsVerify(n)
      /\ LastPhase(n) \notin Terminal
      /\ phase > LastPhase(n)

\* The receipt is composed; the artifact, if any is listed, is hashed now.
RecordPhase(p, phase) ==
  /\ pc[p] = "idle"
  /\ Quiet(p)
  /\ owner[p] # Absent
  /\ MayRecord(p, phase)
  /\ \E artifact \in {Absent, attempts[owner[p].n].file} :
       job' = [job EXCEPT ![p] =
                 [n |-> owner[p].n,
                  receipt |-> Document(owner[p].receipt.input,
                                Append(LastReceipt(owner[p].n).chain, Entry(phase, artifact)))]]
  /\ pc' = [pc EXCEPT ![p] = "check"]
  /\ UNCHANGED <<attempts, owner>>

-----------------------------------------------------------------------------
(***************************************************************************)
(* _write_phase_receipt, shared by both operations.                        *)
(***************************************************************************)

CheckReceipt(p) ==
  LET f == PhaseOf(job[p].receipt)
  IN  /\ pc[p] = "check"
      /\ IF attempts[job[p].n].receipt[f] = Absent
         THEN pc' = [pc EXCEPT ![p] = "write_tmp"] /\ UNCHANGED <<owner, job>>
         ELSE Return(p, owner[p])
      /\ UNCHANGED attempts

\* The temporary file is created exclusively and written.  If it is there
\* already the open raises, and the finally clause removes the other's file.
WriteTemporary(p) ==
  LET f == PhaseOf(job[p].receipt)
      n == job[p].n
  IN  /\ pc[p] = "write_tmp"
      /\ IF attempts[n].tmp[f] = Absent
         THEN /\ attempts' = [attempts EXCEPT ![n].tmp[f] = job[p].receipt]
              /\ pc' = [pc EXCEPT ![p] = "replace"]
              /\ UNCHANGED <<owner, job>>
         ELSE /\ attempts' = [attempts EXCEPT ![n].tmp[f] = Absent]
              /\ Return(p, owner[p])

\* The temporary file takes the receipt's name; a missing one raises.
ReplaceReceipt(p) ==
  LET f == PhaseOf(job[p].receipt)
      n == job[p].n
  IN  /\ pc[p] = "replace"
      /\ IF attempts[n].tmp[f] = Absent
         THEN Return(p, owner[p]) /\ UNCHANGED attempts
         ELSE /\ attempts' = [attempts EXCEPT ![n].receipt[f] = attempts[n].tmp[f],
                                              ![n].tmp[f] = Absent]
              /\ Return(p, [n |-> n, receipt |-> job[p].receipt])

\* Temporary files on disk, in whatever attempt.
Litter(folders) == {nf \in (1..Len(folders)) \X AttemptPhase : folders[nf[1]].tmp[nf[2]] # Absent}

\* A file operation raises; the finally clause removes the temporary file, or
\* raises in its turn and leaves it.
WriteFails(p) ==
  LET f == PhaseOf(job[p].receipt)
      n == job[p].n
  IN  /\ pc[p] \in {"mkdir", "check", "write_tmp", "replace"}
      /\ \/ /\ Cardinality(Litter(attempts)) <= MaxLitter
            /\ UNCHANGED attempts
         \/ /\ pc[p] \in {"write_tmp", "replace"}
            /\ attempts' = [attempts EXCEPT ![n].tmp[f] = Absent]
      /\ Return(p, owner[p])

-----------------------------------------------------------------------------
\* The holder of the latest attempt writes the artifact file in its folder.
WriteArtifact(p, bytes) ==
  /\ pc[p] = "idle"
  /\ Quiet(p)
  /\ owner[p] # Absent
  /\ owner[p].n = Len(attempts)
  /\ owner[p].receipt = LastReceipt(owner[p].n)
  /\ attempts' = [attempts EXCEPT ![owner[p].n].file = bytes]
  /\ UNCHANGED <<owner, pc, job>>

\* The process dies; a temporary file being written is left torn.
Crash(p) ==
  /\ pc[p] # "idle" \/ owner[p] # Absent
  /\ \/ /\ Cardinality(Litter(attempts)) <= MaxLitter
        /\ UNCHANGED attempts
     \/ LET f == PhaseOf(job[p].receipt)
            n == job[p].n
        IN  /\ pc[p] = "write_tmp"
            /\ attempts[n].tmp[f] = Absent
            /\ Cardinality(Litter(attempts)) < MaxLitter
            /\ attempts' = [attempts EXCEPT ![n].tmp[f] = Torn]
  /\ Return(p, Absent)

Open(p) == \E input \in scope.inputs : ResumeAttempt(p, input) \/ AllocateAttempt(p, input)

Next ==
  /\ \E p \in Procs :
       \/ Open(p) \/ MakeAttempt(p)
       \/ \E f \in AttemptPhase : RecordPhase(p, f)
       \/ CheckReceipt(p) \/ WriteTemporary(p) \/ ReplaceReceipt(p) \/ WriteFails(p)
       \/ \E b \in scope.bytes : WriteArtifact(p, b)
       \/ Crash(p)
  /\ UNCHANGED scope

Spec == Init /\ [][Next]_vars

-----------------------------------------------------------------------------
(***************************************************************************)
(* Correctness.                                                            *)
(***************************************************************************)

\* Type invariant.
TypeOK ==
  /\ scope \in Scopes
  /\ attempts \in Seq(Folders)
  /\ Len(attempts) <= MaxAttempts
  /\ owner \in [Procs -> {Absent} \cup [n : 1..Len(attempts), receipt : Documents]]
  /\ pc \in [Procs -> {"idle", "mkdir", "check", "write_tmp", "replace"}]
  /\ job \in [Procs -> [n : 0..MaxAttempts, receipt : Documents \cup {Absent}]]

\* A new attempt is only begun once the one before has failed, whatever
\* overlaps or dies.  (open_transaction_attempt)
SupersededFailed ==
  \A n \in 1..Len(attempts) : n + 1 <= Len(attempts) => FAILED \in Recorded(n)

\* All receipts of an attempt are bound to one input: the exclusive mkdir gives an attempt one creator.
OneInput ==
  \A n \in 1..Len(attempts) : \A f, g \in Recorded(n) :
    LET r == attempts[n].receipt[f]
        s == attempts[n].receipt[g]
    IN  r # Torn /\ s # Torn => r.input = s.input

\* With one operation at a time, whatever fails or dies, an attempt that has
\* a receipt always loads: its chain of digests is never broken.
ChainsHold ==
  scope.isolated => \A n \in 1..Len(attempts) : Recorded(n) # {} => Loads(n)

\* "resumable local transactions": whenever no operation is under way, the
\* latest attempt can at least be read, so that it can be resumed or, having
\* failed, be superseded.
Resumable ==
  (\A p \in Procs : pc[p] = "idle") => attempts = <<>> \/ Loads(Len(attempts))

\* The attempts as their receipts show them; one whose first receipt is not
\* written yet does not show.
Shown == {n \in 1..Len(attempts) : Recorded(n) # {}}

\* The last receipts of these attempts; of helpers that overlap nothing is shown.
Book == IF scope.isolated THEN [n \in 1..Cardinality(Shown) |-> LastReceipt(n)] ELSE <<>>

Ledger == INSTANCE AttemptLedger WITH ledger <- Book

\* With one operation at a time, the files implement an append-only ledger.
AppendOnly == Ledger!Spec
=============================================================================
