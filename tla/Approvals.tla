------------------------------ MODULE Approvals ------------------------------
(***************************************************************************)
(* One-time, content-bound approvals (kcd2_toolchain_core/approvals.py).   *)
(* A caller computes the targets of its operation from the disk and hands  *)
(* them with an approval to ApprovalVerifier.execute, which validates the  *)
(* approval, probes the running processes, consumes the nonce and runs the *)
(* mutation.  Callers are threads of helper processes; the threads of one  *)
(* helper share its ledger, and a durable ledger also claims nonces in a   *)
(* directory that all helpers share.  Time passes and the disk and the     *)
(* processes change between any two steps.                                 *)
(***************************************************************************)
EXTENDS Naturals

CONSTANTS
  Helpers,    \* helper processes
  Callers,    \* threads that execute approved operations
  HelperOf,   \* HelperOf[c]: the helper that c is a thread of
  Approvals,  \* approval ids, each with its nonce
  Contents,   \* contents of the operations' target
  Absent,     \* no approval, no observation
  MaxTime,    \* bound on the clock
  MaxAge,     \* MAX_PROCESS_OBSERVATION_AGE
  Durable,    \* TRUE: the ledgers were given a directory
  MayRestart  \* TRUE: helpers may restart

ASSUME ConstantsOK ==
  /\ HelperOf \in [Callers -> Helpers]
  /\ Approvals # {}
  /\ MaxTime \in Nat
  /\ MaxAge \in Nat
  /\ Absent \notin Contents
  /\ Durable \in BOOLEAN
  /\ MayRestart \in BOOLEAN

VARIABLES
  now,       \* the clock
  game,      \* whether the game runs
  content,   \* what the target holds
  approved,  \* approved[a]: the approval record, once the user has decided
  consumed,  \* consumed[h]: nonces consumed in the memory of helper h
  claims,    \* nonces with a claim file
  pc,        \* pc[c]: next step of caller c
  call,      \* call[c]: local variables of the operation c executes
  used,      \* history: how often each nonce was consumed
  ran,       \* history: how often the mutation of each approval began
  closedAt   \* history: when the game was last closed

vars == <<now, game, content, approved, consumed, claims, pc, call, used, ran, closedAt>>

Records == [expected : Contents, proposed : Contents, issued : 0..MaxTime,
            expires : 0..MaxTime]

NoCall == [a |-> CHOOSE a \in Approvals : TRUE, target |-> Absent, game |-> Absent,
           observed |-> Absent]

Init ==
  /\ now = 0
  /\ game = FALSE
  /\ content \in Contents
  /\ approved = [a \in Approvals |-> Absent]
  /\ consumed = [h \in Helpers |-> {}]
  /\ claims = {}
  /\ pc = [c \in Callers |-> "idle"]
  /\ call = [c \in Callers |-> NoCall]
  /\ used = [a \in Approvals |-> 0]
  /\ ran = [a \in Approvals |-> 0]
  /\ closedAt = 0

Goto(c, step) == pc' = [pc EXCEPT ![c] = step]

\* execute returns or raises.
Return(c) ==
  /\ Goto(c, "idle")
  /\ call' = [call EXCEPT ![c] = NoCall]

\* The user approves an operation planned from the current target.
Approve(a) ==
  /\ approved[a] = Absent
  /\ \E proposed \in Contents, expires \in now..MaxTime :
       approved' = [approved EXCEPT ![a] =
         [expected |-> content, proposed |-> proposed, issued |-> now, expires |-> expires]]
  /\ UNCHANGED <<now, game, content, consumed, claims, pc, call, used, ran, closedAt>>

\* The operation computes its targets from the disk, before it calls execute.
ReadTargets(c, a) ==
  /\ pc[c] = "idle"
  /\ approved[a] # Absent
  /\ call' = [call EXCEPT ![c] = [NoCall EXCEPT !.a = a, !.target = content]]
  /\ Goto(c, "validate")
  /\ UNCHANGED <<now, game, content, approved, consumed, claims, used, ran, closedAt>>

\* Mutant: expiry and targets are checked, the time of issue is taken on trust,
\* and an approval whose process observation is at hand is not probed again.
ValidateDocumentCached(c) ==
  LET r == approved[call[c].a]
  IN  /\ pc[c] = "validate"
      /\ IF r.issued <= now /\ now <= r.expires /\ r.expected = call[c].target
         THEN /\ Goto(c, "observe")
              /\ call' = [call EXCEPT ![c].game = FALSE]
         ELSE Return(c)
      /\ UNCHANGED <<now, game, content, approved, consumed, claims, used, ran, closedAt>>

\* _validate_document: inside the time window, bound to the targets.
ValidateDocument(c) ==
  LET r == approved[call[c].a]
  IN  /\ pc[c] = "validate"
      /\ IF r.issued <= now /\ now <= r.expires /\ r.expected = call[c].target
         THEN Goto(c, "enumerate") /\ UNCHANGED call
         ELSE Return(c)
      /\ UNCHANGED <<now, game, content, approved, consumed, claims, used, ran, closedAt>>

\* The probe enumerates the processes ...
EnumerateProcesses(c) ==
  /\ pc[c] = "enumerate"
  /\ call' = [call EXCEPT ![c].game = game]
  /\ Goto(c, "observe")
  /\ UNCHANGED <<now, game, content, approved, consumed, claims, used, ran, closedAt>>

\* Mutant: the stamp says until when the observation is current.
StampExpiry(c) ==
  /\ pc[c] = "observe"
  /\ call' = [call EXCEPT ![c].observed = now + MaxAge]
  /\ Goto(c, "compare")
  /\ UNCHANGED <<now, game, content, approved, consumed, claims, used, ran, closedAt>>

\* ... and then stamps its observation.
StampObservation(c) ==
  /\ pc[c] = "observe"
  /\ call' = [call EXCEPT ![c].observed = now]
  /\ Goto(c, "compare")
  /\ UNCHANGED <<now, game, content, approved, consumed, claims, used, ran, closedAt>>

\* The observation is current and shows what the approval requires: the game
\* is closed.
CompareProcesses(c) ==
  /\ pc[c] = "compare"
  /\ IF now - call[c].observed <= MaxAge /\ ~call[c].game
     THEN Goto(c, "consume") /\ UNCHANGED call
     ELSE Return(c)
  /\ UNCHANGED <<now, game, content, approved, consumed, claims, used, ran, closedAt>>

\* Mutant: only the helper's own memory is asked.
FreshInMemory(c) == call[c].a \notin consumed[HelperOf[c]]

\* The nonce is new to the helper's memory and, durably, to the directory.
Fresh(c) ==
  /\ call[c].a \notin consumed[HelperOf[c]]
  /\ Durable => call[c].a \notin claims

\* ApprovalLedger.consume, under the ledger's lock; the claim file is created
\* exclusively.
Consume(c) ==
  LET a == call[c].a
  IN  /\ pc[c] = "consume"
      /\ IF Fresh(c)
         THEN /\ consumed' = [consumed EXCEPT ![HelperOf[c]] = @ \cup {a}]
              /\ claims' = IF Durable THEN claims \cup {a} ELSE claims
              /\ used' = [used EXCEPT ![a] = @ + 1]
              /\ Goto(c, "mutate")
              /\ UNCHANGED call
         ELSE Return(c) /\ UNCHANGED <<consumed, claims, used>>
      /\ UNCHANGED <<now, game, content, approved, ran, closedAt>>

\* Writing the claim file raises, after or before the file was created.
ConsumeFails(c) ==
  /\ pc[c] = "consume"
  /\ Durable
  /\ Fresh(c)
  /\ claims' \in {claims, claims \cup {call[c].a}}
  /\ Return(c)
  /\ UNCHANGED <<now, game, content, approved, consumed, used, ran, closedAt>>

\* The mutation runs; it may raise and leave the target alone.
Mutate(c) ==
  LET a == call[c].a
  IN  /\ pc[c] = "mutate"
      /\ content' \in {content, approved[a].proposed}
      /\ ran' = [ran EXCEPT ![a] = @ + 1]
      /\ Return(c)
      /\ UNCHANGED <<now, game, approved, consumed, claims, used, closedAt>>

-----------------------------------------------------------------------------
\* The helper ends, at any step of its threads, and is started again.
Restart(h) ==
  /\ MayRestart
  /\ consumed' = [consumed EXCEPT ![h] = {}]
  /\ pc' = [c \in Callers |-> IF HelperOf[c] = h THEN "idle" ELSE pc[c]]
  /\ call' = [c \in Callers |-> IF HelperOf[c] = h THEN NoCall ELSE call[c]]
  /\ UNCHANGED <<now, game, content, approved, claims, used, ran, closedAt>>

Tick ==
  /\ now < MaxTime
  /\ now' = now + 1
  /\ closedAt' = IF game THEN closedAt ELSE now + 1
  /\ UNCHANGED <<game, content, approved, consumed, claims, pc, call, used, ran>>

\* The user starts or closes the game.
SwitchGame ==
  /\ game' = ~game
  /\ closedAt' = now
  /\ UNCHANGED <<now, content, approved, consumed, claims, pc, call, used, ran>>

\* Another program, or an operation under another approval, changes the target.
ChangeTarget ==
  /\ content' \in Contents
  /\ UNCHANGED <<now, game, approved, consumed, claims, pc, call, used, ran, closedAt>>

Execute(c) ==
  \/ \E a \in Approvals : ReadTargets(c, a)
  \/ ValidateDocument(c) \/ EnumerateProcesses(c) \/ StampObservation(c)
  \/ CompareProcesses(c) \/ Consume(c) \/ ConsumeFails(c) \/ Mutate(c)

Next ==
  \/ \E a \in Approvals : Approve(a)
  \/ \E c \in Callers : Execute(c)
  \/ \E h \in Helpers : Restart(h)
  \/ Tick \/ SwitchGame \/ ChangeTarget

Spec == Init /\ [][Next]_vars

-----------------------------------------------------------------------------
(***************************************************************************)
(* Correctness.                                                            *)
(***************************************************************************)

Steps == {"idle", "validate", "enumerate", "observe", "compare", "consume", "mutate"}

Calls == [a : Approvals, target : Contents \cup {Absent}, game : BOOLEAN \cup {Absent},
          observed : (0..MaxTime) \cup {Absent}]

\* Type invariant.
TypeOK ==
  /\ now \in 0..MaxTime
  /\ game \in BOOLEAN
  /\ content \in Contents
  /\ approved \in [Approvals -> Records \cup {Absent}]
  /\ consumed \in [Helpers -> SUBSET Approvals]
  /\ claims \subseteq Approvals
  /\ pc \in [Callers -> Steps]
  /\ call \in [Callers -> Calls]
  /\ used \in [Approvals -> Nat]
  /\ ran \in [Approvals -> Nat]
  /\ closedAt \in 0..now

\* "One-time": a nonce is consumed at most once, and the mutation begins at
\* most once for a consumed nonce and never without one: a consumption whose
\* mutation did not come to run is not handed to a later call.
\* (ApprovalLedger.consume, ApprovalVerifier.execute)
OneTime == \A a \in Approvals : used[a] <= 1 /\ ran[a] <= used[a]

\* A mutation that requires the game closed only begins if the game was closed
\* at some moment after the user's decision, not merely before it.
ClosedSinceDecision ==
  \A c \in Callers : pc[c] = "mutate" => closedAt >= approved[call[c].a].issued

-----------------------------------------------------------------------------
(***************************************************************************)
(* The inductive invariants: behind OneTime, for durable ledgers, and      *)
(* behind ClosedSinceDecision.                                             *)
(***************************************************************************)

\* A call under way has an approval.
CallsApproved == \A c \in Callers : pc[c] # "idle" => approved[call[c].a] # Absent

TypeInv == TypeOK /\ CallsApproved

\* A consumed nonce is claimed.
Claimed == \A a \in Approvals : used[a] # 0 => a \in claims

\* The call about to mutate is the one that consumed the nonce.
OneHolder ==
  \A c \in Callers :
    pc[c] = "mutate" =>
      /\ used[call[c].a] = 1
      /\ ran[call[c].a] = 0
      /\ \A d \in Callers : pc[d] = "mutate" /\ call[d].a = call[c].a => d = c

Counts == OneTime /\ Claimed /\ OneHolder

OneTimeInv == TypeInv /\ Counts

\* Once a call is validated the decision lies in the past, and once the game was
\* seen closed it was closed since then.
SeenClosedBy(c) ==
  LET issued == approved[call[c].a].issued
  IN  /\ pc[c] \notin {"idle", "validate"} => issued <= now
      /\ pc[c] \in {"observe", "compare"} =>
           call[c].game \in BOOLEAN /\ (~call[c].game => issued <= closedAt)
      /\ pc[c] \in {"consume", "mutate"} => issued <= closedAt

SeenClosed == \A c \in Callers : SeenClosedBy(c)

ClosedNow == ~game => closedAt = now

ClosedInv == TypeInv /\ SeenClosed /\ ClosedNow
=============================================================================
