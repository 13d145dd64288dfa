--------------------------- MODULE ApprovalsProofs ---------------------------
(***************************************************************************)
(* Proofs about Approvals, for every set of helpers, threads and           *)
(* approvals, with restarts, failing claims and a changing environment.    *)
(***************************************************************************)
EXTENDS Approvals, TLAPS

-----------------------------------------------------------------------------
(***************************************************************************)
(* Type correctness.                                                       *)
(***************************************************************************)

LEMMA NoCallType == NoCall \in Calls
  BY ConstantsOK DEF NoCall, Calls

LEMMA InitType == Init => TypeInv
<1> SUFFICES ASSUME Init PROVE TypeInv
  OBVIOUS
<1> USE ConstantsOK DEF Init
<1>1. now \in 0..MaxTime /\ content \in Contents /\ closedAt \in 0..now
  OBVIOUS
<1>5. game \in BOOLEAN
  OBVIOUS
<1>2. /\ approved \in [Approvals -> Records \cup {Absent}]
      /\ consumed \in [Helpers -> SUBSET Approvals] /\ claims \subseteq Approvals
  OBVIOUS
<1>3. pc \in [Callers -> Steps] /\ call \in [Callers -> Calls]
  BY NoCallType DEF Steps
<1>4. used \in [Approvals -> Nat] /\ ran \in [Approvals -> Nat]
  OBVIOUS
<1> QED
  BY <1>1, <1>2, <1>3, <1>4, <1>5 DEF TypeInv, TypeOK, CallsApproved

LEMMA GotoType ==
  ASSUME TypeOK, NEW c \in Callers, NEW s \in Steps, Goto(c, s)
  PROVE  pc' \in [Callers -> Steps]
  BY DEF Goto, TypeOK

LEMMA ReturnType ==
  ASSUME TypeOK, NEW c \in Callers, Return(c)
  PROVE  pc' \in [Callers -> Steps] /\ call' \in [Callers -> Calls]
<1>1. pc' \in [Callers -> Steps]
  BY DEF Return, Goto, TypeOK, Steps
<1> QED
  BY <1>1, NoCallType DEF Return, TypeOK

\* What a step of execute keeps of the types.
LEMMA ExecuteType == ASSUME TypeInv, NEW c \in Callers, Execute(c) PROVE TypeOK'
<1> USE ConstantsOK, GotoType, ReturnType DEF TypeInv
<1>a. /\ pc \in [Callers -> Steps] /\ call \in [Callers -> Calls] /\ call[c] \in Calls
      /\ call[c].a \in Approvals /\ HelperOf[c] \in Helpers
      /\ now \in Nat /\ now \in 0..MaxTime
  BY DEF TypeOK, Calls
<1>b. \A s \in {"validate", "enumerate", "observe", "compare", "consume", "mutate"} : s \in Steps
  BY DEF Steps
<1>1. ASSUME NEW a \in Approvals, ReadTargets(c, a) PROVE TypeOK'
  <2>1. [NoCall EXCEPT !.a = a, !.target = content] \in Calls
    BY NoCallType DEF Calls, TypeOK
  <2>2. call' \in [Callers -> Calls]
    BY <1>1, <1>a, <2>1 DEF ReadTargets
  <2> QED
    BY <1>1, <1>b, <2>2 DEF ReadTargets, TypeOK
<1>2. ASSUME ValidateDocument(c) PROVE TypeOK'
  <2>1. pc' \in [Callers -> Steps] /\ call' \in [Callers -> Calls]
    BY <1>2, <1>a, <1>b DEF ValidateDocument
  <2> QED
    BY <1>2, <2>1 DEF ValidateDocument, TypeOK
<1>3. ASSUME EnumerateProcesses(c) PROVE TypeOK'
  <2>1. [call[c] EXCEPT !.game = game] \in Calls
    BY <1>a DEF Calls, TypeOK
  <2>2. call' \in [Callers -> Calls]
    BY <1>3, <1>a, <2>1 DEF EnumerateProcesses
  <2> QED
    BY <1>3, <1>b, <2>2 DEF EnumerateProcesses, TypeOK
<1>4. ASSUME StampObservation(c) PROVE TypeOK'
  <2>1. [call[c] EXCEPT !.observed = now] \in Calls
    BY <1>a DEF Calls
  <2>2. call' \in [Callers -> Calls]
    BY <1>4, <1>a, <2>1 DEF StampObservation
  <2> QED
    BY <1>4, <1>b, <2>2 DEF StampObservation, TypeOK
<1>5. ASSUME CompareProcesses(c) PROVE TypeOK'
  <2>1. pc' \in [Callers -> Steps] /\ call' \in [Callers -> Calls]
    BY <1>5, <1>a, <1>b DEF CompareProcesses
  <2> QED
    BY <1>5, <2>1 DEF CompareProcesses, TypeOK
<1>6. ASSUME Consume(c) PROVE TypeOK'
  <2>1. pc' \in [Callers -> Steps] /\ call' \in [Callers -> Calls]
    BY <1>6, <1>a, <1>b DEF Consume
  <2>2. consumed' \in [Helpers -> SUBSET Approvals] /\ claims' \subseteq Approvals
    BY <1>6, <1>a DEF Consume, TypeOK
  <2>3. used' \in [Approvals -> Nat]
    BY <1>6, <1>a DEF Consume, TypeOK
  <2> QED
    BY <1>6, <2>1, <2>2, <2>3 DEF Consume, TypeOK
<1>7. ASSUME ConsumeFails(c) PROVE TypeOK'
  <2>1. claims' \subseteq Approvals
    BY <1>7, <1>a DEF ConsumeFails, TypeOK
  <2> QED
    BY <1>7, <2>1 DEF ConsumeFails, TypeOK
<1>8. ASSUME Mutate(c) PROVE TypeOK'
  <2>1. ran' \in [Approvals -> Nat]
    BY <1>8, <1>a DEF Mutate, TypeOK
  <2>2. approved[call[c].a] \in Records
    BY <1>8, <1>a DEF Mutate, TypeOK, CallsApproved
  <2>3. content' \in Contents
    BY <1>8, <2>2 DEF Mutate, TypeOK, Records
  <2> QED
    BY <1>8, <2>1, <2>3 DEF Mutate, TypeOK
<1> QED
  BY <1>1, <1>2, <1>3, <1>4, <1>5, <1>6, <1>7, <1>8 DEF Execute

LEMMA EnvironmentType ==
  ASSUME TypeInv,
         \/ \E a \in Approvals : Approve(a)
         \/ \E h \in Helpers : Restart(h)
         \/ Tick \/ SwitchGame \/ ChangeTarget
  PROVE  TypeOK'
<1> USE ConstantsOK DEF TypeInv, TypeOK
<1>1. ASSUME NEW a \in Approvals, Approve(a) PROVE TypeOK'
  <2>1. PICK proposed \in Contents, expires \in now..MaxTime :
          approved' = [approved EXCEPT ![a] =
            [expected |-> content, proposed |-> proposed, issued |-> now, expires |-> expires]]
    BY <1>1 DEF Approve
  <2>2. [expected |-> content, proposed |-> proposed, issued |-> now, expires |-> expires]
          \in Records
    BY DEF Records
  <2>3. approved' \in [Approvals -> Records \cup {Absent}]
    BY <2>1, <2>2
  <2> QED
    BY <1>1, <2>3 DEF Approve
<1>2. ASSUME NEW h \in Helpers, Restart(h) PROVE TypeOK'
  <2>1. pc' \in [Callers -> Steps]
    BY <1>2 DEF Restart, Steps
  <2>2. call' \in [Callers -> Calls]
    BY <1>2, NoCallType DEF Restart
  <2> QED
    BY <1>2, <2>1, <2>2 DEF Restart
<1>3. ASSUME Tick PROVE TypeOK'
  <2>1. now' \in 0..MaxTime /\ closedAt' \in 0..now'
    BY <1>3 DEF Tick
  <2> QED
    BY <1>3, <2>1 DEF Tick
<1>4. ASSUME SwitchGame PROVE TypeOK'
  <2>1. game' \in BOOLEAN
    BY <1>4 DEF SwitchGame
  <2>2. closedAt' \in 0..now'
    BY <1>4 DEF SwitchGame
  <2> QED
    BY <1>4, <2>1, <2>2 DEF SwitchGame
<1>5. ASSUME ChangeTarget PROVE TypeOK'
  BY <1>5 DEF ChangeTarget
<1> QED
  BY <1>1, <1>2, <1>3, <1>4, <1>5

\* How a step of execute moves its caller: it leaves the approvals and the other
\* callers alone, and ends or goes on with the same approval.
LEMMA ExecuteFrame ==
  ASSUME TypeInv, NEW c \in Callers, Execute(c)
  PROVE  /\ approved' = approved
         /\ \A d \in Callers \ {c} : pc'[d] = pc[d] /\ call'[d] = call[d]
         /\ \/ pc'[c] = "idle"
            \/ pc[c] # "idle" /\ call'[c].a = call[c].a
            \/ pc[c] = "idle" /\ pc'[c] = "validate" /\ approved[call'[c].a] # Absent
<1> USE DEF TypeInv, Goto, Return
<1>a. pc \in [Callers -> Steps] /\ call \in [Callers -> Calls] /\ call[c] \in Calls
  BY DEF TypeOK
<1>1. approved' = approved
  BY DEF Execute, ReadTargets, ValidateDocument, EnumerateProcesses, StampObservation,
     CompareProcesses, Consume, ConsumeFails, Mutate
<1>2. ASSUME NEW a \in Approvals, ReadTargets(c, a)
      PROVE  /\ \A d \in Callers \ {c} : pc'[d] = pc[d] /\ call'[d] = call[d]
             /\ pc[c] = "idle" /\ pc'[c] = "validate" /\ approved[call'[c].a] # Absent
  BY <1>2, <1>a DEF ReadTargets, NoCall
<1>3. ASSUME ValidateDocument(c) \/ CompareProcesses(c) \/ Consume(c)
      PROVE  /\ \A d \in Callers \ {c} : pc'[d] = pc[d] /\ call'[d] = call[d]
             /\ pc'[c] = "idle" \/ (pc[c] # "idle" /\ call'[c] = call[c])
  BY <1>3, <1>a DEF ValidateDocument, CompareProcesses, Consume
<1>4. ASSUME EnumerateProcesses(c) \/ StampObservation(c)
      PROVE  /\ \A d \in Callers \ {c} : pc'[d] = pc[d] /\ call'[d] = call[d]
             /\ pc[c] # "idle" /\ call'[c].a = call[c].a
  BY <1>4, <1>a DEF EnumerateProcesses, StampObservation, Calls
<1>5. ASSUME ConsumeFails(c) \/ Mutate(c)
      PROVE  /\ \A d \in Callers \ {c} : pc'[d] = pc[d] /\ call'[d] = call[d]
             /\ pc'[c] = "idle"
  BY <1>5, <1>a DEF ConsumeFails, Mutate
<1> QED
  BY <1>1, <1>2, <1>3, <1>4, <1>5 DEF Execute

LEMMA CallsStayApproved == TypeInv /\ [Next]_vars => CallsApproved'
<1> SUFFICES ASSUME TypeInv, [Next]_vars PROVE CallsApproved'
  OBVIOUS
<1> USE DEF TypeInv, CallsApproved
<1>1. ASSUME NEW c \in Callers, Execute(c) PROVE CallsApproved'
  BY <1>1, ExecuteFrame
<1>2. ASSUME NEW a \in Approvals, Approve(a) PROVE CallsApproved'
  BY <1>2 DEF Approve, TypeOK
<1>3. ASSUME NEW h \in Helpers, Restart(h) PROVE CallsApproved'
  BY <1>3 DEF Restart, TypeOK
<1>4. CASE Tick \/ SwitchGame \/ ChangeTarget
  BY <1>4 DEF Tick, SwitchGame, ChangeTarget
<1>5. CASE UNCHANGED vars
  BY <1>5 DEF vars
<1> QED
  BY <1>1, <1>2, <1>3, <1>4, <1>5 DEF Next

LEMMA TypeStep == TypeInv /\ [Next]_vars => TypeInv'
<1> SUFFICES ASSUME TypeInv, [Next]_vars PROVE TypeInv'
  OBVIOUS
<1>1. CallsApproved'
  BY CallsStayApproved
<1>2. TypeOK'
  <2>1. ASSUME NEW c \in Callers, Execute(c) PROVE TypeOK'
    BY <2>1, ExecuteType
  <2>2. CASE UNCHANGED vars
    BY <2>2 DEF vars, TypeInv, TypeOK
  <2>3. CASE \/ \E a \in Approvals : Approve(a)
             \/ \E h \in Helpers : Restart(h)
             \/ Tick \/ SwitchGame \/ ChangeTarget
    BY <2>3, EnvironmentType
  <2> QED
    BY <2>1, <2>2, <2>3 DEF Next
<1> QED
  BY <1>1, <1>2 DEF TypeInv

\* Every variable keeps its type, whatever the interleaving, restarts and failures.
THEOREM TypeCorrect == Spec => []TypeOK
<1>1. TypeInv => TypeOK
  BY DEF TypeInv
<1> QED
  BY <1>1, InitType, TypeStep, PTL DEF Spec

-----------------------------------------------------------------------------
(***************************************************************************)
(* One-time use.                                                           *)
(***************************************************************************)

LEMMA InitOneTime == Init => OneTimeInv
<1> SUFFICES ASSUME Init PROVE OneTimeInv
  OBVIOUS
<1>1. TypeInv
  BY InitType
<1>2. OneTime /\ Claimed /\ OneHolder
  BY DEF Init, OneTime, Claimed, OneHolder
<1> QED
  BY <1>1, <1>2 DEF OneTimeInv, Counts

\* The steps of execute before the consumption change no count, and bring no
\* caller to the mutation.
LEMMA EarlyStepsKeepCounts ==
  ASSUME TypeInv, Counts, NEW c \in Callers,
         UNCHANGED <<used, ran, claims>>, pc'[c] # "mutate",
         \A d \in Callers \ {c} : pc'[d] = pc[d] /\ call'[d] = call[d]
  PROVE  Counts'
<1>1. OneTime' /\ Claimed'
  BY DEF Counts, OneTime, Claimed
<1>2. OneHolder'
  BY DEF Counts, OneHolder
<1> QED
  BY <1>1, <1>2 DEF Counts

LEMMA ConsumeKeepsCounts ==
  ASSUME TypeInv, Counts, Durable, NEW c \in Callers, Consume(c)
  PROVE  Counts'
<1> DEFINE a == call[c].a
<1>1. a \in Approvals /\ used \in [Approvals -> Nat] /\ ran \in [Approvals -> Nat]
  BY DEF TypeInv, TypeOK, Calls
<1>2. \A d \in Callers \ {c} : pc'[d] = pc[d] /\ call'[d] = call[d]
  BY ExecuteFrame DEF Execute
<1>3. CASE ~Fresh(c)
  <2>1. UNCHANGED <<used, ran, claims>> /\ pc'[c] # "mutate"
    BY <1>3 DEF Consume, Return, Goto, TypeInv, TypeOK
  <2> QED
    BY <1>2, <2>1, EarlyStepsKeepCounts
<1>4. CASE Fresh(c)
  <2>1. /\ used' = [used EXCEPT ![a] = @ + 1]
        /\ claims' = claims \cup {a}
        /\ UNCHANGED <<ran, call>>
    BY <1>4 DEF Consume
  <2>2. a \notin claims
    BY <1>4 DEF Fresh
  <2>3. used[a] = 0 /\ ran[a] = 0
    BY <1>1, <2>2 DEF Counts, Claimed, OneTime
  <2>4. used'[a] = 1 /\ \A b \in Approvals \ {a} : used'[b] = used[b]
    BY <1>1, <2>1, <2>3
  <2>5. OneTime' /\ Claimed'
    BY <1>1, <2>1, <2>3, <2>4 DEF Counts, OneTime, Claimed
  <2>6. \A d \in Callers : pc[d] = "mutate" => call[d].a # a
    BY <1>1, <2>3 DEF Counts, OneHolder
  <2>7. \A d \in Callers : call[d].a \in Approvals
    BY DEF TypeInv, TypeOK, Calls
  <2>8. OneHolder'
    BY <1>1, <1>2, <2>1, <2>3, <2>4, <2>6, <2>7 DEF Counts, OneHolder
  <2> QED
    BY <2>5, <2>8 DEF Counts
<1> QED
  BY <1>3, <1>4

LEMMA MutateKeepsCounts ==
  ASSUME TypeInv, Counts, NEW c \in Callers, Mutate(c)
  PROVE  Counts'
<1> DEFINE a == call[c].a
<1>1. a \in Approvals /\ used \in [Approvals -> Nat] /\ ran \in [Approvals -> Nat]
  BY DEF TypeInv, TypeOK, Calls
<1>2. \A d \in Callers \ {c} : pc'[d] = pc[d] /\ call'[d] = call[d]
  BY ExecuteFrame DEF Execute
<1>3. pc[c] = "mutate" /\ pc'[c] = "idle"
  BY DEF Mutate, Return, Goto, TypeInv, TypeOK
<1>4. used[a] = 1 /\ ran[a] = 0
  BY <1>3 DEF Counts, OneHolder
<1>5. ran' = [ran EXCEPT ![a] = @ + 1] /\ UNCHANGED <<used, claims>>
  BY DEF Mutate
<1>6. OneTime' /\ Claimed'
  BY <1>1, <1>4, <1>5 DEF Counts, OneTime, Claimed
<1>7. \A d \in Callers \ {c} : pc[d] = "mutate" => call[d].a # a
  BY <1>3 DEF Counts, OneHolder
<1>8. \A d \in Callers : call[d].a \in Approvals
  BY DEF TypeInv, TypeOK, Calls
<1>9. OneHolder'
  BY <1>1, <1>2, <1>3, <1>5, <1>7, <1>8 DEF Counts, OneHolder
<1> QED
  BY <1>6, <1>9 DEF Counts

LEMMA CountsStep == Durable /\ TypeInv /\ Counts /\ [Next]_vars => Counts'
<1> SUFFICES ASSUME Durable, TypeInv, Counts, [Next]_vars PROVE Counts'
  OBVIOUS
<1>1. ASSUME NEW c \in Callers, Execute(c) PROVE Counts'
  <2>1. CASE Consume(c)
    BY <2>1, ConsumeKeepsCounts
  <2>2. CASE Mutate(c)
    BY <2>2, MutateKeepsCounts
  <2>3. CASE ConsumeFails(c)
    <3>1. UNCHANGED <<used, ran>> /\ claims \subseteq claims'
      BY <2>3 DEF ConsumeFails
    <3>2. pc'[c] = "idle" /\ \A d \in Callers \ {c} : pc'[d] = pc[d] /\ call'[d] = call[d]
      BY <2>3 DEF ConsumeFails, Return, Goto, TypeInv, TypeOK
    <3> QED
      BY <3>1, <3>2 DEF Counts, OneTime, Claimed, OneHolder
  <2>4. CASE \/ \E a \in Approvals : ReadTargets(c, a)
             \/ ValidateDocument(c) \/ EnumerateProcesses(c) \/ StampObservation(c)
             \/ CompareProcesses(c)
    <3>1. UNCHANGED <<used, ran, claims>>
      BY <2>4 DEF ReadTargets, ValidateDocument, EnumerateProcesses, StampObservation,
         CompareProcesses
    <3>2. pc'[c] # "mutate"
      BY <2>4 DEF ReadTargets, ValidateDocument, EnumerateProcesses, StampObservation,
         CompareProcesses, Return, Goto, TypeInv, TypeOK
    <3> QED
      BY <1>1, <3>1, <3>2, ExecuteFrame, EarlyStepsKeepCounts
  <2> QED
    BY <1>1, <2>1, <2>2, <2>3, <2>4 DEF Execute
<1>2. ASSUME NEW h \in Helpers, Restart(h) PROVE Counts'
  <2>1. \A d \in Callers : pc'[d] = "mutate" => pc[d] = "mutate" /\ call'[d] = call[d]
    BY <1>2 DEF Restart, TypeInv, TypeOK
  <2> QED
    BY <1>2, <2>1 DEF Restart, Counts, OneTime, Claimed, OneHolder
<1>3. CASE \/ \E a \in Approvals : Approve(a)
           \/ Tick \/ SwitchGame \/ ChangeTarget \/ UNCHANGED vars
  <2>1. UNCHANGED <<used, ran, claims, pc, call>>
    BY <1>3 DEF Approve, Tick, SwitchGame, ChangeTarget, vars
  <2> QED
    BY <2>1 DEF Counts, OneTime, Claimed, OneHolder
<1> QED
  BY <1>1, <1>2, <1>3 DEF Next

\* With durable ledgers an approval is consumed at most once and its mutation
\* begins at most once, whatever helpers and threads present it, however often
\* they restart, and though writing a claim may fail before or after the file
\* exists.
THEOREM OneTimeWhenDurable == ASSUME Durable PROVE Spec => []OneTime
<1>1. Init => TypeInv /\ Counts
  BY InitOneTime DEF OneTimeInv
<1>2. TypeInv /\ Counts /\ [Next]_vars => (TypeInv /\ Counts)'
  BY TypeStep, CountsStep
<1>3. Counts => OneTime
  BY DEF Counts
<1> QED
  BY <1>1, <1>2, <1>3, PTL DEF Spec

-----------------------------------------------------------------------------
(***************************************************************************)
(* The game was closed after the decision.                                 *)
(***************************************************************************)


\* What moves on with time only grows, so a caller that stands still keeps its
\* part of the invariant.
LEMMA StandingStill ==
  ASSUME TypeInv, TypeInv', NEW c \in Callers, SeenClosedBy(c), now <= now', closedAt <= closedAt',
         pc'[c] = pc[c], call'[c] = call[c],
         pc[c] # "idle" => approved'[call[c].a] = approved[call[c].a]
  PROVE  SeenClosedBy(c)'
<1>1. now \in Nat /\ now' \in Nat /\ closedAt \in Nat /\ closedAt' \in Nat
  BY ConstantsOK DEF TypeInv, TypeOK
<1>2. pc[c] # "idle" => approved[call[c].a].issued \in Nat
  <2>1. call[c].a \in Approvals
    BY DEF TypeInv, TypeOK, Calls
  <2> QED
    BY <2>1, ConstantsOK DEF TypeInv, TypeOK, CallsApproved, Records
<1> QED
  BY <1>1, <1>2 DEF SeenClosedBy

LEMMA ExecuteSeesClosed ==
  ASSUME TypeInv, SeenClosed, ClosedNow, NEW c \in Callers, Execute(c)
  PROVE  SeenClosedBy(c)'
<1> DEFINE r == approved[call[c].a]
<1> USE DEF Goto
<1>1. SeenClosedBy(c)
  BY DEF SeenClosed
<1>2. /\ pc \in [Callers -> Steps] /\ call \in [Callers -> Calls] /\ call[c] \in Calls
      /\ now \in Nat /\ closedAt \in Nat /\ closedAt <= now
  BY ConstantsOK DEF TypeInv, TypeOK
<1>3. pc[c] # "idle" => r.issued \in Nat
  BY <1>2, ConstantsOK DEF TypeInv, TypeOK, CallsApproved, Records, Calls
<1>4. CASE pc'[c] \in {"idle", "validate"}
  BY <1>4 DEF SeenClosedBy
<1>5. CASE ValidateDocument(c) /\ pc'[c] = "enumerate"
  <2>1. r.issued <= now /\ UNCHANGED <<now, approved, call>>
    BY <1>2, <1>5 DEF ValidateDocument, Return
  <2> QED
    BY <1>5, <2>1 DEF SeenClosedBy
<1>6. CASE EnumerateProcesses(c)
  <2>1. /\ pc[c] = "enumerate" /\ pc'[c] = "observe" /\ call'[c].game = game
        /\ call'[c].a = call[c].a /\ UNCHANGED <<now, approved, closedAt>>
    BY <1>2, <1>6 DEF EnumerateProcesses, Calls
  <2>2. game \in BOOLEAN
    BY DEF TypeInv, TypeOK
  <2>3. r.issued <= now
    BY <1>1, <2>1 DEF SeenClosedBy
  <2>4. ~game => r.issued <= closedAt
    BY <2>3 DEF ClosedNow
  <2> QED
    BY <2>1, <2>2, <2>3, <2>4 DEF SeenClosedBy
<1>7. CASE StampObservation(c)
  <2>1. /\ pc[c] = "observe" /\ pc'[c] = "compare" /\ call'[c].game = call[c].game
        /\ call'[c].a = call[c].a /\ UNCHANGED <<now, approved, closedAt>>
    BY <1>2, <1>7 DEF StampObservation, Calls
  <2> QED
    BY <1>1, <2>1 DEF SeenClosedBy
<1>8. CASE CompareProcesses(c) /\ pc'[c] = "consume"
  <2>1. pc[c] = "compare" /\ ~call[c].game /\ UNCHANGED <<now, approved, closedAt, call>>
    BY <1>2, <1>8 DEF CompareProcesses, Return
  <2>2. r.issued <= closedAt /\ r.issued <= now
    BY <1>1, <2>1 DEF SeenClosedBy
  <2> QED
    BY <1>8, <2>1, <2>2 DEF SeenClosedBy
<1>9. CASE Consume(c) /\ pc'[c] = "mutate"
  <2>1. pc[c] = "consume" /\ UNCHANGED <<now, approved, closedAt, call>>
    BY <1>2, <1>9 DEF Consume, Return
  <2> QED
    BY <1>1, <1>9, <2>1 DEF SeenClosedBy
<1>10. ASSUME ~(pc'[c] \in {"idle", "validate"})
       PROVE  \/ ValidateDocument(c) /\ pc'[c] = "enumerate"
              \/ EnumerateProcesses(c) \/ StampObservation(c)
              \/ CompareProcesses(c) /\ pc'[c] = "consume"
              \/ Consume(c) /\ pc'[c] = "mutate"
  BY <1>2, <1>10 DEF Execute, ReadTargets, ValidateDocument, CompareProcesses, Consume,
     ConsumeFails, Mutate, Return
<1> QED
  BY <1>4, <1>5, <1>6, <1>7, <1>8, <1>9, <1>10

LEMMA ExecuteKeepsClock == ASSUME NEW c \in Callers, Execute(c)
                           PROVE  UNCHANGED <<now, game, closedAt>>
  BY DEF Execute, ReadTargets, ValidateDocument, EnumerateProcesses, StampObservation,
     CompareProcesses, Consume, ConsumeFails, Mutate

LEMMA ClosedStep ==
  TypeInv /\ SeenClosed /\ ClosedNow /\ [Next]_vars => SeenClosed' /\ ClosedNow'
<1> SUFFICES ASSUME TypeInv, SeenClosed, ClosedNow, [Next]_vars
             PROVE  SeenClosed' /\ ClosedNow'
  OBVIOUS
<1>1. TypeInv'
  BY TypeStep
<1>2. now \in Nat /\ closedAt \in Nat /\ closedAt <= now
  BY ConstantsOK DEF TypeInv, TypeOK
<1>3. ASSUME NEW c \in Callers, Execute(c) PROVE SeenClosed' /\ ClosedNow'
  <2>1. UNCHANGED <<now, game, closedAt>> /\ approved' = approved
    BY <1>3, ExecuteKeepsClock, ExecuteFrame
  <2>2. ASSUME NEW d \in Callers \ {c} PROVE SeenClosedBy(d)'
    <3>1. pc'[d] = pc[d] /\ call'[d] = call[d]
      BY <1>3, ExecuteFrame
    <3>2. SeenClosedBy(d)
      BY DEF SeenClosed
    <3> QED
      BY <1>1, <1>2, <2>1, <3>1, <3>2, StandingStill
  <2>3. SeenClosedBy(c)'
    BY <1>3, ExecuteSeesClosed
  <2> QED
    BY <2>1, <2>2, <2>3 DEF SeenClosed, ClosedNow
<1>4. ASSUME now <= now', closedAt <= closedAt', UNCHANGED <<pc, call>>,
             \A c \in Callers : pc[c] # "idle" => approved'[call[c].a] = approved[call[c].a]
      PROVE  SeenClosed'
  BY <1>1, <1>4, StandingStill DEF SeenClosed
<1>5. ASSUME NEW a \in Approvals, Approve(a) PROVE SeenClosed' /\ ClosedNow'
  <2>1. \A c \in Callers : pc[c] # "idle" => approved'[call[c].a] = approved[call[c].a]
    BY <1>5 DEF Approve, TypeInv, TypeOK, CallsApproved
  <2>2. UNCHANGED <<now, game, closedAt, pc, call>>
    BY <1>5 DEF Approve
  <2> QED
    BY <1>2, <1>4, <2>1, <2>2 DEF ClosedNow
<1>6. ASSUME NEW h \in Helpers, Restart(h) PROVE SeenClosed' /\ ClosedNow'
  <2>1. UNCHANGED <<now, game, closedAt, approved>>
    BY <1>6 DEF Restart
  <2>2. ASSUME NEW c \in Callers, HelperOf[c] # h PROVE SeenClosedBy(c)'
    <3>1. pc'[c] = pc[c] /\ call'[c] = call[c] /\ SeenClosedBy(c)
      BY <1>6, <2>2 DEF Restart, SeenClosed
    <3> QED
      BY <1>1, <1>2, <2>1, <3>1, StandingStill
  <2>3. ASSUME NEW c \in Callers, HelperOf[c] = h PROVE SeenClosedBy(c)'
    BY <1>6, <2>3 DEF Restart, SeenClosedBy
  <2> QED
    BY <2>1, <2>2, <2>3 DEF SeenClosed, ClosedNow
<1>7. CASE Tick
  <2>1. now <= now' /\ closedAt <= closedAt' /\ UNCHANGED <<pc, call, approved, game>>
    BY <1>2, <1>7 DEF Tick
  <2>2. ClosedNow'
    BY <1>7 DEF Tick, ClosedNow
  <2> QED
    BY <1>4, <2>1, <2>2
<1>8. CASE SwitchGame
  <2>1. now <= now' /\ closedAt <= closedAt' /\ UNCHANGED <<pc, call, approved>>
    BY <1>2, <1>8 DEF SwitchGame
  <2>2. ClosedNow'
    BY <1>8 DEF SwitchGame, ClosedNow
  <2> QED
    BY <1>4, <2>1, <2>2
<1>9. CASE ChangeTarget \/ UNCHANGED vars
  <2>1. UNCHANGED <<now, closedAt, pc, call, approved, game>>
    BY <1>9 DEF ChangeTarget, vars
  <2> QED
    BY <1>2, <1>4, <2>1 DEF ClosedNow
<1> QED
  BY <1>3, <1>5, <1>6, <1>7, <1>8, <1>9 DEF Next

\* A mutation that needs the game closed begins only if the game was closed at
\* some moment after the user's decision.
THEOREM GameWasClosed == Spec => []ClosedSinceDecision
<1>1. Init => TypeInv /\ SeenClosed /\ ClosedNow
  <2>1. Init => SeenClosed /\ ClosedNow
    BY DEF Init, SeenClosed, SeenClosedBy, ClosedNow
  <2> QED
    BY <2>1, InitType
<1>2. TypeInv /\ SeenClosed /\ ClosedNow /\ [Next]_vars => (TypeInv /\ SeenClosed /\ ClosedNow)'
  BY TypeStep, ClosedStep
<1>3. TypeInv /\ SeenClosed => ClosedSinceDecision
  <2> SUFFICES ASSUME TypeInv, SeenClosed, NEW c \in Callers, pc[c] = "mutate"
               PROVE  closedAt >= approved[call[c].a].issued
    BY DEF ClosedSinceDecision
  <2>1. approved[call[c].a].issued <= closedAt
    BY DEF SeenClosed, SeenClosedBy
  <2>2. approved[call[c].a].issued \in Nat /\ closedAt \in Nat
    BY ConstantsOK DEF TypeInv, TypeOK, CallsApproved, Records, Calls
  <2> QED
    BY <2>1, <2>2
<1> QED
  BY <1>1, <1>2, <1>3, PTL DEF Spec
=============================================================================
