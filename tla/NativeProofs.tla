---------------------------- MODULE NativeProofs ----------------------------
(***************************************************************************)
(* What TLAPS proves of NativeExperiment and DebuggerSession, for any      *)
(* number of threads, approvals, breakpoints, touches and receipts; of     *)
(* ProbeGates, for any assertions, sources and number of defects; of       *)
(* SessionRecords, for any deployments, contents and bounds; of            *)
(* AcceptanceGates, for any projects, protected files and cases; of        *)
(* ActiveState, for a log of any length and any projects; of               *)
(* ProbeDocuments and GuardedProject, for sections, code and entry locks   *)
(* of any length; of RuntimeStream, for any events, limits and damage; and *)
(* of ReleaseBuild, for any backlog, edits, damage and number of builds.   *)
(***************************************************************************)
EXTENDS NativeExperiment, DebuggerSession, ProbeGates, SessionRecords, AcceptanceGates, ActiveState,
        GuardedProject, RuntimeStream, ReleaseBuild, FiniteSetTheorems, SequenceTheorems, WellFoundedInduction, TLAPS

-----------------------------------------------------------------------------
(***************************************************************************)
(* DebuggerSession: a receipt that reports success is true.                *)
(***************************************************************************)

SessionOps == {"handoff", "capture", "close"}

DebuggerSessions == [op : SessionOps \cup {"none"}, step : SessionOps \cup {"idle", "inspect", "check"},
                     attached : BOOLEAN, checks : Seq(Snapshots), since : Nat]

SessionReceipts == [op : SessionOps, now : Snapshots, fresh : BOOLEAN, pass : BOOLEAN]

DebuggerTyped ==
  /\ debugger \in Snapshots
  /\ sessionLock \in Threads \cup {Nobody}
  /\ session \in [Threads -> DebuggerSessions]
  /\ receipts \in Seq(SessionReceipts)
  /\ touches \in Nat

\* A thread in an operation, and only that one, has the lock.
OneOperation == \A t \in Threads : session[t].step # "idle" <=> sessionLock = t

\* What an operation has seen: its last inspection found the debugger as it is,
\* unless somebody touched the debugger since.
LastLook(s, now, count) ==
  /\ s.step \in SessionOps => s.op = s.step
  /\ s.step # "idle" => s.op \in SessionOps
  /\ s.since <= count
  /\ s.step # "check" => s.checks = <<>>
  /\ Len(s.checks) <= 2
  /\ s.checks # <<>> /\ s.since = count => s.checks[Len(s.checks)] = now

LooksRecent == \A t \in Threads : LastLook(session[t], debugger, touches)

ReceiptTells(r) == r.pass /\ r.fresh => Promised(r.op, r.now)

DebuggerInv == DebuggerTyped /\ OneOperation /\ LooksRecent /\ ReceiptHolds

LEMMA PromisedBool == \A op \in SessionOps, s \in Snapshots : Promised(op, s) \in BOOLEAN
  BY DEF Promised, SessionOps, Snapshots, GameplaySafe, Unexpected

LEMMA DebuggerStarts == DebuggerInit => DebuggerInv
  <1>1. Idle \in DebuggerSessions
    BY DEF Idle, DebuggerSessions, SessionOps
  <1>2. DebuggerInit => DebuggerTyped
    BY <1>1, DebuggerConstants DEF DebuggerInit, DebuggerTyped
  <1>3. DebuggerInit => OneOperation /\ LooksRecent
    BY DebuggerConstants DEF DebuggerInit, OneOperation, LooksRecent, LastLook, Idle, SessionOps
  <1>4. DebuggerInit => ReceiptHolds
    BY DEF DebuggerInit, ReceiptHolds
  <1>5. QED
    BY <1>2, <1>3, <1>4 DEF DebuggerInv

\* A thread that leaves has nothing seen and nothing locked.
LEMMA LeavingKeeps ==
  ASSUME DebuggerTyped, OneOperation, LooksRecent, NEW t \in Threads, session[t].step # "idle",
         Leave(t), debugger' = debugger, touches' \in Nat, touches' >= touches
  PROVE  /\ sessionLock' \in Threads \cup {Nobody} /\ session' \in [Threads -> DebuggerSessions]
         /\ OneOperation' /\ LooksRecent'
  <1>1. Idle \in DebuggerSessions /\ Idle.step = "idle" /\ Idle.checks = <<>> /\ Idle.since = 0
    BY DEF Idle, DebuggerSessions, SessionOps
  <1>2. /\ sessionLock = t /\ sessionLock' = Nobody
        /\ session' = [session EXCEPT ![t] = Idle]
        /\ \A u \in Threads \ {t} : session[u].step = "idle"
    BY DEF Leave, OneOperation
  <1>3. /\ session' \in [Threads -> DebuggerSessions]
        /\ session'[t] = Idle
        /\ \A u \in Threads \ {t} : session'[u] = session[u]
    BY <1>1, <1>2 DEF DebuggerTyped
  <1>4. OneOperation'
    BY <1>1, <1>2, <1>3, DebuggerConstants DEF OneOperation
  <1>5. \A u \in Threads : session'[u].step = "idle" /\ session'[u].checks = <<>> /\ session'[u].since <= touches
    BY <1>1, <1>2, <1>3 DEF LooksRecent, LastLook, DebuggerTyped
  <1>6. LooksRecent'
    BY <1>3, <1>5 DEF LooksRecent, LastLook, SessionOps, DebuggerTyped, DebuggerSessions
  <1>7. QED
    BY <1>2, <1>3, <1>4, <1>6

\* A receipt is added that tells the truth.
LEMMA ReceiptKeeps ==
  ASSUME DebuggerTyped, ReceiptHolds, NEW r \in SessionReceipts, ReceiptTells(r),
         receipts' = Append(receipts, r)
  PROVE  receipts' \in Seq(SessionReceipts) /\ ReceiptHolds'
  <1>1. /\ receipts' \in Seq(SessionReceipts)
        /\ Len(receipts') = Len(receipts) + 1
        /\ \A i \in 1..Len(receipts) : receipts'[i] = receipts[i]
        /\ receipts'[Len(receipts) + 1] = r
        /\ Len(receipts) \in Nat
    BY DEF DebuggerTyped
  <1>2. \A i \in 1..Len(receipts') : ReceiptTells(receipts'[i])
    <2>1. \A i \in 1..Len(receipts) : ReceiptTells(receipts[i])
      BY DEF ReceiptHolds, ReceiptTells
    <2>2. QED
      BY <1>1, <2>1
  <1>3. QED
    BY <1>1, <1>2 DEF ReceiptHolds, ReceiptTells

\* The end of an operation, with a receipt or without.
LEMMA ConcludeKeeps ==
  ASSUME DebuggerInv, NEW t \in Threads, NEW checks \in Seq(Snapshots), session[t].step # "idle",
         Conclude(t, checks),
         \/ session[t].op = "capture"
         \/ Len(checks) # 2
         \/ session[t].since = touches => checks[2] = debugger
  PROVE  DebuggerInv'
  <1> DEFINE r == [op |-> session[t].op, now |-> debugger, fresh |-> session[t].since = touches,
                   pass |-> (session[t].op = "capture" \/ Len(checks) = 2)
                              /\ \A k \in 1..Len(checks) : Promised(session[t].op, checks[k])]
  <1>1. receipts' = Append(receipts, r) /\ Leave(t) /\ debugger' = debugger /\ touches' = touches
    BY DEF Conclude
  <1>2. session[t].op \in SessionOps /\ debugger \in Snapshots /\ touches \in Nat
    BY DEF DebuggerInv, LooksRecent, LastLook, DebuggerTyped
  <1>3. r \in SessionReceipts
    BY <1>2 DEF SessionReceipts
  <1>4. ReceiptTells(r)
    <2>1. CASE session[t].op = "capture"
      BY <2>1 DEF ReceiptTells, Promised
    <2>2. CASE session[t].op # "capture" /\ Len(checks) # 2
      BY <2>2 DEF ReceiptTells
    <2>3. CASE session[t].op # "capture" /\ Len(checks) = 2 /\ (session[t].since = touches => checks[2] = debugger)
      <3>1. 2 \in 1..Len(checks)
        BY <2>3
      <3>2. QED
        BY <2>3, <3>1 DEF ReceiptTells
    <2>4. QED
      BY <2>1, <2>2, <2>3
  <1> HIDE DEF r
  <1>5. receipts' \in Seq(SessionReceipts) /\ ReceiptHolds'
    BY <1>1, <1>3, <1>4, ReceiptKeeps DEF DebuggerInv
  <1>6. /\ sessionLock' \in Threads \cup {Nobody} /\ session' \in [Threads -> DebuggerSessions]
        /\ OneOperation' /\ LooksRecent'
    BY <1>1, <1>2, LeavingKeeps DEF DebuggerInv
  <1>7. QED
    BY <1>1, <1>2, <1>5, <1>6 DEF DebuggerInv, DebuggerTyped

\* A step of the one thread at work, that stays at work: what it may do.
LEMMA WorkKeeps ==
  ASSUME DebuggerInv, NEW t \in Threads, sessionLock' = t, sessionLock \in {t, Nobody},
         NEW s \in DebuggerSessions, session' = [session EXCEPT ![t] = s], s.step # "idle",
         debugger' \in Snapshots, LastLook(s, debugger', touches'), UNCHANGED <<receipts, touches>>
  PROVE  DebuggerInv'
  <1>1. /\ session' \in [Threads -> DebuggerSessions] /\ session'[t] = s
        /\ \A u \in Threads \ {t} : session'[u] = session[u]
    BY DEF DebuggerInv, DebuggerTyped
  <1>2. \A u \in Threads \ {t} : session[u].step = "idle" /\ session[u].checks = <<>>
    BY DebuggerConstants DEF DebuggerInv, OneOperation, LooksRecent, LastLook
  <1>3. OneOperation'
    BY <1>1, <1>2 DEF OneOperation
  <1>4. \A u \in Threads \ {t} : LastLook(session'[u], debugger', touches')
    <2>1. SUFFICES ASSUME NEW u \in Threads \ {t} PROVE LastLook(session'[u], debugger', touches')
      OBVIOUS
    <2>2. LastLook(session[u], debugger, touches)
      BY DEF DebuggerInv, LooksRecent
    <2>3. session'[u] = session[u] /\ touches' = touches /\ session[u].checks = <<>>
      BY <1>1, <1>2
    <2>4. QED
      BY <2>2, <2>3 DEF LastLook
  <1>5. LooksRecent'
    BY <1>1, <1>4 DEF LooksRecent
  <1>6. QED
    BY <1>1, <1>3, <1>5 DEF DebuggerInv, DebuggerTyped, ReceiptHolds

\* Every step of the session helper keeps the invariant.
LEMMA DebuggerStep == DebuggerInv /\ [DebuggerNext]_debuggerVars => DebuggerInv'
  <1> SUFFICES ASSUME DebuggerInv, [DebuggerNext]_debuggerVars PROVE DebuggerInv'
    OBVIOUS
  <1>1. /\ DebuggerTyped /\ debugger \in Snapshots /\ touches \in Nat
        /\ \A t \in Threads : session[t] \in DebuggerSessions /\ LastLook(session[t], debugger, touches)
        /\ \A t \in Threads : session[t].step # "idle" => sessionLock = t
    BY DEF DebuggerInv, DebuggerTyped, OneOperation, LooksRecent
  <1>2. ASSUME NEW t \in Threads, NEW op \in SessionOps, Enter(t, op) PROVE DebuggerInv'
    <2> DEFINE s == [Idle EXCEPT !.op = op, !.step = "inspect"]
    <2>1. s \in DebuggerSessions /\ s.step = "inspect" /\ s.op = op /\ s.checks = <<>> /\ s.since = 0
      <3>1. Idle \in DebuggerSessions /\ Idle.checks = <<>> /\ Idle.since = 0
        BY DEF Idle, DebuggerSessions
      <3>2. QED
        BY <3>1 DEF DebuggerSessions
    <2>2. /\ session' = [session EXCEPT ![t] = s] /\ sessionLock = Nobody /\ sessionLock' = t
          /\ UNCHANGED <<debugger, receipts, touches>>
      BY <1>2 DEF Enter
    <2> HIDE DEF s
    <2>3. LastLook(s, debugger', touches')
      BY <1>1, <2>1, <2>2 DEF LastLook, SessionOps
    <2>4. QED
      BY <1>1, <2>1, <2>2, <2>3, WorkKeeps
  <1>3. ASSUME NEW t \in Threads, Inspect(t) PROVE DebuggerInv'
    <2>1. /\ session[t].step = "inspect" /\ sessionLock = t /\ session[t].op \in SessionOps
          /\ session[t].checks = <<>> /\ session[t].since <= touches
      BY <1>1, <1>3 DEF Inspect, At, LastLook
    <2>2. CASE Leave(t) /\ UNCHANGED <<debugger, receipts, touches>>
      <3>1. /\ sessionLock' \in Threads \cup {Nobody} /\ session' \in [Threads -> DebuggerSessions]
            /\ OneOperation' /\ LooksRecent'
        BY <1>1, <2>1, <2>2, LeavingKeeps DEF DebuggerInv
      <3>2. QED
        BY <1>1, <2>2, <3>1 DEF DebuggerInv, DebuggerTyped, ReceiptHolds
    <2>3. CASE Conclude(t, <<>>)
      <3>1. <<>> \in Seq(Snapshots) /\ Len(<<>>) # 2
        OBVIOUS
      <3>2. QED
        BY <2>1, <2>3, <3>1, ConcludeKeeps
    <2>4. CASE /\ session' = [session EXCEPT ![t].attached = debugger.connected, ![t].step = session[t].op]
               /\ UNCHANGED <<debugger, sessionLock, receipts, touches>>
      <3> DEFINE s == [session[t] EXCEPT !.attached = debugger.connected, !.step = session[t].op]
      <3>1. session[t] \in DebuggerSessions /\ debugger.connected \in BOOLEAN
        BY <1>1 DEF Snapshots
      <3>2. /\ s \in DebuggerSessions /\ s.step = session[t].op /\ s.op = session[t].op /\ s.checks = <<>>
            /\ s.since = session[t].since
        BY <2>1, <3>1 DEF DebuggerSessions
      <3>3. session' = [session EXCEPT ![t] = s]
        BY <1>1, <2>4 DEF DebuggerTyped
      <3> HIDE DEF s
      <3>4. LastLook(s, debugger', touches') /\ s.step # "idle"
        BY <1>1, <2>1, <2>4, <3>2 DEF LastLook, SessionOps
      <3>5. QED
        BY <1>1, <2>1, <2>4, <3>2, <3>3, <3>4, WorkKeeps
    <2>5. QED
      BY <1>3, <2>2, <2>3, <2>4 DEF Inspect
  <1>4. ASSUME NEW t \in Threads, Resume(t) \/ Detach(t) PROVE DebuggerInv'
    <2>1. /\ session[t].step \in {"handoff", "close"} /\ sessionLock = t /\ session[t].op \in SessionOps
          /\ session[t].checks = <<>> /\ session[t].since <= touches /\ session[t] \in DebuggerSessions
      BY <1>1, <1>4 DEF Resume, Detach, At, LastLook
    <2>2. /\ session' = [session EXCEPT ![t].step = "check"]
          /\ debugger' \in Snapshots
          /\ UNCHANGED <<sessionLock, receipts, touches>>
      <3>1. debugger \in Snapshots
        BY <1>1 DEF DebuggerTyped
      <3>2. \/ debugger' = debugger
            \/ debugger' = [debugger EXCEPT !.running = TRUE, !.paused = FALSE]
            \/ debugger' = [debugger EXCEPT !.connected = FALSE, !.debugging = FALSE]
        BY <1>4 DEF Resume, Detach
      <3>3. debugger' \in Snapshots
        BY <3>1, <3>2 DEF Snapshots
      <3>4. QED
        BY <1>4, <3>3 DEF Resume, Detach, Step
    <2> DEFINE s == [session[t] EXCEPT !.step = "check"]
    <2>3. /\ s \in DebuggerSessions /\ s.step = "check" /\ s.op = session[t].op /\ s.checks = <<>>
          /\ s.since = session[t].since
      BY <2>1 DEF DebuggerSessions
    <2>4. session' = [session EXCEPT ![t] = s]
      BY <1>1, <2>2 DEF DebuggerTyped
    <2> HIDE DEF s
    <2>5. LastLook(s, debugger', touches') /\ s.step # "idle"
      BY <1>1, <2>1, <2>2, <2>3 DEF LastLook, SessionOps
    <2>6. QED
      BY <1>1, <2>1, <2>2, <2>3, <2>4, <2>5, WorkKeeps
  <1>5. ASSUME NEW t \in Threads, Capture(t) PROVE DebuggerInv'
    <2>1. session[t].step = "capture" /\ session[t].op = "capture"
      BY <1>1, <1>5 DEF Capture, At, LastLook, SessionOps
    <2>2. <<>> \in Seq(Snapshots)
      OBVIOUS
    <2>3. QED
      BY <1>5, <2>1, <2>2, ConcludeKeeps DEF Capture
  <1>6. ASSUME NEW t \in Threads, ClearBreakpoint(t) PROVE DebuggerInv'
    <2>1. /\ session[t].step = "close" /\ sessionLock = t
          /\ session[t] \in DebuggerSessions /\ LastLook(session[t], debugger, touches)
      BY <1>1, <1>6 DEF ClearBreakpoint, At
    <2>2. debugger' \in Snapshots /\ UNCHANGED <<sessionLock, session, receipts, touches>>
      BY <1>1, <1>6 DEF ClearBreakpoint, Snapshots
    <2>3. session' = [session EXCEPT ![t] = session[t]]
      BY <1>1, <2>2 DEF DebuggerTyped
    <2>4. LastLook(session[t], debugger', touches')
      BY <2>1, <2>2 DEF LastLook
    <2>5. QED
      BY <2>1, <2>2, <2>3, <2>4, WorkKeeps
  <1>7. ASSUME NEW t \in Threads, Check(t) PROVE DebuggerInv'
    <2>1. /\ session[t].step = "check" /\ sessionLock = t /\ session[t].op \in SessionOps
          /\ session[t].since <= touches /\ session[t] \in DebuggerSessions /\ LastLook(session[t], debugger, touches)
          /\ session[t].checks \in Seq(Snapshots) /\ Len(session[t].checks) <= 2
      BY <1>1, <1>7 DEF Check, At, LastLook, DebuggerSessions
    <2>2. CASE Len(session[t].checks) < 2
      <3>1. /\ session' = [session EXCEPT ![t].checks = Append(@, debugger), ![t].since = touches]
            /\ UNCHANGED <<debugger, sessionLock, receipts, touches>>
        BY <1>7, <2>2 DEF Check
      <3> DEFINE s == [session[t] EXCEPT !.checks = Append(@, debugger), !.since = touches]
      <3>2. /\ s \in DebuggerSessions /\ s.step = "check" /\ s.op = session[t].op
            /\ s.checks = Append(session[t].checks, debugger) /\ s.since = touches
        <4>1. Append(session[t].checks, debugger) \in Seq(Snapshots)
          BY <1>1, <2>1
        <4>2. QED
          BY <1>1, <2>1, <4>1 DEF DebuggerSessions
      <3>3. session' = [session EXCEPT ![t] = s]
        BY <1>1, <3>1 DEF DebuggerTyped
      <3> HIDE DEF s
      <3>4. Len(s.checks) <= 2 /\ s.checks[Len(s.checks)] = debugger
        BY <1>1, <2>1, <2>2, <3>2
      <3>5. LastLook(s, debugger', touches') /\ s.step # "idle"
        BY <1>1, <2>1, <3>1, <3>2, <3>4 DEF LastLook, SessionOps
      <3>6. sessionLock = t /\ sessionLock' = t /\ debugger' \in Snapshots /\ UNCHANGED <<receipts, touches>>
        BY <1>1, <2>1, <3>1
      <3>7. QED
        BY <3>2, <3>3, <3>5, <3>6, WorkKeeps
    <2>3. CASE ~(Len(session[t].checks) < 2)
      <3>1. Conclude(t, session[t].checks) /\ Len(session[t].checks) = 2
        <4>1. Conclude(t, session[t].checks)
          BY <1>7, <2>3, Zenon DEF Check
        <4>2. \A n \in Nat : n <= 2 /\ ~(n < 2) => n = 2
          OBVIOUS
        <4>3. Len(session[t].checks) \in Nat /\ Len(session[t].checks) <= 2
          BY <2>1
        <4>4. Len(session[t].checks) = 2
          BY <2>3, <4>2, <4>3
        <4>5. QED
          BY <4>1, <4>4
      <3>2. session[t].since = touches => session[t].checks[2] = debugger
        <4>1. session[t].checks # <<>>
          BY <3>1
        <4>2. QED
          BY <2>1, <3>1, <4>1 DEF LastLook
      <3>3. QED
        BY <2>1, <3>1, <3>2, ConcludeKeeps
    <2>4. QED
      BY <2>2, <2>3
  <1>8. ASSUME NEW t \in Threads, ProviderFails(t) PROVE DebuggerInv'
    <2>1. session[t].step # "idle" /\ Leave(t) /\ touches' = touches + 1 /\ UNCHANGED <<debugger, receipts>>
      BY <1>8 DEF ProviderFails
    <2>2. touches' \in Nat /\ touches' >= touches
      BY <1>1, <2>1
    <2>3. /\ sessionLock' \in Threads \cup {Nobody} /\ session' \in [Threads -> DebuggerSessions]
          /\ OneOperation' /\ LooksRecent'
      BY <2>1, <2>2, LeavingKeeps DEF DebuggerInv
    <2>4. QED
      BY <1>1, <2>1, <2>2, <2>3 DEF DebuggerInv, DebuggerTyped, ReceiptHolds
  <1>9. ASSUME Touch PROVE DebuggerInv'
    <2>1. touches' = touches + 1 /\ UNCHANGED <<sessionLock, session, receipts>>
      BY <1>9 DEF Touch
    <2>2. debugger' \in Snapshots
      <3>1. CASE \E b \in Foreign : debugger' = [debugger EXCEPT !.breakpoints = @ \cup {b}]
        BY <1>1, <3>1 DEF Snapshots, Breakpoints
      <3>2. CASE debugger' = [debugger EXCEPT !.running = FALSE, !.paused = TRUE]
        BY <1>1, <3>2 DEF Snapshots
      <3>3. CASE debugger' = [debugger EXCEPT !.connected = ~@, !.debugging = ~debugger.connected]
        BY <1>1, <3>3 DEF Snapshots
      <3>4. QED
        BY <1>9, <3>1, <3>2, <3>3 DEF Touch
    <2>3. ASSUME NEW t \in Threads PROVE LastLook(session'[t], debugger', touches')
      <3>1. LastLook(session[t], debugger, touches) /\ session[t].since \in Nat /\ session'[t] = session[t]
        BY <1>1, <2>1 DEF DebuggerSessions
      <3>2. session[t].since <= touches' /\ session[t].since # touches'
        BY <1>1, <2>1, <3>1 DEF LastLook
      <3>3. QED
        BY <3>1, <3>2 DEF LastLook
    <2>4. QED
      BY <1>1, <2>1, <2>2, <2>3 DEF DebuggerInv, DebuggerTyped, OneOperation, LooksRecent, ReceiptHolds
  <1>10. ASSUME UNCHANGED debuggerVars PROVE DebuggerInv'
    <2>1. UNCHANGED <<debugger, sessionLock, session, receipts, touches>>
      BY <1>10 DEF debuggerVars
    <2>2. DebuggerTyped' /\ OneOperation' /\ ReceiptHolds'
      BY <2>1 DEF DebuggerInv, DebuggerTyped, OneOperation, ReceiptHolds
    <2>3. LooksRecent'
      BY <2>1 DEF DebuggerInv, LooksRecent, LastLook
    <2>4. QED
      BY <2>2, <2>3 DEF DebuggerInv
  <1>11. QED
    BY <1>2, <1>3, <1>4, <1>5, <1>6, <1>7, <1>8, <1>9, <1>10 DEF DebuggerNext, SessionOps

\* A receipt that reports success is true when it is returned, unless the user or
\* the game touched the debugger after the last inspection.
\* (prepare_gameplay_handoff, close_debug_session, _SESSION_LOCK)
THEOREM ReceiptsAreTrue == DebuggerSpec => []ReceiptHolds
  <1>1. DebuggerInit => DebuggerInv
    BY DebuggerStarts
  <1>2. DebuggerInv /\ [DebuggerNext]_debuggerVars => DebuggerInv'
    BY DebuggerStep
  <1>3. DebuggerInv => ReceiptHolds
    BY DEF DebuggerInv
  <1>4. QED
    BY <1>1, <1>2, <1>3, PTL DEF DebuggerSpec

-----------------------------------------------------------------------------
(***************************************************************************)
(* NativeExperiment: chains that verify, and a cleanup that stays owed.    *)
(***************************************************************************)

ReceiptPlaces == Nat \X Nat \X Stages

ChainReceipts == [id : Nat, sequence : Nat, stage : Stages, approval : Bindings \cup {NoApproval},
                  previous : {<<>>} \cup ReceiptPlaces]

Controllers == [mode : {"current", "legacy_audit"}, stage : Stages, receipts : Seq(ChainReceipts),
                install : Bindings \cup {NoApproval}, cleanup : BOOLEAN]

\* The place of a receipt as its successor cites it.
PlaceOf(r) == <<r.sequence, r.id, r.stage>>

\* A chain of which each receipt verifies and cites its predecessor, and of which
\* all but the failures have ids of their own.
ChainLinks(chain) ==
  /\ Len(chain) >= 1
  /\ chain[1].stage = "CREATED"
  /\ \A i \in 1..Len(chain) :
       /\ ReceiptVerifies(chain[i])
       /\ chain[i].sequence = i - 1
       /\ i = 1 => chain[i].previous = <<>>
       /\ i # 1 => chain[i].previous = PlaceOf(chain[i - 1])
       /\ chain[i].stage # "FAILED" => \A k \in 1..(i - 1) : chain[k].id # chain[i].id

\* No failure was given a consumed id.
Afresh(chain) ==
  \A i, k \in 1..Len(chain) : k < i /\ chain[i].stage = "FAILED" => chain[k].id # chain[i].id

\* Then the ids are the first declared ones, each used once.
IdsInOrder(chain) ==
  Afresh(chain) => Len(chain) <= MaxDeclaredIds /\ \A i \in 1..Len(chain) : chain[i].id = i

RecordedIn(c, stage) == \E i \in 1..Len(c.receipts) : c.receipts[i].stage = stage

\* The duties of an experiment; one of the legacy mode never installs.
Duties(c, installed) ==
  /\ c.mode = "current" /\ RecordedIn(c, "INSTALLED") /\ c.stage # "CLEANUP_VERIFIED" => c.cleanup
  /\ c.stage = "CLEANUP_VERIFIED" => ~installed
  /\ c.mode = "legacy_audit" =>
       ~installed /\ c.install = NoApproval /\ c.stage \notin ApprovalStages

ExperimentInv ==
  /\ controller \in Controllers
  /\ deployed \in BOOLEAN
  /\ ChainLinks(controller.receipts) /\ IdsInOrder(controller.receipts)
  /\ Duties(controller, deployed)

LEMMA RouteLengths ==
  /\ Len(CurrentRoute) = 15 /\ Len(LegacyRoute) = 6
  /\ 1..(Len(CurrentRoute) - 1) = 1..14 /\ 1..(Len(LegacyRoute) - 1) = 1..5
  BY DEF CurrentRoute, LegacyRoute

LEMMA StageNames ==
  Stages = {"CREATED", "FINGERPRINT_VERIFIED", "STATIC_EVIDENCE_VERIFIED", "MANIFEST_SOURCE_VERIFIED",
    "DOUBLE_BUILD_VERIFIED", "DLL_DESCRIPTOR_VERIFIED", "INSTALL_APPROVED", "INSTALLED",
    "DEBUGGER_READY", "HANDOFF_READY", "CAPTURED", "IMPORTED", "INTERPRETED",
    "CLEANUP_APPROVED", "CLEANUP_VERIFIED", "FAILED"}
  <1>1. \A s : s \in {CurrentRoute[i] : i \in 1..15} <=>
          s \in {CurrentRoute[1], CurrentRoute[2], CurrentRoute[3], CurrentRoute[4], CurrentRoute[5],
                 CurrentRoute[6], CurrentRoute[7], CurrentRoute[8], CurrentRoute[9], CurrentRoute[10],
                 CurrentRoute[11], CurrentRoute[12], CurrentRoute[13], CurrentRoute[14], CurrentRoute[15]}
    <2>1. \A i \in 1..15 : \/ i = 1 \/ i = 2 \/ i = 3 \/ i = 4 \/ i = 5 \/ i = 6 \/ i = 7 \/ i = 8
                           \/ i = 9 \/ i = 10 \/ i = 11 \/ i = 12 \/ i = 13 \/ i = 14 \/ i = 15
      OBVIOUS
    <2>2. QED
      BY <2>1
  <1>2. QED
    BY <1>1, RouteLengths DEF Stages, CurrentRoute

\* Only the last stage of a route has no successor; the legacy route has no
\* stage that needs an approval.
LEMMA RouteSteps ==
  /\ \A k \in 1..14 : CurrentRoute[k] # "CLEANUP_VERIFIED" /\ CurrentRoute[k + 1] \in Stages
  /\ \A k \in 1..5 : LegacyRoute[k] # "CLEANUP_VERIFIED" /\ LegacyRoute[k + 1] \in Stages \ ApprovalStages
  /\ \A s \in Stages \ {"CLEANUP_VERIFIED", "FAILED"} : \E k \in 1..14 : CurrentRoute[k] = s
  <1>1. ASSUME NEW k \in 1..14 PROVE CurrentRoute[k] # "CLEANUP_VERIFIED" /\ CurrentRoute[k + 1] \in Stages
    <2>1. \/ k = 1 \/ k = 2 \/ k = 3 \/ k = 4 \/ k = 5 \/ k = 6 \/ k = 7 \/ k = 8
          \/ k = 9 \/ k = 10 \/ k = 11 \/ k = 12 \/ k = 13 \/ k = 14
      OBVIOUS
    <2>2. CurrentRoute[k] # "CLEANUP_VERIFIED"
      BY <2>1 DEF CurrentRoute
    <2>3. k + 1 \in 1..Len(CurrentRoute)
      BY RouteLengths
    <2>4. QED
      BY <2>2, <2>3 DEF Stages
  <1>2. ASSUME NEW k \in 1..5
        PROVE LegacyRoute[k] # "CLEANUP_VERIFIED" /\ LegacyRoute[k + 1] \in Stages \ ApprovalStages
    <2>1. k = 1 \/ k = 2 \/ k = 3 \/ k = 4 \/ k = 5
      OBVIOUS
    <2>2. QED
      BY <2>1, StageNames DEF LegacyRoute, ApprovalStages
  <1>3. ASSUME NEW s \in Stages \ {"CLEANUP_VERIFIED", "FAILED"} PROVE \E k \in 1..14 : CurrentRoute[k] = s
    <2>1. PICK i \in 1..15 : CurrentRoute[i] = s
      BY RouteLengths DEF Stages
    <2>2. CurrentRoute[15] = "CLEANUP_VERIFIED"
      BY DEF CurrentRoute
    <2>3. i \in 1..14
      BY <2>1, <2>2
    <2>4. QED
      BY <2>1, <2>3
  <1>4. QED
    BY <1>1, <1>2, <1>3

\* What _expected_stage may answer.
LEMMA Expected ==
  ASSUME NEW c \in Controllers
  PROVE  /\ ExpectedStage(c) \subseteq Stages
         /\ c.stage = "CLEANUP_VERIFIED" => ExpectedStage(c) = {}
         /\ c.mode = "legacy_audit" => ExpectedStage(c) \subseteq (Stages \ ApprovalStages) \cup {"CLEANUP_APPROVED"}
         /\ c.mode = "current" /\ c.stage # "CLEANUP_VERIFIED" /\ c.cleanup => ExpectedStage(c) # {}
  <1>1. c.stage \in Stages /\ c.mode \in {"current", "legacy_audit"}
    BY DEF Controllers
  <1>2. CASE c.stage = "FAILED" /\ c.cleanup
    <2>1. ExpectedStage(c) = {"CLEANUP_APPROVED"}
      BY <1>2 DEF ExpectedStage
    <2>2. QED
      BY <1>2, <2>1, StageNames
  <1>3. CASE ~(c.stage = "FAILED" /\ c.cleanup)
    <2>1. CASE c.mode = "current"
      <3>1. ExpectedStage(c) = {CurrentRoute[i + 1] : i \in {k \in 1..14 : CurrentRoute[k] = c.stage}}
        BY <1>3, <2>1, RouteLengths DEF ExpectedStage
      <3>2. ASSUME c.stage # "CLEANUP_VERIFIED", c.cleanup PROVE ExpectedStage(c) # {}
        <4>1. PICK k \in 1..14 : CurrentRoute[k] = c.stage
          BY <1>1, <1>3, <3>2, RouteSteps
        <4>2. CurrentRoute[k + 1] \in ExpectedStage(c)
          BY <3>1, <4>1
        <4>3. QED
          BY <4>2
      <3>3. QED
        BY <2>1, <3>1, <3>2, RouteSteps
    <2>2. CASE c.mode = "legacy_audit"
      <3>1. ExpectedStage(c) = {LegacyRoute[i + 1] : i \in {k \in 1..5 : LegacyRoute[k] = c.stage}}
        BY <1>3, <2>2, RouteLengths DEF ExpectedStage
      <3>2. QED
        BY <2>2, <3>1, RouteSteps
    <2>3. QED
      BY <1>1, <2>1, <2>2
  <1>4. QED
    BY <1>2, <1>3

\* A chain of links grows by a receipt that verifies.
LEMMA ChainGrows ==
  ASSUME NEW c \in Controllers, ChainLinks(c.receipts), NEW id \in Nat, NEW stage \in Stages,
         NEW approval \in Bindings \cup {NoApproval}, ReceiptVerifies(NewReceipt(c, id, stage, approval)),
         stage = "FAILED" \/ id \notin UsedIds(c)
  PROVE  LET chain == Append(c.receipts, NewReceipt(c, id, stage, approval))
         IN  chain \in Seq(ChainReceipts) /\ ChainLinks(chain) /\ Len(chain) = Len(c.receipts) + 1
  <1> DEFINE r == NewReceipt(c, id, stage, approval)
             n == Len(c.receipts)
             chain == Append(c.receipts, r)
  <1>1. c.receipts \in Seq(ChainReceipts) /\ n \in Nat /\ n >= 1 /\ c.receipts # <<>>
    BY DEF Controllers, ChainLinks
  <1>2. c.receipts[n] \in ChainReceipts
    BY <1>1
  <1>3. r \in ChainReceipts /\ r.id = id /\ r.sequence = n /\ r.stage = stage /\ r.previous = PlaceOf(c.receipts[n])
    <2>1. PlaceOf(c.receipts[n]) \in ReceiptPlaces
      BY <1>2 DEF PlaceOf, ReceiptPlaces, ChainReceipts
    <2>2. r = [id |-> id, sequence |-> n, stage |-> stage, approval |-> approval, previous |-> PlaceOf(c.receipts[n])]
      BY <1>1 DEF NewReceipt, PlaceOf
    <2> HIDE DEF r
    <2>3. QED
      BY <1>1, <2>1, <2>2 DEF ChainReceipts
  <1> HIDE DEF r
  <1>4. /\ chain \in Seq(ChainReceipts) /\ Len(chain) = n + 1
        /\ \A i \in 1..n : chain[i] = c.receipts[i]
        /\ chain[n + 1] = r
    BY <1>1, <1>3
  <1> HIDE DEF chain
  <1>5. ASSUME NEW i \in 1..(n + 1)
        PROVE  /\ ReceiptVerifies(chain[i])
               /\ chain[i].sequence = i - 1
               /\ i = 1 => chain[i].previous = <<>>
               /\ i # 1 => chain[i].previous = PlaceOf(chain[i - 1])
               /\ chain[i].stage # "FAILED" => \A k \in 1..(i - 1) : chain[k].id # chain[i].id
    <2>1. CASE i \in 1..n
      <3>1. /\ chain[i] = c.receipts[i]
            /\ \A k \in 1..(i - 1) : k \in 1..n /\ chain[k] = c.receipts[k]
        BY <1>1, <1>4, <2>1
      <3>2. i # 1 => i - 1 \in 1..(i - 1)
        BY <1>1, <2>1
      <3>3. QED
        BY <2>1, <3>1, <3>2 DEF ChainLinks
    <2>2. CASE i = n + 1
      <3>1. chain[i] = r /\ i # 1 /\ i - 1 = n /\ n \in 1..n /\ chain[n] = c.receipts[n]
        BY <1>1, <1>4, <2>2
      <3>2. ReceiptVerifies(r)
        BY DEF r
      <3>3. stage # "FAILED" => \A k \in 1..n : chain[k].id # id
        BY <1>4 DEF UsedIds
      <3>4. QED
        BY <1>3, <3>1, <3>2, <3>3
    <2>3. QED
      BY <1>1, <2>1, <2>2
  <1>6. ChainLinks(chain)
    <2>1. chain[1].stage = "CREATED"
      BY <1>1, <1>4 DEF ChainLinks
    <2>2. QED
      BY <1>1, <1>4, <1>5, <2>1 DEF ChainLinks
  <1>7. QED
    BY <1>4, <1>6 DEF chain, r

\* The id that a call comes with is the first unused one, if it is not used.
LEMMA FirstUnused ==
  ASSUME NEW c \in Controllers, ChainLinks(c.receipts), IdsInOrder(c.receipts), Afresh(c.receipts),
         NEW id \in GivenIds(c), id \notin UsedIds(c)
  PROVE  id = Len(c.receipts) + 1 /\ id <= MaxDeclaredIds
  <1> DEFINE n == Len(c.receipts)
  <1>1. n \in Nat /\ n >= 1 /\ n <= MaxDeclaredIds /\ \A i \in 1..n : c.receipts[i].id = i
    BY DEF Controllers, ChainLinks, IdsInOrder
  <1>2. UsedIds(c) = 1..n
    BY <1>1 DEF UsedIds
  <1>3. id \in UnusedIds(c) /\ \A other \in UnusedIds(c) : id <= other
    BY <1>1, <1>2 DEF GivenIds
  <1>4. MaxDeclaredIds \in Nat
    BY ExperimentConstants
  <1>5. UnusedIds(c) = (n + 1)..MaxDeclaredIds
    BY <1>1, <1>2, <1>4 DEF UnusedIds
  <1>6. id \in (n + 1)..MaxDeclaredIds
    BY <1>3, <1>5
  <1>7. n + 1 \in (n + 1)..MaxDeclaredIds
    BY <1>1, <1>4, <1>6
  <1>8. id <= n + 1
    BY <1>3, <1>5, <1>7
  <1>9. QED
    BY <1>1, <1>4, <1>6, <1>8

\* The ids stay in order as the chain grows.
LEMMA IdsStayInOrder ==
  ASSUME NEW c \in Controllers, ChainLinks(c.receipts), IdsInOrder(c.receipts),
         NEW id \in GivenIds(c), NEW r \in ChainReceipts, r.id = id,
         r.stage = "FAILED" \/ id \notin UsedIds(c)
  PROVE  IdsInOrder(Append(c.receipts, r))
  <1> DEFINE n == Len(c.receipts)
             chain == Append(c.receipts, r)
  <1>1. c.receipts \in Seq(ChainReceipts) /\ n \in Nat
    BY DEF Controllers
  <1>2. /\ Len(chain) = n + 1 /\ chain[n + 1] = r
        /\ \A i \in 1..n : chain[i] = c.receipts[i]
    BY <1>1
  <1> HIDE DEF chain
  <1> SUFFICES ASSUME Afresh(chain)
               PROVE  Len(chain) <= MaxDeclaredIds /\ \A i \in 1..Len(chain) : chain[i].id = i
    BY DEF IdsInOrder, chain
  <1>3. Afresh(c.receipts)
    <2> SUFFICES ASSUME NEW i \in 1..n, NEW k \in 1..n, k < i, c.receipts[i].stage = "FAILED"
                 PROVE  c.receipts[k].id # c.receipts[i].id
      BY DEF Afresh
    <2>1. i \in 1..Len(chain) /\ k \in 1..Len(chain)
      BY <1>1, <1>2
    <2>2. QED
      BY <1>2, <2>1 DEF Afresh
  <1>4. id \notin UsedIds(c)
    <2>1. CASE r.stage = "FAILED"
      <3> SUFFICES ASSUME NEW k \in 1..n PROVE c.receipts[k].id # id
        BY DEF UsedIds
      <3>1. k \in 1..Len(chain) /\ n + 1 \in 1..Len(chain) /\ k < n + 1
        BY <1>1, <1>2
      <3>2. QED
        BY <1>2, <2>1, <3>1 DEF Afresh
    <2>2. QED
      BY <2>1
  <1>5. id = n + 1 /\ id <= MaxDeclaredIds
    BY <1>3, <1>4, FirstUnused
  <1>6. \A i \in 1..n : c.receipts[i].id = i
    BY <1>3 DEF IdsInOrder
  <1>7. ASSUME NEW i \in 1..(n + 1) PROVE chain[i].id = i
    <2>1. CASE i \in 1..n
      BY <1>2, <1>6, <2>1
    <2>2. CASE i = n + 1
      BY <1>2, <1>5, <2>2
    <2>3. QED
      BY <1>1, <2>1, <2>2
  <1>8. QED
    BY <1>2, <1>5, <1>7

\* What a chain that has grown records.
LEMMA Recording ==
  ASSUME NEW c \in Controllers, NEW d \in Controllers, NEW r \in ChainReceipts, d.receipts = Append(c.receipts, r),
         NEW stage
  PROVE  RecordedIn(d, stage) <=> RecordedIn(c, stage) \/ r.stage = stage
  <1>1. c.receipts \in Seq(ChainReceipts) /\ Len(c.receipts) \in Nat
    BY DEF Controllers
  <1>2. /\ Len(d.receipts) = Len(c.receipts) + 1
        /\ \A i \in 1..Len(c.receipts) : d.receipts[i] = c.receipts[i]
        /\ d.receipts[Len(c.receipts) + 1] = r
    BY <1>1
  <1>3. RecordedIn(d, stage) => RecordedIn(c, stage) \/ r.stage = stage
    <2> SUFFICES ASSUME NEW i \in 1..(Len(c.receipts) + 1), d.receipts[i].stage = stage
                 PROVE  RecordedIn(c, stage) \/ r.stage = stage
      BY <1>2 DEF RecordedIn
    <2>1. CASE i \in 1..Len(c.receipts)
      BY <1>2, <2>1 DEF RecordedIn
    <2>2. CASE i = Len(c.receipts) + 1
      BY <1>2, <2>2
    <2>3. QED
      BY <1>1, <2>1, <2>2
  <1>4. RecordedIn(c, stage) => RecordedIn(d, stage)
    BY <1>1, <1>2 DEF RecordedIn
  <1>5. r.stage = stage => RecordedIn(d, stage)
    BY <1>1, <1>2 DEF RecordedIn
  <1>6. QED
    BY <1>3, <1>4, <1>5

LEMMA ExperimentStarts == ExperimentInit => ExperimentInv
  <1> SUFFICES ASSUME NEW mode \in {"current", "legacy_audit"},
                      controller = [Blank(mode) EXCEPT !.receipts = <<NewReceipt(Blank(mode), 1, "CREATED", NoApproval)>>],
                      deployed = FALSE
               PROVE  ExperimentInv
    BY DEF ExperimentInit
  <1> DEFINE r == NewReceipt(Blank(mode), 1, "CREATED", NoApproval)
  <1>1. /\ r.id = 1 /\ r.sequence = 0 /\ r.stage = "CREATED" /\ r.approval = NoApproval /\ r.previous = <<>>
        /\ r \in ChainReceipts
    <2>1. r = [id |-> 1, sequence |-> 0, stage |-> "CREATED", approval |-> NoApproval, previous |-> <<>>]
      BY DEF NewReceipt, Blank
    <2>2. QED
      BY <2>1, StageNames DEF ChainReceipts
  <1> HIDE DEF r
  <1>2. /\ controller.mode = mode /\ controller.stage = "CREATED" /\ controller.receipts = <<r>>
        /\ controller.install = NoApproval /\ controller.cleanup = FALSE
    BY DEF Blank, r
  <1>3. controller \in Controllers
    <2>1. Blank(mode) \in Controllers
      BY StageNames DEF Blank, Controllers
    <2>2. <<r>> \in Seq(ChainReceipts)
      BY <1>1
    <2>3. QED
      BY <2>1, <2>2 DEF Controllers, r
  <1>4. ReceiptVerifies(r)
    BY <1>1 DEF ReceiptVerifies, ApprovalStages
  <1>5. Len(<<r>>) = 1 /\ <<r>>[1] = r
    OBVIOUS
  <1>6. ChainLinks(controller.receipts) /\ IdsInOrder(controller.receipts)
    <2>1. 1 <= MaxDeclaredIds /\ 1..1 = {1}
      BY ExperimentConstants
    <2>2. QED
      BY <1>1, <1>2, <1>4, <1>5, <2>1 DEF ChainLinks, IdsInOrder
  <1>7. ~RecordedIn(controller, "INSTALLED")
    BY <1>1, <1>2, <1>5 DEF RecordedIn
  <1>8. QED
    BY <1>2, <1>3, <1>6, <1>7 DEF ExperimentInv, Duties, ApprovalStages

\* advance with evidence: the component is there for INSTALLED, and gone at the end.
LEMMA AdvanceKeeps ==
  ASSUME ExperimentInv, NEW stage \in Stages, NEW approval \in Bindings \cup {NoApproval},
         NEW id \in GivenIds(controller), Advance(stage, approval, id),
         stage = "CLEANUP_VERIFIED" => ~deployed
  PROVE  ExperimentInv'
  <1> DEFINE c == controller
             r == NewReceipt(controller, id, stage, approval)
             owed == stage # "CLEANUP_VERIFIED" /\ (controller.cleanup \/ stage \in OwesCleanup)
             install == IF stage = "INSTALL_APPROVED" THEN approval ELSE controller.install
  <1>1. /\ controller \in Controllers /\ deployed \in BOOLEAN /\ ChainLinks(controller.receipts)
        /\ Duties(controller, deployed)
        /\ IdsInOrder(controller.receipts) /\ stage \in ExpectedStage(controller)
        /\ StageGate(controller, stage, approval) /\ id \notin UsedIds(controller) /\ deployed' = deployed
    BY DEF ExperimentInv, Advance, FreshId, UnusedIds
  <1>2. id \in Nat /\ Len(controller.receipts) \in Nat
    BY <1>1, ExperimentConstants DEF GivenIds, UnusedIds, Controllers
  <1>3. NoApproval \notin Bindings
    BY ExperimentConstants DEF Bindings
  <1>4. ReceiptVerifies(r)
    <2>1. r.stage = stage /\ r.approval = approval
      BY DEF NewReceipt
    <2>2. QED
      BY <1>1, <1>3, <2>1 DEF ReceiptVerifies, StageGate, ApprovalStages
  <1>5. controller' = [controller EXCEPT !.stage = stage, !.receipts = Append(controller.receipts, r),
                                         !.install = install, !.cleanup = owed]
    BY DEF Advance
  <1>6. /\ Append(controller.receipts, r) \in Seq(ChainReceipts)
        /\ ChainLinks(Append(controller.receipts, r))
        /\ Len(Append(controller.receipts, r)) = Len(controller.receipts) + 1
    BY <1>1, <1>2, <1>4, ChainGrows
  <1>7. install \in Bindings \cup {NoApproval} /\ owed \in BOOLEAN
    BY <1>1 DEF Controllers
  <1>8. r.stage = stage /\ r.id = id /\ r \in ChainReceipts
    <2>1. r.stage = stage /\ r.id = id
      BY DEF NewReceipt
    <2>2. /\ Append(controller.receipts, r)[Len(controller.receipts) + 1] = r
          /\ Len(controller.receipts) + 1 \in 1..Len(Append(controller.receipts, r))
      BY <1>1, <1>2, <1>6 DEF Controllers
    <2>3. QED
      BY <1>6, <2>1, <2>2
  <1> HIDE DEF r
  <1>9. /\ controller'.mode = controller.mode /\ controller'.stage = stage
        /\ controller'.receipts = Append(controller.receipts, r)
        /\ controller'.install = install /\ controller'.cleanup = owed
        /\ controller' \in Controllers
    BY <1>1, <1>5, <1>6, <1>7 DEF Controllers
  <1>10. RecordedIn(controller', "INSTALLED") <=> RecordedIn(controller, "INSTALLED") \/ stage = "INSTALLED"
    BY <1>1, <1>8, <1>9, Recording
  <1>11. /\ controller.stage # "CLEANUP_VERIFIED"
         /\ controller.mode = "legacy_audit" => stage \in (Stages \ ApprovalStages) \cup {"CLEANUP_APPROVED"}
    BY <1>1, Expected
  <1>12. Duties(controller', deployed)
    <2>1. controller.mode = "current" /\ RecordedIn(controller', "INSTALLED") /\ stage # "CLEANUP_VERIFIED" => owed
      BY <1>1, <1>10, <1>11 DEF Duties, OwesCleanup
    <2>2. controller.mode = "legacy_audit" => /\ ~deployed /\ controller.install = NoApproval
                                              /\ stage \notin ApprovalStages
      BY <1>1, <1>11 DEF Duties, StageGate, ApprovalStages
    <2>3. controller.mode = "legacy_audit" => install = NoApproval
      BY <2>2 DEF ApprovalStages
    <2>4. QED
      BY <1>9, <2>1, <2>2, <2>3 DEF Duties
  <1>13. QED
    <2>1. IdsInOrder(controller'.receipts)
      BY <1>1, <1>8, <1>9, IdsStayInOrder
    <2>2. deployed' = deployed /\ deployed \in BOOLEAN /\ ChainLinks(controller'.receipts)
      BY <1>1, <1>6, <1>9
    <2>3. QED
      BY <1>9, <1>12, <2>1, <2>2 DEF ExperimentInv

\* fail, with any id.
LEMMA FailKeeps ==
  ASSUME ExperimentInv, NEW id \in GivenIds(controller), Fail(id)
  PROVE  ExperimentInv'
  <1> DEFINE r == NewReceipt(controller, id, "FAILED", NoApproval)
  <1>1. /\ controller \in Controllers /\ deployed \in BOOLEAN /\ ChainLinks(controller.receipts)
        /\ Duties(controller, deployed)
        /\ IdsInOrder(controller.receipts) /\ controller.stage \notin {"CLEANUP_VERIFIED", "FAILED"}
        /\ deployed' = deployed
    BY DEF ExperimentInv, Fail
  <1>2. id \in Nat /\ Len(controller.receipts) \in Nat /\ "FAILED" \in Stages
    BY <1>1, StageNames, ExperimentConstants DEF GivenIds, UnusedIds, Controllers
  <1>3. ReceiptVerifies(r) /\ r.stage = "FAILED" /\ r.id = id
    BY DEF ReceiptVerifies, NewReceipt, ApprovalStages
  <1>4. controller' = [controller EXCEPT !.stage = "FAILED", !.receipts = Append(controller.receipts, r)]
    BY DEF Fail
  <1>5. /\ Append(controller.receipts, r) \in Seq(ChainReceipts)
        /\ ChainLinks(Append(controller.receipts, r))
        /\ Len(Append(controller.receipts, r)) = Len(controller.receipts) + 1
    BY <1>1, <1>2, <1>3, ChainGrows
  <1>6. r \in ChainReceipts
    <2>1. /\ Append(controller.receipts, r)[Len(controller.receipts) + 1] = r
          /\ Len(controller.receipts) + 1 \in 1..Len(Append(controller.receipts, r))
      BY <1>1, <1>2, <1>5 DEF Controllers
    <2>2. QED
      BY <1>5, <2>1
  <1> HIDE DEF r
  <1>7. /\ controller'.mode = controller.mode /\ controller'.stage = "FAILED"
        /\ controller'.receipts = Append(controller.receipts, r)
        /\ controller'.install = controller.install /\ controller'.cleanup = controller.cleanup
        /\ controller' \in Controllers
    BY <1>1, <1>2, <1>4, <1>5 DEF Controllers
  <1>8. RecordedIn(controller', "INSTALLED") <=> RecordedIn(controller, "INSTALLED")
    BY <1>1, <1>3, <1>6, <1>7, Recording
  <1>9. Duties(controller', deployed)
    BY <1>1, <1>7, <1>8 DEF Duties, ApprovalStages
  <1>10. QED
    <2>1. IdsInOrder(controller'.receipts)
      BY <1>1, <1>3, <1>6, <1>7, IdsStayInOrder
    <2>2. deployed' = deployed /\ deployed \in BOOLEAN /\ ChainLinks(controller'.receipts)
      BY <1>1, <1>5, <1>7
    <2>3. QED
      BY <1>7, <1>9, <2>1, <2>2 DEF ExperimentInv

LEMMA ExperimentStep == ExperimentInv /\ [ExperimentNext]_experimentVars => ExperimentInv'
  <1> SUFFICES ASSUME ExperimentInv, [ExperimentNext]_experimentVars PROVE ExperimentInv'
    OBVIOUS
  <1>1. /\ controller \in Controllers /\ Duties(controller, deployed)
        /\ NoApproval \in Bindings \cup {NoApproval} /\ "CLEANUP_VERIFIED" \in Stages
    BY StageNames DEF ExperimentInv
  <1>2. ASSUME NEW stage \in Stages \ {"CLEANUP_VERIFIED"}, NEW approval \in Bindings \cup {NoApproval},
               NEW id \in GivenIds(controller), Advance(stage, approval, id)
        PROVE  ExperimentInv'
    BY <1>2, AdvanceKeeps
  <1>3. ASSUME NEW id \in GivenIds(controller), Fail(id) PROVE ExperimentInv'
    BY <1>3, FailKeeps
  <1>4. ASSUME NEW id \in GivenIds(controller), ~deployed, Advance("CLEANUP_VERIFIED", NoApproval, id)
        PROVE  ExperimentInv'
    BY <1>1, <1>4, AdvanceKeeps
  <1>5. ASSUME controller.mode = "legacy_audit", NEW id \in GivenIds(controller),
               Advance("CLEANUP_VERIFIED", NoApproval, id)
        PROVE  ExperimentInv'
    <2>1. ~deployed
      BY <1>1, <1>5 DEF Duties
    <2>2. QED
      BY <1>4, <1>5, <2>1
  <1>6. ASSUME NEW succeeded \in BOOLEAN, NEW id \in GivenIds(controller),
               succeeded => Evidence("CLEANUP_VERIFIED"), CompleteCleanup(succeeded, id)
        PROVE  ExperimentInv'
    <2>1. CASE succeeded
      BY <1>4, <1>6, <2>1 DEF CompleteCleanup, Evidence
    <2>2. CASE ~succeeded
      BY <1>3, <1>6, <2>2 DEF CompleteCleanup
    <2>3. QED
      BY <2>1, <2>2
  <1>7. ASSUME NEW id \in GivenIds(controller), IdentityDrifts(id) PROVE ExperimentInv'
    BY <1>7 DEF IdentityDrifts, ExperimentInv
  <1>8. ASSUME DeployComponent \/ RemoveComponent PROVE ExperimentInv'
    <2>1. controller' = controller /\ deployed' \in BOOLEAN
          /\ (deployed' => controller.stage = "INSTALL_APPROVED")
      BY <1>8 DEF DeployComponent, RemoveComponent
    <2>2. Duties(controller, deployed')
      BY <1>1, <2>1 DEF Duties, ApprovalStages
    <2>3. QED
      BY <2>1, <2>2 DEF ExperimentInv
  <1>9. ASSUME UNCHANGED experimentVars PROVE ExperimentInv'
    BY <1>9 DEF experimentVars, ExperimentInv
  <1>10. QED
    BY <1>2, <1>3, <1>5, <1>6, <1>7, <1>8, <1>9 DEF ExperimentNext

LEMMA ExperimentPromises == ExperimentInv => ExperimentsAccounted
  <1> SUFFICES ASSUME ExperimentInv PROVE ExperimentsAccounted
    OBVIOUS
  <1>1. /\ controller \in Controllers /\ ChainLinks(controller.receipts) /\ IdsInOrder(controller.receipts)
        /\ Duties(controller, deployed) /\ Len(controller.receipts) \in Nat
    BY DEF ExperimentInv, Controllers
  <1>2. ASSUME FailedAfresh PROVE ChainVerifies(controller.receipts)
    <2> DEFINE chain == controller.receipts
    <2>1. Len(chain) \in 1..MaxReceipts /\ chain[1].stage = "CREATED"
      <3>1. Afresh(chain)
        BY <1>2 DEF FailedAfresh, Afresh
      <3>2. Len(chain) <= MaxDeclaredIds
        BY <1>1, <3>1 DEF IdsInOrder
      <3>3. QED
        BY <1>1, <3>2, ExperimentConstants DEF ChainLinks
    <2>2. ASSUME NEW i \in 1..Len(chain)
          PROVE  /\ ReceiptVerifies(chain[i])
                 /\ chain[i].sequence = i - 1
                 /\ chain[i].previous =
                      IF i = 1 THEN <<>> ELSE <<chain[i - 1].sequence, chain[i - 1].id, chain[i - 1].stage>>
      BY <1>1 DEF ChainLinks, PlaceOf
    <2>3. ASSUME NEW i \in 1..Len(chain), NEW k \in 1..(i - 1) PROVE chain[k].id # chain[i].id
      <3>1. k \in 1..Len(chain) /\ k < i
        BY <1>1
      <3>2. CASE chain[i].stage = "FAILED"
        BY <1>2, <3>1, <3>2 DEF FailedAfresh
      <3>3. CASE chain[i].stage # "FAILED"
        BY <1>1, <3>3 DEF ChainLinks
      <3>4. QED
        BY <3>2, <3>3
    <2>4. QED
      BY <2>1, <2>2, <2>3 DEF ChainVerifies
  <1>3. CleanupOwed
    <2>1. Recorded("INSTALLED") <=> RecordedIn(controller, "INSTALLED")
      BY DEF Recorded, RecordedIn
    <2>2. QED
      BY <1>1, <2>1, Expected DEF Duties, CleanupOwed
  <1>4. QED
    BY <1>2, <1>3 DEF ExperimentsAccounted, OwnChainVerifies

\* The controller's own verifier accepts every chain it produces, unless a failure
\* was given a consumed id, and the duty to clean up survives every failure.
\* (advance, fail, verify_native_experiment_chain)
THEOREM ExperimentsStayAccounted == ExperimentSpec => []ExperimentsAccounted
  <1>1. ExperimentInit => ExperimentInv
    BY ExperimentStarts
  <1>2. ExperimentInv /\ [ExperimentNext]_experimentVars => ExperimentInv'
    BY ExperimentStep
  <1>3. QED
    BY <1>1, <1>2, ExperimentPromises, PTL DEF ExperimentSpec

-----------------------------------------------------------------------------
(***************************************************************************)
(* ProbeGates: what is concluded from a probe's evidence.                  *)
(***************************************************************************)

\* What the code is given of a readiness, a result, an overhead or two sessions.
Readinesses == [topic : {"readiness"}, flaws : SUBSET ReadinessDefects]
ResultRecords ==
  [topic : {"result"}, count : {"null", "zero", "some"}, contract : SUBSET Correlations,
   families : SUBSET FamilyCounts, flaws : SUBSET ResultChecks]
Overheads ==
  [topic : {"overhead"}, responsive : {"responsive", "unresponsive", "not_observed"},
   source : [Sources -> SourceReport]]
SessionPairs == [topic : {"sessions"}, before : Sessions, after : Sessions, limit : Nat]

ProbeTyped == facts \in Readinesses \cup ResultRecords \cup Overheads \cup SessionPairs

\* The evidence of a probe is always a record of its topic.
LEMMA ProbeStarts == ProbeInit => ProbeTyped
  <1> SUFFICES ASSUME ProbeInit PROVE ProbeTyped
    OBVIOUS
  <1> USE DEF ProbeTyped
  <1>1. CASE facts = [topic |-> "readiness", flaws |-> {}]
    BY <1>1 DEF Readinesses
  <1>2. ASSUME NEW c \in {"null", "zero", "some"}, NEW contract \in {{}} \cup {{x} : x \in Correlations},
               facts = [topic |-> "result", count |-> c, contract |-> contract, families |-> {}, flaws |-> {}]
        PROVE  ProbeTyped
    <2>1. contract \in SUBSET Correlations
      OBVIOUS
    <2>2. QED
      BY <1>2, <2>1 DEF ResultRecords
  <1>3. ASSUME NEW s \in [Sources -> {r \in SourceReport : ~r.lossy /\ ~r.severe}],
               facts = [topic |-> "overhead", responsive |-> "responsive", source |-> s]
        PROVE  ProbeTyped
    BY <1>3 DEF Overheads
  <1>4. ASSUME NEW s \in FirstSessions, NEW limit \in 1..Cardinality(Assertions),
               facts = [topic |-> "sessions", before |-> s, after |-> s, limit |-> limit]
        PROVE  ProbeTyped
    <2>1. s \in Sessions
      <3> DEFINE first == {o \in Observations : o.actual = 1} \cup {Unmade}
      <3>1. /\ s \in [complete : {TRUE}, scope : {"same"}, steps : {{x} : x \in Statuses},
                       seen : [Assertions -> first]]
            /\ first \subseteq Observations \cup {Unmade}
        BY DEF FirstSessions
      <3> HIDE DEF first
      <3>2. s.seen \in [Assertions -> Observations \cup {Unmade}] /\ s.steps \in SUBSET Statuses
        BY <3>1
      <3>3. s = [complete |-> s.complete, scope |-> s.scope, steps |-> s.steps, seen |-> s.seen]
        BY <3>1
      <3>4. s.complete \in BOOLEAN /\ s.scope \in {"same", "other"}
        BY <3>1
      <3>5. QED
        BY <3>2, <3>3, <3>4 DEF Sessions
    <2>2. limit \in Nat
      <3>1. Cardinality(Assertions) \in Nat
        BY ComparedAssertions, FS_CardinalityType
      <3>2. QED
        BY <3>1
    <2>3. QED
      BY <1>4, <2>1, <2>2 DEF SessionPairs
  <1>5. QED
    BY <1>1, <1>2, <1>3, <1>4 DEF ProbeInit

LEMMA ProbeSteps == ProbeTyped /\ [ProbeNext]_facts => ProbeTyped'
  <1> SUFFICES ASSUME ProbeTyped, [ProbeNext]_facts PROVE ProbeTyped'
    OBVIOUS
  <1>1. CASE UNCHANGED facts
    BY <1>1 DEF ProbeTyped
  <1>2. CASE GetsWorse("readiness", ReadinessDefects, MaxProbeFlaws)
    <2>1. facts \in Readinesses
      BY <1>2 DEF ProbeTyped, GetsWorse, About, Readinesses, ResultRecords, Overheads, SessionPairs
    <2>2. facts' \in Readinesses
      BY <1>2, <2>1 DEF GetsWorse, Readinesses
    <2>3. QED
      BY <2>2 DEF ProbeTyped
  <1>3. CASE GetsWorse("result", ResultChecks, MaxProbeFlaws)
    <2>1. facts \in ResultRecords
      BY <1>3 DEF ProbeTyped, GetsWorse, About, Readinesses, ResultRecords, Overheads, SessionPairs
    <2>2. facts' \in ResultRecords
      BY <1>3, <2>1 DEF GetsWorse, ResultRecords
    <2>3. QED
      BY <2>2 DEF ProbeTyped
  <1>4. ASSUME About("result"), NEW s \in FamilyCounts, facts' = [facts EXCEPT !.families = @ \cup {s}]
        PROVE  ProbeTyped'
    <2>1. facts \in ResultRecords
      BY <1>4 DEF ProbeTyped, About, Readinesses, ResultRecords, Overheads, SessionPairs
    <2>2. facts' \in ResultRecords
      BY <1>4, <2>1 DEF ResultRecords
    <2>3. QED
      BY <2>2 DEF ProbeTyped
  <1>5. ASSUME About("overhead"),
               \/ \E r \in {"unresponsive", "not_observed"} : facts' = [facts EXCEPT !.responsive = r]
               \/ \E x \in Sources : facts' = [facts EXCEPT !.source[x].lossy = TRUE]
               \/ \E x \in Sources : facts' = [facts EXCEPT !.source[x].severe = TRUE]
        PROVE  ProbeTyped'
    <2>1. facts \in Overheads
      BY <1>5 DEF ProbeTyped, About, Readinesses, ResultRecords, Overheads, SessionPairs
    <2>2. facts' \in Overheads
      <3>1. ASSUME NEW r \in {"unresponsive", "not_observed"}, facts' = [facts EXCEPT !.responsive = r]
            PROVE  facts' \in Overheads
        BY <2>1, <3>1 DEF Overheads
      <3>2. ASSUME NEW x \in Sources, facts' = [facts EXCEPT !.source[x].lossy = TRUE]
            PROVE  facts' \in Overheads
        <4>1. [facts.source[x] EXCEPT !.lossy = TRUE] \in SourceReport
          BY <2>1 DEF Overheads, SourceReport
        <4>2. QED
          BY <2>1, <3>2, <4>1 DEF Overheads
      <3>3. ASSUME NEW x \in Sources, facts' = [facts EXCEPT !.source[x].severe = TRUE]
            PROVE  facts' \in Overheads
        <4>1. [facts.source[x] EXCEPT !.severe = TRUE] \in SourceReport
          BY <2>1 DEF Overheads, SourceReport
        <4>2. QED
          BY <2>1, <3>3, <4>1 DEF Overheads
      <3>4. QED
        BY <1>5, <3>1, <3>2, <3>3
    <2>3. QED
      BY <2>2 DEF ProbeTyped
  <1>6. ASSUME About("sessions"),
               \/ \E a \in Assertions, o \in Observations \cup {Unmade} : facts' = [facts EXCEPT !.after.seen[a] = o]
               \/ \E x \in Statuses : facts' = [facts EXCEPT !.after.steps = {x}]
               \/ facts' = [facts EXCEPT !.after.scope = "other"]
               \/ facts' = [facts EXCEPT !.after.complete = FALSE]
        PROVE  ProbeTyped'
    <2>1. facts \in SessionPairs
      BY <1>6 DEF ProbeTyped, About, Readinesses, ResultRecords, Overheads, SessionPairs
    <2>2. PICK after \in Sessions : facts' = [facts EXCEPT !.after = after]
      <3>1. ASSUME NEW a \in Assertions, NEW o \in Observations \cup {Unmade},
                   facts' = [facts EXCEPT !.after.seen[a] = o]
            PROVE  \E after \in Sessions : facts' = [facts EXCEPT !.after = after]
        <4>1. [facts.after EXCEPT !.seen[a] = o] \in Sessions
          BY <2>1 DEF SessionPairs, Sessions
        <4>2. facts' = [facts EXCEPT !.after = [facts.after EXCEPT !.seen[a] = o]]
          BY <3>1
        <4>3. QED
          BY <4>1, <4>2
      <3>5. ASSUME NEW x \in Statuses, facts' = [facts EXCEPT !.after.steps = {x}]
            PROVE  \E after \in Sessions : facts' = [facts EXCEPT !.after = after]
        <4>1. [facts.after EXCEPT !.steps = {x}] \in Sessions
          BY <2>1 DEF SessionPairs, Sessions
        <4>2. facts' = [facts EXCEPT !.after = [facts.after EXCEPT !.steps = {x}]]
          BY <3>5
        <4>3. QED
          BY <4>1, <4>2
      <3>2. ASSUME facts' = [facts EXCEPT !.after.scope = "other"]
            PROVE  \E after \in Sessions : facts' = [facts EXCEPT !.after = after]
        <4>1. [facts.after EXCEPT !.scope = "other"] \in Sessions
          BY <2>1 DEF SessionPairs, Sessions
        <4>2. facts' = [facts EXCEPT !.after = [facts.after EXCEPT !.scope = "other"]]
          BY <3>2
        <4>3. QED
          BY <4>1, <4>2
      <3>3. ASSUME facts' = [facts EXCEPT !.after.complete = FALSE]
            PROVE  \E after \in Sessions : facts' = [facts EXCEPT !.after = after]
        <4>1. [facts.after EXCEPT !.complete = FALSE] \in Sessions
          BY <2>1 DEF SessionPairs, Sessions
        <4>2. facts' = [facts EXCEPT !.after = [facts.after EXCEPT !.complete = FALSE]]
          BY <3>3
        <4>3. QED
          BY <4>1, <4>2
      <3>4. QED
        BY <1>6, <3>1, <3>2, <3>3, <3>5
    <2>3. facts' \in SessionPairs
      BY <2>1, <2>2 DEF SessionPairs
    <2>4. QED
      BY <2>3 DEF ProbeTyped
  <1>7. QED
    BY <1>1, <1>2, <1>3, <1>4, <1>5, <1>6 DEF ProbeNext

-----------------------------------------------------------------------------
\* Only two defects have no reason but the two that a debugger may settle.
LEMMA DebuggerSettles ==
  ASSUME NEW f \in SUBSET ReadinessDefects
  PROVE  Reasons(f) \subseteq Uncertainties <=> f \subseteq {"abi", "correlation"}
  <1>1. ASSUME Reasons(f) \subseteq Uncertainties PROVE f \subseteq {"abi", "correlation"}
    <2>1. /\ Causes.MANIFEST_INVALID \cap f = {} /\ Causes.MODULE_PROFILE_MISMATCH \cap f = {}
          /\ Causes.RECORD_LAYOUT_INVALID \cap f = {} /\ Causes.ENTRY_LOCK_INVALID \cap f = {}
          /\ Causes.STOLEN_INSTRUCTIONS_UNSAFE \cap f = {} /\ Causes.TRAMPOLINE_UNSAFE \cap f = {}
          /\ Causes.SOURCE_MANIFEST_COMPILED_MISMATCH \cap f = {} /\ Causes.CONTROLS_INSUFFICIENT \cap f = {}
          /\ Causes.NEGATIVE_VALIDITY_POLICY_INCOMPLETE \cap f = {} /\ Causes.EVENT_BOUNDS_INVALID \cap f = {}
          /\ Causes.BOOT_NOT_CONFIRMED \cap f = {} /\ Causes.INSTALL_OK_INVALID \cap f = {}
          /\ Causes.PROCESS_UNRESPONSIVE \cap f = {} /\ Causes.DEBUGGER_HANDOFF_UNSAFE \cap f = {}
          /\ Causes.DEPLOYMENT_IDENTITY_INVALID \cap f = {}
      BY <1>1 DEF Reasons, Causes, Uncertainties
    <2>2. f \cap {"manifest", "no_hooks", "entry_module", "prototype_module", "layout", "entry_lock", "stolen"} = {}
      BY <2>1 DEF Causes
    <2>3. f \cap {"prototype_report", "trampoline", "source", "controls", "policy", "bounds"} = {}
      BY <2>1 DEF Causes, PrototypeUnbound
    <2>4. f \cap {"install", "boot", "boot_session", "unresponsive", "responsive_session", "debugger",
                  "deployment", "deployment_install"} = {}
      BY <2>1 DEF Causes
    <2>5. QED
      BY <2>2, <2>3, <2>4 DEF ReadinessDefects
  <1>2. ASSUME f \subseteq {"abi", "correlation"} PROVE Reasons(f) \subseteq Uncertainties
    <2> SUFFICES ASSUME NEW r \in DOMAIN Causes, Causes[r] \cap f # {} PROVE r \in Uncertainties
      BY DEF Reasons
    <2>1. "abi" \in Causes[r] \/ "correlation" \in Causes[r]
      BY <1>2
    <2>2. QED
      BY <2>1 DEF Causes, PrototypeUnbound, Uncertainties
  <1>3. QED
    BY <1>1, <1>2

\* Each verdict says no more than its evidence bears.
LEMMA ProofWillDoHolds == ProbeTyped => ProofWillDo
  <1> SUFFICES ASSUME ProbeTyped, About("readiness") PROVE ProofWillDo
    BY DEF ProofWillDo
  <1>1. facts.flaws \in SUBSET ReadinessDefects
    BY DEF ProbeTyped, About, Readinesses, ResultRecords, Overheads, SessionPairs
  <1>2. Reasons(facts.flaws) \subseteq Uncertainties <=> facts.flaws \subseteq {"abi", "correlation"}
    BY <1>1, DebuggerSettles
  <1>3. ASSUME facts.flaws \subseteq {"abi", "correlation"}, facts.flaws # {} PROVE Reasons(facts.flaws) # {}
    <2>1. Causes.PROTOTYPE_ABI_UNRESOLVED \cap facts.flaws # {}
            \/ Causes.CALLER_OWNER_CORRELATION_UNRESOLVED \cap facts.flaws # {}
      BY <1>3 DEF Causes
    <2>2. QED
      BY <2>1 DEF Reasons, Causes
  <1>4. facts.flaws = {} => Reasons(facts.flaws) = {}
    BY DEF Reasons
  <1>5. QED
    BY <1>2, <1>3, <1>4 DEF ProofWillDo, NextAction

LEMMA NegativeEarnedHolds == ProbeTyped => NegativeEarned
  <1> SUFFICES ASSUME ProbeTyped, About("result"), Verdict(facts) = "confirmed_negative_in_covered_scope"
               PROVE  /\ facts.flaws = {} /\ facts.families # {}
                      /\ \A s \in facts.families : ~s.reached /\ s.observed < s.limit
                      /\ \E c \in facts.contract :
                           /\ ProofOf[c.strategy] \subseteq c.shown
                           /\ c.separated => c.strategy = "bounded_x64dbg_proof" /\ ~(OwnerProof \subseteq c.shown)
    BY DEF NegativeEarned
  <1>1. facts \in ResultRecords
    BY DEF ProbeTyped, About, Readinesses, ResultRecords, Overheads, SessionPairs
  <1>2. facts.count = "zero" /\ ZeroReasons(facts) = {}
    BY <1>1 DEF Verdict, ResultRecords
  <1>3. ResultChecks \subseteq ChecksPassed(facts)
    BY <1>2 DEF ZeroReasons
  <1>4. facts.flaws = {} /\ CorrelationValid(facts.contract)
    <2>1. facts.flaws \subseteq ResultChecks /\ "correlation_contract_valid" \in ResultChecks
      BY <1>1 DEF ResultRecords, ResultChecks
    <2>2. QED
      BY <1>3, <2>1 DEF ChecksPassed
  <1>5. facts.families # {} /\ \A s \in facts.families : ~Saturated(s)
    BY <1>2 DEF ZeroReasons
  <1>6. \A s \in facts.families : ~s.reached /\ s.observed < s.limit
    <2> SUFFICES ASSUME NEW s \in facts.families PROVE ~s.reached /\ s.observed < s.limit
      OBVIOUS
    <2>1. s \in FamilyCounts
      BY <1>1 DEF ResultRecords
    <2>2. s.observed \in Nat /\ s.limit \in Nat
      BY <2>1 DEF FamilyCounts
    <2>3. QED
      BY <1>5, <2>2 DEF Saturated
  <1>7. PICK c \in facts.contract : CorrelationDiagnostics(c) = {}
    BY <1>4 DEF CorrelationValid
  <1>8. ProofOf[c.strategy] \subseteq c.shown
    BY <1>7 DEF CorrelationDiagnostics
  <1>9. ASSUME c.separated PROVE c.strategy = "bounded_x64dbg_proof" /\ ~(OwnerProof \subseteq c.shown)
    BY <1>7, <1>9 DEF CorrelationDiagnostics
  <1>10. QED
    BY <1>4, <1>5, <1>6, <1>8, <1>9

\* Among levels there is a least one.
LEMMA LeastExists ==
  ASSUME NEW levels \in SUBSET (0..4), levels # {}
  PROVE  \E l \in levels : \A k \in levels : l <= k
  <1>1. 0..4 = {0, 1, 2, 3, 4}
    OBVIOUS
  <1>2. CASE 0 \in levels
    BY <1>2
  <1>3. CASE 0 \notin levels /\ 1 \in levels
    BY <1>1, <1>3
  <1>4. CASE 0 \notin levels /\ 1 \notin levels /\ 2 \in levels
    BY <1>1, <1>4
  <1>5. CASE 0 \notin levels /\ 1 \notin levels /\ 2 \notin levels /\ 3 \in levels
    BY <1>1, <1>5
  <1>6. CASE 0 \notin levels /\ 1 \notin levels /\ 2 \notin levels /\ 3 \notin levels
    <2>1. \A k \in levels : k = 4
      BY <1>1, <1>6
    <2>2. \A l, k \in levels : l <= k
      BY <2>1
    <2>3. QED
      BY <2>2
  <1>7. QED
    BY <1>2, <1>3, <1>4, <1>5, <1>6

\* The level recommended in the end is the least of those recommended for a
\* source.
LEMMA LeastLevel ==
  ASSUME NEW o \in Overheads, NEW x \in Sources
  PROVE  ReducedLevel(o) <= Recommended(o.source[x])
  <1> DEFINE levels == {Recommended(o.source[y]) : y \in Sources}
  <1>1. \A y \in Sources : Recommended(o.source[y]) \in 0..4
    BY DEF Overheads, SourceReport, Levels, Recommended
  <1>2. levels \subseteq 0..4 /\ Recommended(o.source[x]) \in levels
    BY <1>1
  <1> HIDE DEF levels
  <1>3. \E l \in levels : \A k \in levels : l <= k
    BY <1>2, LeastExists
  <1>4. \A k \in levels : (CHOOSE l \in levels : \A j \in levels : l <= j) <= k
    BY <1>3
  <1>5. ReducedLevel(o) = CHOOSE l \in levels : \A j \in levels : l <= j
    BY DEF ReducedLevel, levels
  <1>6. QED
    BY <1>2, <1>4, <1>5

LEMMA LevelKnown ==
  ASSUME NEW o \in Overheads, \E x \in Sources : TRUE
  PROVE  ReducedLevel(o) \in 0..4
  <1> DEFINE levels == {Recommended(o.source[y]) : y \in Sources}
  <1>1. \A y \in Sources : Recommended(o.source[y]) \in 0..4
    BY DEF Overheads, SourceReport, Levels, Recommended
  <1>2. levels \subseteq 0..4 /\ levels # {}
    BY <1>1
  <1> HIDE DEF levels
  <1>3. \E l \in levels : \A k \in levels : l <= k
    BY <1>2, LeastExists
  <1>4. (CHOOSE l \in levels : \A j \in levels : l <= j) \in levels
    BY <1>3
  <1>5. ReducedLevel(o) = CHOOSE l \in levels : \A j \in levels : l <= j
    BY DEF ReducedLevel, levels
  <1>6. QED
    BY <1>2, <1>4, <1>5

LEMMA NeverLouderHolds == ProbeTyped => NeverLouder
  <1> SUFFICES ASSUME ProbeTyped, About("overhead") PROVE NeverLouder
    BY DEF NeverLouder
  <1>1. facts \in Overheads
    BY DEF ProbeTyped, About, Readinesses, ResultRecords, Overheads, SessionPairs
  <1>2. ASSUME NEW x \in Sources
        PROVE  /\ facts.source[x].level \in Nat /\ Recommended(facts.source[x]) \in Nat
               /\ Recommended(facts.source[x]) <= facts.source[x].level
    BY <1>1 DEF Overheads, SourceReport, Levels, Recommended
  <1>3. ASSUME NEW n \in 1..2, ReducedLevel(facts) = n PROVE \A x \in Sources : facts.source[x].level >= n
    <2> SUFFICES ASSUME NEW x \in Sources PROVE facts.source[x].level >= n
      OBVIOUS
    <2>1. n <= Recommended(facts.source[x])
      BY <1>1, <1>3, LeastLevel
    <2>2. QED
      BY <1>2, <2>1
  <1>4. Recommendation(facts) = "REDUCE_TO_NORMAL" => ReducedLevel(facts) = 2
    <2>1. ASSUME Recommendation(facts) = "REDUCE_TO_NORMAL" PROVE ReducedLevel(facts) = 2
      <3> SUFFICES ASSUME ReducedLevel(facts) # 2 PROVE FALSE
        OBVIOUS
      <3>1. \E x \in Sources : TRUE
        BY <2>1 DEF Recommendation
      <3>2. ReducedLevel(facts) \in 0..4
        BY <1>1, <3>1, LevelKnown
      <3>3. QED
        BY <2>1, <3>2 DEF Recommendation
    <2>2. QED
      BY <2>1
  <1>5. Recommendation(facts) = "REDUCE_TO_MINIMAL" => ReducedLevel(facts) = 1
    <2>1. ASSUME Recommendation(facts) = "REDUCE_TO_MINIMAL" PROVE ReducedLevel(facts) = 1
      <3> SUFFICES ASSUME ReducedLevel(facts) # 1 PROVE FALSE
        OBVIOUS
      <3>1. \E x \in Sources : TRUE
        BY <2>1 DEF Recommendation
      <3>2. ReducedLevel(facts) \in 0..4
        BY <1>1, <3>1, LevelKnown
      <3>3. QED
        BY <2>1, <3>2 DEF Recommendation
    <2>2. QED
      BY <2>1
  <1>6. Recommendation(facts) = "CAPTURE_INVALID_OVERHEAD" => SevereOverhead(facts)
    <2>1. ASSUME Recommendation(facts) = "CAPTURE_INVALID_OVERHEAD", ~SevereOverhead(facts) PROVE FALSE
      <3>1. \E x \in Sources : TRUE
        BY <2>1 DEF Recommendation
      <3>2. ReducedLevel(facts) \in 0..4
        BY <1>1, <3>1, LevelKnown
      <3>3. QED
        BY <2>1, <3>2 DEF Recommendation
    <2>2. QED
      BY <2>1
  <1>7. SevereOverhead(facts) => InvalidationReasons(facts) # {}
    BY DEF SevereOverhead, InvalidationReasons
  <1>8. QED
    BY <1>3, <1>4, <1>5, <1>6, <1>7 DEF NeverLouder

\* A list that is not cut off holds every assertion that both sessions make.
LEMMA AllListed ==
  ASSUME NEW b, NEW a, NEW limit \in Nat, DriftReasons(b, a) = {}, ~Truncated(b, a, limit)
  PROVE  Listed(b, a, limit) = Common(b, a)
  <1> DEFINE common == Common(b, a)
  <1>1. common \subseteq Assertions
    BY DEF Common, Made
  <1> HIDE DEF common
  <1>2. IsFiniteSet(common) /\ Cardinality(common) \in Nat
    <2>1. IsFiniteSet(common)
      BY <1>1, ComparedAssertions, FS_Subset
    <2>2. QED
      BY <2>1, FS_CardinalityType
  <1>3. Cardinality(common) <= limit
    BY <1>2 DEF Truncated, common
  <1>4. ASSUME NEW x \in common PROVE Cardinality({y \in common : y < x}) < limit
    <2> DEFINE below == {y \in common : y < x}
    <2>1. below \in SUBSET common /\ x \notin below
      BY <1>1, ComparedAssertions
    <2> HIDE DEF below
    <2>2. IsFiniteSet(below) /\ Cardinality(below) <= Cardinality(common) /\ Cardinality(below) # Cardinality(common)
      BY <1>2, <2>1, FS_Subset
    <2>3. Cardinality(below) \in Nat
      BY <2>2, FS_CardinalityType
    <2>4. Cardinality(below) < limit
      BY <1>2, <1>3, <2>2, <2>3
    <2>5. QED
      BY <2>4 DEF below
  <1>5. QED
    BY <1>4 DEF Listed, common

\* Beyond its steps, what a session says in the end depends on its assertions alone.
LEMMA ChangeReportedHolds == ProbeTyped => ChangeReported
  <1> DEFINE b == facts.before
             a == facts.after
             limit == facts.limit
  <1> SUFFICES ASSUME ProbeTyped, About("sessions"), DriftReasons(b, a) = {}, ~Truncated(b, a, limit)
               PROVE  /\ \A x \in Made(b) \cup Made(a) : b.seen[x] # a.seen[x] => x \in Changed(b, a, limit)
                      /\ DerivedResult(b) # DerivedResult(a) => Changed(b, a, limit) # {} \/ b.steps # a.steps
    BY Zenon DEF ChangeReported
  <1>1. facts \in SessionPairs
    BY DEF ProbeTyped, About, Readinesses, ResultRecords, Overheads, SessionPairs
  <1>2. limit \in Nat
    BY <1>1 DEF SessionPairs
  <1> HIDE DEF a, b, limit
  <1>3. b.complete /\ a.complete /\ Made(b) = Made(a)
    BY DEF DriftReasons
  <1>4. Listed(b, a, limit) = Made(b)
    BY <1>2, <1>3, AllListed DEF Common
  <1>5. \A x \in Made(b) \cup Made(a) : b.seen[x] # a.seen[x] => x \in Changed(b, a, limit)
    BY <1>3, <1>4 DEF Changed
  <1>6. ASSUME Changed(b, a, limit) = {}, b.steps = a.steps PROVE DerivedResult(b) = DerivedResult(a)
    <2>1. \A x \in Made(b) : b.seen[x] = a.seen[x]
      BY <1>5, <1>6
    <2>2. {b.seen[x].status : x \in Made(b)} = {a.seen[x].status : x \in Made(a)}
      BY <1>3, <2>1
    <2>3. QED
      BY <1>3, <1>6, <2>2 DEF DerivedResult
  <1>7. QED
    BY <1>5, <1>6

\* The verdicts on a probe say no more than its captures bear, for any
\* assertions, sources and number of defects.  (playtest_readiness.py,
\* correlation.py, result_validity.py, overhead.py, gameplay_observation.py)
THEOREM VerdictsAreEarned == ProbeSpec => []ProbeVerdictsEarned
  <1>1. ProbeTyped => ProbeVerdictsEarned
    BY ProofWillDoHolds, NegativeEarnedHolds, NeverLouderHolds, ChangeReportedHolds DEF ProbeVerdictsEarned
  <1>2. QED
    BY <1>1, ProbeStarts, ProbeSteps, PTL DEF ProbeSpec

-----------------------------------------------------------------------------
(***************************************************************************)
(* SessionRecords: what is joined from several looks is of one moment.     *)
(***************************************************************************)

\* A capture: a record, once emitted, names in its runtime and in its digest the
\* deployment that was there; the binding of the one at the start stays as it was.
Emitted(type) == [type : {type}, session : SessionIds, base : Nat, runtime : Deployments,
                  binding : ProbeBindings, digest : ProbeBindings]

Captures ==
  [topic : {"identity"}, world : Deployments, at : [install : Deployments, close : Deployments],
   install : {NotEmitted} \cup Emitted("INSTALL_OK"), close : {NotEmitted} \cup Emitted("CAPTURE_CLOSE")]

RecordsTrue(f) ==
  /\ f.install.type # "none" => /\ f.install.runtime = f.at.install
                                /\ f.install.binding.deployment = f.at.install
  /\ f.close.type # "none" => f.close.runtime = f.at.close

\* The pages of a session: the token goes on where the pages end, in the record
\* that was read last.
Inspections ==
  [topic : {"inspection"}, record : RecordsOf, expected : Deployments, joined : Seq(Nat), exact : BOOLEAN,
   finished : BOOLEAN, read : RecordsOf,
   token : {NoToken} \cup [offset : Nat \ {0}, scope : Deployments, items : Contents]]

PagesAgree(f) ==
  /\ Len(f.joined) <= Len(f.read.observations)
  /\ f.joined = SubSeq(f.read.observations, 1, Len(f.joined))
  /\ f.token.offset # 0 => /\ f.token.offset = Len(f.joined)
                           /\ f.token.items = f.read.observations /\ f.token.scope = f.read.identity
  /\ f.finished => f.joined = f.read.observations
  /\ f.exact => f.read.identity = f.expected

\* The pages of an answer.
Answers ==
  [topic : {"answer"}, items : Contents, size : Nat, details : Nat, offset : Nat, page : Nat, joined : Seq(Nat),
   finished : BOOLEAN, cut : BOOLEAN]

ItemsAgree(f) ==
  /\ f.offset <= Len(f.items)
  /\ f.joined = SubSeq(f.items, 1, f.offset)
  /\ f.finished /\ ~f.cut => f.offset = Len(f.items)

SessionInv ==
  \/ facts \in Captures /\ RecordsTrue(facts)
  \/ facts \in Inspections /\ PagesAgree(facts)
  \/ facts \in Answers /\ ItemsAgree(facts)

\* Each of the three has its own topic.
LEMMA Topics ==
  ASSUME SessionInv
  PROVE  /\ About("identity") => facts \in Captures /\ RecordsTrue(facts)
         /\ About("inspection") => facts \in Inspections /\ PagesAgree(facts)
         /\ About("answer") => facts \in Answers /\ ItemsAgree(facts)
  BY DEF SessionInv, About, Captures, Inspections, Answers

\* Two parts of a sequence, one after the other.
LEMMA Pages ==
  ASSUME NEW s \in Seq(Nat), NEW m \in 0..Len(s), NEW n \in m..Len(s)
  PROVE  /\ SubSeq(s, m + 1, n) \in Seq(Nat) /\ Len(SubSeq(s, m + 1, n)) = n - m
         /\ SubSeq(s, 1, m) \o SubSeq(s, m + 1, n) = SubSeq(s, 1, n)
         /\ SubSeq(s, 1, n) \in Seq(Nat) /\ Len(SubSeq(s, 1, n)) = n
  <1>1. Len(s) \in Nat /\ \A i \in 1..Len(s) : s[i] \in Nat
    BY LenProperties, ElementOfSeq
  <1>2. m \in Nat /\ n \in Nat /\ m <= n /\ n <= Len(s)
    BY <1>1
  <1>3. SubSeq(s, m + 1, n) \in Seq(Nat) /\ Len(SubSeq(s, m + 1, n)) = n - m
    <2>1. /\ m + 1 \in Int /\ n \in Int /\ \A i \in (m + 1)..n : s[i] \in Nat
          /\ (IF m + 1 <= n THEN n - (m + 1) + 1 ELSE 0) = n - m
      BY <1>1, <1>2
    <2>2. QED
      BY <2>1, SubSeqProperties
  <1>4. SubSeq(s, 1, n) \in Seq(Nat) /\ Len(SubSeq(s, 1, n)) = n
    <2>1. /\ 1 \in Int /\ n \in Int /\ \A i \in 1..n : s[i] \in Nat
          /\ (IF 1 <= n THEN n - 1 + 1 ELSE 0) = n
      BY <1>1, <1>2
    <2>2. QED
      BY <2>1, SubSeqProperties
  <1>5. SubSeq(s, 1, m) \o SubSeq(s, m + 1, n) = SubSeq(s, 1, n)
    <2>1. 1 \in 1..(Len(s) + 1) /\ m \in 1 - 1 .. Len(s) /\ n \in m..Len(s)
      BY <1>1, <1>2
    <2>2. QED
      BY <2>1, ConcatAdjacentSubSeq
  <1>6. QED
    BY <1>3, <1>4, <1>5

\* The invariant holds at the start, after each step, and gives the property.
LEMMA SessionStarts == SessionInit => SessionInv
  <1> SUFFICES ASSUME SessionInit PROVE SessionInv
    OBVIOUS
  <1>1. ASSUME NEW d \in Deployments,
               facts = [topic |-> "identity", world |-> d, install |-> NotEmitted, close |-> NotEmitted,
                        at |-> [install |-> d, close |-> d]]
        PROVE  SessionInv
    BY <1>1 DEF SessionInv, Captures, RecordsTrue, NotEmitted
  <1>2. ASSUME NEW r \in RecordsOf, NEW d \in Deployments,
               facts = [topic |-> "inspection", record |-> r, expected |-> d, token |-> NoToken, joined |-> <<>>,
                        exact |-> FALSE, finished |-> FALSE, read |-> r]
        PROVE  SessionInv
    <2>1. r.observations \in Seq(Nat)
      BY ContentsAssumption DEF RecordsOf
    <2>2. /\ <<>> \in Seq(Nat) /\ Len(<<>>) = 0 /\ Len(r.observations) \in Nat
          /\ SubSeq(r.observations, 1, 0) = <<>>
      BY <2>1, EmptySeq, LenProperties, SubSeqEmpty
    <2>3. facts \in Inspections
      BY <1>2, <2>2 DEF Inspections
    <2>4. PagesAgree(facts)
      BY <1>2, <2>2 DEF PagesAgree, NoToken
    <2>5. QED
      BY <2>3, <2>4 DEF SessionInv
  <1>3. ASSUME NEW c \in Contents, NEW size \in 1..3, NEW d \in 0..2,
               facts = [topic |-> "answer", items |-> c, size |-> size, details |-> d, offset |-> 0, page |-> 1,
                        joined |-> <<>>, finished |-> FALSE, cut |-> FALSE]
        PROVE  SessionInv
    <2>1. c \in Seq(Nat)
      BY ContentsAssumption
    <2>2. /\ <<>> \in Seq(Nat) /\ Len(c) \in Nat /\ SubSeq(c, 1, 0) = <<>> /\ size \in Nat /\ d \in Nat
      BY <2>1, EmptySeq, LenProperties, SubSeqEmpty
    <2>3. facts \in Answers
      BY <1>3, <2>2 DEF Answers
    <2>4. ItemsAgree(facts)
      BY <1>3, <2>2 DEF ItemsAgree
    <2>5. QED
      BY <2>3, <2>4 DEF SessionInv
  <1>4. QED
    BY <1>1, <1>2, <1>3 DEF SessionInit
LEMMA CaptureSteps ==
  ASSUME facts \in Captures, RecordsTrue(facts),
         \/ Emit("install", "INSTALL_OK") \/ Emit("close", "CAPTURE_CLOSE") \/ Redeploy \/ RecordDamaged
  PROVE  facts' \in Captures /\ RecordsTrue(facts')
  <1>1. ASSUME NEW b \in ProbeBindings, NEW base \in 0..2, NEW s \in SessionIds, b.deployment = facts.world,
               facts' = [facts EXCEPT !.install = IdentityRecord("INSTALL_OK", s, base, b), !.at.install = facts.world]
        PROVE  facts' \in Captures /\ RecordsTrue(facts')
    <2> DEFINE r == IdentityRecord("INSTALL_OK", s, base, b)
    <2>1. r \in Emitted("INSTALL_OK") /\ r.runtime = facts.world /\ r.binding.deployment = facts.world
      BY <1>1 DEF IdentityRecord, Emitted, ProbeBindings
    <2> HIDE DEF r
    <2>2. facts' = [facts EXCEPT !.install = r, !.at.install = facts.world]
      BY <1>1 DEF r
    <2>3. facts' \in Captures
      BY <2>1, <2>2 DEF Captures
    <2>4. facts'.install = r /\ facts'.at.install = facts.world /\ facts'.close = facts.close /\ facts'.at.close = facts.at.close
      BY <2>2 DEF Captures
    <2>5. QED
      BY <2>1, <2>3, <2>4 DEF RecordsTrue
  <1>2. ASSUME NEW b \in ProbeBindings, NEW base \in 0..2, NEW s \in SessionIds, b.deployment = facts.world,
               facts' = [facts EXCEPT !.close = IdentityRecord("CAPTURE_CLOSE", s, base, b), !.at.close = facts.world]
        PROVE  facts' \in Captures /\ RecordsTrue(facts')
    <2> DEFINE r == IdentityRecord("CAPTURE_CLOSE", s, base, b)
    <2>1. r \in Emitted("CAPTURE_CLOSE") /\ r.runtime = facts.world
      BY <1>2 DEF IdentityRecord, Emitted, ProbeBindings
    <2> HIDE DEF r
    <2>2. facts' = [facts EXCEPT !.close = r, !.at.close = facts.world]
      BY <1>2 DEF r
    <2>3. facts' \in Captures
      BY <2>1, <2>2 DEF Captures
    <2>4. facts'.close = r /\ facts'.at.close = facts.world /\ facts'.install = facts.install /\ facts'.at.install = facts.at.install
      BY <2>2 DEF Captures
    <2>5. QED
      BY <2>1, <2>3, <2>4 DEF RecordsTrue
  <1>3. CASE Redeploy
    <2>1. PICK d \in Deployments : facts' = [facts EXCEPT !.world = d]
      BY <1>3 DEF Redeploy
    <2>2. QED
      BY <2>1 DEF Captures, RecordsTrue
  <1>4. CASE RecordDamaged
    <2>1. facts.close \in Emitted("CAPTURE_CLOSE")
      BY <1>4 DEF RecordDamaged, Captures
    <2>2. PICK r \in Emitted("CAPTURE_CLOSE") : facts' = [facts EXCEPT !.close = r] /\ r.runtime = facts.close.runtime
      <3>1. ASSUME NEW b \in ProbeBindings, facts' = [facts EXCEPT !.close.binding = b]
            PROVE  \E r \in Emitted("CAPTURE_CLOSE") : facts' = [facts EXCEPT !.close = r] /\ r.runtime = facts.close.runtime
        <4>1. [facts.close EXCEPT !.binding = b] \in Emitted("CAPTURE_CLOSE")
          BY <2>1 DEF Emitted
        <4>2. /\ facts' = [facts EXCEPT !.close = [facts.close EXCEPT !.binding = b]]
              /\ [facts.close EXCEPT !.binding = b].runtime = facts.close.runtime
          BY <2>1, <3>1 DEF Emitted
        <4>3. QED
          BY <4>1, <4>2
      <3>2. ASSUME NEW s \in SessionIds, facts' = [facts EXCEPT !.close.session = s]
            PROVE  \E r \in Emitted("CAPTURE_CLOSE") : facts' = [facts EXCEPT !.close = r] /\ r.runtime = facts.close.runtime
        <4>1. [facts.close EXCEPT !.session = s] \in Emitted("CAPTURE_CLOSE")
          BY <2>1 DEF Emitted
        <4>2. /\ facts' = [facts EXCEPT !.close = [facts.close EXCEPT !.session = s]]
              /\ [facts.close EXCEPT !.session = s].runtime = facts.close.runtime
          BY <2>1, <3>2 DEF Emitted
        <4>3. QED
          BY <4>1, <4>2
      <3>3. ASSUME facts' = [facts EXCEPT !.close.base = 0]
            PROVE  \E r \in Emitted("CAPTURE_CLOSE") : facts' = [facts EXCEPT !.close = r] /\ r.runtime = facts.close.runtime
        <4>1. [facts.close EXCEPT !.base = 0] \in Emitted("CAPTURE_CLOSE")
          BY <2>1 DEF Emitted
        <4>2. /\ facts' = [facts EXCEPT !.close = [facts.close EXCEPT !.base = 0]]
              /\ [facts.close EXCEPT !.base = 0].runtime = facts.close.runtime
          BY <2>1, <3>3 DEF Emitted
        <4>3. QED
          BY <4>1, <4>2
      <3>4. QED
        BY <1>4, <3>1, <3>2, <3>3 DEF RecordDamaged
    <2>3. facts' \in Captures
      BY <2>2 DEF Captures
    <2>4. facts'.close = r /\ facts'.at = facts.at /\ facts'.install = facts.install
      BY <2>2 DEF Captures
    <2>5. facts.close.type # "none"
      BY <2>1 DEF Emitted
    <2>6. QED
      BY <2>2, <2>3, <2>4, <2>5 DEF RecordsTrue
  <1>5. CASE Emit("install", "INSTALL_OK")
    <2>1. PICK b \in ProbeBindings, base \in 0..2, s \in SessionIds, ok \in BOOLEAN :
            /\ Buildable(b, [authorizes |-> ok, deployment |-> facts.world])
            /\ facts' = [facts EXCEPT !.install = IdentityRecord("INSTALL_OK", s, base, b), !.at.install = facts.world]
      BY <1>5, ZenonT(30) DEF Emit
    <2>2. b.deployment = facts.world
      BY <2>1 DEF Buildable, GateMatches
    <2>3. QED
      BY <1>1, <2>1, <2>2
  <1>6. CASE Emit("close", "CAPTURE_CLOSE")
    <2>1. PICK b \in ProbeBindings, base \in 0..2, s \in SessionIds, ok \in BOOLEAN :
            /\ Buildable(b, [authorizes |-> ok, deployment |-> facts.world])
            /\ facts' = [facts EXCEPT !.close = IdentityRecord("CAPTURE_CLOSE", s, base, b), !.at.close = facts.world]
      BY <1>6, ZenonT(30) DEF Emit
    <2>2. b.deployment = facts.world
      BY <2>1 DEF Buildable, GateMatches
    <2>3. QED
      BY <1>2, <2>1, <2>2
  <1>7. QED
    BY <1>3, <1>4, <1>5, <1>6

\* An inspection shows a page that continues the pages before it.
LEMMA InspectionGoesOn ==
  ASSUME facts \in Inspections, PagesAgree(facts), NEW size \in 1..2, InspectSession(size)
  PROVE  facts' \in Inspections /\ PagesAgree(facts')
  <1> DEFINE s == facts.record.observations
             from == facts.token.offset
             upto == IF from + size < Len(s) THEN from + size ELSE Len(s)
             page == SubSeq(s, from + 1, upto)
             before == IF facts.token = NoToken THEN <<>> ELSE facts.joined
             next == from + Len(page)
  <1>1. /\ facts.record \in RecordsOf /\ s \in Contents /\ s \in Seq(Nat) /\ Len(s) \in Nat
        /\ facts.token \in {NoToken} \cup [offset : Nat \ {0}, scope : Deployments, items : Contents]
        /\ facts.record.identity \in Deployments
    <2>1. facts.record \in RecordsOf /\ s \in Contents /\ facts.record.identity \in Deployments
      BY DEF Inspections, RecordsOf
    <2>2. QED
      BY <2>1, ContentsAssumption, LenProperties DEF Inspections
  <1>2. from \in 0..Len(s) /\ before = SubSeq(s, 1, from)
    <2>1. CASE facts.token = NoToken
      <3>1. from = 0
        BY <2>1 DEF NoToken
      <3>2. SubSeq(s, 1, 0) = <<>>
        BY SubSeqEmpty
      <3>3. QED
        BY <1>1, <2>1, <3>1, <3>2
    <2>2. CASE facts.token # NoToken
      <3>1. facts.token.offset \in Nat \ {0}
        BY <1>1, <2>2
      <3>2. facts.token.items = s /\ facts.token.offset <= Len(s)
        BY <2>2 DEF InspectSession, Decodes
      <3>3. facts.joined = SubSeq(facts.read.observations, 1, Len(facts.joined)) /\ Len(facts.joined) = from
            /\ facts.read.observations = s
        BY <3>1, <3>2 DEF PagesAgree
      <3>4. QED
        BY <1>1, <2>2, <3>1, <3>2, <3>3
    <2>3. QED
      BY <2>1, <2>2
  <1>3. upto \in from..Len(s) /\ upto \in Nat /\ (upto = from => from = Len(s))
    <2>1. Len(s) \in Nat /\ from \in Nat /\ from <= Len(s) /\ size \in Nat /\ size > 0
      BY <1>1, <1>2
    <2> HIDE DEF s, from
    <2>2. QED
      BY <2>1
  <1> HIDE DEF upto, before
  <1>4. /\ page \in Seq(Nat) /\ Len(page) = upto - from
        /\ before \o page = SubSeq(s, 1, upto)
        /\ SubSeq(s, 1, upto) \in Seq(Nat) /\ Len(SubSeq(s, 1, upto)) = upto
    <2> HIDE DEF s, from
    <2>1. QED
      BY <1>1, <1>2, <1>3, Pages
  <1>5. next = upto
    BY <1>2, <1>3, <1>4
  <1> DEFINE token == IF upto < Len(s) THEN [offset |-> upto, scope |-> facts.record.identity, items |-> s] ELSE NoToken
             exact == (IF facts.token = NoToken THEN TRUE ELSE facts.exact) /\ facts.record.identity = facts.expected
  <1>6. facts' = [facts EXCEPT !.joined = before \o page, !.exact = exact, !.token = token,
                               !.finished = ~(upto < Len(s)), !.read = facts.record]
    BY <1>5 DEF InspectSession, PageOf, upto, before
  <1>7. token \in {NoToken} \cup [offset : Nat \ {0}, scope : Deployments, items : Contents]
    <2>1. upto < Len(s) => upto \in Nat \ {0}
      BY <1>1, <1>2, <1>3
    <2>2. QED
      BY <1>1, <2>1
  <1>8. exact \in BOOLEAN /\ (exact => facts.record.identity = facts.expected)
    BY DEF Inspections
  <1>9. /\ token.offset # 0 => token.offset = upto /\ token.items = s /\ token.scope = facts.record.identity
    BY DEF NoToken
  <1> HIDE DEF token, exact, page, next
  <1>10. facts' \in Inspections
    BY <1>1, <1>4, <1>6, <1>7, <1>8 DEF Inspections
  <1>11. /\ facts'.joined = SubSeq(s, 1, upto) /\ facts'.token = token /\ facts'.read = facts.record /\ facts'.exact = exact
         /\ facts'.finished = ~(upto < Len(s)) /\ facts'.expected = facts.expected
    BY <1>4, <1>6 DEF Inspections
  <1>12. ~(upto < Len(s)) => SubSeq(s, 1, upto) = s
    <2>1. ~(upto < Len(s)) => upto = Len(s)
      BY <1>1, <1>2, <1>3
    <2>2. QED
      BY <1>1, <2>1, SubSeqFull
  <1>13. PagesAgree(facts')
    <2>1. Len(facts'.joined) = upto /\ upto <= Len(facts'.read.observations)
      BY <1>2, <1>3, <1>4, <1>11
    <2>2. QED
      BY <1>8, <1>9, <1>11, <1>12, <2>1 DEF PagesAgree
  <1>14. QED
    BY <1>10, <1>13

LEMMA InspectionSteps ==
  ASSUME facts \in Inspections, PagesAgree(facts), (\E size \in 1..2 : InspectSession(size)) \/ RecordReplaced
  PROVE  facts' \in Inspections /\ PagesAgree(facts')
  <1>1. CASE RecordReplaced
    <2>1. PICK r \in RecordsOf : facts' = [facts EXCEPT !.record = r]
      BY <1>1 DEF RecordReplaced
    <2>2. facts' \in Inspections
      BY <2>1 DEF Inspections
    <2>3. /\ facts'.joined = facts.joined /\ facts'.token = facts.token /\ facts'.read = facts.read
          /\ facts'.exact = facts.exact /\ facts'.finished = facts.finished /\ facts'.expected = facts.expected
      BY <2>1 DEF Inspections
    <2>4. QED
      BY <2>2, <2>3 DEF PagesAgree
  <1>2. QED
    BY <1>1, InspectionGoesOn

LEMMA AnswerSteps ==
  ASSUME facts \in Answers, ItemsAgree(facts), AnswerPage
  PROVE  facts' \in Answers /\ ItemsAgree(facts')
  <1>1. PICK details \in 0..facts.details, count \in Counts(facts) :
           facts' = [facts EXCEPT !.joined = @ \o SubSeq(facts.items, facts.offset + 1, facts.offset + count),
                                  !.offset = @ + count, !.page = @ + 1,
                                  !.finished = ~Continues(facts, count),
                                  !.cut = Cut(facts, count, details)]
    BY DEF AnswerPage
  <1> DEFINE s == facts.items
             upto == facts.offset + count
             page == SubSeq(s, facts.offset + 1, upto)
             finished == ~Continues(facts, count)
             cut == Cut(facts, count, details)
  <1>2. /\ s \in Seq(Nat) /\ Len(s) \in Nat /\ facts.offset \in 0..Len(s) /\ facts.joined = SubSeq(s, 1, facts.offset)
        /\ facts.offset \in Nat /\ facts.page \in Nat
    <2>1. s \in Contents /\ facts.offset \in Nat /\ facts.page \in Nat
      BY DEF Answers
    <2>2. s \in Seq(Nat) /\ Len(s) \in Nat
      BY <2>1, ContentsAssumption, LenProperties
    <2>3. QED
      BY <2>1, <2>2 DEF ItemsAgree
  <1>3. count \in Nat /\ count <= Len(s) - facts.offset
    <2>1. count \in 0..facts.size /\ count <= Len(s) - facts.offset
      BY DEF Counts
    <2>2. facts.size \in Nat
      BY DEF Answers
    <2>3. QED
      BY <2>1, <2>2
  <1>4. upto \in facts.offset..Len(s) /\ upto \in Nat
    BY <1>2, <1>3
  <1>5. /\ facts.joined \o page = SubSeq(s, 1, upto) /\ SubSeq(s, 1, upto) \in Seq(Nat)
    BY <1>2, <1>4, Pages
  <1>6. finished \in BOOLEAN /\ cut \in BOOLEAN /\ (~cut => ~(upto < Len(s)))
    BY DEF Continues, Cut
  <1>7. facts' = [facts EXCEPT !.joined = SubSeq(s, 1, upto), !.offset = upto, !.page = @ + 1,
                               !.finished = finished, !.cut = cut]
    BY <1>1, <1>5
  <1> HIDE DEF upto, finished, cut
  <1> HIDE DEF s, page
  <1>8. facts' \in Answers
    <2>1. facts.page + 1 \in Nat
      BY <1>2
    <2>2. QED
      BY <1>4, <1>5, <1>6, <1>7, <2>1 DEF Answers
  <1>9. /\ facts'.joined = SubSeq(s, 1, upto) /\ facts'.offset = upto /\ facts'.items = s
        /\ facts'.finished = finished /\ facts'.cut = cut
    BY <1>7 DEF Answers, s
  <1>10. ItemsAgree(facts')
    BY <1>2, <1>4, <1>6, <1>9 DEF ItemsAgree
  <1>11. QED
    BY <1>8, <1>10

LEMMA SessionSteps == SessionInv /\ [SessionNext]_facts => SessionInv'
  <1> SUFFICES ASSUME SessionInv, [SessionNext]_facts PROVE SessionInv'
    OBVIOUS
  <1>1. CASE UNCHANGED facts
    BY <1>1 DEF SessionInv
  <1>2. CASE \/ Emit("install", "INSTALL_OK") \/ Emit("close", "CAPTURE_CLOSE") \/ Redeploy \/ RecordDamaged
    <2>1. About("identity")
      BY <1>2 DEF Emit, Redeploy, RecordDamaged
    <2>2. facts' \in Captures /\ RecordsTrue(facts')
      BY <1>2, <2>1, Topics, CaptureSteps
    <2>3. QED
      BY <2>2 DEF SessionInv
  <1>3. CASE (\E size \in 1..2 : InspectSession(size)) \/ RecordReplaced
    <2>1. About("inspection")
      BY <1>3 DEF InspectSession, RecordReplaced
    <2>2. facts' \in Inspections /\ PagesAgree(facts')
      BY <1>3, <2>1, Topics, InspectionSteps
    <2>3. QED
      BY <2>2 DEF SessionInv
  <1>4. CASE AnswerPage
    <2>1. About("answer")
      BY <1>4 DEF AnswerPage
    <2>2. facts' \in Answers /\ ItemsAgree(facts')
      BY <1>4, <2>1, Topics, AnswerSteps
    <2>3. QED
      BY <2>2 DEF SessionInv
  <1>5. QED
    BY <1>1, <1>2, <1>3, <1>4 DEF SessionNext

LEMMA SessionPromises == SessionInv => RecordsOfOneMoment
  <1> SUFFICES ASSUME SessionInv PROVE RecordsOfOneMoment
    OBVIOUS
  <1>1. OneDeployment
    <2> SUFFICES ASSUME About("identity"), facts.install # NotEmitted, facts.close # NotEmitted,
                        PromotionAllowed(facts.install, facts.close)
                 PROVE  /\ facts.at.install = facts.at.close
                        /\ facts.install.binding.deployment = facts.at.install
                        /\ facts.install.session = facts.close.session
      BY DEF OneDeployment
    <2>1. facts \in Captures /\ RecordsTrue(facts)
      BY Topics
    <2>2. facts.install.type # "none" /\ facts.close.type # "none"
      BY <2>1 DEF Captures, Emitted
    <2>3. facts.install.session = facts.close.session /\ facts.install.runtime = facts.close.runtime
      BY DEF PromotionAllowed, IdentityReasons
    <2>4. QED
      BY <2>1, <2>2, <2>3 DEF RecordsTrue
  <1>2. PagesOfOneRecord
    BY Topics DEF PagesOfOneRecord, PagesAgree
  <1>3. AnswerWhole
    <2> SUFFICES ASSUME About("answer")
                 PROVE  /\ facts.joined = SubSeq(facts.items, 1, facts.offset)
                        /\ facts.finished /\ ~facts.cut => facts.joined = facts.items
      BY DEF AnswerWhole
    <2>1. facts \in Answers /\ ItemsAgree(facts)
      BY Topics
    <2>2. facts.items \in Seq(Nat)
      BY <2>1, ContentsAssumption DEF Answers
    <2>3. SubSeq(facts.items, 1, Len(facts.items)) = facts.items
      BY <2>2, SubSeqFull
    <2>4. QED
      BY <2>1, <2>3 DEF ItemsAgree
  <1>4. QED
    BY <1>1, <1>2, <1>3 DEF RecordsOfOneMoment

\* What is joined from several looks is of one moment, for any deployments,
\* contents and bounds.  (runtime_identity.py, runtime_session_inspection.py,
\* results.py)
THEOREM RecordsAreOfOneMoment == SessionSpec => []RecordsOfOneMoment
  BY SessionStarts, SessionSteps, SessionPromises, PTL DEF SessionSpec

-----------------------------------------------------------------------------
(***************************************************************************)
(* AcceptanceGates: acceptance says what was played.                       *)
(***************************************************************************)

\* The evidence of a stack: what was active, what was played, and what the parts
\* say of it.
Stacks == [at : Nat \ {0}, intended : Projects, sessions : SUBSET Nat]
Audits == [at : Nat \ {0}, winner : Projects]
Captured == [at : Nat \ {0}, session : Nat]

KnownFlaws == UNION {{e.flaw : e \in EffectsOf(k)} : k \in StackKinds}

StackEvidence ==
  [topic : {"acceptance"}, kind : StackKinds, active : Seq(Projects), plays : Seq(Nat),
   stack : {NotWritten} \cup Stacks, audit : {NotWritten} \cup Audits, capture : {NotWritten} \cup Captured,
   flaws : SUBSET KnownFlaws]

\* Each part is of what was active and played when it was written, and its
\* defects are of those that the evaluation knows.
PartsTrue(f) ==
  /\ f.active # <<>>
  /\ \A i \in 1..Len(f.plays) : f.plays[i] \in 1..Len(f.active)
  /\ f.stack.at <= Len(f.active)
  /\ f.audit.at # 0 => f.audit.at \in 1..Len(f.active) /\ f.audit.winner = f.active[f.audit.at]
  /\ f.capture.at # 0 => f.capture.session \in 1..Len(f.plays) /\ f.capture.at = f.plays[f.capture.session]
  /\ \A d \in f.flaws : \E e \in EffectsOf(f.kind) : e.flaw = d
  /\ f.flaws \cap {"winner_unbound", "identity_unbound"} = {}

\* The evidence of a read-only run.
Protections == [Subjects -> 0..2]
CaseStatuses == {"PASS", "INCONCLUSIVE", "BLOCKED", "FAIL"}
CaseRecords == [before : SUBSET (Subjects \X Nat), after : SUBSET (Subjects \X Nat), wrote : BOOLEAN,
                status : CaseStatuses, intact : BOOLEAN]

ReadOnlyEvidence ==
  [topic : {"readonly"}, protected : Protections, running : Cases \cup {NoCase}, before : SUBSET (Subjects \X Nat),
   touched : SUBSET Subjects, atBegin : Protections, done : UNION {[D -> CaseRecords] : D \in SUBSET Cases}]

CasesTrue(f) ==
  /\ f.running # NoCase => f.before = Revisions(f.atBegin)
  /\ \A c \in DOMAIN f.done : Drifted(f.done[c]) = {} => f.done[c].intact

AcceptanceInv ==
  \/ facts \in StackEvidence /\ PartsTrue(facts)
  \/ facts \in ReadOnlyEvidence /\ CasesTrue(facts)

\* A stack and a read-only run have their own topics.
LEMMA EvidenceTopics ==
  ASSUME AcceptanceInv
  PROVE  /\ About("acceptance") => facts \in StackEvidence /\ PartsTrue(facts)
         /\ About("readonly") => facts \in ReadOnlyEvidence /\ CasesTrue(facts)
  BY DEF AcceptanceInv, About, StackEvidence, ReadOnlyEvidence

\* The invariant holds at the start and after each step.
LEMMA AcceptanceStarts == AcceptanceInit => AcceptanceInv
  <1> SUFFICES ASSUME AcceptanceInit PROVE AcceptanceInv
    OBVIOUS
  <1>1. ASSUME NEW k \in StackKinds, NEW p \in Projects,
               facts = [topic |-> "acceptance", kind |-> k, active |-> <<p>>, plays |-> <<>>,
                        stack |-> NotWritten, audit |-> NotWritten, capture |-> NotWritten, flaws |-> {}]
        PROVE  AcceptanceInv
    <2>1. <<p>> \in Seq(Projects) /\ <<p>> # <<>> /\ Len(<<p>>) = 1 /\ <<>> \in Seq(Nat) /\ Len(<<>>) = 0
      OBVIOUS
    <2>2. facts \in StackEvidence
      BY <1>1, <2>1 DEF StackEvidence
    <2>3. PartsTrue(facts)
      BY <1>1, <2>1 DEF PartsTrue, NotWritten
    <2>4. QED
      BY <2>2, <2>3 DEF AcceptanceInv
  <1>2. ASSUME facts = [topic |-> "readonly", protected |-> [s \in Subjects |-> 1], running |-> NoCase, before |-> {},
                        touched |-> {}, atBegin |-> [s \in Subjects |-> 1], done |-> <<>>]
        PROVE  AcceptanceInv
    <2>1. <<>> \in [{} -> CaseRecords] /\ DOMAIN <<>> = {}
      OBVIOUS
    <2>2. <<>> \in UNION {[D -> CaseRecords] : D \in SUBSET Cases}
      BY <2>1
    <2> DEFINE ones == [s \in Subjects |-> 1]
               nothing == <<>>
    <2>3. facts = [topic |-> "readonly", protected |-> ones, running |-> NoCase, before |-> {},
                   touched |-> {}, atBegin |-> ones, done |-> nothing]
          /\ nothing \in UNION {[D -> CaseRecords] : D \in SUBSET Cases} /\ DOMAIN nothing = {}
      BY <1>2, <2>1, <2>2
    <2>4. ones \in Protections
      BY DEF Protections
    <2> HIDE DEF ones, nothing
    <2>5. facts \in ReadOnlyEvidence
      BY <2>3, <2>4 DEF ReadOnlyEvidence
    <2>6. CasesTrue(facts)
      BY <2>3 DEF CasesTrue
    <2>7. QED
      BY <2>5, <2>6 DEF AcceptanceInv
  <1>3. QED
    BY <1>1, <1>2 DEF AcceptanceInit

LEMMA StackSteps ==
  ASSUME facts \in StackEvidence, PartsTrue(facts),
         \/ Activate \/ Play \/ WriteManifest \/ WriteAudit \/ WriteCapture
         \/ GetsWorse("acceptance", {e.flaw : e \in EffectsOf(facts.kind)} \ {"winner_unbound", "identity_unbound"}, MaxStackFlaws)
  PROVE  facts' \in StackEvidence /\ PartsTrue(facts')
  <1> DEFINE n == Len(facts.active)
  <1>1. /\ facts.active \in Seq(Projects) /\ n \in Nat \ {0} /\ facts.plays \in Seq(Nat) /\ Len(facts.plays) \in Nat
        /\ facts.active[n] \in Projects /\ facts.flaws \in SUBSET KnownFlaws
    BY DEF StackEvidence, PartsTrue
  <1>2. CASE Activate
    <2>1. PICK p \in Projects : facts' = [facts EXCEPT !.active = Append(@, p)]
      BY <1>2 DEF Activate
    <2> DEFINE active == Append(facts.active, p)
    <2>2. /\ active \in Seq(Projects) /\ Len(active) = n + 1 /\ active # <<>>
          /\ \A i \in 1..n : active[i] = facts.active[i]
      BY <1>1
    <2>3. facts' = [facts EXCEPT !.active = active]
      BY <2>1
    <2> HIDE DEF active
    <2>4. facts' \in StackEvidence
      BY <2>2, <2>3 DEF StackEvidence
    <2>5. /\ facts'.active = active /\ facts'.plays = facts.plays /\ facts'.stack = facts.stack /\ facts'.audit = facts.audit
          /\ facts'.capture = facts.capture /\ facts'.flaws = facts.flaws /\ facts'.kind = facts.kind
      BY <2>3 DEF StackEvidence
    <2>6. facts.stack.at \in Nat /\ facts.audit.at \in Nat
      BY DEF StackEvidence, Stacks, Audits, NotWritten
    <2> HIDE DEF n
    <2>7. facts.audit.at # 0 => facts.audit.at \in 1..(n + 1) /\ facts.audit.winner = active[facts.audit.at]
      BY <1>1, <2>2, <2>6 DEF PartsTrue, n
    <2>8. \A i \in 1..Len(facts.plays) : facts.plays[i] \in 1..(n + 1)
      BY <1>1 DEF PartsTrue, n
    <2>9. facts.stack.at <= n + 1
      BY <1>1, <2>6 DEF PartsTrue, n
    <2>10. QED
      BY <2>2, <2>4, <2>5, <2>7, <2>8, <2>9 DEF PartsTrue
  <1>3. CASE Play
    <2> DEFINE plays == Append(facts.plays, n)
    <2>1. facts' = [facts EXCEPT !.plays = plays]
      BY <1>3 DEF Play
    <2>2. /\ plays \in Seq(Nat) /\ Len(plays) = Len(facts.plays) + 1
          /\ \A i \in 1..Len(facts.plays) : plays[i] = facts.plays[i]
          /\ plays[Len(facts.plays) + 1] = n
      BY <1>1
    <2> HIDE DEF plays
    <2>3. facts' \in StackEvidence
      BY <2>1, <2>2 DEF StackEvidence
    <2>4. /\ facts'.active = facts.active /\ facts'.plays = plays /\ facts'.stack = facts.stack /\ facts'.audit = facts.audit
          /\ facts'.capture = facts.capture /\ facts'.flaws = facts.flaws /\ facts'.kind = facts.kind
      BY <2>1 DEF StackEvidence
    <2>5. \A i \in 1..Len(plays) : plays[i] \in 1..n
      <3> SUFFICES ASSUME NEW i \in 1..Len(plays) PROVE plays[i] \in 1..n
        OBVIOUS
      <3>1. CASE i = Len(facts.plays) + 1
        BY <1>1, <2>2, <3>1
      <3>2. CASE i \in 1..Len(facts.plays)
        BY <2>2, <3>2 DEF PartsTrue
      <3>3. QED
        BY <1>1, <2>2, <3>1, <3>2
    <2>6. facts.capture.at # 0 =>
            facts.capture.session \in 1..Len(plays) /\ facts.capture.at = plays[facts.capture.session]
      <3>1. facts.capture.at # 0 => /\ facts.capture.session \in 1..Len(facts.plays)
                                    /\ facts.capture.at = facts.plays[facts.capture.session]
        BY DEF PartsTrue
      <3>2. \A i \in 1..Len(facts.plays) : i \in 1..Len(plays) /\ plays[i] = facts.plays[i]
        BY <1>1, <2>2
      <3>3. QED
        BY <3>1, <3>2
    <2>7. QED
      BY <2>3, <2>4, <2>5, <2>6 DEF PartsTrue
  <1>4. CASE WriteManifest
    <2>1. PICK s \in SUBSET (1..(Len(facts.plays) + 1)), p \in Projects :
            facts' = [facts EXCEPT !.stack = [at |-> n, intended |-> p, sessions |-> s]]
      BY <1>4 DEF WriteManifest
    <2> DEFINE stack == [at |-> n, intended |-> p, sessions |-> s]
    <2>2. stack \in Stacks /\ stack.at <= n
      BY <1>1 DEF Stacks
    <2> HIDE DEF stack
    <2>3. facts' = [facts EXCEPT !.stack = stack]
      BY <2>1 DEF stack
    <2>4. facts' \in StackEvidence
      BY <2>2, <2>3 DEF StackEvidence
    <2>5. /\ facts'.active = facts.active /\ facts'.plays = facts.plays /\ facts'.stack = stack /\ facts'.audit = facts.audit
          /\ facts'.capture = facts.capture /\ facts'.flaws = facts.flaws /\ facts'.kind = facts.kind
      BY <2>3 DEF StackEvidence
    <2>6. QED
      BY <2>2, <2>4, <2>5 DEF PartsTrue
  <1>5. CASE WriteAudit
    <2> DEFINE audit == [at |-> n, winner |-> facts.active[n]]
    <2>1. facts' = [facts EXCEPT !.audit = audit]
      BY <1>5 DEF WriteAudit
    <2>2. audit \in Audits /\ audit.at \in 1..n /\ audit.winner = facts.active[audit.at]
      BY <1>1 DEF Audits
    <2> HIDE DEF audit
    <2>3. facts' \in StackEvidence
      BY <2>1, <2>2 DEF StackEvidence
    <2>4. /\ facts'.active = facts.active /\ facts'.plays = facts.plays /\ facts'.stack = facts.stack /\ facts'.audit = audit
          /\ facts'.capture = facts.capture /\ facts'.flaws = facts.flaws /\ facts'.kind = facts.kind
      BY <2>1 DEF StackEvidence
    <2>5. QED
      BY <2>2, <2>3, <2>4 DEF PartsTrue
  <1>6. CASE WriteCapture
    <2>1. PICK i \in DOMAIN facts.plays : facts' = [facts EXCEPT !.capture = [at |-> facts.plays[i], session |-> i]]
      BY <1>6 DEF WriteCapture
    <2> DEFINE capture == [at |-> facts.plays[i], session |-> i]
    <2>2. i \in 1..Len(facts.plays) /\ facts.plays[i] \in 1..n
      <3>1. i \in 1..Len(facts.plays)
        BY <1>1, <2>1
      <3>2. QED
        BY <3>1 DEF PartsTrue
    <2>3. capture \in Captured /\ capture.session \in 1..Len(facts.plays) /\ capture.at = facts.plays[capture.session]
      BY <1>1, <2>2 DEF Captured
    <2> HIDE DEF capture
    <2>4. facts' = [facts EXCEPT !.capture = capture]
      BY <2>1 DEF capture
    <2>5. facts' \in StackEvidence
      BY <2>3, <2>4 DEF StackEvidence
    <2>6. /\ facts'.active = facts.active /\ facts'.plays = facts.plays /\ facts'.stack = facts.stack /\ facts'.audit = facts.audit
          /\ facts'.capture = capture /\ facts'.flaws = facts.flaws /\ facts'.kind = facts.kind
      BY <2>4 DEF StackEvidence
    <2>7. QED
      BY <2>3, <2>5, <2>6 DEF PartsTrue
  <1>7. CASE GetsWorse("acceptance", {e.flaw : e \in EffectsOf(facts.kind)} \ {"winner_unbound", "identity_unbound"}, MaxStackFlaws)
    <2>1. PICK d \in ({e.flaw : e \in EffectsOf(facts.kind)} \ {"winner_unbound", "identity_unbound"}) \ facts.flaws :
            facts' = [facts EXCEPT !.flaws = @ \cup {d}]
      BY <1>7, ZenonT(30) DEF GetsWorse
    <2>2. d \in KnownFlaws
      <3>1. facts.kind \in StackKinds
        BY DEF StackEvidence
      <3>2. QED
        BY <2>1, <3>1 DEF KnownFlaws
    <2>3. facts' \in StackEvidence
      BY <1>1, <2>1, <2>2 DEF StackEvidence
    <2>4. /\ facts'.active = facts.active /\ facts'.plays = facts.plays /\ facts'.stack = facts.stack /\ facts'.audit = facts.audit
          /\ facts'.capture = facts.capture /\ facts'.flaws = facts.flaws \cup {d} /\ facts'.kind = facts.kind
      BY <2>1 DEF StackEvidence
    <2>5. QED
      BY <2>1, <2>3, <2>4 DEF PartsTrue
  <1>8. QED
    BY <1>2, <1>3, <1>4, <1>5, <1>6, <1>7
LEMMA CaseSteps ==
  ASSUME facts \in ReadOnlyEvidence, CasesTrue(facts), BeginCase \/ TouchProtected \/ EndCase
  PROVE  facts' \in ReadOnlyEvidence /\ CasesTrue(facts')
  <1>1. \A p \in Protections : Revisions(p) \in SUBSET (Subjects \X Nat)
    BY DEF Revisions, Protections
  <1>2. CASE BeginCase
    <2>1. PICK c \in Cases : facts' = [facts EXCEPT !.running = c, !.before = Revisions(facts.protected),
                                                    !.atBegin = facts.protected]
      BY <1>2 DEF BeginCase
    <2> DEFINE before == Revisions(facts.protected)
    <2>2. facts.protected \in Protections /\ before \in SUBSET (Subjects \X Nat)
      BY <1>1 DEF ReadOnlyEvidence
    <2>3. facts' = [facts EXCEPT !.running = c, !.before = before, !.atBegin = facts.protected]
      BY <2>1
    <2>4. before = Revisions(facts.protected)
      OBVIOUS
    <2> HIDE DEF before
    <2>5. facts' \in ReadOnlyEvidence
      BY <2>2, <2>3 DEF ReadOnlyEvidence
    <2>6. /\ facts'.running = c /\ facts'.before = before /\ facts'.atBegin = facts.protected /\ facts'.done = facts.done
      BY <2>3 DEF ReadOnlyEvidence
    <2>7. QED
      BY <2>4, <2>5, <2>6 DEF CasesTrue
  <1>3. CASE TouchProtected
    <2>1. PICK s \in Subjects, v \in 0..2 : facts' = [facts EXCEPT !.protected[s] = v, !.touched = @ \cup {s}]
      BY <1>3 DEF TouchProtected
    <2>2. [facts.protected EXCEPT ![s] = v] \in Protections
      BY DEF ReadOnlyEvidence, Protections
    <2>3. facts' \in ReadOnlyEvidence
      BY <2>1, <2>2 DEF ReadOnlyEvidence
    <2>4. /\ facts'.running = facts.running /\ facts'.before = facts.before /\ facts'.atBegin = facts.atBegin
          /\ facts'.done = facts.done
      BY <2>1 DEF ReadOnlyEvidence
    <2>5. QED
      BY <2>3, <2>4 DEF CasesTrue
  <1>4. CASE EndCase
    <2>1. PICK w \in BOOLEAN, st \in CaseStatuses :
            facts' = [facts EXCEPT !.running = NoCase, !.before = {},
                                   !.done = [c \in DOMAIN facts.done \cup {facts.running} |->
                                      IF c \in DOMAIN facts.done THEN facts.done[c]
                                      ELSE [before |-> facts.before, after |-> Revisions(facts.protected), wrote |-> w,
                                            status |-> st, intact |-> facts.atBegin = facts.protected]]]
      BY <1>4, ZenonT(30) DEF EndCase, CaseStatuses
    <2> DEFINE after == Revisions(facts.protected)
               r == [before |-> facts.before, after |-> after, wrote |-> w, status |-> st,
                     intact |-> facts.atBegin = facts.protected]
               done == [c \in DOMAIN facts.done \cup {facts.running} |-> IF c \in DOMAIN facts.done THEN facts.done[c] ELSE r]
    <2>2. facts' = [facts EXCEPT !.running = NoCase, !.before = {}, !.done = done]
      BY <2>1
    <2>3. facts.protected \in Protections /\ facts.atBegin \in Protections /\ facts.before \in SUBSET (Subjects \X Nat)
          /\ facts.running \in Cases
      BY <1>4 DEF ReadOnlyEvidence, EndCase
    <2>4. r \in CaseRecords
      BY <1>1, <2>3 DEF CaseRecords
    <2>5. Drifted(r) = {} => r.intact
      <3> SUFFICES ASSUME Drifted(r) = {} PROVE facts.atBegin = facts.protected
        OBVIOUS
      <3>1. facts.before = Revisions(facts.atBegin)
        BY <1>4 DEF EndCase, CasesTrue
      <3>2. \A s \in Subjects, v \in 1..2 :
              <<s, v>> \notin (facts.before \ after) \cup (after \ facts.before)
        BY DEF Drifted
      <3>3. ASSUME NEW s \in Subjects PROVE facts.atBegin[s] = facts.protected[s]
        <4>1. facts.atBegin[s] \in 0..2 /\ facts.protected[s] \in 0..2
          BY <2>3 DEF Protections
        <4>2. ASSUME NEW v \in 1..2 PROVE facts.atBegin[s] = v <=> facts.protected[s] = v
          <5>1. <<s, v>> \in Revisions(facts.atBegin) <=> <<s, v>> \in Revisions(facts.protected)
            BY <3>1, <3>2
          <5>2. ASSUME NEW p \in Protections PROVE <<s, v>> \in Revisions(p) <=> p[s] = v
            BY DEF Revisions
          <5>3. QED
            BY <2>3, <5>1, <5>2
        <4>3. QED
          BY <4>1, <4>2
      <3>4. QED
        BY <2>3, <3>3 DEF Protections
    <2> HIDE DEF r, after
    <2>6. PICK D \in SUBSET Cases : facts.done \in [D -> CaseRecords]
      BY DEF ReadOnlyEvidence
    <2>7. /\ done \in [D \cup {facts.running} -> CaseRecords] /\ D \cup {facts.running} \in SUBSET Cases
          /\ \A c \in DOMAIN done : Drifted(done[c]) = {} => done[c].intact
      <3>1. DOMAIN facts.done = D
        BY <2>6
      <3>2. done = [c \in D \cup {facts.running} |-> IF c \in D THEN facts.done[c] ELSE r]
        BY <3>1
      <3>3. \A c \in D : Drifted(facts.done[c]) = {} => facts.done[c].intact
        BY <3>1 DEF CasesTrue
      <3> HIDE DEF done
      <3>4. QED
        BY <2>3, <2>4, <2>5, <2>6, <3>2, <3>3
    <2>8. done \in UNION {[E -> CaseRecords] : E \in SUBSET Cases}
      BY <2>7
    <2> HIDE DEF done
    <2>9. facts' \in ReadOnlyEvidence
      BY <2>2, <2>8 DEF ReadOnlyEvidence
    <2>10. facts'.running = NoCase /\ facts'.done = done
      BY <2>2 DEF ReadOnlyEvidence
    <2>11. QED
      BY <2>7, <2>9, <2>10 DEF CasesTrue
  <1>5. QED
    BY <1>2, <1>3, <1>4

LEMMA AcceptanceSteps == AcceptanceInv /\ [AcceptanceNext]_facts => AcceptanceInv'
  <1> SUFFICES ASSUME AcceptanceInv, [AcceptanceNext]_facts PROVE AcceptanceInv'
    OBVIOUS
  <1>1. CASE UNCHANGED facts
    BY <1>1 DEF AcceptanceInv
  <1>2. CASE /\ About("acceptance")
             /\ \/ Activate \/ Play \/ WriteManifest \/ WriteAudit \/ WriteCapture
                \/ GetsWorse("acceptance", {e.flaw : e \in EffectsOf(facts.kind)} \ {"winner_unbound", "identity_unbound"}, MaxStackFlaws)
    <2>1. facts' \in StackEvidence /\ PartsTrue(facts')
      BY <1>2, EvidenceTopics, StackSteps
    <2>2. QED
      BY <2>1 DEF AcceptanceInv
  <1>3. CASE About("readonly") /\ (BeginCase \/ TouchProtected \/ EndCase)
    <2>1. facts' \in ReadOnlyEvidence /\ CasesTrue(facts')
      BY <1>3, EvidenceTopics, CaseSteps
    <2>2. QED
      BY <2>1 DEF AcceptanceInv
  <1>4. QED
    BY <1>1, <1>2, <1>3, ZenonT(30) DEF AcceptanceNext

-----------------------------------------------------------------------------
\* A defect that reaches a gate keeps the stack from passing, and one that
\* fails no gate keeps it from failing.
LEMMA DefectKeeps ==
  ASSUME NEW f, NEW e \in EffectsOf(f.kind), e.flaw \in Defects(f)
  PROVE  Acceptance(f) # "PASS"
  <1>1. GateStatus(f, e.gate) \in {"FAIL", "INCONCLUSIVE"}
    BY DEF GateStatus
  <1>2. QED
    BY <1>1 DEF Acceptance

LEMMA OpenDefects ==
  ASSUME NEW f, \A e \in EffectsOf(f.kind) : e.flaw \in Defects(f) => ~e.fails,
         NEW e \in EffectsOf(f.kind), e.flaw \in Defects(f)
  PROVE  Acceptance(f) = "INCONCLUSIVE"
  <1>1. \A g \in {x.gate : x \in EffectsOf(f.kind)} : GateStatus(f, g) # "FAIL"
    BY DEF GateStatus
  <1>2. GateStatus(f, e.gate) = "INCONCLUSIVE"
    BY DEF GateStatus
  <1>3. QED
    BY <1>1, <1>2 DEF Acceptance

\* The defects that are only incomplete fail no gate.
OpenOnes == {"check_not_run", "coverage_partial", "audit_inconclusive",
         "table_unresolved", "reference_unseen", "chain_limit", "quest_partial", "world_partial", "capture_incomplete",
         "state_unproven", "overhead_incomplete"}

LEMMA OpenOnesOpen ==
  ASSUME NEW kind \in {"balance", "ai_world", "scripting"}, NEW e \in EffectsOf(kind), e.flaw \in OpenOnes
  PROVE  ~e.fails
  <1>1. \A F, g : (\A x \in Fails(F, g) : x.flaw \in F) /\ (\A x \in Opens(F, g) : ~x.fails)
    BY DEF Fails, Opens, Effect
  <1>2. \A F, g, u : \A x \in FailsUnless(F, g, u) : x.flaw \in F
    BY DEF FailsUnless, Effect
  <1>3. CASE e \in StackEffects(kind)
    BY <1>1, <1>3 DEF StackEffects, OpenOnes
  <1>4. CASE e \in BalanceEffects
    <2>1. CASE e \in TableEffects
      BY <1>1, <1>2, <2>1 DEF TableEffects, OpenOnes
    <2>2. CASE e \in ReferenceEffects
      BY <1>1, <1>2, <2>2 DEF ReferenceEffects, OpenOnes
    <2>3. CASE e \in InventoryEffects
      BY <1>1, <1>2, <2>3 DEF InventoryEffects, OpenOnes
    <2>4. QED
      BY <1>1, <1>4, <2>1, <2>2, <2>3 DEF BalanceEffects, OpenOnes
  <1>5. CASE e \in AIWorldEffects
    BY <1>1, <1>2, <1>5 DEF AIWorldEffects, OpenOnes
  <1>6. CASE e \in ScriptingEffects
    BY <1>1, <1>2, <1>6 DEF ScriptingEffects, OpenOnes
  <1>7. QED
    BY <1>3, <1>4, <1>5, <1>6 DEF EffectsOf

\* What leaves the winner, or the session, unbound reaches a gate.
LEMMA UnboundReach ==
  /\ \A kind \in {"balance", "ai_world", "ui_visual", "animation"} : \E e \in EffectsOf(kind) : e.flaw = "winner_unbound"
  /\ \A kind \in {"ai_world", "ui_visual", "animation"} : \E e \in EffectsOf(kind) : e.flaw = "identity_unbound"
  <1>1. \A F, g : \A x \in F : Effect(x, g, TRUE, {}) \in Fails(F, g) /\ Effect(x, g, FALSE, {}) \in Opens(F, g)
    BY DEF Fails, Opens
  <1>2. \A x, g, b, u : Effect(x, g, b, u).flaw = x
    BY DEF Effect
  <1>3. /\ Effect("winner_unbound", "winners", TRUE, {}) \in BalanceEffects
        /\ Effect("winner_unbound", "winners", TRUE, {}) \in AIWorldEffects
        /\ Effect("winner_unbound", "winners", TRUE, {}) \in UIVisualEffects
        /\ Effect("winner_unbound", "winners", TRUE, {}) \in AnimationEffects
    BY <1>1 DEF BalanceEffects, AIWorldEffects, UIVisualEffects, AnimationEffects
  <1>4. /\ Effect("identity_unbound", "persistence", FALSE, {}) \in AIWorldEffects
        /\ Effect("identity_unbound", "runtime_identity", TRUE, {}) \in UIVisualEffects
        /\ Effect("identity_unbound", "configuration_and_identity", TRUE, {}) \in AnimationEffects
    BY <1>1 DEF AIWorldEffects, UIVisualEffects, AnimationEffects
  <1>5. /\ BalanceEffects \subseteq EffectsOf("balance") /\ AIWorldEffects \subseteq EffectsOf("ai_world")
        /\ UIVisualEffects \subseteq EffectsOf("ui_visual") /\ AnimationEffects \subseteq EffectsOf("animation")
    BY DEF EffectsOf
  <1>6. \A kind \in {"balance", "ai_world", "ui_visual", "animation"} : \E e \in EffectsOf(kind) : e.flaw = "winner_unbound"
    <2>1. \A kind \in {"balance", "ai_world", "ui_visual", "animation"} :
            Effect("winner_unbound", "winners", TRUE, {}) \in EffectsOf(kind)
      BY <1>3, <1>5
    <2>2. QED
      BY <1>2, <2>1
  <1>7. \A kind \in {"ai_world", "ui_visual", "animation"} : \E e \in EffectsOf(kind) : e.flaw = "identity_unbound"
    <2>1. \E e \in EffectsOf("ai_world") : e.flaw = "identity_unbound"
      BY <1>2, <1>4, <1>5
    <2>2. \E e \in EffectsOf("ui_visual") : e.flaw = "identity_unbound"
      BY <1>2, <1>4, <1>5
    <2>3. \E e \in EffectsOf("animation") : e.flaw = "identity_unbound"
      BY <1>2, <1>4, <1>5
    <2>4. QED
      BY <2>1, <2>2, <2>3
  <1>8. QED
    BY <1>6, <1>7

\* Each part of the property follows from the invariant.
LEMMA PassedAsPlayedHolds == AcceptanceInv => PassedAsPlayed
  <1> SUFFICES ASSUME AcceptanceInv, About("acceptance"), Written(facts), Acceptance(facts) = "PASS"
               PROVE  /\ facts.kind \in {"ai_world", "ui_visual", "animation"} =>
                           /\ facts.plays[facts.capture.session] = facts.stack.at
                           /\ facts.active[facts.plays[facts.capture.session]] = facts.stack.intended
                      /\ facts.kind = "balance" => facts.active[facts.audit.at] = facts.stack.intended
    BY DEF PassedAsPlayed
  <1>1. facts \in StackEvidence /\ PartsTrue(facts)
    BY EvidenceTopics
  <1>2. facts.stack.at # 0 /\ facts.audit.at # 0 /\ facts.capture.at # 0
    BY <1>1 DEF Written, StackEvidence, Stacks, Audits, Captured
  <1>3. ASSUME facts.kind \in {"balance", "ai_world", "ui_visual", "animation"}
        PROVE  facts.audit.winner = facts.stack.intended
    <2>1. "winner_unbound" \notin Defects(facts)
      BY <1>3, UnboundReach, DefectKeeps
    <2>2. QED
      BY <2>1 DEF Defects, WinnerBound
  <1>4. ASSUME facts.kind \in {"ai_world", "ui_visual", "animation"}
        PROVE  facts.capture.at = facts.stack.at /\ facts.audit.at = facts.stack.at
    <2>1. "identity_unbound" \notin Defects(facts)
      BY <1>4, UnboundReach, DefectKeeps
    <2>2. QED
      BY <2>1 DEF Defects, IdentityBound
  <1>5. facts.audit.winner = facts.active[facts.audit.at] /\ facts.capture.at = facts.plays[facts.capture.session]
    BY <1>1, <1>2 DEF PartsTrue
  <1>6. QED
    BY <1>3, <1>4, <1>5

LEMMA IncompleteIsOpenHolds == AcceptanceInv => IncompleteIsOpen
  <1> SUFFICES ASSUME AcceptanceInv, About("acceptance"), facts.kind \in {"balance", "ai_world", "scripting"},
                      Defects(facts) # {}, Defects(facts) \subseteq OpenOnes
               PROVE  Acceptance(facts) = "INCONCLUSIVE"
    BY DEF IncompleteIsOpen, OpenOnes
  <1>1. facts \in StackEvidence /\ PartsTrue(facts)
    BY EvidenceTopics
  <1>2. PICK d \in Defects(facts) : TRUE
    OBVIOUS
  <1>3. d \in facts.flaws
    BY <1>2 DEF Defects, OpenOnes
  <1>4. PICK e \in EffectsOf(facts.kind) : e.flaw = d
    BY <1>1, <1>3 DEF PartsTrue
  <1>5. \A x \in EffectsOf(facts.kind) : x.flaw \in Defects(facts) => ~x.fails
    BY OpenOnesOpen
  <1>6. QED
    BY <1>2, <1>4, <1>5, OpenDefects

LEMMA ReadOnlyPassHolds == AcceptanceInv => ReadOnlyPass
  <1> SUFFICES ASSUME AcceptanceInv, About("readonly"), ReadOnlyStatus(facts) = "PASS"
               PROVE  DOMAIN facts.done = Cases /\ \A c \in Cases : facts.done[c].intact
    BY DEF ReadOnlyPass
  <1>1. facts \in ReadOnlyEvidence /\ CasesTrue(facts)
    BY EvidenceTopics
  <1> DEFINE statuses == {CaseStatus(facts.done[c]) : c \in DOMAIN facts.done}
  <1>2. DOMAIN facts.done = Cases /\ "FAIL" \notin statuses
    <2> HIDE DEF statuses
    <2>1. CASE DOMAIN facts.done # Cases
      BY <2>1 DEF ReadOnlyStatus, statuses
    <2>2. CASE DOMAIN facts.done = Cases /\ "FAIL" \in statuses
      BY <2>2 DEF ReadOnlyStatus, statuses
    <2>3. QED
      BY <2>1, <2>2
  <1>3. ASSUME NEW c \in Cases PROVE facts.done[c].intact
    <2>1. CaseStatus(facts.done[c]) # "FAIL"
      BY <1>2
    <2>2. Drifted(facts.done[c]) = {}
      BY <2>1 DEF CaseStatus
    <2>3. QED
      BY <1>1, <1>2, <2>2 DEF CasesTrue
  <1>4. QED
    BY <1>2, <1>3

\* A stack that passes was played as it is, what is only incomplete fails none, and
\* a read-only run that passes changed nothing, for any projects, protected files,
\* cases and bounds.  (the evaluate_..._acceptance functions of toolchain-core)
THEOREM AcceptancesAreAsPlayed == AcceptanceSpec => []AcceptedAsPlayed
  <1>1. AcceptanceInv => AcceptedAsPlayed
    BY PassedAsPlayedHolds, IncompleteIsOpenHolds, ReadOnlyPassHolds DEF AcceptedAsPlayed
  <1>2. QED
    BY <1>1, AcceptanceStarts, AcceptanceSteps, PTL DEF AcceptanceSpec

-----------------------------------------------------------------------------
(***************************************************************************)
(* Natural numbers and recursion over them.                                *)
(***************************************************************************)

\* A set of naturals that is not empty has a least element.
LEMMA LeastNatural ==
  ASSUME NEW T \in SUBSET Nat, T # {}
  PROVE  \E x \in T : \A y \in T : x <= y
  <1> DEFINE R == {ss \in Nat \X Nat : ss[1] < ss[2]}
  <1>1. IsWellFoundedOn(R, Nat)
    BY NatLessThanWellFounded DEF OpToRel
  <1>2. \A x, y \in Nat : y < x => <<y, x>> \in R
    OBVIOUS
  <1> HIDE DEF R
  <1>3. PICK x \in T : \A y \in T : ~ (<<y, x>> \in R)
    BY <1>1, WFMin
  <1>4. \A y \in T : ~ (y < x)
    BY <1>2, <1>3
  <1>5. \A y \in T : x <= y
    BY <1>4
  <1>6. QED
    BY <1>5

\* Induction: what holds of 0 and goes on from n to n + 1 holds of every natural.
LEMMA NaturalSet ==
  ASSUME NEW S, 0 \in S, \A n \in Nat : n \in S => n + 1 \in S
  PROVE  Nat \subseteq S
  <1> SUFFICES ASSUME Nat \ S # {} PROVE FALSE
    OBVIOUS
  <1>1. PICK x \in Nat \ S : \A y \in Nat \ S : x <= y
    BY LeastNatural
  <1>2. x - 1 \in Nat /\ x - 1 < x /\ x = (x - 1) + 1
    BY <1>1
  <1>3. QED
    BY <1>1, <1>2

\* A set of naturals that is not empty and bounded has a greatest element.
LEMMA GreatestNatural ==
  ASSUME NEW T \in SUBSET Nat, T # {}, NEW b \in Nat, \A x \in T : x <= b
  PROVE  \E x \in T : \A y \in T : y <= x
  <1> DEFINE U == {n \in Nat : \A x \in T : x <= n}
  <1>1. b \in U /\ U \in SUBSET Nat
    OBVIOUS
  <1>2. PICK m \in U : \A n \in U : m <= n
    <2> HIDE DEF U
    <2>1. QED
      BY <1>1, LeastNatural
  <1>3. m \in T
    <2> SUFFICES ASSUME m \notin T PROVE FALSE
      OBVIOUS
    <2>1. PICK x \in T : TRUE
      OBVIOUS
    <2>2. \A y \in T : y <= m /\ y # m /\ y \in Nat
      BY <1>2
    <2>3. m - 1 \in Nat /\ m \in Nat
      BY <2>1, <2>2, <1>2
    <2>4. \A y \in T : y <= m - 1
      BY <2>2, <2>3
    <2>5. m - 1 \in U
      BY <2>3, <2>4
    <2> HIDE DEF U
    <2>6. m <= m - 1
      BY <1>2, <2>5
    <2>7. QED
      BY <2>3, <2>6
  <1>4. QED
    BY <1>2, <1>3

\* A recursion of N steps over a set T has a course.
Recursion(f, T, base, N, step) ==
  f \in [0..N -> T] /\ f[0] = base /\ \A i \in 1..N : f[i] = step[i][f[i - 1]]

LEMMA RecursionExists ==
  ASSUME NEW T, NEW base \in T, NEW N \in Nat, NEW step \in [1..N -> [T -> T]]
  PROVE  \E f : Recursion(f, T, base, N, step)
  <1> DEFINE Course(f, n) == f \in [0..n -> T] /\ f[0] = base /\ \A i \in 1..n : f[i] = step[i][f[i - 1]]
             S == {n \in Nat : n <= N => \E f : Course(f, n)}
  <1>1. 0 \in S
    <2> DEFINE f == [i \in 0..0 |-> base]
    <2>1. Course(f, 0)
      OBVIOUS
    <2>2. QED
      BY <2>1
  <1>2. ASSUME NEW n \in Nat, n \in S PROVE n + 1 \in S
    <2> SUFFICES ASSUME n + 1 <= N PROVE \E f : Course(f, n + 1)
      OBVIOUS
    <2>1. PICK f : Course(f, n)
      BY <1>2
    <2> DEFINE g == [i \in 0..(n + 1) |-> IF i = n + 1 THEN step[n + 1][f[n]] ELSE f[i]]
    <2>2. f[n] \in T /\ n + 1 \in 1..N
      BY <2>1
    <2>3. step[n + 1][f[n]] \in T
      BY <2>2
    <2>4. \A i \in 0..(n + 1) : i # n + 1 => i \in 0..n
      OBVIOUS
    <2>5. g \in [0..(n + 1) -> T]
      BY <2>1, <2>3, <2>4
    <2>6. g[0] = base
      BY <2>1
    <2>7. \A i \in 1..(n + 1) : g[i] = step[i][g[i - 1]]
      <3> SUFFICES ASSUME NEW i \in 1..(n + 1) PROVE g[i] = step[i][g[i - 1]]
        OBVIOUS
      <3>1. i - 1 \in 0..n /\ g[i - 1] = f[i - 1]
        OBVIOUS
      <3>2. CASE i = n + 1
        <4>1. g[i] = step[n + 1][f[n]] /\ i - 1 = n
          BY <3>2
        <4>2. QED
          BY <3>1, <3>2, <4>1
      <3>3. CASE i # n + 1
        <4>1. i \in 1..n /\ g[i] = f[i]
          BY <3>3
        <4>2. QED
          BY <2>1, <3>1, <4>1
      <3>4. QED
        BY <3>2, <3>3
    <2> HIDE DEF g
    <2>8. Course(g, n + 1)
      BY <2>5, <2>6, <2>7
    <2>9. QED
      BY <2>8
  <1>3. N \in S
    <2> HIDE DEF S
    <2>1. QED
      BY <1>1, <1>2, NaturalSet
  <1>4. QED
    BY <1>3 DEF Recursion

-----------------------------------------------------------------------------
\* What the parser has found so far.
FoundBoots == [opened : BOOLEAN, broken : BOOLEAN]
ParseStates == [within : BOOLEAN, opened : BOOLEAN, broken : BOOLEAN, boots : Seq(FoundBoots)]

LEMMA ParseLineTyped ==
  ASSUME NEW s \in ParseStates, NEW line \in LogLines
  PROVE  ParseLine(s, line) \in ParseStates
  <1> DEFINE opened == s.opened \/ "open" \in line
             broken == s.broken \/ "broken" \in line
             found == [opened |-> opened, broken |-> broken]
             boots == Append(s.boots, found)
  <1>1. opened \in BOOLEAN /\ broken \in BOOLEAN
    BY DEF ParseStates
  <1>2. found \in FoundBoots
    BY <1>1 DEF FoundBoots
  <1>3. boots \in Seq(FoundBoots) /\ s.boots \in Seq(FoundBoots)
    BY <1>2 DEF ParseStates
  <1>4. [NothingParsed EXCEPT !.within = TRUE, !.boots = s.boots] \in ParseStates
    BY <1>3 DEF ParseStates, NothingParsed
  <1>5. [NothingParsed EXCEPT !.boots = boots] \in ParseStates
    <2> HIDE DEF boots
    <2>1. QED
      BY <1>3 DEF ParseStates, NothingParsed
  <1>6. [s EXCEPT !.opened = opened, !.broken = broken] \in ParseStates
    <2> HIDE DEF opened, broken
    <2>1. QED
      BY <1>1 DEF ParseStates
  <1>7. \/ ParseLine(s, line) = [NothingParsed EXCEPT !.within = TRUE, !.boots = s.boots]
        \/ ParseLine(s, line) = s
        \/ ParseLine(s, line) = [NothingParsed EXCEPT !.boots = boots]
        \/ ParseLine(s, line) = [s EXCEPT !.opened = opened, !.broken = broken]
    BY DEF ParseLine
  <1>8. QED
    BY <1>4, <1>5, <1>6, <1>7

\* A course of the parser over a log.
ParseCourse(log, f) ==
  /\ f \in [0..Len(log) -> ParseStates]
  /\ f[0] = NothingParsed
  /\ \A n \in 1..Len(log) : f[n] = ParseLine(f[n - 1], log[n])

LEMMA ParsedCourse ==
  ASSUME NEW log \in Seq(LogLines)
  PROVE  \E f : ParseCourse(log, f) /\ Parsed(log) = f[Len(log)]
  <1> DEFINE N == Len(log)
             step == [n \in 1..N |-> [s \in ParseStates |-> ParseLine(s, log[n])]]
             Eq(f) == f = [n \in 0..N |-> IF n = 0 THEN NothingParsed ELSE ParseLine(f[n - 1], log[n])]
  <1>1. N \in Nat /\ \A n \in 1..N : log[n] \in LogLines
    OBVIOUS
  <1>2. NothingParsed \in ParseStates
    BY EmptySeq DEF NothingParsed, ParseStates
  <1>3. step \in [1..N -> [ParseStates -> ParseStates]]
    BY <1>1, ParseLineTyped
  <1>4. PICK f \in [0..N -> ParseStates] : f[0] = NothingParsed /\ \A n \in 1..N : f[n] = step[n][f[n - 1]]
    <2>1. \E f : Recursion(f, ParseStates, NothingParsed, N, step)
      <3> HIDE DEF N, step
      <3>1. QED
        BY <1>1, <1>2, <1>3, RecursionExists
    <2>2. QED
      BY <2>1 DEF Recursion
  <1>5. \A n \in 1..N : f[n - 1] \in ParseStates
    BY <1>1, <1>4
  <1>6. \A n \in 1..N : f[n] = ParseLine(f[n - 1], log[n])
    BY <1>4, <1>5
  <1>7. Eq(f)
    <2>1. \A n \in 0..N : n # 0 => n \in 1..N
      BY <1>1
    <2> DEFINE g == [n \in 0..N |-> IF n = 0 THEN NothingParsed ELSE ParseLine(f[n - 1], log[n])]
    <2>2. \A n \in 0..N : g[n] = f[n]
      <3> HIDE DEF step, N
      <3>1. QED
        BY <1>4, <1>6, <2>1
    <2>3. f = g
      <3>1. f = [n \in 0..N |-> f[n]] /\ g = [n \in 0..N |-> g[n]]
        BY <1>4
      <3> HIDE DEF step, N, g
      <3>2. QED
        BY <2>2, <3>1
    <2>4. QED
      BY <2>3
  <1>8. PICK h : h = (CHOOSE x : Eq(x))
    OBVIOUS
  <1>9. Eq(h)
    <2> HIDE DEF Eq
    <2>1. QED
      BY <1>7, <1>8
  <1>10. Parsed(log) = h[Len(log)]
    BY <1>8 DEF Parsed
  <1>11. h[0] = NothingParsed /\ \A n \in 1..N : h[n] = ParseLine(h[n - 1], log[n])
    <2>1. 0 \in 0..N /\ \A n \in 1..N : n \in 0..N /\ n # 0
      BY <1>1
    <2> HIDE DEF N
    <2>2. QED
      BY <1>9, <2>1
  <1>12. \A n \in 0..N : h[n] = f[n]
    <2> DEFINE S == {n \in Nat : n <= N => h[n] = f[n]}
    <2>1. 0 \in S
      BY <1>4, <1>11
    <2>2. ASSUME NEW n \in Nat, n \in S PROVE n + 1 \in S
      <3>1. CASE n + 1 <= N
        <4>1. n + 1 \in 1..N /\ (n + 1) - 1 = n /\ h[n] = f[n]
          BY <1>1, <2>2, <3>1
        <4>2. h[n + 1] = ParseLine(h[n], log[n + 1]) /\ f[n + 1] = ParseLine(f[n], log[n + 1])
          <5> HIDE DEF N, S, step
          <5>1. QED
            BY <1>6, <1>11, <4>1
        <4>3. QED
          BY <4>1, <4>2
      <3>2. QED
        BY <3>1
    <2>3. Nat \subseteq S
      <3> HIDE DEF S
      <3>1. QED
        BY <2>1, <2>2, NaturalSet
    <2>4. QED
      BY <2>3, <1>1
  <1>13. N \in 0..N
    BY <1>1
  <1>14. ParseCourse(log, f)
    BY <1>4, <1>6 DEF ParseCourse
  <1>15. QED
    BY <1>10, <1>12, <1>13, <1>14

LEMMA ParsedTyped ==
  ASSUME NEW log \in Seq(LogLines)
  PROVE  Parsed(log) \in ParseStates
  <1>1. PICK f : ParseCourse(log, f) /\ Parsed(log) = f[Len(log)]
    BY ParsedCourse
  <1>2. Len(log) \in 0..Len(log)
    OBVIOUS
  <1>3. QED
    BY <1>1, <1>2 DEF ParseCourse

LEMMA ParsedEmpty == Parsed(<<>>) = NothingParsed
  <1>1. <<>> \in Seq(LogLines) /\ Len(<<>>) = 0
    BY EmptySeq
  <1>2. PICK f : ParseCourse(<<>>, f) /\ Parsed(<<>>) = f[Len(<<>>)]
    BY <1>1, ParsedCourse
  <1>3. QED
    BY <1>1, <1>2 DEF ParseCourse

\* The parser goes on with one line where it was.
LEMMA ParsedAppend ==
  ASSUME NEW log \in Seq(LogLines), NEW line \in LogLines
  PROVE  Parsed(Append(log, line)) = ParseLine(Parsed(log), line)
  <1> DEFINE longer == Append(log, line)
             N == Len(log)
  <1>1. longer \in Seq(LogLines) /\ Len(longer) = N + 1 /\ N \in Nat /\ longer[N + 1] = line
        /\ \A n \in 1..N : longer[n] = log[n]
    OBVIOUS
  <1> HIDE DEF longer
  <1>2. PICK f : ParseCourse(log, f) /\ Parsed(log) = f[N]
    BY ParsedCourse
  <1>3. PICK g : ParseCourse(longer, g) /\ Parsed(longer) = g[N + 1]
    BY <1>1, ParsedCourse
  <1>4. \A n \in 1..N : f[n] = ParseLine(f[n - 1], log[n])
    BY <1>2 DEF ParseCourse
  <1>5. \A n \in 1..(N + 1) : g[n] = ParseLine(g[n - 1], longer[n])
    BY <1>1, <1>3 DEF ParseCourse
  <1>6. f[0] = g[0]
    BY <1>2, <1>3 DEF ParseCourse
  <1> DEFINE S == {n \in Nat : n <= N => f[n] = g[n]}
  <1>7. 0 \in S
    BY <1>6
  <1>8. ASSUME NEW n \in Nat, n \in S PROVE n + 1 \in S
    <2>1. CASE n + 1 <= N
      <3>1. n + 1 \in 1..N /\ n + 1 \in 1..(N + 1) /\ (n + 1) - 1 = n /\ f[n] = g[n]
        BY <1>1, <1>8, <2>1
      <3>2. f[n + 1] = ParseLine(f[n], log[n + 1]) /\ g[n + 1] = ParseLine(g[n], longer[n + 1])
        <4> HIDE DEF N, S
        <4>1. QED
          BY <1>4, <1>5, <3>1
      <3>3. QED
        BY <1>1, <3>1, <3>2
    <2>2. QED
      BY <2>1
  <1>9. Nat \subseteq S
    <2> HIDE DEF S
    <2>1. QED
      BY <1>7, <1>8, NaturalSet
  <1>10. f[N] = g[N] /\ N + 1 \in 1..(N + 1) /\ (N + 1) - 1 = N
    BY <1>1, <1>9
  <1>11. g[N + 1] = ParseLine(g[N], line)
    <2> HIDE DEF N, S
    <2>1. QED
      BY <1>1, <1>5, <1>10
  <1>12. QED
    BY <1>2, <1>3, <1>10, <1>11 DEF longer

-----------------------------------------------------------------------------
\* The log, the boots that the game really made, and the parser that follows them.
GameBoots == [opened : BOOLEAN, broken : BOOLEAN, done : BOOLEAN]
BootLogs == [topic : {"boot log"}, log : Seq(LogLines), boots : Seq(GameBoots), written : Nat, readable : BOOLEAN]

LastDone(boots, i) == i \in DOMAIN boots /\ boots[i].done /\ \A j \in DOMAIN boots : boots[j].done => j <= i

LEMMA LatestIsOne ==
  ASSUME NEW S, NEW q \in Seq(S), q # <<>>
  PROVE  Latest(q) \in S
  <1>1. Len(q) \in 1..Len(q)
    OBVIOUS
  <1>2. QED
    BY <1>1 DEF Latest

\* The last boot that was found is the last one that the game completed.
FoundLast(found, boots) ==
  found # <<>> =>
    \E i : LastDone(boots, i) /\ Latest(found).opened = boots[i].opened /\ Latest(found).broken = boots[i].broken

ParserFollows(s, boots) ==
  /\ s.within <=> boots # <<>> /\ ~Latest(boots).done
  /\ s.within => s.opened = Latest(boots).opened /\ s.broken = Latest(boots).broken
  /\ FoundLast(s.boots, boots)

LEMMA FollowsStart ==
  ASSUME NEW s \in ParseStates, NEW boots \in Seq(GameBoots), NEW line \in LogLines, "start" \in line,
         FoundLast(s.boots, boots)
  PROVE  /\ BootsAfter(boots, line) \in Seq(GameBoots)
         /\ ParserFollows(ParseLine(s, line), BootsAfter(boots, line))
  <1> DEFINE after == Append(boots, NewBoot)
             found == s.boots
             n == Len(boots)
  <1>1. BootsAfter(boots, line) = after /\ ParseLine(s, line) = [NothingParsed EXCEPT !.within = TRUE, !.boots = found]
    BY DEF BootsAfter, ParseLine
  <1>2. NewBoot \in GameBoots /\ NewBoot.done = FALSE /\ NewBoot.opened = FALSE /\ NewBoot.broken = FALSE
    BY DEF NewBoot, GameBoots
  <1>3. /\ n \in Nat /\ after \in Seq(GameBoots) /\ Len(after) = n + 1 /\ DOMAIN after = 1..(n + 1) /\ after # <<>>
        /\ after[n + 1] = NewBoot /\ DOMAIN boots = 1..n /\ \A i \in 1..n : after[i] = boots[i]
    BY <1>2
  <1> HIDE DEF after, n
  <1>4. FoundLast(found, after)
    <2> SUFFICES ASSUME found # <<>>
                 PROVE  \E i : LastDone(after, i) /\ Latest(found).opened = after[i].opened /\ Latest(found).broken = after[i].broken
      BY DEF FoundLast
    <2>1. PICK i : LastDone(boots, i) /\ Latest(found).opened = boots[i].opened /\ Latest(found).broken = boots[i].broken
      BY DEF FoundLast
    <2>2. i \in 1..n /\ after[i] = boots[i] /\ boots[i].done /\ \A j \in 1..n : boots[j].done => j <= i
      BY <1>3, <2>1 DEF LastDone
    <2>3. \A j \in 1..(n + 1) : after[j].done => j <= i
      BY <1>2, <1>3, <2>2
    <2>4. i \in 1..(n + 1)
      BY <1>3, <2>2
    <2>5. LastDone(after, i)
      BY <1>3, <2>2, <2>3, <2>4 DEF LastDone
    <2>6. QED
      BY <2>1, <2>2, <2>5
  <1> DEFINE t == [NothingParsed EXCEPT !.within = TRUE, !.boots = found]
  <1>5. t.within /\ t.opened = FALSE /\ t.broken = FALSE /\ t.boots = found
    BY DEF NothingParsed
  <1>6. Latest(after) = NewBoot
    BY <1>3 DEF Latest
  <1> HIDE DEF t, found
  <1>7. ParserFollows(t, after)
    BY <1>2, <1>3, <1>4, <1>5, <1>6 DEF ParserFollows
  <1>8. QED
    BY <1>1, <1>3, <1>7 DEF t

LEMMA FollowsLine ==
  ASSUME NEW s \in ParseStates, NEW boots \in Seq(GameBoots), NEW line \in LogLines, "start" \notin line,
         ParserFollows(s, boots)
  PROVE  /\ BootsAfter(boots, line) \in Seq(GameBoots)
         /\ ParserFollows(ParseLine(s, line), BootsAfter(boots, line))
  <1>1. CASE ~s.within
    <2>1. BootsAfter(boots, line) = boots /\ ParseLine(s, line) = s
      BY <1>1 DEF BootsAfter, ParseLine, ParserFollows, ParseStates
    <2>2. QED
      BY <2>1
  <1>2. CASE s.within
    <2> DEFINE n == Len(boots)
               opened == s.opened \/ "open" \in line
               broken == s.broken \/ "broken" \in line
               done == "complete" \in line
               boot == [opened |-> opened, broken |-> broken, done |-> done]
               after == [boots EXCEPT ![n] = boot]
    <2>1. boots # <<>> /\ ~boots[n].done /\ s.opened = boots[n].opened /\ s.broken = boots[n].broken
      BY <1>2 DEF ParserFollows, Latest
    <2>2. BootsAfter(boots, line) = after
      BY <2>1 DEF BootsAfter, Latest
    <2>3. opened \in BOOLEAN /\ broken \in BOOLEAN /\ done \in BOOLEAN
      BY DEF ParseStates
    <2> HIDE DEF opened, broken, done
    <2>4. boot \in GameBoots /\ boot.opened = opened /\ boot.broken = broken /\ (boot.done <=> done)
      BY <2>3 DEF GameBoots
    <2> HIDE DEF boot
    <2>5. n \in Nat /\ n # 0 /\ DOMAIN boots = 1..n
      BY <2>1, EmptySeq
    <2>6. /\ after \in Seq(GameBoots) /\ Len(after) = n /\ DOMAIN after = 1..n /\ after # <<>> /\ after[n] = boot
          /\ \A i \in 1..n : i # n => after[i] = boots[i]
      BY <2>4, <2>5, EmptySeq
    <2>7. Latest(after) = boot
      BY <2>6 DEF Latest
    <2> HIDE DEF after, n
    <2>8. CASE done
      <3> DEFINE b == [opened |-> opened, broken |-> broken]
                 found == Append(s.boots, b)
                 t == [NothingParsed EXCEPT !.boots = found]
      <3>1. ParseLine(s, line) = t
        BY <1>2, <2>8 DEF ParseLine, opened, broken, done
      <3>2. s.boots \in Seq(FoundBoots) /\ b \in FoundBoots /\ b.opened = opened /\ b.broken = broken
        BY <2>3 DEF ParseStates, FoundBoots
      <3> HIDE DEF b
      <3>3. Latest(found) = b
        BY <3>2 DEF Latest
      <3>4. ~t.within /\ t.boots = found
        BY DEF NothingParsed
      <3> HIDE DEF found, t
      <3>5. LastDone(after, n)
        <4>1. n \in 1..n /\ after[n].done /\ \A j \in 1..n : j <= n
          BY <2>4, <2>5, <2>6, <2>8
        <4>2. QED
          BY <2>6, <4>1 DEF LastDone
      <3>6. FoundLast(found, after)
        BY <2>4, <2>6, <3>2, <3>3, <3>5 DEF FoundLast
      <3>7. ParserFollows(t, after)
        BY <2>4, <2>7, <2>8, <3>4, <3>6 DEF ParserFollows
      <3>8. QED
        BY <2>2, <2>6, <3>1, <3>7
    <2>9. CASE ~done
      <3> DEFINE t == [s EXCEPT !.opened = opened, !.broken = broken]
      <3>1. ParseLine(s, line) = t
        BY <1>2, <2>9 DEF ParseLine, opened, broken, done
      <3>2. t.within /\ t.boots = s.boots /\ t.opened = opened /\ t.broken = broken
        BY <1>2, <2>3 DEF ParseStates
      <3> HIDE DEF t
      <3>3. FoundLast(s.boots, after)
        <4> SUFFICES ASSUME s.boots # <<>>
                     PROVE  \E i : LastDone(after, i) /\ Latest(s.boots).opened = after[i].opened
                                   /\ Latest(s.boots).broken = after[i].broken
          BY DEF FoundLast
        <4>1. PICK i : LastDone(boots, i) /\ Latest(s.boots).opened = boots[i].opened /\ Latest(s.boots).broken = boots[i].broken
          BY DEF ParserFollows, FoundLast
        <4>2. i \in 1..n /\ boots[i].done /\ (\A j \in 1..n : boots[j].done => j <= i) /\ i # n
          BY <2>1, <2>5, <4>1 DEF LastDone
        <4>3. after[i] = boots[i] /\ \A j \in 1..n : after[j].done => j <= i
          BY <2>4, <2>6, <2>9, <4>2
        <4>4. LastDone(after, i)
          BY <2>6, <4>2, <4>3 DEF LastDone
        <4>5. QED
          BY <4>1, <4>3, <4>4
      <3>4. ParserFollows(t, after)
        BY <2>4, <2>6, <2>7, <2>9, <3>2, <3>3 DEF ParserFollows
      <3>5. QED
        BY <2>2, <2>6, <3>1, <3>4
    <2>10. QED
      BY <2>8, <2>9
  <1>3. QED
    BY <1>1, <1>2 DEF ParseStates

BootLogHolds(f) == ParserFollows(Parsed(f.log), f.boots)

\* A line is written to a log that the parser has followed so far.
LEMMA WritesLine ==
  ASSUME facts \in BootLogs, NEW log \in Seq(LogLines), NEW line \in LogLines,
         \/ log = facts.log /\ BootLogHolds(facts)
         \/ log = <<>> /\ "start" \in line,
         facts' = LogWritten(facts, line, log)
  PROVE  facts' \in BootLogs /\ BootLogHolds(facts')
  <1> DEFINE longer == Append(log, line)
             boots == BootsAfter(facts.boots, line)
  <1>1. facts.boots \in Seq(GameBoots) /\ facts.written + 1 \in Nat /\ Parsed(log) \in ParseStates
    <2>1. Parsed(log) \in ParseStates
      BY ParsedTyped
    <2>2. facts.boots \in Seq(GameBoots) /\ facts.written \in Nat
      BY DEF BootLogs
    <2>3. QED
      BY <2>1, <2>2
  <1>2. boots \in Seq(GameBoots) /\ ParserFollows(ParseLine(Parsed(log), line), boots)
    <2>1. CASE log = <<>> /\ "start" \in line
      <3>1. FoundLast(Parsed(log).boots, facts.boots)
        BY <2>1, ParsedEmpty DEF FoundLast, NothingParsed
      <3>2. QED
        BY <1>1, <2>1, <3>1, FollowsStart
    <2>2. CASE log = facts.log /\ BootLogHolds(facts)
      <3>1. ParserFollows(Parsed(log), facts.boots)
        BY <2>2 DEF BootLogHolds
      <3>2. FoundLast(Parsed(log).boots, facts.boots)
        BY <3>1 DEF ParserFollows
      <3>3. QED
        BY <1>1, <3>1, <3>2, FollowsStart, FollowsLine
    <2>3. QED
      BY <2>1, <2>2
  <1>3. longer \in Seq(LogLines) /\ Parsed(longer) = ParseLine(Parsed(log), line)
    BY ParsedAppend
  <1>4. PICK n \in Nat : facts' = [facts EXCEPT !.log = longer, !.boots = boots, !.written = n]
    <2>1. facts' = [facts EXCEPT !.log = longer, !.boots = boots, !.written = facts.written + 1]
      BY DEF LogWritten
    <2> HIDE DEF longer, boots
    <2>2. QED
      BY <1>1, <2>1
  <1> HIDE DEF longer, boots
  <1>5. facts' \in BootLogs
    BY <1>2, <1>3, <1>4 DEF BootLogs
  <1>6. facts'.log = longer /\ facts'.boots = boots
    BY <1>4 DEF BootLogs
  <1>7. QED
    BY <1>2, <1>3, <1>5, <1>6 DEF BootLogHolds

LEMMA MoreOrNot == \A m, n \in Nat : m > n \/ m <= n
  OBVIOUS

LEMMA BootConclusionHolds ==
  ASSUME About("boot log") => facts \in BootLogs /\ BootLogHolds(facts)
  PROVE  BootConclusionTrue
  <1> SUFFICES ASSUME facts \in BootLogs, BootLogHolds(facts), BootReceipt(facts)[1] \in {"confirmed", "not_observed"}
               PROVE  \E i \in DOMAIN facts.boots :
                        /\ facts.boots[i].done /\ \A j \in DOMAIN facts.boots : facts.boots[j].done => j <= i
                        /\ BootReceipt(facts)[1] = "confirmed" => facts.boots[i].opened /\ ~facts.boots[i].broken
                        /\ BootReceipt(facts)[1] = "not_observed" => ~facts.boots[i].opened
    BY DEF BootConclusionTrue
  <1> DEFINE found == Parsed(facts.log).boots
             last == Latest(found)
  <1>1. found \in Seq(FoundBoots) /\ facts.readable \in BOOLEAN /\ Len(facts.log) \in Nat
    <2>1. facts.log \in Seq(LogLines) /\ facts.readable \in BOOLEAN
      BY DEF BootLogs
    <2>2. Parsed(facts.log) \in ParseStates
      BY <2>1, ParsedTyped
    <2>3. found \in Seq(FoundBoots)
      BY <2>2 DEF ParseStates
    <2>4. QED
      BY <2>1, <2>3, LenProperties
  <1>2. found # <<>> => last.opened \in BOOLEAN /\ last.broken \in BOOLEAN
    <2> SUFFICES ASSUME found # <<>> PROVE last \in FoundBoots
      BY DEF FoundBoots
    <2> HIDE DEF found
    <2>1. QED
      BY <1>1, LatestIsOne
  <1> DEFINE receipt == BootReceipt(facts)
  <1>3. /\ ~facts.readable => receipt[1] = "incomplete"
        /\ facts.readable /\ Len(facts.log) > MaxLogLines => receipt[1] = "incomplete"
        /\ facts.readable /\ Len(facts.log) <= MaxLogLines /\ found = <<>> => receipt[1] = "incomplete"
    <2>1. CASE ~facts.readable
      BY <2>1 DEF BootReceipt
    <2>2. CASE facts.readable /\ Len(facts.log) > MaxLogLines
      BY <2>2, <1>1, ActiveAssumption DEF BootReceipt
    <2>3. CASE facts.readable /\ Len(facts.log) <= MaxLogLines /\ found = <<>>
      BY <2>3, <1>1, ActiveAssumption DEF BootReceipt, ParseBoots
    <2>4. QED
      BY <2>1, <2>2, <2>3, <1>1, ActiveAssumption
  <1>4. facts.readable /\ Len(facts.log) <= MaxLogLines /\ found # <<>>
    <2>1. receipt[1] # "incomplete"
      OBVIOUS
    <2>2. Len(facts.log) > MaxLogLines \/ Len(facts.log) <= MaxLogLines
      <3>1. MaxLogLines \in Nat
        BY ActiveAssumption
      <3>2. Len(facts.log) \in Nat
        BY <1>1
      <3>3. QED
        BY <3>1, <3>2, MoreOrNot
    <2> HIDE DEF receipt, found
    <2>3. QED
      BY <1>1, <1>3, <2>1, <2>2
  <1>5. receipt = CASE last.broken -> <<"incomplete", "PAK_OPEN_CAPTURE_INVALID">>
                    [] ~last.broken /\ last.opened -> <<"confirmed", "none">>
                    [] OTHER -> <<"not_observed", "EXACT_PAK_OPEN_NOT_OBSERVED">>
    BY <1>1, <1>4, ActiveAssumption DEF BootReceipt, ParseBoots
  <1> HIDE DEF found, last
  <1>6. /\ receipt[1] = "confirmed" => last.opened /\ ~last.broken
        /\ receipt[1] = "not_observed" => ~last.opened
    <2> HIDE DEF receipt
    <2>1. CASE last.broken
      BY <2>1, <1>5
    <2>2. CASE ~last.broken /\ last.opened
      BY <2>2, <1>5
    <2>3. CASE ~last.broken /\ ~last.opened
      BY <2>3, <1>5
    <2>4. QED
      BY <1>2, <1>4, <2>1, <2>2, <2>3
  <1>7. PICK i : LastDone(facts.boots, i) /\ last.opened = facts.boots[i].opened /\ last.broken = facts.boots[i].broken
    BY <1>4 DEF BootLogHolds, ParserFollows, FoundLast, found, last
  <1>8. QED
    BY <1>6, <1>7 DEF LastDone

-----------------------------------------------------------------------------
\* The portfolio: mods and order have one of two values.
Bits == {0, 1}
WorldBoots == [mods : Bits, order : Bits, done : BOOLEAN]
SeenBoots == [seen : {TRUE}, number : Nat, complete : BOOLEAN, mods : Bits, order : Bits]

Actives ==
  [topic : {"active"}, mods : Bits, order : Bits, indexed : BOOLEAN, index : Bits, boots : Seq(WorldBoots), changes : Nat,
   snapshot : {Unseen} \cup [seen : {TRUE}, id : Bits, current : BOOLEAN],
   modOrder : {Unseen} \cup [seen : {TRUE}, order : Bits, snapshot : Bits],
   latestBoot : {Unseen} \cup SeenBoots,
   installed : {Unseen} \cup [seen : {TRUE}, indexed : BOOLEAN, snapshot : Bits, current : BOOLEAN, boot : Nat],
   sessions : [PortfolioProjects -> {Unseen} \cup [seen : {TRUE}, boot : Nat, mods : Bits, order : Bits]],
   inventory : {"complete", "partial", "undeclared"}]

\* The boot that was read as the latest is one that was completed, as it was.
BootSeen(seen, boots) ==
  seen.seen /\ seen.complete =>
    /\ seen.number \in DOMAIN boots /\ boots[seen.number].done
    /\ seen.mods = boots[seen.number].mods /\ seen.order = boots[seen.number].order

ActiveHolds(f) == BootSeen(f.latestBoot, f.boots)

LEMMA LastCompleteIsOne ==
  ASSUME facts \in Actives
  PROVE  /\ LastComplete(facts) \in Nat
         /\ LastComplete(facts) # 0 => LastComplete(facts) \in DOMAIN facts.boots /\ facts.boots[LastComplete(facts)].done
  <1> DEFINE complete == {i \in DOMAIN facts.boots : facts.boots[i].done}
             Greatest(i) == i \in complete /\ \A j \in complete : j <= i
  <1>1. DOMAIN facts.boots = 1..Len(facts.boots) /\ Len(facts.boots) \in Nat
    <2>1. facts.boots \in Seq(WorldBoots)
      BY DEF Actives
    <2>2. QED
      BY <2>1, LenProperties
  <1>2. CASE complete = {}
    BY <1>2 DEF LastComplete
  <1>3. CASE complete # {}
    <2>1. complete \in SUBSET Nat /\ \A x \in complete : x <= Len(facts.boots)
      BY <1>1
    <2>2. \E i \in complete : \A j \in complete : j <= i
      <3> HIDE DEF complete
      <3>1. QED
        BY <1>1, <1>3, <2>1, GreatestNatural
    <2>3. LastComplete(facts) = CHOOSE i \in complete : \A j \in complete : j <= i
      BY <1>3 DEF LastComplete
    <2>4. LastComplete(facts) \in complete
      <3> HIDE DEF complete
      <3>1. QED
        BY <2>2, <2>3
    <2>5. QED
      BY <2>1, <2>4
  <1>4. QED
    BY <1>2, <1>3

\* The mods, the order, the index or the boots change.
LEMMA WorldSteps ==
  ASSUME facts \in Actives, ActiveHolds(facts),
         \/ facts' = [Changes(facts) EXCEPT !.mods = 1 - @]
         \/ facts' = [Changes(facts) EXCEPT !.order = 1 - @]
         \/ facts' = [Changes(facts) EXCEPT !.indexed = TRUE, !.index = facts.mods]
         \/ \E d \in BOOLEAN :
              facts' = [Changes(facts) EXCEPT !.boots = Append(@, [mods |-> facts.mods, order |-> facts.order, done |-> d])]
  PROVE  facts' \in Actives /\ ActiveHolds(facts')
  <1> DEFINE f == Changes(facts)
  <1>1. f \in Actives /\ f.boots = facts.boots /\ f.latestBoot = facts.latestBoot /\ f.mods = facts.mods /\ f.order = facts.order
    <2>1. facts.changes \in Nat
      BY DEF Actives
    <2>2. PICK n \in Nat : f = [facts EXCEPT !.changes = n]
      <3>1. facts.changes + 1 \in Nat
        BY <2>1
      <3>2. f = [facts EXCEPT !.changes = facts.changes + 1]
        BY DEF Changes
      <3> QED
        BY <3>1, <3>2
    <2> HIDE DEF f
    <2>3. f \in Actives
      BY <2>2 DEF Actives
    <2>4. QED
      BY <2>2, <2>3 DEF Actives
  <1>2. ActiveHolds(f)
    BY <1>1 DEF ActiveHolds
  <1> HIDE DEF f
  <1>3. \A b \in Bits : 1 - b \in Bits
    BY DEF Bits
  <1>4. CASE \/ facts' = [f EXCEPT !.mods = 1 - @]
             \/ facts' = [f EXCEPT !.order = 1 - @]
             \/ facts' = [f EXCEPT !.indexed = TRUE, !.index = facts.mods]
    <2>1. f.mods \in Bits /\ f.order \in Bits /\ 1 - f.mods \in Bits /\ 1 - f.order \in Bits
      BY <1>1, <1>3 DEF Actives
    <2>2. SUFFICES facts' \in Actives /\ facts'.boots = f.boots /\ facts'.latestBoot = f.latestBoot
      BY <1>2 DEF ActiveHolds
    <2>3. CASE facts' = [f EXCEPT !.mods = 1 - @]
      <3>1. PICK m \in Bits : facts' = [f EXCEPT !.mods = m]
        BY <2>1, <2>3
      <3>2. QED
        BY <1>1, <3>1 DEF Actives
    <2>4. CASE facts' = [f EXCEPT !.order = 1 - @]
      <3>1. PICK o \in Bits : facts' = [f EXCEPT !.order = o]
        BY <2>1, <2>4
      <3>2. QED
        BY <1>1, <3>1 DEF Actives
    <2>5. CASE facts' = [f EXCEPT !.indexed = TRUE, !.index = facts.mods]
      <3>1. PICK i \in Bits : facts' = [f EXCEPT !.indexed = TRUE, !.index = i]
        BY <1>1, <2>1, <2>5
      <3>2. QED
        BY <1>1, <3>1 DEF Actives
    <2>6. QED
      BY <1>4, <2>3, <2>4, <2>5
  <1>5. ASSUME NEW d \in BOOLEAN,
               facts' = [f EXCEPT !.boots = Append(@, [mods |-> facts.mods, order |-> facts.order, done |-> d])]
        PROVE  facts' \in Actives /\ ActiveHolds(facts')
    <2> DEFINE b == [mods |-> facts.mods, order |-> facts.order, done |-> d]
               boots == Append(f.boots, b)
    <2>1. b \in WorldBoots
      BY DEF WorldBoots, Actives
    <2>2. f.boots \in Seq(WorldBoots)
      BY <1>1 DEF Actives
    <2> HIDE DEF b
    <2>3. boots \in Seq(WorldBoots) /\ \A i \in DOMAIN f.boots : i \in DOMAIN boots /\ boots[i] = f.boots[i]
      BY <2>1, <2>2
    <2>4. facts' = [f EXCEPT !.boots = boots]
      BY <1>5 DEF b
    <2> HIDE DEF boots
    <2>5. facts' \in Actives
      BY <1>1, <2>3, <2>4 DEF Actives
    <2>6. facts'.boots = boots /\ facts'.latestBoot = f.latestBoot
      BY <1>1, <2>4 DEF Actives
    <2>7. QED
      BY <1>2, <2>3, <2>5, <2>6 DEF ActiveHolds, BootSeen
  <1>6. QED
    BY <1>4, <1>5 DEF f

\* The snapshot, the load order, the index and a session are looked at.
LEMMA GatherSteps ==
  ASSUME facts \in Actives, ActiveHolds(facts),
         \/ facts' = [facts EXCEPT !.snapshot = [seen |-> TRUE, id |-> facts.index, current |-> facts.index = facts.mods]]
         \/ facts' = [facts EXCEPT !.modOrder = [seen |-> TRUE, order |-> facts.order, snapshot |-> facts.index]]
         \/ facts' = [facts EXCEPT !.installed = [seen |-> TRUE, indexed |-> facts.indexed, snapshot |-> facts.index,
                                                  current |-> facts.index = facts.mods, boot |-> LastComplete(facts)]]
         \/ \E p \in PortfolioProjects :
              facts' = [facts EXCEPT !.sessions[p] =
                         [seen |-> TRUE, boot |-> Len(facts.boots), mods |-> facts.mods, order |-> facts.order]]
  PROVE  facts' \in Actives /\ ActiveHolds(facts')
  <1>1. /\ facts.mods \in Bits /\ facts.order \in Bits /\ facts.index \in Bits /\ facts.indexed \in BOOLEAN
        /\ facts.boots \in Seq(WorldBoots)
    BY DEF Actives
  <1>2. LastComplete(facts) \in Nat /\ Len(facts.boots) \in Nat
    BY <1>1, LastCompleteIsOne, LenProperties
  <1>3. SUFFICES facts' \in Actives /\ facts'.boots = facts.boots /\ facts'.latestBoot = facts.latestBoot
    BY DEF ActiveHolds
  <1>4. CASE facts' = [facts EXCEPT !.snapshot = [seen |-> TRUE, id |-> facts.index, current |-> facts.index = facts.mods]]
    <2>1. PICK v \in [seen : {TRUE}, id : Bits, current : BOOLEAN] : facts' = [facts EXCEPT !.snapshot = v]
      BY <1>1, <1>4
    <2>2. QED
      BY <2>1 DEF Actives
  <1>5. CASE facts' = [facts EXCEPT !.modOrder = [seen |-> TRUE, order |-> facts.order, snapshot |-> facts.index]]
    <2>1. PICK v \in [seen : {TRUE}, order : Bits, snapshot : Bits] : facts' = [facts EXCEPT !.modOrder = v]
      BY <1>1, <1>5
    <2>2. QED
      BY <2>1 DEF Actives
  <1>6. CASE facts' = [facts EXCEPT !.installed = [seen |-> TRUE, indexed |-> facts.indexed, snapshot |-> facts.index,
                                                   current |-> facts.index = facts.mods, boot |-> LastComplete(facts)]]
    <2>1. PICK v \in [seen : {TRUE}, indexed : BOOLEAN, snapshot : Bits, current : BOOLEAN, boot : Nat] :
            facts' = [facts EXCEPT !.installed = v]
      BY <1>1, <1>2, <1>6
    <2>2. QED
      BY <2>1 DEF Actives
  <1>7. ASSUME NEW p \in PortfolioProjects,
               facts' = [facts EXCEPT !.sessions[p] =
                          [seen |-> TRUE, boot |-> Len(facts.boots), mods |-> facts.mods, order |-> facts.order]]
        PROVE  facts' \in Actives /\ facts'.boots = facts.boots /\ facts'.latestBoot = facts.latestBoot
    <2> DEFINE V == {Unseen} \cup [seen : {TRUE}, boot : Nat, mods : Bits, order : Bits]
    <2>1. PICK v \in V : facts' = [facts EXCEPT !.sessions[p] = v]
      BY <1>1, <1>2, <1>7
    <2> DEFINE sessions == [facts.sessions EXCEPT ![p] = v]
    <2>2. facts.sessions \in [PortfolioProjects -> V]
      BY DEF Actives
    <2> HIDE DEF V
    <2>3. sessions \in [PortfolioProjects -> V] /\ facts' = [facts EXCEPT !.sessions = sessions]
      BY <2>1, <2>2
    <2> HIDE DEF sessions
    <2>4. QED
      BY <2>3 DEF Actives, V
  <1>8. QED
    BY <1>4, <1>5, <1>6, <1>7

LEMMA LatestBootStep ==
  ASSUME facts \in Actives, facts' = [facts EXCEPT !.latestBoot = SeenBoot(facts)]
  PROVE  facts' \in Actives /\ ActiveHolds(facts')
  <1> DEFINE n == LastComplete(facts)
             seen == SeenBoot(facts)
  <1>1. n \in Nat /\ (n # 0 => n \in DOMAIN facts.boots /\ facts.boots[n].done)
    BY LastCompleteIsOne
  <1>2. /\ seen.seen /\ seen.number = n /\ (seen.complete <=> n # 0)
        /\ n # 0 => seen.mods = facts.boots[n].mods /\ seen.order = facts.boots[n].order
    <2> HIDE DEF n
    <2>1. QED
      BY DEF SeenBoot, n
  <1>3. seen \in SeenBoots
    <2>1. facts.boots \in Seq(WorldBoots) /\ facts.mods \in Bits /\ facts.order \in Bits
      BY DEF Actives
    <2>2. n # 0 => facts.boots[n].mods \in Bits /\ facts.boots[n].order \in Bits
      <3> HIDE DEF n
      <3>1. \A i \in DOMAIN facts.boots : facts.boots[i] \in WorldBoots
        <4> DEFINE bs == facts.boots
        <4>0. bs \in Seq(WorldBoots)
          BY <2>1
        <4> HIDE DEF bs
        <4>1. \A i \in DOMAIN bs : bs[i] \in WorldBoots
          BY <4>0
        <4>2. QED
          BY <4>1 DEF bs
      <3>2. n # 0 => facts.boots[n] \in WorldBoots
        BY <1>1, <3>1
      <3>3. QED
        BY <3>2 DEF WorldBoots
    <2>3. seen = [seen |-> TRUE, number |-> n, complete |-> n # 0,
                  mods |-> IF n = 0 THEN facts.mods ELSE facts.boots[n].mods,
                  order |-> IF n = 0 THEN facts.order ELSE facts.boots[n].order]
      BY DEF SeenBoot
    <2> HIDE DEF n, seen
    <2>4. QED
      BY <1>1, <2>1, <2>2, <2>3 DEF SeenBoots
  <1> HIDE DEF n, seen
  <1>4. facts' = [facts EXCEPT !.latestBoot = seen]
    BY DEF seen
  <1>5. facts' \in Actives
    BY <1>3, <1>4 DEF Actives
  <1>6. facts'.latestBoot = seen /\ facts'.boots = facts.boots
    BY <1>4 DEF Actives
  <1>7. QED
    BY <1>1, <1>2, <1>5, <1>6 DEF ActiveHolds, BootSeen

LEMMA ExactOfOneBootHolds ==
  ASSUME About("active") => facts \in Actives /\ ActiveHolds(facts)
  PROVE  ExactOfOneBoot
  <1> SUFFICES ASSUME facts \in Actives, ActiveHolds(facts), Gathered(facts), LinkStatus(facts) = "exact_current"
               PROVE  \E i \in DOMAIN facts.boots :
                        LET boot == facts.boots[i] IN
                        /\ boot.done
                        /\ facts.snapshot.id = boot.mods /\ facts.installed.snapshot = boot.mods /\ facts.modOrder.order = boot.order
                        /\ \A p \in PortfolioProjects :
                             facts.sessions[p].seen /\ facts.sessions[p].boot = i
                               /\ facts.sessions[p].mods = boot.mods /\ facts.sessions[p].order = boot.order
    BY DEF ExactOfOneBoot
  <1> DEFINE n == facts.latestBoot.number
  <1>1. \A p \in PortfolioProjects : ProjectReasons(facts, p) = {} /\ SemanticStatus(facts) = "current"
    BY DEF LinkStatus
  <1>2. SemanticStatus(facts) = "current" /\ GlobalReasons(facts) = {}
    BY <1>1, ActiveAssumption DEF ProjectReasons
  <1>3. /\ facts.latestBoot.mods = facts.snapshot.id /\ facts.latestBoot.order = facts.modOrder.order
        /\ facts.latestBoot.complete
    BY <1>2 DEF GlobalReasons
  <1>4. facts.installed.snapshot = facts.snapshot.id
    <2>1. facts.installed.seen /\ facts.snapshot.seen
      BY DEF Gathered
    <2>2. facts.installed.indexed \in BOOLEAN /\ facts.installed.current \in BOOLEAN /\ facts.snapshot.current \in BOOLEAN
      <3>1. facts.installed # Unseen /\ facts.snapshot # Unseen
        BY <2>1 DEF Unseen
      <3>2. /\ facts.installed \in [seen : {TRUE}, indexed : BOOLEAN, snapshot : Bits, current : BOOLEAN, boot : Nat]
            /\ facts.snapshot \in [seen : {TRUE}, id : Bits, current : BOOLEAN]
        BY <3>1 DEF Actives
      <3>3. QED
        BY <3>2
    <2>3. QED
      BY <1>2, <2>2 DEF SemanticStatus
  <1>5. ASSUME NEW p \in PortfolioProjects
        PROVE  /\ facts.sessions[p].seen /\ facts.sessions[p].boot = n
               /\ facts.sessions[p].mods = facts.snapshot.id /\ facts.sessions[p].order = facts.modOrder.order
    <2>1. facts.sessions[p].seen /\ SessionDrifts(facts, p) = {}
      BY <1>1 DEF ProjectReasons
    <2>2. QED
      BY <2>1 DEF SessionDrifts
  <1>6. /\ n \in DOMAIN facts.boots /\ facts.boots[n].done
        /\ facts.latestBoot.mods = facts.boots[n].mods /\ facts.latestBoot.order = facts.boots[n].order
    BY <1>3 DEF ActiveHolds, BootSeen, Gathered
  <1>7. QED
    BY <1>3, <1>4, <1>5, <1>6

-----------------------------------------------------------------------------
ActiveInv ==
  \/ facts \in BootLogs /\ BootLogHolds(facts)
  \/ facts \in Actives /\ ActiveHolds(facts)

LEMMA ActiveTopics ==
  ASSUME ActiveInv
  PROVE  /\ About("boot log") => facts \in BootLogs /\ BootLogHolds(facts)
         /\ About("active") => facts \in Actives /\ ActiveHolds(facts)
  <1>1. (facts \in BootLogs => facts.topic = "boot log") /\ (facts \in Actives => facts.topic = "active")
    BY DEF BootLogs, Actives
  <1>2. QED
    BY <1>1 DEF ActiveInv, About

LEMMA ActiveStarts == ActiveInit => ActiveInv
  <1> SUFFICES ASSUME ActiveInit PROVE ActiveInv
    OBVIOUS
  <1>1. CASE facts = [topic |-> "boot log", log |-> <<>>, boots |-> <<>>, written |-> 0, readable |-> TRUE]
    <2>1. facts \in BootLogs
      BY <1>1, EmptySeq DEF BootLogs
    <2>2. facts.log = <<>> /\ facts.boots = <<>>
      BY <1>1
    <2>3. ParserFollows(NothingParsed, <<>>)
      BY DEF ParserFollows, NothingParsed, FoundLast
    <2>4. QED
      BY <2>1, <2>2, <2>3, ParsedEmpty DEF ActiveInv, BootLogHolds
  <1>2. ASSUME NEW c \in {"complete", "partial", "undeclared"}, facts = [NoWorld EXCEPT !.inventory = c]
        PROVE  ActiveInv
    <2>1. NoWorld \in Actives
      <3>1. <<>> \in Seq(WorldBoots)
        BY EmptySeq
      <3>2. [p \in PortfolioProjects |-> Unseen] \in [PortfolioProjects -> {Unseen} \cup [seen : {TRUE}, boot : Nat, mods : Bits, order : Bits]]
        OBVIOUS
      <3>3. 0 \in Bits
        BY DEF Bits
      <3>4. QED
        BY <3>1, <3>2, <3>3 DEF NoWorld, Actives
    <2>2. facts \in Actives
      BY <1>2, <2>1 DEF Actives
    <2>3. facts.latestBoot = Unseen
      BY <1>2 DEF NoWorld
    <2>4. QED
      BY <2>2, <2>3 DEF ActiveInv, ActiveHolds, BootSeen, Unseen
  <1>3. QED
    BY <1>1, <1>2 DEF ActiveInit

LEMMA ActiveSteps == ActiveInv /\ [ActiveNext]_facts => ActiveInv'
  <1> SUFFICES ASSUME ActiveInv, [ActiveNext]_facts PROVE ActiveInv'
    OBVIOUS
  <1>1. CASE UNCHANGED facts
    BY <1>1 DEF ActiveInv
  <1>2. ASSUME About("boot log"), NEW line \in LogLines, facts' = LogWritten(facts, line, facts.log) PROVE ActiveInv'
    <2>1. facts \in BootLogs /\ BootLogHolds(facts) /\ facts.log \in Seq(LogLines)
      BY <1>2, ActiveTopics DEF BootLogs
    <2>2. QED
      BY <1>2, <2>1, WritesLine DEF ActiveInv
  <1>3. ASSUME About("boot log"), facts' = LogWritten(facts, {"start"}, <<>>) PROVE ActiveInv'
    <2>1. facts \in BootLogs /\ <<>> \in Seq(LogLines) /\ {"start"} \in LogLines /\ "start" \in {"start"}
      BY <1>3, ActiveTopics, EmptySeq DEF LogLines
    <2>2. QED
      BY <1>3, <2>1, WritesLine DEF ActiveInv
  <1>4. ASSUME About("boot log"), facts' = [facts EXCEPT !.readable = FALSE] PROVE ActiveInv'
    <2>1. facts \in BootLogs /\ BootLogHolds(facts)
      BY <1>4, ActiveTopics
    <2>2. facts' \in BootLogs /\ facts'.log = facts.log /\ facts'.boots = facts.boots
      BY <1>4, <2>1 DEF BootLogs
    <2>3. QED
      BY <2>1, <2>2 DEF ActiveInv, BootLogHolds
  <1>5. ASSUME About("active"),
               \/ facts' = [Changes(facts) EXCEPT !.mods = 1 - @]
               \/ facts' = [Changes(facts) EXCEPT !.order = 1 - @]
               \/ facts' = [Changes(facts) EXCEPT !.indexed = TRUE, !.index = facts.mods]
               \/ \E d \in BOOLEAN :
                    facts' = [Changes(facts) EXCEPT !.boots = Append(@, [mods |-> facts.mods, order |-> facts.order, done |-> d])]
        PROVE  ActiveInv'
    BY <1>5, ActiveTopics, WorldSteps DEF ActiveInv
  <1>6. ASSUME About("active"),
               \/ facts' = [facts EXCEPT !.snapshot = [seen |-> TRUE, id |-> facts.index, current |-> facts.index = facts.mods]]
               \/ facts' = [facts EXCEPT !.modOrder = [seen |-> TRUE, order |-> facts.order, snapshot |-> facts.index]]
               \/ facts' = [facts EXCEPT !.installed = [seen |-> TRUE, indexed |-> facts.indexed, snapshot |-> facts.index,
                                                        current |-> facts.index = facts.mods, boot |-> LastComplete(facts)]]
               \/ \E p \in PortfolioProjects :
                    facts' = [facts EXCEPT !.sessions[p] =
                               [seen |-> TRUE, boot |-> Len(facts.boots), mods |-> facts.mods, order |-> facts.order]]
        PROVE  ActiveInv'
    BY <1>6, ActiveTopics, GatherSteps DEF ActiveInv
  <1>7. ASSUME About("active"), facts' = [facts EXCEPT !.latestBoot = SeenBoot(facts)] PROVE ActiveInv'
    BY <1>7, ActiveTopics, LatestBootStep DEF ActiveInv
  <1>8. QED
    BY <1>1, <1>2, <1>3, <1>4, <1>5, <1>6, <1>7 DEF ActiveNext

\* What is said of the game is of one boot that it completed: for every log and every
\* number of boots, projects and changes, in whatever order the evidence is gathered.
THEOREM StatesAreOfOneBoot == ActiveSpec => []StateOfOneBoot
  <1>1. ActiveInv => StateOfOneBoot
    BY ActiveTopics, BootConclusionHolds, ExactOfOneBootHolds DEF StateOfOneBoot
  <1>2. QED
    BY <1>1, ActiveStarts, ActiveSteps, PTL DEF ActiveSpec

-----------------------------------------------------------------------------
(***************************************************************************)
(* ProbeDocuments and GuardedProject: a probe is as it was declared.       *)
(***************************************************************************)

\* A record of these fields that is about a topic.
IsAbout(f, topic, fields) == DOMAIN f = fields /\ f.topic = topic

LayoutHolds(f) ==
  /\ IsAbout(f, "layout", {"topic", "fields", "matcher"})
  /\ f.fields \in Seq(LayoutFields) /\ f.matcher \in Matchers

CarrierHolds(f) == IsAbout(f, "carrier", {"topic", "manifest", "source", "header", "compiled", "edits"})

BundleFields ==
  {"stage", "carrier", "sources", "result", "complete", "reasons", "confirmed", "saturated", "cleanup", "filled"}

\* A bundle that has come to the last stage has passed as it is.
BundleHolds(f) ==
  /\ IsAbout(f, "bundle", {"topic", "migrated", "edits", "bundle"})
  /\ DOMAIN f.bundle = BundleFields /\ f.bundle.stage \in Nat
  /\ f.bundle.stage = 5 => BundleValid(f.bundle)

LegacyFields == {"topic", "step", "log", "dll", "startup", "target", "identified", "dllBefore", "verdict", "afresh"}

\* What was identified is still in the log that is summarized, unless it was
\* started afresh.
LegacyHolds(f) ==
  /\ IsAbout(f, "legacy", LegacyFields) /\ f.afresh \in BOOLEAN
  /\ f.step \in {"identify", "summarize"} => f.verdict = "none"
  /\ f.step = "summarize" /\ ~f.afresh => f.identified \subseteq f.log
  /\ f.verdict = "startup_only_inconclusive" /\ ~f.afresh => f.identified \subseteq f.startup

\* The two sections of a module's file.
LockHeld(f) ==
  /\ f.topic = "lock" /\ f.rva \in Nat /\ f.lock \in Locks
  /\ \E raw \in Raws, start \in 0..1, span \in {SectionBytes, SectionBytes + 1} :
       f.sections = <<[start |-> start, span |-> span, raw |-> raw],
                      [start |-> start + span, span |-> SectionBytes, raw |-> raw]>>

\* The hazards of what was decoded are known, and where one instruction ends the
\* next one starts.
DecodeHolds(f) ==
  /\ IsAbout(f, "decode", {"topic", "code", "at", "hazards", "starts"})
  /\ f.code \in Seq(Bytes) /\ f.at \in Nat \ {0}
  /\ \A i \in f.starts :
       /\ i \in 1..Len(f.code)
       /\ Instruction(f.code, i).hazards \subseteq f.hazards
       /\ Instruction(f.code, i).end + 1 \in f.starts \cup {f.at}

ProjectFields == {"topic", "step", "header", "code", "module", "edits", "guard", "cleanA", "cleanB", "plan"}

\* The builds that there are at a step.
BuiltLanes(f) ==
  CASE f.step = "second" -> {f.cleanA}
    [] f.step = "built" -> {f.cleanA, f.cleanB}
    [] OTHER -> {}

\* With one edit at most a manifest that is still the one described was not edited
\* while it was built.
ProjectHolds(f) ==
  /\ IsAbout(f, "project", ProjectFields) /\ f.edits \in Nat
  /\ f.edits = 0 => f.header = f.guard.header
  /\ f.edits <= 1 /\ f.header = f.guard.header => \A b \in BuiltLanes(f) : b.header = f.guard.header
  /\ f.step = "planned" => f.plan = f.cleanA /\ f.plan = f.cleanB /\ (f.edits <= 1 => f.plan.header = f.guard.header)

DeclaredInv ==
  \/ LayoutHolds(facts) \/ CarrierHolds(facts) \/ BundleHolds(facts) \/ LegacyHolds(facts)
  \/ LockHeld(facts) \/ DecodeHolds(facts) \/ ProjectHolds(facts)

\* What the invariant says of a record about each topic.
LEMMA DeclaredTopics ==
  ASSUME DeclaredInv
  PROVE  /\ About("layout") => LayoutHolds(facts)
         /\ About("carrier") => CarrierHolds(facts)
         /\ About("bundle") => BundleHolds(facts)
         /\ About("legacy") => LegacyHolds(facts)
         /\ About("lock") => LockHeld(facts)
         /\ About("decode") => DecodeHolds(facts)
         /\ About("project") => ProjectHolds(facts)
  BY DEF DeclaredInv, About, LayoutHolds, CarrierHolds, BundleHolds, LegacyHolds, LockHeld, DecodeHolds, ProjectHolds, IsAbout

\* A field that is added is one of the layout's.
LEMMA AddsField ==
  ASSUME LayoutHolds(facts), AddField
  PROVE  LayoutHolds(facts')
  <1>1. PICK f \in LayoutFields \cup DiscoveredFields : facts' = [facts EXCEPT !.fields = Append(@, f)]
    BY DEF AddField
  <1>2. f \in LayoutFields
    <2>1. ASSUME NEW family \in RecordFamilies, NEW p \in Places PROVE DiscoveredField(family, p) \in LayoutFields
      BY DEF LayoutFields, DiscoveredField
    <2>2. QED
      BY <1>1, <2>1 DEF DiscoveredFields
  <1>3. Append(facts.fields, f) \in Seq(LayoutFields)
    <2>1. facts.fields \in Seq(LayoutFields)
      BY DEF LayoutHolds
    <2> HIDE DEF LayoutFields
    <2>2. QED
      BY <1>2, <2>1
  <1>4. /\ DOMAIN facts' = {"topic", "fields", "matcher"} /\ facts'.topic = "layout"
        /\ facts'.fields = Append(facts.fields, f) /\ facts'.matcher = facts.matcher
    BY <1>1 DEF LayoutHolds, IsAbout
  <1>5. QED
    BY <1>3, <1>4 DEF LayoutHolds, IsAbout

\* An edit of a carrier leaves its record one of a carrier.
LEMMA StepsCarrier ==
  ASSUME CarrierHolds(facts), CarrierStep
  PROVE  CarrierHolds(facts')
  BY DEF CarrierHolds, CarrierStep, IsAbout

\* A bundle passes a stage only as its checks find it, so at the last one all of them hold.
LEMMA StepsBundle ==
  ASSUME BundleHolds(facts), BundleStep
  PROVE  BundleHolds(facts')
  <1>1. ASSUME NEW b, NEW n, DOMAIN b = BundleFields, b.stage \in Nat, b.stage = 5 => BundleValid(b),
               facts' = [facts EXCEPT !.bundle = b, !.edits = n]
        PROVE  BundleHolds(facts')
    <2>1. /\ DOMAIN facts' = {"topic", "migrated", "edits", "bundle"} /\ facts'.topic = "bundle"
          /\ facts'.bundle = b
      BY <1>1 DEF BundleHolds, IsAbout
    <2>2. QED
      BY <1>1, <2>1 DEF BundleHolds, IsAbout
  <1>2. DOMAIN facts.bundle = BundleFields /\ facts.bundle.stage \in Nat
    BY DEF BundleHolds
  <1> DEFINE next == [facts.bundle EXCEPT !.stage = @ + 1]
  <1>3. CASE next.stage <= Len(ProbeStages) /\ BundleValid(next) /\ facts' = [facts EXCEPT !.bundle = next, !.edits = 0]
    <2>1. DOMAIN next = BundleFields /\ next.stage \in Nat
      BY <1>2 DEF BundleFields
    <2> HIDE DEF next
    <2>2. QED
      BY <1>1, <1>3, <2>1
  <1>4. ASSUME facts.bundle.stage < 5, NEW b,
               \/ \E r \in Results : b = [facts.bundle EXCEPT !.result = r, !.complete = (r # "capture_inconclusive"),
                                                             !.reasons = (r = "capture_inconclusive")]
               \/ \E c \in CleanupSteps : b = [facts.bundle EXCEPT !.cleanup = CleanupSteps \ {c}]
               \/ b = [facts.bundle EXCEPT !.cleanup = CleanupSteps, !.filled = TRUE]
               \/ \E s \in SUBSET {"x64dbg", "kcse", "lua"} : b = [facts.bundle EXCEPT !.sources = s]
               \/ b = [facts.bundle EXCEPT !.confirmed = ~@] \/ b = [facts.bundle EXCEPT !.saturated = TRUE]
               \/ b = [facts.bundle EXCEPT !.complete = ~@],
               facts' = [facts EXCEPT !.bundle = b, !.edits = @ + 1]
        PROVE  BundleHolds(facts')
    <2>1. DOMAIN b = BundleFields /\ b.stage = facts.bundle.stage
      <3>1. CASE \E r \in Results : b = [facts.bundle EXCEPT !.result = r, !.complete = (r # "capture_inconclusive"),
                                                            !.reasons = (r = "capture_inconclusive")]
        BY <1>2, <3>1 DEF BundleFields
      <3>2. CASE \E c \in CleanupSteps : b = [facts.bundle EXCEPT !.cleanup = CleanupSteps \ {c}]
        BY <1>2, <3>2 DEF BundleFields
      <3>3. CASE b = [facts.bundle EXCEPT !.cleanup = CleanupSteps, !.filled = TRUE]
        BY <1>2, <3>3 DEF BundleFields
      <3>4. CASE \E s \in SUBSET {"x64dbg", "kcse", "lua"} : b = [facts.bundle EXCEPT !.sources = s]
        BY <1>2, <3>4 DEF BundleFields
      <3>5. CASE \/ b = [facts.bundle EXCEPT !.confirmed = ~@] \/ b = [facts.bundle EXCEPT !.saturated = TRUE]
                 \/ b = [facts.bundle EXCEPT !.complete = ~@]
        BY <1>2, <3>5 DEF BundleFields
      <3>6. QED
        BY <1>4, <3>1, <3>2, <3>3, <3>4, <3>5
    <2>0. facts.bundle.stage < 5 /\ facts.bundle.stage \in Nat
      BY <1>2, <1>4
    <2>2. b.stage \in Nat /\ b.stage # 5
      <3>1. b.stage = facts.bundle.stage
        BY <2>1
      <3>2. QED
        BY <2>0, <3>1
    <2>3. facts' = [facts EXCEPT !.bundle = b, !.edits = facts.edits + 1]
      BY <1>4
    <2>4. QED
      BY <1>1, <2>1, <2>2, <2>3
  <1>5. QED
    BY <1>3, <1>4 DEF BundleStep

\* The audit reads the log twice.
LEMMA StepsAudit ==
  ASSUME LegacyHolds(facts), AuditStep
  PROVE  LegacyHolds(facts')
  <1> DEFINE fields == LegacyFields
  <1>1. DOMAIN facts = fields /\ facts.topic = "legacy" /\ fields = LegacyFields
    BY DEF LegacyHolds, IsAbout
  <1>2. CASE facts.step = "identify" /\ facts' = [facts EXCEPT !.step = "summarize", !.identified = facts.log, !.dllBefore = facts.dll]
    <2>1. /\ DOMAIN facts' = fields /\ facts'.topic = "legacy" /\ facts'.identified = facts.log /\ facts'.log = facts.log
          /\ facts'.step = "summarize" /\ facts'.verdict = "none" /\ facts'.afresh = facts.afresh /\ facts.afresh \in BOOLEAN
      BY <1>1, <1>2 DEF LegacyHolds, LegacyFields
    <2>2. QED
      BY <1>1, <2>1 DEF LegacyHolds, IsAbout
  <1>3. CASE facts.step = "summarize" /\ facts' = [facts EXCEPT !.step = "compare", !.verdict = ClassifyEvents(facts.log, facts.startup, facts.target)]
    <2> DEFINE v == ClassifyEvents(facts.log, facts.startup, facts.target)
    <2>1. v = "startup_only_inconclusive" => facts.log \subseteq facts.startup
      BY DEF ClassifyEvents
    <2> HIDE DEF v
    <2>2. /\ DOMAIN facts' = fields /\ facts'.topic = "legacy" /\ facts'.identified = facts.identified /\ facts'.log = facts.log
          /\ facts'.step = "compare" /\ facts'.verdict = v /\ facts'.startup = facts.startup /\ facts'.afresh = facts.afresh
      BY <1>1, <1>3 DEF v, LegacyFields
    <2>3. facts.afresh \in BOOLEAN /\ (~facts.afresh => facts.identified \subseteq facts.log)
      BY <1>3 DEF LegacyHolds
    <2>4. QED
      BY <1>1, <2>1, <2>2, <2>3 DEF LegacyHolds, IsAbout
  <1>4. CASE facts.step = "compare" /\ facts' = [facts EXCEPT !.step = IF facts.dll = facts.dllBefore THEN "receipt" ELSE "raised"]
    <2>1. /\ DOMAIN facts' = fields /\ facts'.topic = "legacy" /\ facts'.identified = facts.identified /\ facts'.log = facts.log
          /\ facts'.step \in {"receipt", "raised"} /\ facts'.verdict = facts.verdict /\ facts'.startup = facts.startup
          /\ facts'.afresh = facts.afresh
      BY <1>1, <1>4 DEF LegacyFields
    <2>2. QED
      BY <1>1, <2>1 DEF LegacyHolds, IsAbout
  <1>5. QED
    BY <1>2, <1>3, <1>4 DEF AuditStep

\* The log of a legacy probe grows, or the record tells that it was started afresh.
LEMMA StepsLegacy ==
  ASSUME LegacyHolds(facts), LegacyWorld
  PROVE  LegacyHolds(facts')
  <1>1. DOMAIN facts = LegacyFields /\ facts.topic = "legacy" /\ facts.afresh \in BOOLEAN
    BY DEF LegacyHolds, IsAbout
  <1>2. /\ DOMAIN facts' = LegacyFields /\ facts'.topic = "legacy" /\ facts'.step = facts.step /\ facts'.verdict = facts.verdict
        /\ facts'.identified = facts.identified /\ facts'.startup = facts.startup /\ facts'.afresh \in BOOLEAN
        /\ ~facts'.afresh => ~facts.afresh
        /\ facts.step = "summarize" /\ ~facts'.afresh => facts.log \subseteq facts'.log
    <2>1. CASE \E e : facts' = [facts EXCEPT !.log = @ \cup {e}]
      BY <1>1, <2>1 DEF LegacyFields
    <2>2. CASE facts' = [facts EXCEPT !.log = {}, !.afresh = @ \/ facts.step = "summarize"]
      <3>1. facts'.afresh = (facts.afresh \/ facts.step = "summarize") /\ facts'.step = facts.step
        BY <1>1, <2>2 DEF LegacyFields
      <3>2. /\ DOMAIN facts' = LegacyFields /\ facts'.topic = "legacy" /\ facts'.verdict = facts.verdict
            /\ facts'.identified = facts.identified /\ facts'.startup = facts.startup
        BY <1>1, <2>2 DEF LegacyFields
      <3>3. QED
        BY <1>1, <3>1, <3>2
    <2>3. CASE facts' = [facts EXCEPT !.dll = @ + 1]
      BY <1>1, <2>3 DEF LegacyFields
    <2>4. QED
      BY <2>1, <2>2, <2>3 DEF LegacyWorld
  <1>3. QED
    BY <1>2 DEF LegacyHolds, IsAbout

\* The opcode is the first byte that is no prefix, or behind the end.
LEMMA OpcodeFound ==
  ASSUME NEW code \in Seq(Bytes), NEW i \in 1..Len(code)
  PROVE  /\ OpcodeAt(code, i) \in i..(Len(code) + 1)
         /\ \A j \in i..(OpcodeAt(code, i) - 1) : code[j] \in PrefixBytes
         /\ OpcodeAt(code, i) <= Len(code) => code[OpcodeAt(code, i)] \in Bytes \ PrefixBytes
  <1> DEFINE ops == {j \in i..Len(code) : code[j] \notin PrefixBytes}
             first == CHOOSE j \in ops : \A k \in ops : j <= k
  <1>0. /\ Len(code) \in Nat /\ i \in Nat /\ i >= 1 /\ i <= Len(code)
        /\ \A j \in i..Len(code) : code[j] \in Bytes
    <2>1. Len(code) \in Nat /\ code \in [1..Len(code) -> Bytes]
      BY LenProperties
    <2>2. i \in Nat /\ i >= 1 /\ i <= Len(code)
      BY <2>1
    <2>3. ASSUME NEW j \in i..Len(code) PROVE code[j] \in Bytes
      <3>1. j \in 1..Len(code)
        BY <2>1, <2>2
      <3>2. QED
        BY <2>1, <3>1, Zenon
    <2>4. QED
      BY <2>1, <2>2, <2>3
  <1>1. OpcodeAt(code, i) = IF ops = {} THEN Len(code) + 1 ELSE first
    BY DEF OpcodeAt
  <1>2. CASE ops = {}
    <2>1. OpcodeAt(code, i) = Len(code) + 1
      BY <1>1, <1>2
    <2>2. ASSUME NEW j \in i..Len(code) PROVE code[j] \in PrefixBytes
      BY <1>2
    <2> HIDE DEF ops, first
    <2>3. QED
      BY <1>0, <2>1, <2>2
  <1>3. CASE ops # {}
    <2>1. ops \in SUBSET Nat
      BY <1>0
    <2>2. first \in ops /\ \A k \in ops : first <= k
      <3> HIDE DEF ops
      <3>1. QED
        BY <1>3, <2>1, LeastNatural
    <2>3. OpcodeAt(code, i) = first
      BY <1>1, <1>3
    <2>4. first \in i..Len(code) /\ code[first] \notin PrefixBytes
      BY <2>2
    <2>5. ASSUME NEW j \in i..(first - 1) PROVE code[j] \in PrefixBytes
      <3>1. j \in i..Len(code) /\ ~(first <= j)
        <4> HIDE DEF first
        <4>1. QED
          BY <1>0, <2>4
      <3>2. j \notin ops
        <4> HIDE DEF ops, first
        <4>1. QED
          BY <2>2, <3>1
      <3>3. QED
        BY <3>1, <3>2
    <2>6. code[first] \in Bytes
      BY <1>0, <2>4
    <2> HIDE DEF ops, first
    <2>7. QED
      BY <1>0, <2>3, <2>4, <2>5, <2>6
  <1>4. QED
    BY <1>2, <1>3

\* An instruction ends in the code, at or after its start.
LEMMA InstructionEnds ==
  ASSUME NEW code \in Seq(Bytes), NEW i \in 1..Len(code)
  PROVE  Instruction(code, i).end \in i..Len(code)
  <1> DEFINE at == OpcodeAt(code, i)
             whole == at <= Len(code) /\ at + Operand(code, i) <= Len(code)
  <1>1. at \in Nat /\ i \in Nat /\ i <= at /\ Len(code) \in Nat /\ i <= Len(code)
    BY OpcodeFound
  <1>2. Operand(code, i) \in Nat
    BY DEF Operand
  <1>3. Instruction(code, i).end = IF whole THEN at + Operand(code, i) ELSE Len(code)
    BY DEF Instruction
  <1> HIDE DEF at
  <1>4. QED
    BY <1>1, <1>2, <1>3

\* The hazards of every instruction decoded so far are noted.
LEMMA StepsDecode ==
  ASSUME DecodeHolds(facts), DecodeStep
  PROVE  DecodeHolds(facts')
  <1> DEFINE one == Instruction(facts.code, facts.at)
  <1>1. facts' = [facts EXCEPT !.at = one.end + 1, !.hazards = @ \cup one.hazards, !.starts = @ \cup {facts.at}]
    BY DEF DecodeStep
  <1>2. facts.code \in Seq(Bytes) /\ facts.at \in 1..Len(facts.code)
    BY DEF DecodeStep, DecodeHolds
  <1>3. one.end \in Nat
    BY <1>2, InstructionEnds
  <1> HIDE DEF one
  <1>4. /\ DOMAIN facts' = {"topic", "code", "at", "hazards", "starts"} /\ facts'.topic = "decode" /\ facts'.code = facts.code
        /\ facts'.hazards = facts.hazards \cup one.hazards /\ facts'.starts = facts.starts \cup {facts.at}
        /\ facts'.at = one.end + 1
    BY <1>1 DEF DecodeHolds, IsAbout
  <1>5. ASSUME NEW i \in facts'.starts
        PROVE  /\ i \in 1..Len(facts.code)
               /\ Instruction(facts.code, i).hazards \subseteq facts'.hazards
               /\ Instruction(facts.code, i).end + 1 \in facts'.starts \cup {facts'.at}
    <2>1. CASE i = facts.at
      <3>1. Instruction(facts.code, i) = one
        BY <2>1 DEF one
      <3>2. QED
        BY <1>2, <1>4, <2>1, <3>1
    <2>2. CASE i \in facts.starts
      <3>1. /\ i \in 1..Len(facts.code)
            /\ Instruction(facts.code, i).hazards \subseteq facts.hazards
            /\ Instruction(facts.code, i).end + 1 \in facts.starts \cup {facts.at}
        BY <2>2 DEF DecodeHolds
      <3>2. QED
        BY <1>4, <3>1
    <2>3. QED
      BY <1>4, <2>1, <2>2
  <1>6. facts'.at \in Nat \ {0}
    BY <1>3, <1>4
  <1>7. QED
    BY <1>2, <1>4, <1>5, <1>6 DEF DecodeHolds, IsAbout

ProjectStep ==
  \/ Generate \/ StartDoubleBuild \/ BuildOnce("first", "second", "cleanA") \/ BuildOnce("second", "built", "cleanB")
  \/ StageInstall \/ ProjectEdited

\* A plan is the end of a project: nothing is edited into it.
LEMMA StepsProject ==
  ASSUME ProjectHolds(facts), ProjectStep
  PROVE  ProjectHolds(facts')
  <1>1. DOMAIN facts = ProjectFields /\ facts.topic = "project" /\ facts.edits \in Nat
    BY DEF ProjectHolds, IsAbout
  <1>2. /\ facts.edits = 0 => facts.header = facts.guard.header
        /\ facts.edits <= 1 /\ facts.header = facts.guard.header => \A b \in BuiltLanes(facts) : b.header = facts.guard.header
    BY DEF ProjectHolds
  <1>3. ASSUME DOMAIN facts' = ProjectFields, facts'.topic = "project", facts'.edits = facts.edits, facts'.header = facts.header,
               facts'.guard.header = facts.guard.header, facts'.step # "planned",
               facts.edits <= 1 /\ facts.header = facts.guard.header => \A b \in BuiltLanes(facts') : b.header = facts.guard.header
        PROVE  ProjectHolds(facts')
    BY <1>1, <1>2, <1>3 DEF ProjectHolds, IsAbout
  <1>4. CASE Generate
    <2>1. /\ DOMAIN facts' = ProjectFields /\ facts'.topic = "project" /\ facts'.step = "generated" /\ facts'.edits = facts.edits
          /\ facts'.header = facts.header /\ facts'.guard.header = facts.header
      BY <1>1, <1>4 DEF Generate, ProjectFields
    <2>2. BuiltLanes(facts') = {}
      BY <2>1 DEF BuiltLanes
    <2>3. QED
      BY <1>1, <2>1, <2>2 DEF ProjectHolds, IsAbout
  <1>5. CASE StartDoubleBuild
    <2>1. /\ DOMAIN facts' = ProjectFields /\ facts'.topic = "project" /\ facts'.step \in {"first", "raised"} /\ facts'.edits = facts.edits
          /\ facts'.header = facts.header /\ facts'.guard = facts.guard
      BY <1>1, <1>5 DEF StartDoubleBuild, ProjectFields
    <2>2. BuiltLanes(facts') = {}
      BY <2>1 DEF BuiltLanes
    <2>3. QED
      BY <1>3, <2>1, <2>2
  <1>6. ASSUME NEW step, NEW next, NEW lane,
               \/ step = "first" /\ next = "second" /\ lane = "cleanA"
               \/ step = "second" /\ next = "built" /\ lane = "cleanB",
               BuildOnce(step, next, lane)
        PROVE  ProjectHolds(facts')
    <2>1. CASE facts' = [facts EXCEPT !.step = "raised"]
      <3>1. /\ DOMAIN facts' = ProjectFields /\ facts'.topic = "project" /\ facts'.step = "raised" /\ facts'.edits = facts.edits
            /\ facts'.header = facts.header /\ facts'.guard = facts.guard
        BY <1>1, <2>1 DEF ProjectFields
      <3>2. BuiltLanes(facts') = {}
        BY <3>1 DEF BuiltLanes
      <3>3. QED
        BY <1>3, <3>1, <3>2
    <2>2. ASSUME NEW noise, facts' = [facts EXCEPT !.step = next, ![lane] = Compiled(noise)]
          PROVE  ProjectHolds(facts')
      <3>1. Compiled(noise).header = facts.header
        BY DEF Compiled
      <3>2. CASE step = "first" /\ next = "second" /\ lane = "cleanA"
        <4>1. facts' = [facts EXCEPT !.step = "second", !.cleanA = Compiled(noise)]
          BY <2>2, <3>2
        <4>2. /\ DOMAIN facts' = ProjectFields /\ facts'.topic = "project" /\ facts'.step = "second" /\ facts'.edits = facts.edits
              /\ facts'.header = facts.header /\ facts'.guard = facts.guard /\ facts'.cleanA = Compiled(noise)
          BY <1>1, <4>1 DEF ProjectFields
        <4>3. BuiltLanes(facts') = {Compiled(noise)}
          BY <4>2 DEF BuiltLanes
        <4>4. QED
          BY <1>3, <3>1, <4>2, <4>3
      <3>3. CASE step = "second" /\ next = "built" /\ lane = "cleanB"
        <4>1. facts' = [facts EXCEPT !.step = "built", !.cleanB = Compiled(noise)] /\ facts.step = "second"
          BY <1>6, <2>2, <3>3 DEF BuildOnce
        <4>2. /\ DOMAIN facts' = ProjectFields /\ facts'.topic = "project" /\ facts'.step = "built" /\ facts'.edits = facts.edits
              /\ facts'.header = facts.header /\ facts'.guard = facts.guard /\ facts'.cleanA = facts.cleanA
              /\ facts'.cleanB = Compiled(noise)
          BY <1>1, <4>1 DEF ProjectFields
        <4>3. BuiltLanes(facts') = {facts.cleanA, Compiled(noise)} /\ BuiltLanes(facts) = {facts.cleanA}
          BY <4>1, <4>2 DEF BuiltLanes
        <4>4. QED
          BY <1>2, <1>3, <3>1, <4>2, <4>3
      <3>4. QED
        BY <1>6, <3>2, <3>3
    <2>3. QED
      BY <1>6, <2>1, <2>2 DEF BuildOnce
  <1>7. CASE ProjectEdited
    <2>1. /\ DOMAIN facts' = ProjectFields /\ facts'.topic = "project" /\ facts'.edits = facts.edits + 1
          /\ facts'.guard = facts.guard /\ facts'.step = facts.step /\ facts'.cleanA = facts.cleanA /\ facts'.cleanB = facts.cleanB
      BY <1>1, <1>7 DEF ProjectEdited, ProjectFields
    <2>2. facts'.step # "planned" /\ BuiltLanes(facts') = BuiltLanes(facts)
      <3>1. facts.step # "planned"
        BY <1>7 DEF ProjectEdited
      <3>2. QED
        BY <2>1, <3>1 DEF BuiltLanes
    <2>3. facts'.edits \in Nat /\ facts'.edits # 0 /\ (facts'.edits <= 1 => facts.edits = 0)
      BY <1>1, <2>1
    <2>4. QED
      BY <1>2, <2>1, <2>2, <2>3 DEF ProjectHolds, IsAbout
  <1>8. CASE StageInstall
    <2> DEFINE good(dll) == Rechecked(facts) /\ Matched(facts.cleanA, facts.cleanB) /\ dll = facts.cleanA
    <2>1. PICK dll : facts.step = "built" /\ facts' = [facts EXCEPT !.step = IF good(dll) THEN "planned" ELSE "raised", !.plan = dll]
      BY <1>8 DEF StageInstall
    <2>2. good(dll) => dll = facts.cleanA /\ dll = facts.cleanB /\ facts.header = facts.guard.header
      BY DEF Rechecked, Matched
    <2> HIDE DEF good
    <2>3. /\ DOMAIN facts' = ProjectFields /\ facts'.topic = "project" /\ facts'.plan = dll /\ facts'.edits = facts.edits
          /\ facts'.cleanA = facts.cleanA /\ facts'.cleanB = facts.cleanB /\ facts'.guard = facts.guard /\ facts'.header = facts.header
          /\ facts'.step \in {"planned", "raised"} /\ (facts'.step = "planned" => good(dll))
      BY <1>1, <2>1 DEF ProjectFields
    <2>4. BuiltLanes(facts') = {} /\ BuiltLanes(facts) = {facts.cleanA, facts.cleanB}
      BY <2>1, <2>3 DEF BuiltLanes
    <2>5. QED
      BY <1>1, <1>2, <2>2, <2>3, <2>4 DEF ProjectHolds, IsAbout
  <1>9. QED
    BY <1>4, <1>5, <1>6, <1>7, <1>8 DEF ProjectStep

\* A probe starts with nothing accepted of it.
LEMMA DeclaredStarts == DeclaredInit => DeclaredInv
  <1> SUFFICES ASSUME DeclaredInit PROVE DeclaredInv
    OBVIOUS
  <1>1. ASSUME NEW m \in Matchers, facts = [topic |-> "layout", fields |-> <<>>, matcher |-> m] PROVE LayoutHolds(facts)
    <2>1. <<>> \in Seq(LayoutFields)
      BY EmptySeq
    <2>2. QED
      BY <1>1, <2>1 DEF LayoutHolds, IsAbout
  <1>2. ASSUME NEW m \in Manifests, NEW c \in CarrierSources,
               facts = [topic |-> "carrier", manifest |-> m, source |-> c, header |-> Payload(m), compiled |-> Payload(m), edits |-> 0]
        PROVE  CarrierHolds(facts)
    BY <1>2 DEF CarrierHolds, IsAbout
  <1>3. ASSUME NEW c \in Carriers, NEW b,
               facts = [topic |-> "bundle", migrated |-> b = "migrated", edits |-> 0,
                        bundle |-> IF b = "migrated" THEN Migrated(c) ELSE Planned(c)]
        PROVE  BundleHolds(facts)
    <2>1. /\ DOMAIN Migrated(c) = BundleFields /\ Migrated(c).stage = 3
          /\ DOMAIN Planned(c) = BundleFields /\ Planned(c).stage = 1
      BY DEF Migrated, Planned, BundleFields
    <2>2. facts.bundle = Migrated(c) \/ facts.bundle = Planned(c)
      BY <1>3
    <2>3. DOMAIN facts.bundle = BundleFields /\ facts.bundle.stage \in Nat /\ facts.bundle.stage # 5
      BY <2>1, <2>2
    <2>4. IsAbout(facts, "bundle", {"topic", "migrated", "edits", "bundle"})
      BY <1>3 DEF IsAbout
    <2>5. QED
      BY <2>3, <2>4 DEF BundleHolds
  <1>4. ASSUME NEW startup \in SUBSET LogEvents, NEW target \in SUBSET LogEvents,
               facts = [topic |-> "legacy", step |-> "identify", log |-> {}, dll |-> 0, startup |-> startup, target |-> target,
                        identified |-> {}, dllBefore |-> 0, verdict |-> "none", afresh |-> FALSE]
        PROVE  LegacyHolds(facts)
    BY <1>4 DEF LegacyHolds, IsAbout, LegacyFields
  <1>5. ASSUME NEW raw \in Raws, NEW start \in 0..1, NEW locked \in Locks, NEW rva \in 0..(SectionBytes + 1),
               NEW span \in {SectionBytes, SectionBytes + 1},
               facts = [topic |-> "lock", rva |-> rva, lock |-> locked,
                        sections |-> <<[start |-> start, span |-> span, raw |-> raw],
                                       [start |-> start + span, span |-> SectionBytes, raw |-> raw]>>]
        PROVE  LockHeld(facts)
    <2>1. rva \in Nat
      BY ProjectAssumption
    <2>2. QED
      BY <1>5, <2>1 DEF LockHeld
  <1>6. ASSUME NEW code \in Codes, facts = [topic |-> "decode", code |-> code, at |-> 1, hazards |-> {}, starts |-> {}]
        PROVE  DecodeHolds(facts)
    <2>1. code \in [1..CodeLength -> Bytes] /\ CodeLength \in Nat
      BY ProjectAssumption DEF Codes
    <2>2. code \in Seq(Bytes)
      <3> HIDE DEF Bytes
      <3>1. QED
        BY <2>1
    <2>3. QED
      BY <1>6, <2>2 DEF DecodeHolds, IsAbout
  <1>7. ASSUME NEW c, NEW v,
               facts = [topic |-> "project", step |-> "start", header |-> c, code |-> c, module |-> v, edits |-> 0,
                        guard |-> [header |-> c, module |-> v], cleanA |-> NotBuilt, cleanB |-> NotBuilt, plan |-> NotBuilt]
        PROVE  ProjectHolds(facts)
    <2>1. BuiltLanes(facts) = {}
      BY <1>7 DEF BuiltLanes
    <2>2. QED
      BY <1>7, <2>1 DEF ProjectHolds, IsAbout, ProjectFields
  <1>8. CASE DocumentsInit
    BY <1>1, <1>2, <1>3, <1>4, <1>8, Zenon DEF DocumentsInit, DeclaredInv
  <1>9. CASE ProjectInit
    BY <1>5, <1>6, <1>7, <1>9, Zenon DEF ProjectInit, DeclaredInv
  <1>10. QED
    BY <1>8, <1>9 DEF DeclaredInit

\* Every step of documents and projects keeps what is known of a probe.
LEMMA DeclaredSteps == DeclaredInv /\ [DeclaredNext]_facts => DeclaredInv'
  <1> SUFFICES ASSUME DeclaredInv, [DeclaredNext]_facts PROVE DeclaredInv'
    OBVIOUS
  <1>1. CASE UNCHANGED facts
    BY <1>1 DEF DeclaredInv
  <1>2. CASE AddField
    <2>1. LayoutHolds(facts)
      BY <1>2, DeclaredTopics DEF AddField
    <2>2. QED
      BY <1>2, <2>1, AddsField DEF DeclaredInv
  <1>3. CASE CarrierStep
    <2>1. CarrierHolds(facts)
      BY <1>3, DeclaredTopics DEF CarrierStep
    <2>2. QED
      BY <1>3, <2>1, StepsCarrier DEF DeclaredInv
  <1>4. CASE BundleStep
    <2>1. BundleHolds(facts)
      BY <1>4, DeclaredTopics DEF BundleStep
    <2>2. QED
      BY <1>4, <2>1, StepsBundle DEF DeclaredInv
  <1>5. CASE AuditStep
    <2>1. LegacyHolds(facts)
      BY <1>5, DeclaredTopics DEF AuditStep
    <2>2. QED
      BY <1>5, <2>1, StepsAudit DEF DeclaredInv
  <1>6. CASE LegacyWorld
    <2>1. LegacyHolds(facts)
      BY <1>6, DeclaredTopics DEF LegacyWorld
    <2>2. QED
      BY <1>6, <2>1, StepsLegacy DEF DeclaredInv
  <1>7. CASE DecodeStep
    <2>1. DecodeHolds(facts)
      BY <1>7, DeclaredTopics DEF DecodeStep
    <2>2. QED
      BY <1>7, <2>1, StepsDecode DEF DeclaredInv
  <1>8. CASE ProjectStep
    <2>1. About("project")
      BY <1>8 DEF ProjectStep, Generate, StartDoubleBuild, BuildOnce, StageInstall, ProjectEdited
    <2>2. ProjectHolds(facts)
      BY <2>1, DeclaredTopics
    <2>3. QED
      BY <1>8, <2>2, StepsProject DEF DeclaredInv
  <1>9. QED
    BY <1>1, <1>2, <1>3, <1>4, <1>5, <1>6, <1>7, <1>8 DEF DeclaredNext, DocumentsNext, ProjectNext, ProjectStep

-----------------------------------------------------------------------------
\* A finite set of at most one element has no two.
LEMMA AtMostOne ==
  ASSUME NEW S, IsFiniteSet(S), Cardinality(S) <= 1, NEW x \in S, NEW y \in S
  PROVE  x = y
  <1>1. Cardinality(S) \in Nat
    BY FS_CardinalityType
  <1>2. {x} \in SUBSET S /\ {y} \in SUBSET S
    OBVIOUS
  <1>3. Cardinality({x}) = 1 /\ Cardinality({y}) = 1
    BY FS_Singleton
  <1>4. Cardinality({x}) <= Cardinality(S)
    BY <1>2, FS_Subset
  <1>5. Cardinality(S) = 1
    BY <1>1, <1>3, <1>4
  <1>6. S = {x} /\ S = {y}
    BY <1>2, <1>3, <1>5, FS_Subset
  <1>7. QED
    BY <1>6

\* A key names one field, so that the first is every one.
LEMMA FilterHolds ==
  ASSUME About("layout") => LayoutHolds(facts)
  PROVE  FilterProven
  <1> SUFFICES ASSUME LayoutHolds(facts), LayoutValid(facts.fields, facts.matcher), facts.matcher.state = "confirmed_filter",
                      NEW i \in Named(facts.fields, facts.matcher.family)
               PROVE  LET f == facts.fields[i]
                      IN  f.promotion = "confirmed" /\ f.semantic = facts.matcher.kind /\ (f.discovery => f.corroborated)
    BY DEF FilterProven
  <1> DEFINE m == facts.matcher
             fields == facts.fields
             named == Named(fields, m.family)
  <1>1. fields \in Seq(LayoutFields) /\ m \in Matchers
    BY DEF LayoutHolds
  <1>2. Len(fields) \in Nat /\ m.family \in RecordFamilies
        /\ m.mode \in {"exact_field", "bounded_readable_span", "unfiltered_population"}
    BY <1>1 DEF Matchers
  <1>3. named \subseteq 1..Len(fields) /\ named \subseteq Nat /\ \A j \in named : j <= Len(fields)
    BY <1>2 DEF Named
  <1>4. IsFiniteSet(named) /\ Cardinality(named) <= 1
    <2>1. Cardinality(named) <= 1
      BY <1>2 DEF LayoutValid, KeysUnique
    <2> HIDE DEF named
    <2>2. QED
      BY <1>2, <1>3, <2>1, FS_BoundedSetOfNaturals
  <1>5. PICK j \in named : MatcherLints(m, fields[j])
    BY DEF LayoutValid
  <1>6. i = j
    <2>1. i \in named
      OBVIOUS
    <2> HIDE DEF named
    <2>2. QED
      BY <1>4, <1>5, <2>1, AtMostOne
  <1>7. FieldLints(fields[i])
    BY <1>3 DEF LayoutValid
  <1>8. m.mode = "exact_field" /\ fields[i].semantic = m.kind /\ fields[i].promotion = "confirmed"
    <2>1. MatcherLints(m, fields[i]) /\ m.state = "confirmed_filter"
      BY <1>5, <1>6
    <2> HIDE DEF m, fields
    <2>2. QED
      BY <1>2, <2>1 DEF MatcherLints
  <1>9. QED
    BY <1>7, <1>8 DEF FieldLints

\* The source of a carrier that passes is compared with the manifest it was compiled from.
LEMMA HooksHold == HooksAsDeclared
  BY DEF HooksAsDeclared, CarrierValid, SourceAgrees, Payload

\* A bundle that is imported has passed every stage.
LEMMA ImportHolds ==
  ASSUME About("bundle") => BundleHolds(facts)
  PROVE  ImportEarned
  <1> SUFFICES ASSUME BundleHolds(facts), facts.bundle.stage = 5
               PROVE  LET b == facts.bundle
                      IN  /\ CleanupOf(b.carrier) \subseteq b.cleanup
                          /\ b.sources = AllowedSources(b.carrier)
                          /\ b.result = "confirmed_negative_in_covered_scope" => b.complete /\ ~b.reasons /\ ~b.saturated
    BY DEF ImportEarned
  <1> DEFINE b == facts.bundle
  <1>1. BundleValid(b) /\ b.stage = 5
    BY DEF BundleHolds
  <1> HIDE DEF b
  <1>2. CleanupOf(b.carrier) \subseteq b.cleanup /\ b.sources # {}
    BY <1>1 DEF BundleValid
  <1>3. b.sources = AllowedSources(b.carrier)
    <2>1. /\ b.sources \subseteq AllowedSources(b.carrier)
          /\ b.carrier = "hybrid" => b.sources = {"x64dbg", "kcse"}
      BY <1>1, <1>2 DEF BundleValid, SourcesCompatible
    <2>2. QED
      BY <1>2, <2>1 DEF AllowedSources
  <1>4. b.result = "confirmed_negative_in_covered_scope" => b.complete /\ ~b.reasons /\ ~b.saturated
    BY <1>1 DEF BundleValid, ResultConsistent
  <1>5. QED
    BY <1>2, <1>3, <1>4 DEF b

\* A startup that is proved is in the log that was read.
LEMMA StartupHolds ==
  ASSUME About("legacy") => LegacyHolds(facts)
  PROVE  StartupOnlyTrue
  BY DEF StartupOnlyTrue, LegacyHolds

\* The least of one or two.
LEMMA LeastOfTwo ==
  ASSUME NEW T \in SUBSET {1, 2}, T # {}
  PROVE  LET i == CHOOSE i \in T : \A j \in T : i <= j
         IN  i \in T /\ \A j \in T : i <= j
  <1>1. \E i \in T : \A j \in T : i <= j
    <2>1. CASE 1 \in T
      <3>1. \A j \in T : 1 <= j
        OBVIOUS
      <3>2. QED
        BY <2>1, <3>1
    <2>2. CASE 1 \notin T
      <3>1. T = {2}
        BY <2>2
      <3>2. QED
        BY <3>1
    <2>3. QED
      BY <2>1, <2>2
  <1>2. QED
    BY <1>1, Zenon

\* The bytes of a lock that holds are those of its section, with no prefix before them.
LEMMA LockAtHolds ==
  ASSUME About("lock") => LockHeld(facts)
  PROVE  LockAtInstruction
  <1> DEFINE secs == facts.sections
             rva == facts.rva
             locked == facts.lock
  <1> SUFFICES ASSUME LockHeld(facts), LockHolds(secs, rva, locked)
               PROVE  \E i \in 1..Len(secs) :
                        LET s == secs[i]
                            at == rva - s.start
                        IN  /\ at >= 0 /\ at + Len(locked) <= Len(s.raw)
                            /\ \A k \in 1..Len(locked) : s.raw[at + k] = locked[k]
                            /\ at > 0 => s.raw[at] # "P"
    BY DEF LockAtInstruction
  <1>1. PICK raw \in Raws, start \in 0..1, span \in {SectionBytes, SectionBytes + 1} :
          secs = <<[start |-> start, span |-> span, raw |-> raw], [start |-> start + span, span |-> SectionBytes, raw |-> raw]>>
    BY DEF LockHeld
  <1>2. rva \in Nat /\ locked \in Seq({"P", "x", "y"}) /\ Len(locked) \in Nat /\ SectionBytes \in Nat /\ start \in Nat /\ span \in Nat
        /\ SectionBytes <= span
    <2>1. locked \in Seq({"P", "x", "y"}) /\ rva \in Nat
      BY ProjectAssumption DEF LockHeld
    <2>2. QED
      BY <2>1, ProjectAssumption
  <1>3. raw \in Seq({"P", "x", "y"}) /\ Len(raw) = SectionBytes
    BY <1>2 DEF Raws
  <1>4. /\ Len(secs) = 2 /\ secs[1].start = start /\ secs[1].span = span /\ secs[1].raw = raw
        /\ secs[2].start = start + span /\ secs[2].span = SectionBytes /\ secs[2].raw = raw
    BY <1>1
  <1>5. LockHolds(secs, rva, locked)
    OBVIOUS
  <1> HIDE DEF secs, rva, locked
  <1> DEFINE size == Len(locked)
             holds == {i \in 1..Len(secs) : secs[i].start <= rva /\ rva + size <= secs[i].start + secs[i].span}
             h == CHOOSE i \in holds : \A j \in holds : i <= j
             near == {i \in 1..Len(secs) : 0 < rva - secs[i].start /\ rva - secs[i].start <= Len(secs[i].raw)}
             first == CHOOSE i \in near : \A j \in near : i <= j
  <1>6. holds # {} /\ SectionOf(secs, rva, size) = h
    <2>1. SectionOf(secs, rva, size) = IF holds = {} THEN 0 ELSE h
      BY DEF SectionOf
    <2>2. SectionOf(secs, rva, size) # 0
      BY <1>5 DEF LockHolds, Mapped
    <2> HIDE DEF holds, h
    <2>3. QED
      BY <2>1, <2>2
  <1>7. holds \in SUBSET {1, 2} /\ near \in SUBSET {1, 2}
    BY <1>4
  <1>8. h \in holds
    <2> HIDE DEF holds
    <2>1. QED
      BY <1>6, <1>7, LeastOfTwo
  <1> DEFINE at == rva - secs[h].start
  <1>9. /\ h \in 1..Len(secs) /\ h \in {1, 2} /\ secs[h].start <= rva /\ rva + size <= secs[h].start + secs[h].span
    BY <1>7, <1>8
  <1>10. at + size <= Len(secs[h].raw) /\ SubSeq(secs[h].raw, at + 1, at + size) = locked /\ ~HiddenPrefix(secs, rva)
    BY <1>5, <1>6 DEF LockHolds, Mapped, ReadRva
  <1> HIDE DEF h, holds
  <1>11. secs[h].raw = raw /\ secs[h].start \in Nat /\ at \in Nat
    BY <1>2, <1>4, <1>9
  <1>12. ASSUME NEW k \in 1..size PROVE secs[h].raw[at + k] = locked[k]
    <2>1. SubSeq(raw, at + 1, at + size) = locked
      BY <1>10, <1>11
    <2> HIDE DEF at, size
    <2>2. size \in Nat
      BY <1>2 DEF size
    <2>3. SubSeq(raw, at + 1, at + size)[k] = raw[at + k]
      <3>1. at + size <= Len(raw)
        BY <1>10, <1>11
      <3>2. QED
        BY <1>3, <1>11, <2>2, <3>1
    <2>4. QED
      BY <1>11, <2>1, <2>3
  <1>13. ASSUME at > 0 PROVE secs[h].raw[at] # "P"
    <2>1. at <= Len(secs[h].raw)
      BY <1>2, <1>3, <1>10, <1>11
    <2>2. h \in near
      BY <1>9, <1>13, <2>1
    <2>3. first \in near /\ first <= h
      <3> HIDE DEF near
      <3>1. QED
        BY <1>7, <2>2, LeastOfTwo
    <2>4. ~(near # {} /\ secs[first].raw[rva - secs[first].start] = "P")
      BY <1>10 DEF HiddenPrefix
    <2>5. first = h
      <3>1. first \in {1, 2} /\ 0 < rva - secs[first].start /\ rva - secs[first].start <= Len(secs[first].raw)
        BY <1>7, <2>3
      <3> HIDE DEF first, near
      <3>2. CASE h = 1
        BY <2>3, <3>1, <3>2
      <3>3. CASE h = 2
        <4>1. rva > start + span
          BY <1>2, <1>4, <1>13, <3>3
        <4>2. first # 1
          BY <1>2, <1>3, <1>4, <3>1, <4>1
        <4>3. QED
          BY <3>1, <3>3, <4>2
      <3>4. QED
        BY <1>9, <3>2, <3>3
    <2> HIDE DEF first, near
    <2>6. QED
      BY <2>2, <2>4, <2>5
  <1>14. /\ h \in 1..Len(secs)
         /\ rva - secs[h].start >= 0 /\ rva - secs[h].start + Len(locked) <= Len(secs[h].raw)
         /\ \A k \in 1..Len(locked) : secs[h].raw[rva - secs[h].start + k] = locked[k]
         /\ rva - secs[h].start > 0 => secs[h].raw[rva - secs[h].start] # "P"
    BY <1>9, <1>10, <1>11, <1>12, <1>13
  <1>15. QED
    BY <1>14, Zenon

\* An instruction that is decoded without a hazard is one as the processor reads
\* it, unless its immediate is misread.
LEMMA DecodedIsWhole ==
  ASSUME NEW code \in Seq(Bytes), NEW i \in 1..Len(code), Instruction(code, i).hazards = {}
  PROVE  LET at == OpcodeAt(code, i)
             end == Instruction(code, i).end
         IN  /\ at \in i..Len(code) /\ end \in at..Len(code)
             /\ Misread(code, i, at) \/ EndsAt(code, i, at, end)
             /\ code[at] # "jump" /\ (code[at] = "modrm" => code[at + 1] # "ripModrm")
  <1> DEFINE at == OpcodeAt(code, i)
             size == Operand(code, i)
             whole == at <= Len(code) /\ at + size <= Len(code)
             wide == \E j \in i..(at - 1) : code[j] = "rexw"
             short == \E j \in i..(at - 1) : code[j] = "short"
             last == at > i /\ code[at - 1] = "rexw"
  <1>1. Instruction(code, i).hazards =
          IF ~whole THEN {"truncated_instruction"}
          ELSE CASE code[at] = "jump" -> {"relative_control_flow"}
                 [] code[at] = "ripModrm" -> {"unsupported_instruction"}
                 [] code[at] = "modrm" /\ code[at + 1] = "ripModrm" -> {"rip_relative_operand"}
                 [] OTHER -> {}
    BY DEF Instruction
  <1>2. Instruction(code, i).end = IF whole THEN at + size ELSE Len(code)
    BY DEF Instruction
  <1>3. /\ at \in Nat /\ i \in Nat /\ i <= at /\ Len(code) \in Nat
        /\ \A j \in i..(at - 1) : code[j] \in PrefixBytes
        /\ at <= Len(code) => code[at] \in Bytes \ PrefixBytes
    BY OpcodeFound
  <1>4. size = CASE code[at] = "move" -> IF wide THEN 3 ELSE 2
                 [] code[at] \in {"fixed", "jump"} -> 2
                 [] code[at] = "modrm" -> IF at < Len(code) /\ code[at + 1] = "ripModrm" THEN 2 ELSE 1
                 [] OTHER -> 0
    BY DEF Operand
  <1>5. last => wide
    <2>1. ASSUME at > i PROVE at - 1 \in i..(at - 1)
      <3> HIDE DEF at
      <3>1. QED
        BY <1>3, <2>1
    <2>2. QED
      BY <2>1
  <1>6. Misread(code, i, at) <=> code[at] \in {"move", "fixed"} /\ at > i /\ code[at - 1] # "rexw" /\ (short \/ wide)
    BY DEF Misread
  <1>7. short \/ wide => at > i
    <2> HIDE DEF at
    <2>1. QED
      BY <1>3
  <1> DEFINE end == Instruction(code, i).end
  <1>8. EndsAt(code, i, at, end) <=>
          \/ code[at] = "plain" /\ end = at
          \/ code[at] \in {"move", "fixed"} /\
               IF last THEN end = at + (IF code[at] = "move" THEN 3 ELSE 2) ELSE end = at + (IF short THEN 1 ELSE 2)
          \/ code[at] = "modrm" /\ at < end /\ end = at + (IF code[at + 1] = "ripModrm" THEN 2 ELSE 1)
          \/ code[at] = "jump" /\ end = at + 2
    BY DEF EndsAt
  <1>9. whole /\ code[at] # "jump" /\ code[at] # "ripModrm" /\ ~(code[at] = "modrm" /\ code[at + 1] = "ripModrm")
    <2> HIDE DEF at, whole
    <2>1. QED
      BY <1>1
  <1>10. end = at + size
    BY <1>2, <1>9
  <1>11. size \in Nat
    <2> HIDE DEF at, size, wide
    <2>1. QED
      BY <1>4
  <1>12. at <= Len(code) /\ at + size <= Len(code)
    BY <1>9
  <1>13. code[at] \in {"plain", "move", "fixed", "modrm"}
    <2>1. code[at] \in Bytes /\ code[at] \notin PrefixBytes /\ code[at] # "jump" /\ code[at] # "ripModrm"
      <3> HIDE DEF at, Bytes, PrefixBytes
      <3>1. QED
        BY <1>3, <1>9, <1>12
    <2> HIDE DEF at
    <2>2. QED
      BY <2>1, Zenon DEF Bytes
  <1> HIDE DEF at, size, wide, short, last, whole, end
  <1>14. at \in i..Len(code) /\ end \in at..Len(code)
    BY <1>3, <1>10, <1>11, <1>12
  <1>15. Misread(code, i, at) \/ EndsAt(code, i, at, end)
    <2>1. CASE code[at] = "plain"
      BY <1>3, <1>4, <1>8, <1>10, <2>1
    <2>2. CASE code[at] = "modrm"
      <3>1. size = 1
        BY <1>4, <1>9, <2>2
      <3>2. at < end /\ end = at + 1
        BY <1>3, <1>10, <3>1
      <3>3. QED
        BY <1>8, <1>9, <2>2, <3>2
    <2>3. CASE code[at] = "move"
      <3>1. size = IF wide THEN 3 ELSE 2
        BY <1>4, <2>3
      <3>2. CASE last
        BY <1>5, <1>8, <1>10, <2>3, <3>1, <3>2
      <3>3. CASE ~last /\ (short \/ wide)
        BY <1>6, <1>7, <2>3, <3>3 DEF last
      <3>4. CASE ~last /\ ~short /\ ~wide
        BY <1>8, <1>10, <2>3, <3>1, <3>4
      <3>5. QED
        BY <3>2, <3>3, <3>4
    <2>4. CASE code[at] = "fixed"
      <3>1. size = 2
        BY <1>4, <2>4
      <3>2. CASE last
        BY <1>8, <1>10, <2>4, <3>1, <3>2
      <3>3. CASE ~last /\ (short \/ wide)
        BY <1>6, <1>7, <2>4, <3>3 DEF last
      <3>4. CASE ~last /\ ~short /\ ~wide
        BY <1>8, <1>10, <2>4, <3>1, <3>4
      <3>5. QED
        BY <3>2, <3>3, <3>4
    <2>5. QED
      BY <1>13, <2>1, <2>2, <2>3, <2>4
  <1>16. QED
    BY <1>9, <1>14, <1>15 DEF at, end

\* What was decoded without a hazard is whole.
LEMMA TrampolineHolds ==
  ASSUME About("decode") => DecodeHolds(facts)
  PROVE  TrampolineWhole
  <1> SUFFICES ASSUME About("decode"), facts.at > Len(facts.code), facts.hazards = {}, NEW i \in facts.starts
               PROVE  \E at \in i..Len(facts.code) : MovesWhole(facts.code, facts.starts, i, at)
    BY DEF TrampolineWhole
  <1> DEFINE code == facts.code
             at == OpcodeAt(code, i)
             end == Instruction(code, i).end
  <1>1. /\ code \in Seq(Bytes) /\ i \in 1..Len(code) /\ Instruction(code, i).hazards = {}
        /\ end + 1 \in facts.starts \cup {facts.at} /\ facts.at \in Nat /\ Len(code) \in Nat
    BY DEF DecodeHolds
  <1>2. /\ at \in i..Len(code) /\ end \in at..Len(code)
        /\ Misread(code, i, at) \/ EndsAt(code, i, at, end)
        /\ code[at] # "jump" /\ (code[at] = "modrm" => code[at + 1] # "ripModrm")
    BY <1>1, DecodedIsWhole
  <1>3. \A j \in i..(at - 1) : code[j] \in PrefixBytes
    BY <1>1, OpcodeFound
  <1>4. end < Len(code) => end + 1 \in facts.starts
    <2> HIDE DEF end, at
    <2>1. end \in Nat
      BY <1>1, <1>2
    <2>2. ASSUME end < Len(code) PROVE end + 1 # facts.at
      BY <1>1, <2>1, <2>2
    <2>3. QED
      BY <1>1, <2>2
  <1>5. MovesWhole(code, facts.starts, i, at)
    <2> HIDE DEF at, end
    <2>1. QED
      BY <1>2, <1>3, <1>4 DEF MovesWhole
  <1> HIDE DEF at
  <1>6. QED
    BY <1>2, <1>5

\* A plan is ready only for two equal builds.
LEMMA PlanHolds ==
  ASSUME About("project") => ProjectHolds(facts)
  PROVE  PlanReproduced
  BY DEF PlanReproduced, ProjectHolds

\* An accepted probe is as it was declared: for any fields, events, edits, locks,
\* code and versions.
THEOREM ProbesStayAsDeclared == DeclaredSpec => []ProbesAsDeclared
  <1>1. DeclaredInv => ProbesAsDeclared
    BY DeclaredTopics, FilterHolds, HooksHold, ImportHolds, StartupHolds, LockAtHolds, TrampolineHolds, PlanHolds
       DEF ProbesAsDeclared
  <1>2. QED
    BY <1>1, DeclaredStarts, DeclaredSteps, PTL DEF DeclaredSpec

-----------------------------------------------------------------------------
(***************************************************************************)
(* RuntimeStream: nothing incomplete is called complete, and absence is    *)
(* claimed only below every limit.                                         *)
(***************************************************************************)

\* One number has grown by n, or is a new one.
Gains(old, new, x, k, n) ==
  /\ DOMAIN new = DOMAIN old \cup {x} /\ \A y \in DOMAIN old : y # x => new[y] = old[y]
  /\ IF x \in DOMAIN old THEN old[x] = k ELSE k = 0
  /\ new[x] = k + n

\* The numbers up to one are finitely many.
LEMMA UpToIsFinite == ASSUME NEW n \in Nat PROVE IsFiniteSet(1..n)
  BY FS_Interval, SMTT(30)

\* The total gains what one of the numbers does.
LEMMA TotalGains ==
  ASSUME NEW old, NEW new, NEW x, NEW k \in Nat, NEW n \in Nat, IsFiniteSet(Units(old)), Gains(old, new, x, k, n)
  PROVE  IsFiniteSet(Units(new)) /\ Total(new) = Total(old) + n
  <1> USE DEF Gains
  <1> DEFINE more == {x} \X ((k + 1)..(k + n))
  <1>1. Units(new) = Units(old) \cup more
    <2>1. ASSUME NEW u \in Units(new) PROVE u \in Units(old) \cup more
      <3>1. PICK y \in DOMAIN new : u \in {y} \X (1..new[y])
        BY DEF Units
      <3>2. CASE y = x
        <4>1. PICK i \in 1..(k + n) : u = <<x, i>>
          BY <3>1, <3>2
        <4>2. CASE i <= k
          <5>1. x \in DOMAIN old /\ i \in 1..old[x]
            BY <4>1, <4>2
          <5>2. QED
            BY <4>1, <5>1 DEF Units
        <4>3. CASE i > k
          BY <4>1, <4>3
        <4>4. QED
          BY <4>1, <4>2, <4>3
      <3>3. CASE y # x
        BY <3>1, <3>3 DEF Units
      <3>4. QED
        BY <3>2, <3>3
    <2>2. ASSUME NEW u \in more PROVE u \in Units(new)
      <3>1. PICK i \in (k + 1)..(k + n) : u = <<x, i>>
        OBVIOUS
      <3>2. i \in 1..new[x]
        OBVIOUS
      <3>3. QED
        BY <3>1, <3>2 DEF Units
    <2>3. ASSUME NEW u \in Units(old) PROVE u \in Units(new)
      <3>1. PICK y \in DOMAIN old : u \in {y} \X (1..old[y])
        BY DEF Units
      <3>2. CASE y = x
        <4>1. u \in {x} \X (1..new[x])
          BY <3>1, <3>2
        <4>2. QED
          BY <4>1 DEF Units
      <3>3. CASE y # x
        BY <3>1, <3>3 DEF Units
      <3>4. QED
        BY <3>2, <3>3
    <2>4. QED
      BY <2>1, <2>2, <2>3
  <1>2. IsFiniteSet(more) /\ Cardinality(more) = n
    <2>1. IsFiniteSet({x}) /\ Cardinality({x}) = 1
      BY FS_Singleton
    <2>2. IsFiniteSet((k + 1)..(k + n)) /\ Cardinality((k + 1)..(k + n)) = n
      BY FS_Interval
    <2> DEFINE range == (k + 1)..(k + n)
    <2> HIDE DEF range
    <2>3. IsFiniteSet({x} \X range) /\ Cardinality({x} \X range) = 1 * Cardinality(range)
      BY <2>1, <2>2, FS_Product DEF range
    <2>4. QED
      BY <2>2, <2>3 DEF range
  <1>3. Units(old) \cap more = {}
    <2> SUFFICES ASSUME NEW u \in Units(old), u \in more PROVE FALSE
      OBVIOUS
    <2>1. PICK y \in DOMAIN old : u \in {y} \X (1..old[y])
      BY DEF Units
    <2>2. PICK i \in (k + 1)..(k + n) : u = <<x, i>>
      OBVIOUS
    <2>3. y = x /\ i \in 1..old[x]
      BY <2>1, <2>2
    <2>4. QED
      BY <2>2, <2>3
  <1> HIDE DEF more
  <1>4. /\ IsFiniteSet(Units(old) \cup more)
        /\ Cardinality(Units(old) \cup more) = Cardinality(Units(old)) + Cardinality(more) - Cardinality(Units(old) \cap more)
    BY <1>2, FS_Union
  <1>5. Cardinality(Units(old) \cap more) = 0 /\ Cardinality(Units(old)) \in Nat
    BY <1>3, FS_EmptySet, FS_CardinalityType
  <1>6. QED
    BY <1>1, <1>2, <1>4, <1>5 DEF Total

\* Where each number is greater than the one before, each is greater than all before.
LEMMA Rises ==
  ASSUME NEW m \in Nat, NEW s, \A i \in 1..m : s[i] \in Nat, \A i \in 2..m : s[i] > s[i - 1]
  PROVE  \A i, j \in 1..m : i < j => s[i] < s[j]
  <1> DEFINE bad == {j \in 1..m : \E i \in 1..m : i < j /\ ~(s[i] < s[j])}
  <1> SUFFICES ASSUME bad # {} PROVE FALSE
    OBVIOUS
  <1>1. bad \in SUBSET Nat
    OBVIOUS
  <1>2. PICK j \in bad : \A k \in bad : j <= k
    <2> HIDE DEF bad
    <2>1. QED
      BY <1>1, LeastNatural
  <1>3. PICK i \in 1..m : i < j /\ ~(s[i] < s[j])
    OBVIOUS
  <1>4. j \in 2..m /\ j - 1 \in 1..m /\ j - 1 \notin bad
    BY <1>2, <1>3
  <1>5. i = j - 1 \/ s[i] < s[j - 1]
    BY <1>3, <1>4
  <1>6. s[j - 1] < s[j] /\ s[i] \in Nat /\ s[j] \in Nat /\ s[j - 1] \in Nat
    BY <1>3, <1>4
  <1>7. QED
    BY <1>3, <1>5, <1>6

IsRising(s, m) == \A i, j \in 1..m : i < j => s[i] < s[j]

IsOnto(s, m, n) == (\A i \in 1..m : s[i] \in 1..n) /\ \A k \in 1..n : \E i \in 1..m : s[i] = k

\* Rising numbers among which is each of 1..n, and no other, are 1..n.
LEMMA RisingOnto ==
  ASSUME NEW m \in Nat, NEW n \in Nat, NEW s, IsRising(s, m), IsOnto(s, m, n)
  PROVE  m = n /\ \A i \in 1..m : s[i] = i
  <1> USE DEF IsRising, IsOnto
  <1>1. \A i \in 1..m : s[i] = i
    <2> DEFINE bad == {i \in 1..m : s[i] # i}
    <2> SUFFICES ASSUME bad # {} PROVE FALSE
      OBVIOUS
    <2>1. bad \in SUBSET Nat
      OBVIOUS
    <2>2. PICK i \in bad : \A k \in bad : i <= k
      <3> HIDE DEF bad
      <3>1. QED
        BY <2>1, LeastNatural
    <2>3. \A k \in 1..(i - 1) : s[k] = k
      BY <2>2
    <2>4. i \in 1..m /\ s[i] \in Nat /\ s[i] # i
      BY <2>2
    <2>5. CASE s[i] < i
      <3>1. s[i] \in 1..(i - 1)
        BY <2>4, <2>5
      <3>2. s[s[i]] = s[i] /\ s[i] \in 1..m
        BY <2>3, <2>4, <3>1
      <3>3. s[s[i]] < s[i]
        BY <2>4, <2>5, <3>2
      <3>4. QED
        BY <2>4, <3>2, <3>3
    <2>6. CASE s[i] > i
      <3>1. i \in 1..n
        BY <2>4, <2>6
      <3>2. PICK j \in 1..m : s[j] = i
        BY <3>1
      <3>3. CASE j < i
        BY <2>3, <2>4, <3>2, <3>3
      <3>4. CASE j > i
        <4>1. s[i] < s[j]
          BY <2>4, <3>4
        <4>2. QED
          BY <2>4, <2>6, <3>2, <4>1
      <3>5. QED
        BY <2>4, <3>2, <3>3, <3>4
    <2>7. QED
      BY <2>4, <2>5, <2>6
  <1>2. m <= n
    <2>1. CASE m = 0
      BY <2>1
    <2>2. CASE m > 0
      <3>1. m \in 1..m
        BY <2>2
      <3>2. QED
        BY <1>1, <3>1
    <2>3. QED
      BY <2>1, <2>2
  <1>3. n <= m
    <2> SUFFICES ASSUME m < n PROVE FALSE
      OBVIOUS
    <2>1. n \in 1..n
      OBVIOUS
    <2>2. PICK i \in 1..m : s[i] = n
      BY <2>1
    <2>3. QED
      BY <1>1, <2>2
  <1>4. QED
    BY <1>1, <1>2, <1>3

-----------------------------------------------------------------------------
StreamLines ==
  {StartRecord} \cup [type : {"event"}, sequence : Nat, event : Events]
    \cup [type : {"session_end"}, sequence : Nat, counts : [Families -> Nat], dropped : Nat,
          truncated : BOOLEAN, complete : BOOLEAN]

WriterTyped ==
  /\ DOMAIN writer = {"open", "sequence", "bytes", "counts", "dropped", "skipped"}
  /\ writer.sequence \in Nat /\ writer.dropped \in Nat /\ writer.skipped \in Nat
  /\ writer.counts \in [Families -> Nat]

StreamTyped ==
  /\ file \in Seq(StreamLines)
  /\ offered \in Seq(Events)
  /\ WriterTyped

\* Nothing was dropped by a bound or skipped by the converter.
Intact == writer.dropped = 0 /\ writer.skipped = 0

\* A line as the writer wrote it, wherever it is in the file now.
Genuine(r) ==
  \/ r = StartRecord
  \/ /\ r.type = "event" /\ r.sequence \in 1..writer.sequence
     /\ Intact => r.event = offered[r.sequence]
  \/ ~writer.open /\ r = EndRecord

OfFamily(f) == {i \in 1..Len(offered) : offered[i].family = f}

\* What the writer counts is what it was offered, less what it dropped.
WriterCounts ==
  /\ IsFiniteSet(Units(writer.counts))
  /\ Total(writer.counts) + writer.dropped + writer.skipped = Len(offered)
  /\ Intact => /\ writer.sequence = Len(offered)
               /\ \A f \in Families : writer.counts[f] = Cardinality(OfFamily(f))

StreamInv ==
  /\ StreamTyped
  /\ \A i \in 1..Len(file) : Genuine(file[i])
  /\ WriterCounts

\* Lines and drops are numbers, and make up what was offered.
LEMMA CountsAreNumbers ==
  ASSUME StreamInv
  PROVE  /\ Total(writer.counts) \in Nat /\ writer.dropped \in Nat /\ writer.skipped \in Nat /\ Len(offered) \in Nat
         /\ Total(writer.counts) + writer.dropped + writer.skipped = Len(offered) /\ IsFiniteSet(Units(writer.counts))
  BY FS_CardinalityType DEF StreamInv, WriterCounts, Total, StreamTyped, WriterTyped

\* A stream starts with nothing offered and nothing lost.
LEMMA StreamStarts == StreamInit => StreamInv
  <1> SUFFICES ASSUME StreamInit PROVE StreamInv
    OBVIOUS
  <1>1. StreamTyped
    <2>1. StartRecord \in StreamLines
      BY DEF StreamLines
    <2>2. WriterTyped
      BY DEF StreamInit, WriterTyped
    <2>3. QED
      BY <2>1, <2>2 DEF StreamInit, StreamTyped
  <1>2. \A i \in 1..Len(file) : Genuine(file[i])
    BY DEF StreamInit, Genuine
  <1>3. WriterCounts
    <2>1. Units(writer.counts) = {}
      BY DEF StreamInit, Units
    <2>2. IsFiniteSet(Units(writer.counts)) /\ Total(writer.counts) = 0
      BY <2>1, FS_EmptySet DEF Total
    <2>3. \A f \in Families : OfFamily(f) = {}
      BY DEF StreamInit, OfFamily
    <2>4. \A f \in Families : writer.counts[f] = Cardinality(OfFamily(f))
      BY <2>3, FS_EmptySet DEF StreamInit
    <2>5. QED
      BY <2>2, <2>4 DEF StreamInit, WriterCounts, Intact
  <1>4. QED
    BY <1>1, <1>2, <1>3 DEF StreamInv

\* An event that is written has its number, and is counted with its family.
LEMMA WritesEvent ==
  ASSUME StreamInv, NEW event \in Events, WriteEvent(event)
  PROVE  StreamInv'
  <1>1. event.family \in Families /\ event.size \in Nat
    BY StreamConstants DEF Events
  <1>2. /\ writer.open /\ offered' = Append(offered, event) /\ Len(offered') = Len(offered) + 1 /\ Len(offered) \in Nat
        /\ \A i \in 1..Len(offered) : offered'[i] = offered[i]
        /\ offered'[Len(offered) + 1] = event /\ offered' \in Seq(Events)
    BY DEF WriteEvent, StreamInv, StreamTyped
  <1>3. CASE Drops(event)
    <2>1. writer' = [writer EXCEPT !.dropped = @ + 1] /\ file' = file
      BY <1>3 DEF WriteEvent
    <2>2. /\ writer'.dropped = writer.dropped + 1 /\ writer'.skipped = writer.skipped /\ writer'.counts = writer.counts
          /\ writer'.open = writer.open /\ writer'.sequence = writer.sequence
      BY <2>1 DEF StreamInv, StreamTyped, WriterTyped
    <2>3. ~Intact'
      BY <2>2, CountsAreNumbers DEF Intact
    <2>4. StreamTyped'
      <3>1. WriterTyped'
        BY <2>1, <2>2 DEF StreamInv, StreamTyped, WriterTyped
      <3>2. QED
        BY <2>1, <1>2, <3>1 DEF StreamInv, StreamTyped
    <2>5. \A i \in 1..Len(file') : Genuine(file[i])'
      BY <2>1, <2>2, <2>3, <1>2 DEF StreamInv, Genuine
    <2>6. WriterCounts'
      <3>1. Total(writer.counts) + (writer.dropped + 1) + writer.skipped = Len(offered) + 1
        BY CountsAreNumbers
      <3>2. Total(writer'.counts) + writer'.dropped + writer'.skipped = Len(offered') /\ IsFiniteSet(Units(writer'.counts))
        BY CountsAreNumbers, <3>1, <2>2, <1>2
      <3>3. QED
        BY <3>2, <2>3 DEF WriterCounts
    <2>7. QED
      BY <2>4, <2>5, <2>6 DEF StreamInv
  <1>4. CASE ~Drops(event)
    <2> DEFINE n == writer.sequence + 1
               line == EventRecord(event, n)
               counts == [writer.counts EXCEPT ![event.family] = @ + 1]
    <2>1. /\ file' = Append(file, line)
          /\ writer' = [writer EXCEPT !.sequence = @ + 1, !.bytes = @ + event.size, !.counts[event.family] = @ + 1]
      BY <1>4 DEF WriteEvent
    <2>2. /\ writer'.dropped = writer.dropped /\ writer'.skipped = writer.skipped /\ writer'.counts = counts
          /\ writer'.open = writer.open /\ writer'.sequence = n /\ n \in Nat \ {0} /\ writer.sequence \in Nat
      BY <2>1 DEF StreamInv, StreamTyped, WriterTyped
    <2>3. line \in StreamLines /\ line.type = "event" /\ line.sequence = n /\ line.event = event
      BY <2>2 DEF StreamLines, EventRecord
    <2> HIDE DEF line
    <2>4. StreamTyped'
      <3>1. counts \in [Families -> Nat]
        BY <1>1 DEF StreamInv, StreamTyped, WriterTyped
      <3>2. DOMAIN writer' = DOMAIN writer
        BY <2>1
      <3> HIDE DEF counts
      <3>3. WriterTyped'
        BY <2>2, <3>1, <3>2 DEF StreamInv, StreamTyped, WriterTyped
      <3>4. file' \in Seq(StreamLines)
        BY <2>1, <2>3 DEF StreamInv, StreamTyped
      <3>5. QED
        BY <3>3, <3>4, <1>2 DEF StreamTyped
    <2>5. Intact' => Intact /\ n = Len(offered) + 1 /\ writer.sequence = Len(offered)
      BY <2>2 DEF Intact, StreamInv, WriterCounts
    <2>6. ASSUME NEW i \in 1..Len(file') PROVE Genuine(file[i])'
      <3>1. CASE i \in 1..Len(file)
        <4>1. file'[i] = file[i] /\ Genuine(file[i])
          BY <2>1, <3>1 DEF StreamInv, StreamTyped
        <4>2. CASE file[i] = StartRecord
          BY <4>1, <4>2 DEF Genuine
        <4>3. CASE /\ file[i].type = "event" /\ file[i].sequence \in 1..writer.sequence
                   /\ Intact => file[i].event = offered[file[i].sequence]
          <5>1. file'[i].sequence \in 1..writer'.sequence
            BY <4>1, <4>3, <2>2
          <5>2. Intact' => file'[i].event = offered'[file'[i].sequence]
            BY <4>1, <4>3, <2>5, <1>2
          <5>3. QED
            BY <4>1, <4>3, <5>1, <5>2 DEF Genuine
        <4>4. QED
          BY <4>1, <4>2, <4>3, <1>2 DEF Genuine
      <3>2. CASE i = Len(file) + 1
        <4>1. file'[i] = line
          BY <2>1, <3>2 DEF StreamInv, StreamTyped
        <4>2. Intact' => line.event = offered'[line.sequence]
          BY <2>3, <2>5, <1>2
        <4>3. line.sequence \in 1..writer'.sequence
          BY <2>2, <2>3
        <4>4. QED
          BY <4>1, <4>2, <4>3, <2>3 DEF Genuine
      <3>3. QED
        BY <3>1, <3>2, <2>1 DEF StreamInv, StreamTyped
    <2>7. WriterCounts'
      <3> DEFINE f == event.family
      <3>1. /\ DOMAIN writer.counts = Families /\ DOMAIN counts = Families /\ writer.counts[f] \in Nat
            /\ counts[f] = writer.counts[f] + 1 /\ \A y \in Families : y # f => counts[y] = writer.counts[y]
        BY <1>1 DEF StreamInv, StreamTyped, WriterTyped
      <3> DEFINE before == writer.counts
      <3> HIDE DEF counts, before
      <3>2. IsFiniteSet(Units(counts)) /\ Total(counts) = Total(writer.counts) + 1
        <4>1. /\ f \in DOMAIN counts /\ before[f] \in Nat /\ 1 \in Nat /\ IsFiniteSet(Units(before))
              /\ DOMAIN counts = DOMAIN before \cup {f} /\ f \in DOMAIN before /\ counts[f] = before[f] + 1
              /\ \A y \in DOMAIN before : y # f => counts[y] = before[y]
          BY <1>1, <3>1, CountsAreNumbers DEF before
        <4>2. IsFiniteSet(Units(counts)) /\ Total(counts) = Total(before) + 1
          <5>1. Gains(before, counts, f, before[f], 1)
            BY <4>1 DEF Gains
          <5>2. QED
            BY <4>1, <5>1, TotalGains
        <4>3. QED
          BY <4>2 DEF before
      <3>3. Total(counts) + writer.dropped + writer.skipped = Len(offered) + 1
        BY <3>2, CountsAreNumbers
      <3>4. ASSUME Intact', NEW g \in Families PROVE counts[g] = Cardinality(OfFamily(g)')
        <4>1. writer.counts[g] = Cardinality(OfFamily(g))
          BY <3>4, <2>5 DEF StreamInv, WriterCounts
        <4>2. IsFiniteSet(OfFamily(g))
          <5>1. IsFiniteSet(1..Len(offered))
            <6>1. Len(offered) \in Nat
              BY <1>2
            <6>2. QED
              BY <6>1, UpToIsFinite
          <5>2. OfFamily(g) \in SUBSET (1..Len(offered))
            BY DEF OfFamily
          <5>3. QED
            BY <5>1, <5>2, FS_Subset
        <4>3. CASE g = f
          <5>1. OfFamily(g)' = OfFamily(g) \cup {Len(offered) + 1} /\ Len(offered) + 1 \notin OfFamily(g)
            BY <1>2, <4>3 DEF OfFamily
          <5>2. Cardinality(OfFamily(g)') = Cardinality(OfFamily(g)) + 1
            BY <4>2, <5>1, FS_AddElement
          <5>3. QED
            BY <4>1, <4>3, <5>2, <3>1
        <4>4. CASE g # f
          <5>1. OfFamily(g)' = OfFamily(g)
            BY <1>2, <4>4 DEF OfFamily
          <5>2. QED
            BY <4>1, <4>4, <5>1, <3>1
        <4>5. QED
          BY <4>3, <4>4
      <3>5. Intact' => writer'.sequence = Len(offered')
        BY <2>2, <2>5, <1>2
      <3>6. QED
        BY <2>2, <3>2, <3>3, <3>4, <3>5, <1>2 DEF WriterCounts
    <2>8. QED
      BY <2>4, <2>6, <2>7 DEF StreamInv
  <1>5. QED
    BY <1>3, <1>4

\* A line that the converter skips is accounted for.
LEMMA SkipsLine ==
  ASSUME StreamInv, NEW event \in Events, SkipLine(event)
  PROVE  StreamInv'
  <1>1. /\ writer.open /\ Len(offered') = Len(offered) + 1 /\ offered' \in Seq(Events) /\ file' = file
        /\ writer' = [writer EXCEPT !.skipped = @ + 1]
    BY DEF SkipLine, StreamInv, StreamTyped
  <1>2. /\ writer'.dropped = writer.dropped /\ writer'.skipped = writer.skipped + 1 /\ writer'.counts = writer.counts
        /\ writer'.open = writer.open /\ writer'.sequence = writer.sequence
    BY <1>1 DEF StreamInv, StreamTyped, WriterTyped
  <1>3. ~Intact'
    BY <1>2, CountsAreNumbers DEF Intact
  <1>4. StreamTyped'
    <2>1. WriterTyped'
      BY <1>1, <1>2 DEF StreamInv, StreamTyped, WriterTyped
    <2>2. QED
      BY <1>1, <2>1 DEF StreamInv, StreamTyped
  <1>5. \A i \in 1..Len(file') : Genuine(file[i])'
    BY <1>1, <1>2, <1>3 DEF StreamInv, Genuine
  <1>6. WriterCounts'
    <2>1. Total(writer.counts) + writer.dropped + (writer.skipped + 1) = Len(offered) + 1
      BY CountsAreNumbers
    <2>2. Total(writer'.counts) = Total(writer.counts) /\ IsFiniteSet(Units(writer'.counts))
      BY <1>2, CountsAreNumbers
    <2>3. QED
      BY <1>1, <1>2, <1>3, <2>1, <2>2 DEF WriterCounts
  <1>7. QED
    BY <1>4, <1>5, <1>6 DEF StreamInv

\* A stream that is closed, or left, stays as it was counted.
LEMMA EndsStream ==
  ASSUME StreamInv, CloseStream \/ Abandon
  PROVE  StreamInv'
  <1>1. /\ writer.open /\ offered' = offered /\ writer'.open = FALSE
        /\ writer'.dropped = writer.dropped /\ writer'.skipped = writer.skipped /\ writer'.counts = writer.counts
        /\ writer'.sequence = writer.sequence /\ DOMAIN writer' = DOMAIN writer
    BY DEF CloseStream, Abandon, StreamInv, StreamTyped, WriterTyped
  <1>2. WriterTyped'
    BY <1>1 DEF StreamInv, StreamTyped, WriterTyped
  <1>3. EndRecord' = EndRecord /\ EndRecord \in StreamLines
    <2>1. EndRecord' = EndRecord
      BY <1>1 DEF EndRecord
    <2>2. EndRecord \in StreamLines
      <3> DEFINE counts == writer.counts
                 lost == writer.dropped + writer.skipped
      <3>1. counts \in [Families -> Nat] /\ writer.sequence + 1 \in Nat /\ lost \in Nat
        BY DEF StreamInv, StreamTyped, WriterTyped
      <3>2. EndRecord = [type |-> "session_end", sequence |-> writer.sequence + 1, counts |-> counts, dropped |-> lost,
                         truncated |-> writer.dropped > 0, complete |-> lost = 0]
        BY DEF EndRecord
      <3> HIDE DEF counts, lost
      <3>3. QED
        BY <3>1, <3>2 DEF StreamLines
    <2>3. QED
      BY <2>1, <2>2
  <1>4. file' = file \/ file' = Append(file, EndRecord)
    BY DEF CloseStream, Abandon
  <1>5. StreamTyped'
    <2>1. file' \in Seq(StreamLines)
      BY <1>3, <1>4 DEF StreamInv, StreamTyped
    <2>2. QED
      BY <1>1, <1>2, <2>1 DEF StreamInv, StreamTyped
  <1>6. ASSUME NEW i \in 1..Len(file') PROVE Genuine(file[i])'
    <2>1. CASE i \in 1..Len(file)
      <3>1. file'[i] = file[i] /\ Genuine(file[i])
        <4> DEFINE end == EndRecord
        <4> HIDE DEF end
        <4>1. file' = file \/ file' = Append(file, end)
          BY <1>4 DEF end
        <4>2. QED
          BY <4>1, <2>1 DEF StreamInv, StreamTyped
      <3>2. QED
        BY <3>1, <1>1 DEF Genuine, Intact
    <2>2. CASE i \notin 1..Len(file)
      <3>1. file'[i] = EndRecord
        <4> DEFINE end == EndRecord
        <4> HIDE DEF end
        <4>1. file' = file \/ file' = Append(file, end)
          BY <1>4 DEF end
        <4>2. file'[i] = end
          BY <4>1, <2>2 DEF StreamInv, StreamTyped
        <4>3. QED
          BY <4>2 DEF end
      <3>2. QED
        BY <3>1, <1>1, <1>3 DEF Genuine
    <2>3. QED
      BY <2>1, <2>2
  <1>7. WriterCounts'
    BY <1>1 DEF StreamInv, WriterCounts, Intact, OfFamily
  <1>8. QED
    BY <1>5, <1>6, <1>7 DEF StreamInv

\* Lines that are lost, repeated or moved stay the lines that were written.
LEMMA SameLines ==
  ASSUME NEW S, NEW old \in Seq(S), NEW i \in 1..Len(old), NEW k \in 1..Len(old), NEW new,
         \/ new = RemoveAt(old, i)
         \/ new = InsertAt(old, k, old[i])
         \/ new = InsertAt(RemoveAt(old, i), k, old[i])
  PROVE  new \in Seq(S) /\ \A j \in 1..Len(new) : \E h \in 1..Len(old) : new[j] = old[h]
  <1> DEFINE T == {old[h] : h \in 1..Len(old)}
  <1>1. old \in Seq(T) /\ T \subseteq S /\ old[i] \in T
    OBVIOUS
  <1> HIDE DEF T
  <1>2. \A s \in Seq(T) : \A a, b \in Int : 1 <= a /\ b <= Len(s) => SubSeq(s, a, b) \in Seq(T)
    OBVIOUS
  <1>3. RemoveAt(old, i) \in Seq(T)
    <2>1. SubSeq(old, 1, i - 1) \in Seq(T) /\ SubSeq(old, i + 1, Len(old)) \in Seq(T)
      BY <1>1, <1>2
    <2>2. QED
      BY <2>1 DEF RemoveAt
  <1>4. InsertAt(old, k, old[i]) \in Seq(T)
    <2>1. SubSeq(old, 1, k - 1) \in Seq(T) /\ SubSeq(old, k, Len(old)) \in Seq(T) /\ <<old[i]>> \in Seq(T)
      BY <1>1, <1>2
    <2>2. QED
      BY <2>1 DEF InsertAt
  <1>5. InsertAt(RemoveAt(old, i), k, old[i]) \in Seq(T)
    <2> DEFINE rest == RemoveAt(old, i)
    <2>1. rest \in Seq(T) /\ Len(rest) = Len(old) - 1
      <3>1. SubSeq(old, 1, i - 1) \in Seq(T) /\ SubSeq(old, i + 1, Len(old)) \in Seq(T)
        BY <1>1, <1>2
      <3>2. Len(SubSeq(old, 1, i - 1)) = i - 1 /\ Len(SubSeq(old, i + 1, Len(old))) = Len(old) - i
        OBVIOUS
      <3> DEFINE front == SubSeq(old, 1, i - 1)
                 back == SubSeq(old, i + 1, Len(old))
      <3>3. rest = front \o back
        BY DEF RemoveAt
      <3>4. i \in Nat /\ Len(old) \in Nat /\ (i - 1) + (Len(old) - i) = Len(old) - 1
        OBVIOUS
      <3> HIDE DEF rest, front, back
      <3>5. rest \in Seq(T) /\ Len(rest) = Len(front) + Len(back)
        BY <3>1, <3>3 DEF front, back
      <3>6. QED
        BY <3>2, <3>4, <3>5 DEF front, back
    <2> HIDE DEF rest
    <2>2. SubSeq(rest, 1, k - 1) \in Seq(T) /\ SubSeq(rest, k, Len(rest)) \in Seq(T) /\ <<old[i]>> \in Seq(T)
      BY <1>1, <1>2, <2>1
    <2>3. InsertAt(rest, k, old[i]) \in Seq(T)
      BY <2>2 DEF InsertAt
    <2>4. QED
      BY <2>3 DEF rest
  <1>6. new \in Seq(T)
    BY <1>3, <1>4, <1>5
  <1>7. new \in Seq(S) /\ \A j \in 1..Len(new) : new[j] \in T
    BY <1>1, <1>6
  <1>8. QED
    BY <1>7 DEF T

\* What happens to the file on its way leaves its lines genuine.
LEMMA Damages ==
  ASSUME StreamInv, Damage
  PROVE  StreamInv'
  <1>1. PICK i \in 1..Len(file), k \in 1..Len(file) :
          file' \in {RemoveAt(file, i), InsertAt(file, k, file[i]), InsertAt(RemoveAt(file, i), k, file[i])}
    BY DEF Damage
  <1>2. writer' = writer /\ offered' = offered /\ ~writer.open
    BY DEF Damage
  <1>3. file' \in Seq(StreamLines) /\ \A j \in 1..Len(file') : \E h \in 1..Len(file) : file'[j] = file[h]
    <2> DEFINE next == file'
    <2>1. file \in Seq(StreamLines)
      BY DEF StreamInv, StreamTyped
    <2>2. \/ next = RemoveAt(file, i)
          \/ next = InsertAt(file, k, file[i])
          \/ next = InsertAt(RemoveAt(file, i), k, file[i])
      BY <1>1
    <2> HIDE DEF next
    <2>3. next \in Seq(StreamLines) /\ \A j \in 1..Len(next) : \E h \in 1..Len(file) : next[j] = file[h]
      BY <2>1, <2>2, SameLines
    <2>4. QED
      BY <2>3 DEF next
  <1>4. \A j \in 1..Len(file') : Genuine(file[j])'
    BY <1>2, <1>3 DEF StreamInv, Genuine, Intact, EndRecord
  <1>5. QED
    BY <1>2, <1>3, <1>4 DEF StreamInv, StreamTyped, WriterTyped, WriterCounts, Intact, OfFamily

\* Every step of the stream keeps its account.
LEMMA StreamSteps == StreamInv /\ [StreamNext]_streamVars => StreamInv'
  <1> SUFFICES ASSUME StreamInv, [StreamNext]_streamVars PROVE StreamInv'
    OBVIOUS
  <1>1. CASE UNCHANGED streamVars
    BY <1>1 DEF streamVars, StreamInv, StreamTyped, WriterTyped, Genuine, Intact, WriterCounts, OfFamily, EndRecord
  <1>2. QED
    BY <1>1, WritesEvent, SkipsLine, EndsStream, Damages DEF StreamNext

-----------------------------------------------------------------------------
\* An end in the file tells what the writer counted.
LEMMA EndsAreCounted == StreamInv => EveryLineCounted
  <1> SUFFICES ASSUME StreamInv, NEW i \in 1..Len(file), file[i].type = "session_end"
               PROVE  file[i].dropped + Total(file[i].counts) = Len(offered)
    BY DEF EveryLineCounted
  <1>1. file[i] = EndRecord
    BY DEF StreamInv, Genuine, StartRecord
  <1>2. file[i].dropped = writer.dropped + writer.skipped /\ file[i].counts = writer.counts
    BY <1>1 DEF EndRecord
  <1>3. QED
    BY <1>2, CountsAreNumbers

\* What a summary reads is lines of the file, and the limit cuts none off unless
\* the file is longer.
LEMMA ReadsLines ==
  ASSUME StreamInv
  PROVE  /\ Len(Read) \in Nat /\ \A i \in 1..Len(Read) : Genuine(Read[i])
         /\ Read # <<>> => Len(Read) >= 1
  <1> DEFINE n == IF Len(file) > ReaderRecords THEN ReaderRecords ELSE Len(file)
  <1>1. n \in Nat /\ n <= Len(file) /\ file \in Seq(StreamLines)
    BY StreamConstants DEF StreamInv, StreamTyped
  <1> HIDE DEF n
  <1>2. Read = SubSeq(file, 1, n)
    BY DEF Read, n
  <1>3. Read \in Seq(StreamLines) /\ Len(Read) = n /\ \A i \in 1..n : Read[i] = file[i]
    BY <1>1, <1>2
  <1>4. Read # <<>> => n >= 1
    BY <1>1, <1>3
  <1>5. QED
    BY <1>1, <1>3, <1>4 DEF StreamInv

\* Between its start and its end, a complete session has only events, with rising
\* numbers, and as many of each family as were offered.
LEMMA CompleteLines ==
  ASSUME StreamInv, Summarizes, SessionComplete
  PROVE  /\ Len(Read) \in Nat /\ Len(Read) >= 2 /\ Intact
         /\ \A i \in 2..(Len(Read) - 1) : /\ Read[i].type = "event" /\ Read[i].sequence \in 1..Len(offered)
                                         /\ Read[i].event = offered[Read[i].sequence]
         /\ \A i \in 2..(Len(Read) - 1) : i > 2 => Read[i].sequence > Read[i - 1].sequence
         /\ Read[1].type = "session_start" /\ Read[Len(Read)].type = "session_end"
         /\ \A f \in Families : Cardinality({i \in 1..Len(Read) : Read[i].type = "event" /\ Read[i].event.family = f})
                               = Cardinality(OfFamily(f))
  <1> DEFINE size == Len(Read)
  <1>1. /\ size \in Nat /\ size >= 1 /\ Read[1].type = "session_start" /\ Read[size].type = "session_end"
        /\ ~StructuralErrors
    BY ReadsLines DEF Summarizes, SessionComplete, EndsRead
  <1>2. size >= 2
    <2>1. size # 1
      BY <1>1
    <2>2. QED
      BY <1>1, <2>1
  <1>3. Genuine(Read[size])
    BY <1>1, ReadsLines
  <1>4. Read[size] = EndRecord
    BY <1>1, <1>3 DEF Genuine, StartRecord
  <1>5. Intact
    <2>1. Read[size].dropped = 0
      BY DEF SessionComplete
    <2>2. writer.dropped + writer.skipped = 0
      BY <1>4, <2>1 DEF EndRecord
    <2>3. QED
      BY <2>2, CountsAreNumbers DEF Intact
  <1>6. writer.sequence = Len(offered) /\ \A f \in Families : writer.counts[f] = Cardinality(OfFamily(f))
    BY <1>5 DEF StreamInv, WriterCounts
  <1>7. /\ \A i \in 2..size : Read[i].type # "session_start"
        /\ \A i \in 1..(size - 1) : Read[i].type # "session_end"
        /\ Monotonic /\ Read[size].counts = CountIn(Read)
    BY <1>1 DEF StructuralErrors, EndsRead
  <1>8. ASSUME NEW i \in 2..(size - 1)
        PROVE  /\ Read[i].type = "event" /\ Read[i].sequence \in 1..Len(offered)
               /\ Read[i].event = offered[Read[i].sequence]
               /\ Read[i].sequence > Read[i - 1].sequence
    <2>1. i \in 1..size /\ i \in 2..size /\ i \in 1..(size - 1)
      BY <1>1
    <2>2. Genuine(Read[i])
      BY <2>1, ReadsLines
    <2>3. Read[i].type # "session_start" /\ Read[i].type # "session_end"
      BY <2>1, <1>7
    <2>4. Read[i].type = "event" /\ Read[i].sequence \in 1..writer.sequence /\ Read[i].event = offered[Read[i].sequence]
      BY <2>2, <2>3, <1>5 DEF Genuine, StartRecord, EndRecord
    <2>5. Read[i].sequence > Read[i - 1].sequence
      BY <2>1, <1>7 DEF Monotonic
    <2>6. QED
      BY <2>4, <2>5, <1>6
  <1>9. ASSUME NEW f \in Families
        PROVE  Cardinality({i \in 1..Len(Read) : Read[i].type = "event" /\ Read[i].event.family = f}) = Cardinality(OfFamily(f))
    <2>1. Read[size].counts = writer.counts
      BY <1>4 DEF EndRecord
    <2>2. CountIn(Read)[f] = Cardinality({i \in 1..Len(Read) : Read[i].type = "event" /\ Read[i].event.family = f})
      BY DEF CountIn
    <2>3. QED
      BY <2>1, <2>2, <1>6, <1>7
  <1>10. QED
    BY <1>1, <1>2, <1>5, <1>7, <1>8, <1>9

\* The numbers of a complete session are those of the events offered: as many of
\* each family, all of them different.
LEMMA SessionsAreWhole == StreamInv => CompleteIsWhole
  <1> SUFFICES ASSUME StreamInv, Summarizes, SessionComplete
               PROVE  /\ Len(Read) = Len(offered) + 2
                      /\ \A i \in 1..Len(offered) : Read[i + 1].type = "event" /\ Read[i + 1].event = offered[i]
    BY DEF CompleteIsWhole
  <1> DEFINE size == Len(Read)
             m == size - 2
             n == Len(offered)
             number == [i \in 1..m |-> Read[i + 1].sequence]
  <1>1. size \in Nat /\ size >= 2 /\ m \in Nat /\ n \in Nat
    BY CompleteLines, CountsAreNumbers
  <1>2. \A i \in 1..m : /\ number[i] \in 1..n /\ number[i] \in Nat /\ Read[i + 1].type = "event"
                        /\ Read[i + 1].event = offered[number[i]]
    <2> SUFFICES ASSUME NEW i \in 1..m
                 PROVE  /\ number[i] \in 1..n /\ number[i] \in Nat /\ Read[i + 1].type = "event"
                        /\ Read[i + 1].event = offered[number[i]]
      OBVIOUS
    <2>1. i + 1 \in 2..(size - 1)
      BY <1>1
    <2>2. QED
      BY <2>1, CompleteLines
  <1>3. \A i \in 2..m : number[i] > number[i - 1]
    <2> SUFFICES ASSUME NEW i \in 2..m PROVE number[i] > number[i - 1]
      OBVIOUS
    <2>1. i + 1 \in 2..(size - 1) /\ i + 1 > 2 /\ i \in 1..m /\ i - 1 \in 1..m /\ (i + 1) - 1 = i /\ (i - 1) + 1 = i
      BY <1>1
    <2>2. Read[i + 1].sequence > Read[(i + 1) - 1].sequence
      BY <2>1, CompleteLines
    <2>3. number[i] = Read[i + 1].sequence /\ number[i - 1] = Read[(i - 1) + 1].sequence
      BY <2>1
    <2>4. QED
      BY <2>1, <2>2, <2>3
  <1>4. \A i, j \in 1..m : i < j => number[i] < number[j]
    <2> HIDE DEF number, m
    <2>1. QED
      BY <1>1, <1>2, <1>3, Rises
  <1>5. ASSUME NEW k \in 1..n PROVE \E i \in 1..m : number[i] = k
    <2> DEFINE f == offered[k].family
               read == {i \in 1..Len(Read) : Read[i].type = "event" /\ Read[i].event.family = f}
               found == [i \in read |-> number[i - 1]]
    <2>1. f \in Families
      <3>1. offered[k] \in Events
        BY <1>1 DEF StreamInv, StreamTyped
      <3>2. QED
        BY <3>1 DEF Events
    <2>2. Cardinality(read) = Cardinality(OfFamily(f))
      BY <2>1, CompleteLines
    <2>3. IsFiniteSet(OfFamily(f))
      <3>1. IsFiniteSet(1..n)
        BY <1>1, UpToIsFinite
      <3>2. OfFamily(f) \in SUBSET (1..n)
        BY DEF OfFamily
      <3>3. QED
        BY <3>1, <3>2, FS_Subset
    <2>4. ASSUME NEW i \in read PROVE i - 1 \in 1..m /\ number[i - 1] \in OfFamily(f)
      <3>1. i # 1 /\ i # size /\ i \in 1..size
        BY CompleteLines
      <3>2. i - 1 \in 1..m /\ (i - 1) + 1 = i
        BY <1>1, <3>1
      <3>3. offered[number[i - 1]].family = f /\ number[i - 1] \in 1..n
        BY <1>2, <3>2
      <3>4. QED
        BY <3>2, <3>3 DEF OfFamily
    <2>5. found \in Injection(read, OfFamily(f))
      <3>1. found \in [read -> OfFamily(f)]
        BY <2>4
      <3>2. ASSUME NEW i \in read, NEW j \in read, found[i] = found[j] PROVE i = j
        <4> DEFINE a == i - 1
                   b == j - 1
        <4>1. i \in Int /\ j \in Int /\ a \in 1..m /\ b \in 1..m /\ found[i] = number[a] /\ found[j] = number[b]
          <5>1. i \in 1..size /\ j \in 1..size
            OBVIOUS
          <5>2. a \in 1..m /\ b \in 1..m
            BY <2>4
          <5>3. found[i] = number[a] /\ found[j] = number[b]
            OBVIOUS
          <5>4. QED
            BY <1>1, <5>1, <5>2, <5>3
        <4> HIDE DEF number, m, n, found, read, a, b
        <4>2. number[a] = number[b] /\ number[a] \in Nat /\ number[b] \in Nat
          BY <4>1, <3>2, <1>2
        <4>3. ~(a < b) /\ ~(b < a)
          BY <4>1, <4>2, <1>4
        <4>4. a = b
          BY <4>1, <4>3, <1>1
        <4>5. QED
          BY <4>1, <4>4 DEF a, b
      <3>3. QED
        BY <3>1, <3>2 DEF Injection, IsInjective
    <2> HIDE DEF read, found
    <2>6. found \in Surjection(read, OfFamily(f))
      BY <2>2, <2>3, <2>5, FS_Injection
    <2>7. k \in OfFamily(f)
      BY DEF OfFamily
    <2>8. PICK i \in read : found[i] = k
      BY <2>6, <2>7 DEF Surjection
    <2>9. QED
      BY <2>4, <2>8 DEF found
  <1>6. m = n /\ \A i \in 1..m : number[i] = i
    <2> HIDE DEF number, m, n
    <2>1. QED
      <3>1. \A i \in 1..m : number[i] \in 1..n
        BY <1>2
      <3>2. \A k \in 1..n : \E i \in 1..m : number[i] = k
        BY <1>5
      <3>3. m \in Nat /\ n \in Nat /\ IsRising(number, m) /\ IsOnto(number, m, n)
        BY <1>1, <1>4, <3>1, <3>2 DEF IsRising, IsOnto
      <3>4. QED
        BY <3>3, RisingOnto
  <1>7. n = size - 2 /\ \A i \in 1..n : number[i] = i
    BY <1>6
  <1>8. size = n + 2
    BY <1>1, <1>7
  <1>9. \A i \in 1..n : Read[i + 1].type = "event" /\ Read[i + 1].event = offered[i]
    <2> HIDE DEF number, m, n
    <2>1. QED
      BY <1>2, <1>6
  <1>10. QED
    BY <1>8, <1>9

-----------------------------------------------------------------------------
BytesOf == [i \in 1..Len(consumed) |-> consumed[i].bytes]
FamiliesOf == {consumed[i].family : i \in Calls("event")}
FieldsOf == {0} \cup {consumed[i].fields : i \in 1..Len(consumed)}

\* Each aggregate is what all that was consumed makes together, and is diagnosed
\* once it has come to its limit.
LimitsInv ==
  /\ consumed \in Seq(Observation)
  /\ DOMAIN usage = Aggregates /\ \A a \in Aggregates : usage[a] \in Nat
  /\ \A a \in Aggregates : diagnosed[a] = "none" <=> usage[a] < Limit[a]
  /\ DOMAIN diagnosed = Aggregates
  /\ usage["max_events"] = Cardinality(Calls("event"))
  /\ usage["max_captures"] = Cardinality(Calls("capture"))
  /\ families = FamiliesOf /\ IsFiniteSet(families) /\ usage["max_event_families"] = Cardinality(families)
  /\ IsFiniteSet(Units(BytesOf)) /\ usage["max_total_bytes"] = Total(BytesOf)
  /\ usage["max_fields"] \in FieldsOf /\ \A x \in FieldsOf : x <= usage["max_fields"]

\* A tracker starts with nothing used.
LEMMA LimitsStart == LimitsInit => LimitsInv
  <1> SUFFICES ASSUME LimitsInit PROVE LimitsInv
    OBVIOUS
  <1>1. Calls("event") = {} /\ Calls("capture") = {} /\ FamiliesOf = {} /\ FieldsOf = {0} /\ Units(BytesOf) = {}
    BY DEF LimitsInit, Calls, FamiliesOf, FieldsOf, Units, BytesOf
  <1>2. \A a \in Aggregates : Limit[a] \in Nat \ {0}
    BY LimitConstants
  <1>3. \A a \in Aggregates : usage[a] = 0 /\ diagnosed[a] = "none"
    BY DEF LimitsInit
  <1>4. \A a \in Aggregates : diagnosed[a] = "none" <=> usage[a] < Limit[a]
    BY <1>2, <1>3
  <1>5. DOMAIN usage = Aggregates /\ DOMAIN diagnosed = Aggregates /\ consumed = <<>> /\ families = {}
    BY DEF LimitsInit
  <1>6. /\ usage["max_events"] = 0 /\ usage["max_captures"] = 0 /\ usage["max_event_families"] = 0
        /\ usage["max_total_bytes"] = 0 /\ usage["max_fields"] = 0
    BY <1>3 DEF Aggregates
  <1>7. IsFiniteSet({}) /\ Cardinality({}) = 0
    BY FS_EmptySet
  <1>8. /\ usage["max_events"] = Cardinality(Calls("event")) /\ usage["max_captures"] = Cardinality(Calls("capture"))
        /\ IsFiniteSet(families) /\ usage["max_event_families"] = Cardinality(families)
        /\ IsFiniteSet(Units(BytesOf)) /\ usage["max_total_bytes"] = Total(BytesOf)
    BY <1>1, <1>5, <1>6, <1>7 DEF Total
  <1>9. usage["max_fields"] \in FieldsOf /\ \A x \in FieldsOf : x <= usage["max_fields"]
    BY <1>1, <1>6
  <1>10. consumed \in Seq(Observation)
    BY <1>5
  <1>11. QED
    BY <1>1, <1>3, <1>4, <1>5, <1>8, <1>9, <1>10 DEF LimitsInv

\* An aggregate after an observation that gives it a value.
LEMMA Diagnoses ==
  ASSUME LimitsInv, NEW a \in Aggregates, NEW value \in Nat
  PROVE  LET used == IF value > usage[a] THEN value ELSE usage[a]
         IN  used \in Nat /\ (Diagnosis(a, value) = "none" <=> used < Limit[a])
  <1>1. usage[a] \in Nat /\ Limit[a] \in Nat /\ (diagnosed[a] = "none" <=> usage[a] < Limit[a])
    BY LimitConstants DEF LimitsInv
  <1>2. CASE value >= Limit[a]
    <2>1. Diagnosis(a, value) # "none"
      BY <1>2 DEF Diagnosis
    <2>2. QED
      BY <1>1, <1>2, <2>1
  <1>3. CASE ~(value >= Limit[a])
    <2>1. Diagnosis(a, value) = diagnosed[a]
      BY <1>3 DEF Diagnosis
    <2>2. QED
      BY <1>1, <1>3, <2>1
  <1>4. QED
    BY <1>2, <1>3

\* What an observation adds to the calls, families, bytes and fields so far.
LEMMA CallsAppended ==
  ASSUME LimitsInv, NEW o \in Observation, consumed' = Append(consumed, o)
  PROVE  /\ \A kind : /\ IsFiniteSet(Calls(kind)) /\ Len(consumed) + 1 \notin Calls(kind)
                      /\ Calls(kind)' = IF o.kind = kind THEN Calls(kind) \cup {Len(consumed) + 1} ELSE Calls(kind)
         /\ FamiliesOf' = IF o.kind = "event" THEN FamiliesOf \cup {o.family} ELSE FamiliesOf
         /\ FieldsOf' = FieldsOf \cup {o.fields}
         /\ IsFiniteSet(Units(BytesOf')) /\ Total(BytesOf)' = Total(BytesOf) + o.bytes
         /\ consumed' \in Seq(Observation)
  <1>1. /\ consumed \in Seq(Observation) /\ Len(consumed) \in Nat /\ Len(consumed') = Len(consumed) + 1
        /\ \A i \in 1..Len(consumed) : consumed'[i] = consumed[i]
        /\ consumed'[Len(consumed) + 1] = o /\ consumed' \in Seq(Observation)
    BY DEF LimitsInv
  <1> DEFINE n == Len(consumed)
  <1>2. 1..(n + 1) = (1..n) \cup {n + 1} /\ n + 1 \notin 1..n
    BY <1>1
  <1>3. ASSUME NEW kind
        PROVE  /\ IsFiniteSet(Calls(kind)) /\ n + 1 \notin Calls(kind)
               /\ Calls(kind)' = IF o.kind = kind THEN Calls(kind) \cup {n + 1} ELSE Calls(kind)
    <2>1. IsFiniteSet(1..n) /\ Calls(kind) \in SUBSET (1..n)
      BY <1>1, FS_Interval DEF Calls
    <2>2. IsFiniteSet(Calls(kind)) /\ n + 1 \notin Calls(kind)
      BY <1>2, <2>1, FS_Subset
    <2>3. CASE o.kind = kind
      <3>1. Calls(kind)' = Calls(kind) \cup {n + 1}
        BY <1>1, <1>2, <2>3 DEF Calls
      <3>2. QED
        BY <2>2, <2>3, <3>1
    <2>4. CASE o.kind # kind
      <3>1. Calls(kind)' = Calls(kind)
        BY <1>1, <1>2, <2>4 DEF Calls
      <3>2. QED
        BY <2>2, <2>4, <3>1
    <2>5. QED
      BY <2>3, <2>4
  <1>4. FamiliesOf' = IF o.kind = "event" THEN FamiliesOf \cup {o.family} ELSE FamiliesOf
    <2>1. \A i \in Calls("event") : i \in 1..n /\ consumed'[i].family = consumed[i].family
      BY <1>1 DEF Calls
    <2>2. consumed'[n + 1].family = o.family
      BY <1>1
    <2>3. CASE o.kind = "event"
      <3>1. Calls("event")' = Calls("event") \cup {n + 1}
        BY <1>3, <2>3
      <3>2. FamiliesOf' = FamiliesOf \cup {o.family}
        BY <2>1, <2>2, <3>1 DEF FamiliesOf
      <3>3. QED
        BY <2>3, <3>2
    <2>4. CASE o.kind # "event"
      <3>1. Calls("event")' = Calls("event")
        BY <1>3, <2>4
      <3>2. FamiliesOf' = FamiliesOf
        BY <2>1, <3>1 DEF FamiliesOf
      <3>3. QED
        BY <2>4, <3>2
    <2>5. QED
      BY <2>3, <2>4
  <1>5. FieldsOf' = FieldsOf \cup {o.fields}
    BY <1>1, <1>2 DEF FieldsOf
  <1>6. IsFiniteSet(Units(BytesOf')) /\ Total(BytesOf)' = Total(BytesOf) + o.bytes
    <2> DEFINE old == BytesOf
               new == BytesOf'
    <2>1. /\ DOMAIN old = 1..n /\ DOMAIN new = 1..(n + 1) /\ \A i \in 1..n : new[i] = old[i]
          /\ new[n + 1] = o.bytes
      <3>1. new = [i \in 1..(n + 1) |-> consumed'[i].bytes]
        BY <1>1 DEF BytesOf
      <3>2. old = [i \in 1..n |-> consumed[i].bytes]
        BY DEF BytesOf
      <3> HIDE DEF old, new
      <3>3. QED
        BY <1>1, <1>2, <3>1, <3>2
    <2>2. IsFiniteSet(Units(old)) /\ o.bytes \in Nat
      BY LimitConstants DEF LimitsInv, Observation
    <2>3. /\ n + 1 \in DOMAIN new /\ DOMAIN new = DOMAIN old \cup {n + 1} /\ n + 1 \notin DOMAIN old
          /\ \A y \in DOMAIN old : new[y] = old[y]
      BY <1>2, <2>1
    <2> DEFINE x == n + 1
               b == o.bytes
               k == 0
    <2>4. new[x] = k + b /\ b \in Nat /\ k \in Nat /\ k = 0
      BY <2>1, <2>2
    <2>5. /\ x \in DOMAIN new /\ DOMAIN new = DOMAIN old \cup {x} /\ (x \notin DOMAIN old)
          /\ \A y \in DOMAIN old : y # x => new[y] = old[y]
      BY <2>3
    <2> HIDE DEF old, new, n, x, b, k
    <2>6. IsFiniteSet(Units(new)) /\ Total(new) = Total(old) + b
      <3>1. Gains(old, new, x, k, b)
        BY <2>4, <2>5 DEF Gains
      <3>2. QED
        BY <2>2, <2>4, <3>1, TotalGains
    <2>7. QED
      BY <2>6 DEF old, new, b, Total
  <1>7. QED
    BY <1>1, <1>3, <1>4, <1>5, <1>6

\* What an observation counts, each aggregate has together with what came before.
LEMMA Consumes ==
  ASSUME LimitsInv, NEW o \in Observation, Consume(o)
  PROVE  LimitsInv'
  <1> DEFINE counter == CounterOf(o.kind)
             value == Observed(o)
             seen == IF o.kind = "event" THEN families \cup {o.family} ELSE families
             used(a) == IF a \in DOMAIN value /\ value[a] > usage[a] THEN value[a] ELSE usage[a]
  <1>1. /\ consumed' = Append(consumed, o) /\ families' = seen
        /\ DOMAIN usage' = Aggregates /\ \A a \in Aggregates : usage'[a] = used(a)
        /\ DOMAIN diagnosed' = Aggregates
        /\ \A a \in Aggregates : diagnosed'[a] = IF a \in DOMAIN value THEN Diagnosis(a, value[a]) ELSE diagnosed[a]
    BY DEF Consume
  <1>2. o.kind \in {"event", "capture"} /\ o.bytes \in Nat /\ o.fields \in Nat
    BY LimitConstants DEF Observation
  <1>3. IsFiniteSet(seen) /\ Cardinality(seen) \in Nat /\ Cardinality(families) <= Cardinality(seen)
    <2>1. IsFiniteSet(families) /\ Cardinality(families) \in Nat
      BY FS_CardinalityType DEF LimitsInv
    <2>2. CASE o.kind = "event"
      <3>1. seen = families \cup {o.family}
        BY <2>2
      <3> DEFINE x == o.family
      <3> HIDE DEF x, seen
      <3>2. /\ IsFiniteSet(families \cup {x})
            /\ Cardinality(families \cup {x}) = IF x \in families THEN Cardinality(families) ELSE Cardinality(families) + 1
        BY <2>1, FS_AddElement
      <3>3. QED
        BY <2>1, <3>1, <3>2 DEF x
    <2>3. CASE o.kind # "event"
      BY <2>1, <2>3
    <2>4. QED
      BY <2>2, <2>3
  <1>4. /\ DOMAIN value = {counter, "max_total_bytes", "max_fields"} \cup (IF o.kind = "event" THEN {"max_event_families"} ELSE {})
        /\ value[counter] = usage[counter] + 1 /\ value["max_total_bytes"] = usage["max_total_bytes"] + o.bytes
        /\ value["max_fields"] = o.fields
        /\ o.kind = "event" => value["max_event_families"] = Cardinality(seen)
        /\ counter \in {"max_events", "max_captures"}
    BY <1>2 DEF Observed, CounterOf
  <1>5. /\ \A a \in Aggregates : usage[a] \in Nat
        /\ usage["max_events"] \in Nat /\ usage["max_captures"] \in Nat /\ usage["max_total_bytes"] \in Nat
        /\ usage["max_fields"] \in Nat /\ usage["max_event_families"] \in Nat
    BY DEF LimitsInv, Aggregates
  <1> HIDE DEF value, seen, counter
  <1>6. \A a \in DOMAIN value : value[a] \in Nat /\ a \in Aggregates
    <2> SUFFICES ASSUME NEW a \in DOMAIN value PROVE value[a] \in Nat /\ a \in Aggregates
      OBVIOUS
    <2>1. \/ a = counter \/ a = "max_total_bytes" \/ a = "max_fields"
          \/ a = "max_event_families" /\ o.kind = "event"
      BY <1>4
    <2>2. usage[counter] \in Nat /\ counter \in Aggregates
      BY <1>4, <1>5 DEF Aggregates
    <2>3. QED
      BY <1>2, <1>3, <1>4, <1>5, <2>1, <2>2 DEF Aggregates
  <1>7. ASSUME NEW a \in Aggregates
        PROVE  usage'[a] \in Nat /\ (diagnosed'[a] = "none" <=> usage'[a] < Limit[a])
    <2>1. CASE a \in DOMAIN value
      <3>1. value[a] \in Nat
        BY <1>6, <2>1
      <3>2. usage'[a] = (IF value[a] > usage[a] THEN value[a] ELSE usage[a]) /\ diagnosed'[a] = Diagnosis(a, value[a])
        BY <1>1, <2>1
      <3>3. QED
        BY <3>1, <3>2, Diagnoses
    <2>2. CASE a \notin DOMAIN value
      <3>1. usage'[a] = usage[a] /\ diagnosed'[a] = diagnosed[a]
        BY <1>1, <2>2
      <3>2. QED
        BY <3>1 DEF LimitsInv
    <2>3. QED
      BY <2>1, <2>2
  <1>8. /\ usage'["max_events"] = IF o.kind = "event" THEN usage["max_events"] + 1 ELSE usage["max_events"]
        /\ usage'["max_captures"] = IF o.kind = "capture" THEN usage["max_captures"] + 1 ELSE usage["max_captures"]
    <2>1. counter = IF o.kind = "event" THEN "max_events" ELSE "max_captures"
      BY DEF counter, CounterOf
    <2>2. usage'["max_events"] = used("max_events") /\ usage'["max_captures"] = used("max_captures")
      BY <1>1 DEF Aggregates
    <2>3. QED
      BY <1>2, <1>4, <1>5, <2>1, <2>2
  <1>9. usage'["max_total_bytes"] = usage["max_total_bytes"] + o.bytes
    <2>1. usage'["max_total_bytes"] = used("max_total_bytes")
      BY <1>1 DEF Aggregates
    <2>2. QED
      BY <1>2, <1>4, <1>5, <2>1
  <1>10. usage'["max_fields"] = IF o.fields > usage["max_fields"] THEN o.fields ELSE usage["max_fields"]
    <2>1. usage'["max_fields"] = used("max_fields")
      BY <1>1 DEF Aggregates
    <2>2. QED
      BY <1>2, <1>4, <1>5, <2>1
  <1>11. usage'["max_event_families"] = Cardinality(seen)
    <2>1. usage'["max_event_families"] = used("max_event_families")
      BY <1>1 DEF Aggregates
    <2>2. usage["max_event_families"] = Cardinality(families)
      BY DEF LimitsInv
    <2>3. CASE o.kind = "event"
      BY <1>3, <1>4, <1>5, <2>1, <2>2, <2>3
    <2>4. CASE o.kind # "event"
      <3>1. "max_event_families" \notin DOMAIN value /\ seen = families
        BY <1>4, <2>4 DEF seen
      <3>2. QED
        BY <2>1, <2>2, <3>1
    <2>5. QED
      BY <2>3, <2>4
  <1> HIDE DEF used
  <1>12. /\ usage'["max_events"] = Cardinality(Calls("event")')
         /\ usage'["max_captures"] = Cardinality(Calls("capture")')
    <2>1. \A kind : Cardinality(Calls(kind)') = IF o.kind = kind THEN Cardinality(Calls(kind)) + 1 ELSE Cardinality(Calls(kind))
      BY <1>1, CallsAppended, FS_AddElement
    <2>2. usage["max_events"] = Cardinality(Calls("event")) /\ usage["max_captures"] = Cardinality(Calls("capture"))
      BY DEF LimitsInv
    <2>3. QED
      BY <1>8, <2>1, <2>2
  <1>13. families' = FamiliesOf' /\ IsFiniteSet(families') /\ usage'["max_event_families"] = Cardinality(families')
    <2>1. families = FamiliesOf
      BY DEF LimitsInv
    <2>2. FamiliesOf' = seen
      BY <1>1, <2>1, CallsAppended DEF seen
    <2>3. QED
      BY <1>1, <1>3, <1>11, <2>2
  <1>14. IsFiniteSet(Units(BytesOf)') /\ usage'["max_total_bytes"] = Total(BytesOf)'
    <2>1. usage["max_total_bytes"] = Total(BytesOf)
      BY DEF LimitsInv
    <2>2. QED
      BY <1>1, <1>9, <2>1, CallsAppended
  <1>15. usage'["max_fields"] \in FieldsOf' /\ \A x \in FieldsOf' : x <= usage'["max_fields"]
    <2>1. FieldsOf' = FieldsOf \cup {o.fields}
      BY <1>1, CallsAppended
    <2>2. usage["max_fields"] \in FieldsOf /\ (\A x \in FieldsOf : x <= usage["max_fields"]) /\ \A x \in FieldsOf : x \in Nat
      <3>1. usage["max_fields"] \in FieldsOf /\ \A x \in FieldsOf : x <= usage["max_fields"]
        BY DEF LimitsInv
      <3>2. ASSUME NEW i \in 1..Len(consumed) PROVE consumed[i].fields \in Nat
        <4>1. consumed[i] \in Observation
          BY DEF LimitsInv
        <4>2. QED
          BY <4>1, LimitConstants DEF Observation
      <3>3. QED
        BY <3>1, <3>2 DEF FieldsOf
    <2>3. QED
      BY <1>2, <1>5, <1>10, <2>1, <2>2
  <1>16. consumed' \in Seq(Observation)
    BY <1>1, CallsAppended
  <1>17. QED
    BY <1>1, <1>7, <1>12, <1>13, <1>14, <1>15, <1>16 DEF LimitsInv

\* Every observation keeps the totals.
LEMMA LimitsStep == LimitsInv /\ [LimitsNext]_limitVars => LimitsInv'
  <1> SUFFICES ASSUME LimitsInv, [LimitsNext]_limitVars PROVE LimitsInv'
    OBVIOUS
  <1>1. CASE UNCHANGED limitVars
    BY <1>1 DEF limitVars, LimitsInv, Calls, FamiliesOf, FieldsOf, BytesOf
  <1>2. QED
    BY <1>1, Consumes DEF LimitsNext

\* The totals are those that one observation of all would measure.
LEMMA AbsenceIsEarned == LimitsInv => AbsenceEarned
  <1> SUFFICES ASSUME LimitsInv PROVE AbsenceEarned
    OBVIOUS
  <1>1. Max(FieldsOf) = usage["max_fields"]
    <2>1. usage["max_fields"] \in FieldsOf /\ (\A x \in FieldsOf : x <= usage["max_fields"]) /\ \A x \in FieldsOf : x \in Nat
      <3>1. usage["max_fields"] \in FieldsOf /\ \A x \in FieldsOf : x <= usage["max_fields"]
        BY DEF LimitsInv
      <3>2. ASSUME NEW i \in 1..Len(consumed) PROVE consumed[i].fields \in Nat
        <4>1. consumed[i] \in Observation
          BY DEF LimitsInv
        <4>2. QED
          BY <4>1, LimitConstants DEF Observation
      <3>3. QED
        BY <3>1, <3>2 DEF FieldsOf
    <2> DEFINE S == FieldsOf
               top == usage["max_fields"]
    <2> HIDE DEF S, top
    <2>2. top \in S /\ \A x \in S : x <= top /\ x \in Nat
      BY <2>1 DEF S, top
    <2>3. Max(S) \in S /\ \A x \in S : Max(S) >= x
      BY <2>2 DEF Max
    <2>4. Max(S) = top
      BY <2>2, <2>3
    <2>5. QED
      BY <2>4 DEF S, top
  <1>2. Measured = [max_events |-> usage["max_events"], max_captures |-> usage["max_captures"],
                    max_event_families |-> usage["max_event_families"], max_total_bytes |-> usage["max_total_bytes"],
                    max_fields |-> usage["max_fields"]]
    <2>1. Measured = [max_events |-> Cardinality(Calls("event")), max_captures |-> Cardinality(Calls("capture")),
                      max_event_families |-> Cardinality(FamiliesOf), max_total_bytes |-> Total(BytesOf), max_fields |-> Max(FieldsOf)]
      BY DEF Measured, FamiliesOf, BytesOf, FieldsOf
    <2>2. QED
      BY <1>1, <2>1 DEF LimitsInv
  <1>3. \A a \in Aggregates : Measured[a] = usage[a]
    BY <1>2 DEF Aggregates
  <1>4. QED
    BY <1>3 DEF LimitsInv, AbsenceEarned, AbsenceClaimAllowed, AllowedAtOnce

\* For any families, sizes, bounds and damage: nothing incomplete is called complete,
\* every line offered is counted or said to be dropped, and absence is claimed only
\* below every limit.  (runtime_jsonl.py, limits.py)
THEOREM StreamsStayAccounted == StreamSpec /\ LimitsSpec => []StreamAccounted
  <1>1. StreamInv /\ LimitsInv => StreamAccounted
    BY SessionsAreWhole, EndsAreCounted, AbsenceIsEarned DEF StreamAccounted
  <1>2. QED
    BY <1>1, StreamStarts, StreamSteps, LimitsStart, LimitsStep, PTL DEF StreamSpec, LimitsSpec

-----------------------------------------------------------------------------
(***************************************************************************)
(* ReleaseBuild: a release is whole, from the revision that it names and   *)
(* after all of its tasks.  First the order of the steps of each script:   *)
(* looks, the removal of the former output, work, and the sealing, which   *)
(* the next release does twice.  Then what a build has done when it is     *)
(* about to take a step, which follows from that order alone.              *)
(***************************************************************************)

\* What a script looks at before it touches the former output.
RefusedFor == {"profile", "dependencies", "mandatory_tasks"}
PluginNames == {"mod_build_deploy", "native_probes", "research_graph"}

\* What the scripts make and check after the removal of the former output.
WorkNames == PluginNames \cup
  {"adapter", "runtime", "orchestrator", "contracts_bundle", "contract_bundle", "dry_runs", "dry_run_mod_build_deploy",
   "dry_run_native_probes", "dry_run_research_graph", "dry_run_orchestrator", "dry_run_plugins", "tool_inventory",
   "changed_files", "coverage", "migration", "rollback", "test_receipts", "boundaries", "surface_receipts",
   "negative_claims", "declarations", "tool_catalog", "dossier", "channels", "copied_receipts", "provider_catalog",
   "plans", "lifecycle", "closure", "tasks"}

LookSteps == [op : {"check", "identity"}, name : RefusedFor \cup {""}]
WorkSteps == [op : {"package", "check", "report"}, name : WorkNames]
LateSteps == [op : {"identity", "check", "package", "drop_reports", "report"}, name : WorkNames \cup {"", "dependencies"}]
               \cup [op : {"keep"}, name : PluginNames]

\* The steps of one kind, of names from a set.
LEMMA Alike ==
  ASSUME NEW op, NEW N, NEW names \in Seq(N), NEW S, \A n \in N : BuildStep(op, n) \in S
  PROVE  Each(op, names) \in Seq(S)
  <1>1. DOMAIN names = 1..Len(names) /\ Len(names) \in Nat /\ \A i \in 1..Len(names) : names[i] \in N
    OBVIOUS
  <1>2. Each(op, names) \in [1..Len(names) -> S]
    BY <1>1 DEF Each
  <1>3. QED
    BY <1>1, <1>2, SeqDef

LEMMA WorkOf ==
  ASSUME NEW op \in {"package", "check", "report"}, NEW names \in Seq(WorkNames)
  PROVE  Each(op, names) \in Seq(WorkSteps)
  <1>1. \A n \in WorkNames : BuildStep(op, n) \in WorkSteps
    BY DEF BuildStep, WorkSteps
  <1>2. QED
    BY <1>1, Alike

LEMMA ReportOf ==
  ASSUME NEW n \in WorkNames
  PROVE  CheckedReport(n) \in Seq(WorkSteps)
  <1>1. BuildStep("check", n) \in WorkSteps /\ BuildStep("report", n) \in WorkSteps
    BY DEF BuildStep, WorkSteps
  <1>2. QED
    BY <1>1 DEF CheckedReport

LEMMA PluginOf ==
  ASSUME NEW name \in WorkNames, NEW dryRun \in WorkNames
  PROVE  PluginPackage(name, dryRun) \in Seq(WorkSteps)
  <1>1. Each("package", <<name>>) \in Seq(WorkSteps)
    <2>1. <<name>> \in Seq(WorkNames)
      OBVIOUS
    <2>2. QED
      BY <2>1, WorkOf
  <1>2. QED
    BY <1>1, ReportOf DEF PluginPackage

\* What each script does between the removal and the manifest.
LEMMA GeneralWork == GeneralPackages \in Seq(WorkSteps) /\ GeneralReports \in Seq(WorkSteps)
  <1>1. /\ <<"adapter", "runtime", "mod_build_deploy">> \in Seq(WorkNames)
        /\ <<"migration", "rollback">> \in Seq(WorkNames)
        /\ <<"boundaries">> \in Seq(WorkNames) /\ <<"dry_runs">> \in Seq(WorkNames)
    BY DEF WorkNames, PluginNames
  <1>2. "changed_files" \in WorkNames /\ "coverage" \in WorkNames /\ "test_receipts" \in WorkNames
    BY DEF WorkNames
  <1>3. /\ Each("package", <<"adapter", "runtime", "mod_build_deploy">>) \in Seq(WorkSteps)
        /\ Each("check", <<"dry_runs">>) \in Seq(WorkSteps)
        /\ Each("report", <<"migration", "rollback">>) \in Seq(WorkSteps)
        /\ Each("report", <<"boundaries">>) \in Seq(WorkSteps)
    BY <1>1, WorkOf
  <1>4. /\ CheckedReport("changed_files") \in Seq(WorkSteps)
        /\ CheckedReport("coverage") \in Seq(WorkSteps)
        /\ CheckedReport("test_receipts") \in Seq(WorkSteps)
    BY <1>2, ReportOf
  <1>5. QED
    BY <1>3, <1>4 DEF GeneralPackages, GeneralReports

LEMMA R4Work == R4Packages \in Seq(WorkSteps) /\ R4Reports \in Seq(WorkSteps)
  <1>1. /\ <<"adapter", "runtime", "mod_build_deploy", "native_probes">> \in Seq(WorkNames)
        /\ <<"dry_run_mod_build_deploy", "dry_run_native_probes", "tool_inventory">> \in Seq(WorkNames)
        /\ <<"tool_inventory", "surface_receipts">> \in Seq(WorkNames)
        /\ <<"dry_runs">> \in Seq(WorkNames) /\ <<"boundaries">> \in Seq(WorkNames)
    BY DEF WorkNames, PluginNames
  <1>2. /\ "changed_files" \in WorkNames /\ "coverage" \in WorkNames
        /\ "test_receipts" \in WorkNames /\ "negative_claims" \in WorkNames
    BY DEF WorkNames
  <1>3. /\ Each("package", <<"adapter", "runtime", "mod_build_deploy", "native_probes">>) \in Seq(WorkSteps)
        /\ Each("check", <<"dry_run_mod_build_deploy", "dry_run_native_probes", "tool_inventory">>) \in Seq(WorkSteps)
        /\ Each("report", <<"tool_inventory", "surface_receipts">>) \in Seq(WorkSteps)
        /\ Each("report", <<"dry_runs">>) \in Seq(WorkSteps)
        /\ Each("report", <<"boundaries">>) \in Seq(WorkSteps)
    BY <1>1, WorkOf
  <1>4. /\ CheckedReport("changed_files") \in Seq(WorkSteps)
        /\ CheckedReport("coverage") \in Seq(WorkSteps)
        /\ CheckedReport("negative_claims") \in Seq(WorkSteps)
        /\ CheckedReport("test_receipts") \in Seq(WorkSteps)
    BY <1>2, ReportOf
  <1>5. R4Packages \in Seq(WorkSteps)
    BY <1>3 DEF R4Packages
  <1>6. R4Reports \in Seq(WorkSteps)
    BY <1>3, <1>4 DEF R4Reports
  <1>7. QED
    BY <1>5, <1>6

LEMMA PluginWork == PluginPackages \in Seq(WorkSteps)
  <1>1. /\ "mod_build_deploy" \in WorkNames /\ "native_probes" \in WorkNames /\ "research_graph" \in WorkNames
        /\ "dry_run_mod_build_deploy" \in WorkNames /\ "dry_run_native_probes" \in WorkNames
        /\ "dry_run_research_graph" \in WorkNames
    BY DEF WorkNames, PluginNames
  <1>2. QED
    BY <1>1, PluginOf DEF PluginPackages

LEMMA BaseWork == BasePackages \in Seq(WorkSteps)
  <1>1. <<"declarations">> \in Seq(WorkNames) /\ <<"adapter", "runtime">> \in Seq(WorkNames)
    BY DEF WorkNames
  <1>2. Each("check", <<"declarations">>) \in Seq(WorkSteps) /\ Each("package", <<"adapter", "runtime">>) \in Seq(WorkSteps)
    BY <1>1, WorkOf
  <1>3. QED
    BY <1>2 DEF BasePackages

LEMMA DryRunWork == R5DryRuns \in Seq(WorkSteps)
  <1>1. /\ "dry_run_mod_build_deploy" \in WorkNames /\ "dry_run_native_probes" \in WorkNames
        /\ "dry_run_research_graph" \in WorkNames
    BY DEF WorkNames
  <1>2. /\ CheckedReport("dry_run_mod_build_deploy") \in Seq(WorkSteps)
        /\ CheckedReport("dry_run_native_probes") \in Seq(WorkSteps)
        /\ CheckedReport("dry_run_research_graph") \in Seq(WorkSteps)
    BY <1>1, ReportOf
  <1>3. QED
    BY <1>2 DEF R5DryRuns

LEMMA R5Work == R5Packages \in Seq(WorkSteps) /\ R5Reports \in Seq(WorkSteps)
  <1>1. /\ Plugins \in Seq(WorkNames) /\ <<"boundaries">> \in Seq(WorkNames)
        /\ <<"tool_catalog", "dossier">> \in Seq(WorkNames) /\ "copied_receipts" \in WorkNames
        /\ "changed_files" \in WorkNames /\ "test_receipts" \in WorkNames
    BY DEF WorkNames, PluginNames, Plugins
  <1>2. /\ Each("package", Plugins) \in Seq(WorkSteps)
        /\ Each("check", <<"tool_catalog", "dossier">>) \in Seq(WorkSteps)
        /\ Each("report", <<"tool_catalog", "dossier">>) \in Seq(WorkSteps)
        /\ Each("report", <<"boundaries">>) \in Seq(WorkSteps)
    BY <1>1, WorkOf
  <1>3. /\ CheckedReport("changed_files") \in Seq(WorkSteps) /\ CheckedReport("test_receipts") \in Seq(WorkSteps)
        /\ CheckedReport("copied_receipts") \in Seq(WorkSteps)
    BY <1>1, ReportOf
  <1>4. R5Packages \in Seq(WorkSteps)
    BY <1>2, BaseWork, DryRunWork DEF R5Packages
  <1>5. R5Reports \in Seq(WorkSteps)
    BY <1>2, <1>3 DEF R5Reports
  <1>6. QED
    BY <1>4, <1>5

LEMMA R6Work == R6Packages \in Seq(WorkSteps) /\ R6Reports \in Seq(WorkSteps)
  <1>1. /\ <<"tool_catalog", "dossier", "channels">> \in Seq(WorkNames) /\ <<"boundaries">> \in Seq(WorkNames)
        /\ "orchestrator" \in WorkNames /\ "dry_run_orchestrator" \in WorkNames
        /\ "changed_files" \in WorkNames /\ "test_receipts" \in WorkNames /\ "copied_receipts" \in WorkNames
    BY DEF WorkNames, PluginNames
  <1>2. /\ Each("check", <<"tool_catalog", "dossier", "channels">>) \in Seq(WorkSteps)
        /\ Each("report", <<"tool_catalog", "dossier", "channels">>) \in Seq(WorkSteps)
        /\ Each("report", <<"boundaries">>) \in Seq(WorkSteps)
    BY <1>1, WorkOf
  <1>3. /\ CheckedReport("changed_files") \in Seq(WorkSteps) /\ CheckedReport("test_receipts") \in Seq(WorkSteps)
        /\ CheckedReport("copied_receipts") \in Seq(WorkSteps)
    BY <1>1, ReportOf
  <1>4. PluginPackage("orchestrator", "dry_run_orchestrator") \in Seq(WorkSteps)
    BY <1>1, PluginOf
  <1>5. R6Packages \in Seq(WorkSteps)
    BY <1>4, BaseWork, PluginWork DEF R6Packages
  <1>6. R6Reports \in Seq(WorkSteps)
    BY <1>2, <1>3 DEF R6Reports
  <1>7. QED
    BY <1>5, <1>6

LEMMA IntegratedWork == IntegratedPackages \in Seq(WorkSteps) /\ IntegratedReports \in Seq(WorkSteps)
  <1>1. /\ <<"declarations">> \in Seq(WorkNames) /\ <<"lifecycle">> \in Seq(WorkNames)
        /\ <<"tasks", "lifecycle">> \in Seq(WorkNames) /\ Append(Plugins, "contract_bundle") \in Seq(WorkNames)
        /\ "migration" \in WorkNames /\ "closure" \in WorkNames /\ "boundaries" \in WorkNames
        /\ "test_receipts" \in WorkNames
    BY DEF WorkNames, PluginNames, Plugins
  <1>2. /\ Each("check", <<"declarations">>) \in Seq(WorkSteps)
        /\ Each("package", Append(Plugins, "contract_bundle")) \in Seq(WorkSteps)
        /\ Each("check", <<"lifecycle">>) \in Seq(WorkSteps)
        /\ Each("report", <<"tasks", "lifecycle">>) \in Seq(WorkSteps)
    BY <1>1, WorkOf
  <1>3. /\ CheckedReport("migration") \in Seq(WorkSteps) /\ CheckedReport("closure") \in Seq(WorkSteps)
        /\ CheckedReport("boundaries") \in Seq(WorkSteps) /\ CheckedReport("test_receipts") \in Seq(WorkSteps)
    BY <1>1, ReportOf
  <1>4. QED
    BY <1>2, <1>3 DEF IntegratedPackages, IntegratedReports

\* Sequences of steps, put together.
LEMMA OneStep == ASSUME NEW S, NEW a \in S PROVE <<a>> \in Seq(S)
  OBVIOUS

LEMMA TwoSteps == ASSUME NEW S, NEW a \in S, NEW b \in S PROVE <<a, b>> \in Seq(S)
  OBVIOUS

LEMMA Joined ==
  ASSUME NEW S, NEW a \in Seq(S), NEW b \in Seq(S)
  PROVE  a \o b \in Seq(S)
  OBVIOUS

LEMMA KeptOnes ==
  ASSUME NEW op, op = "keep", NEW names \in Seq(PluginNames)
  PROVE  Each(op, names) \in Seq(LateSteps)
  <1>1. \A n \in PluginNames : BuildStep(op, n) \in LateSteps
    BY DEF BuildStep, LateSteps
  <1>2. QED
    BY <1>1, Alike

LEMMA WorkIsLate == Seq(WorkSteps) \subseteq Seq(LateSteps)
  <1>1. WorkSteps \subseteq LateSteps
    BY DEF WorkSteps, LateSteps
  <1>2. QED
    BY <1>1

\* What the next release does after the former one is sealed.
LEMMA R7Late == R7Packages \in Seq(LateSteps) /\ R7Reports \in Seq(LateSteps)
  <1>1. /\ <<"adapter", "runtime", "orchestrator", "contracts_bundle">> \in Seq(WorkNames)
        /\ <<"tool_catalog", "provider_catalog", "dossier">> \in Seq(WorkNames)
        /\ <<"plans", "boundaries">> \in Seq(WorkNames)
        /\ Plugins \in Seq(PluginNames)
    BY DEF WorkNames, PluginNames, Plugins
  <1>2. /\ "changed_files" \in WorkNames /\ "test_receipts" \in WorkNames /\ "copied_receipts" \in WorkNames
        /\ "dry_run_plugins" \in WorkNames /\ "dry_run_orchestrator" \in WorkNames
    BY DEF WorkNames
  <1>3. /\ Each("package", <<"adapter", "runtime", "orchestrator", "contracts_bundle">>) \in Seq(LateSteps)
        /\ Each("check", <<"tool_catalog", "provider_catalog", "dossier">>) \in Seq(LateSteps)
        /\ Each("report", <<"tool_catalog", "provider_catalog", "dossier">>) \in Seq(LateSteps)
        /\ Each("report", <<"plans", "boundaries">>) \in Seq(LateSteps)
    BY <1>1, WorkOf, WorkIsLate
  <1>4. /\ CheckedReport("changed_files") \in Seq(LateSteps) /\ CheckedReport("test_receipts") \in Seq(LateSteps)
        /\ CheckedReport("copied_receipts") \in Seq(LateSteps) /\ CheckedReport("dry_run_plugins") \in Seq(LateSteps)
        /\ CheckedReport("dry_run_orchestrator") \in Seq(LateSteps)
    BY <1>2, ReportOf, WorkIsLate
  <1>5. Each("keep", Plugins) \in Seq(LateSteps)
    BY <1>1, KeptOnes
  <1>6. /\ <<BuildStep("identity", ""), BuildStep("check", "dependencies")>> \in Seq(LateSteps)
        /\ <<BuildStep("drop_reports", "")>> \in Seq(LateSteps)
    <2>1. /\ BuildStep("identity", "") \in LateSteps /\ BuildStep("check", "dependencies") \in LateSteps
          /\ BuildStep("drop_reports", "") \in LateSteps
      BY DEF BuildStep, LateSteps
    <2>2. QED
      BY <2>1, OneStep, TwoSteps
  <1>7. R7Packages \in Seq(LateSteps)
    BY <1>3, <1>5, <1>6, Joined DEF R7Packages
  <1>8. R7Reports \in Seq(LateSteps)
    BY <1>3, <1>4, <1>6, Joined DEF R7Reports
  <1>9. QED
    BY <1>7, <1>8

\* Any step of any script.
AnySteps == LookSteps \cup LateSteps \cup [op : {"clear", "manifest", "sums", "validate", "return"}, name : Releases \cup {""}]

\* The elements of two sequences, one behind the other.
LEMMA FrontOf ==
  ASSUME NEW S, NEW a \in Seq(S), NEW b \in Seq(S), NEW i \in 1..Len(a)
  PROVE  i \in 1..Len(a \o b) /\ (a \o b)[i] = a[i]
  OBVIOUS

LEMMA BackOf ==
  ASSUME NEW S, NEW a \in Seq(S), NEW b \in Seq(S), NEW n, n = Len(a), NEW i \in (n + 1)..(n + Len(b))
  PROVE  i \in 1..Len(a \o b) /\ (a \o b)[i] = b[i - n] /\ i - n \in 1..Len(b)
  OBVIOUS

LEMMA BackAt ==
  ASSUME NEW S, NEW a \in Seq(S), NEW b \in Seq(S), NEW j \in 1..Len(b)
  PROVE  (a \o b)[Len(a) + j] = b[j]
  OBVIOUS

LEMMA LengthOf ==
  ASSUME NEW S, NEW a \in Seq(S), NEW b \in Seq(S)
  PROVE  Len(a \o b) = Len(a) + Len(b) /\ Len(a) \in Nat /\ Len(b) \in Nat
  OBVIOUS

\* A script up to a manifest: it looks, clears the output at c, and works.
Shaped(s, c, m, kind) ==
  /\ s \in Seq(AnySteps) /\ c \in Nat /\ m \in Nat /\ 1 < c /\ c < m /\ Len(s) = m + 2
  /\ \A i \in 1..(c - 1) : s[i] \in LookSteps
  /\ s[c] = ClearOutput
  /\ \A i \in (c + 1)..(m - 1) : s[i] \in WorkSteps
  /\ s[m] = ManifestOf(kind) /\ s[m + 1] = WriteSums /\ s[m + 2] = ValidateOutput

LEMMA StepsAreAny == 
  /\ \A S : S \subseteq AnySteps => Seq(S) \subseteq Seq(AnySteps)
  /\ LookSteps \subseteq AnySteps /\ WorkSteps \subseteq AnySteps /\ LateSteps \subseteq AnySteps
  /\ ClearOutput \in AnySteps /\ WriteSums \in AnySteps
  /\ ValidateOutput \in AnySteps /\ ReturnReceipt \in AnySteps
  /\ \A k \in Releases : ManifestOf(k) \in AnySteps
  <1>1. \A S : S \subseteq AnySteps => Seq(S) \subseteq Seq(AnySteps)
    OBVIOUS
  <1>2. LookSteps \subseteq AnySteps /\ LateSteps \subseteq AnySteps
    BY DEF AnySteps
  <1>3. WorkSteps \subseteq AnySteps 
    BY <1>2 DEF WorkSteps, LateSteps
  <1>4. ClearOutput \in AnySteps /\ WriteSums \in AnySteps
    BY DEF BuildStep, AnySteps, ClearOutput, ManifestOf, WriteSums, ValidateOutput, ReturnReceipt
  <1>5. ValidateOutput \in AnySteps /\ ReturnReceipt \in AnySteps
    BY DEF BuildStep, AnySteps, ClearOutput, ManifestOf, WriteSums, ValidateOutput, ReturnReceipt
  <1>6. \A k \in Releases : ManifestOf(k) \in AnySteps
    BY DEF BuildStep, AnySteps, ClearOutput, ManifestOf, WriteSums, ValidateOutput, ReturnReceipt
  <1>7. QED
    BY <1>1, <1>2, <1>3, <1>4, <1>5, <1>6

LEMMA SealingOf ==
  ASSUME NEW kind \in Releases
  PROVE  /\ Sealing(kind) \in Seq(AnySteps) /\ Len(Sealing(kind)) = 3
         /\ Sealing(kind)[1] = ManifestOf(kind) /\ Sealing(kind)[2] = WriteSums
         /\ Sealing(kind)[3] = ValidateOutput
  <1> DEFINE a == ManifestOf(kind)
             b == WriteSums
             c == ValidateOutput
  <1>1. a \in AnySteps /\ b \in AnySteps /\ c \in AnySteps
    BY StepsAreAny
  <1>2. Sealing(kind) = <<a, b, c>>
    BY DEF Sealing
  <1> HIDE DEF a, b, c
  <1>3. <<a, b, c>> \in Seq(AnySteps) /\ Len(<<a, b, c>>) = 3
    BY <1>1
  <1>4. <<a, b, c>>[1] = a /\ <<a, b, c>>[2] = b /\ <<a, b, c>>[3] = c
    OBVIOUS
  <1>5. QED
    BY <1>2, <1>3, <1>4 DEF a, b, c

LEMMA ShapeOf ==
  ASSUME NEW pre \in Seq(LookSteps), Len(pre) > 0, NEW packages \in Seq(WorkSteps), NEW reports \in Seq(WorkSteps), NEW kind \in Releases
  PROVE  \E c, m : Shaped(((pre \o <<ClearOutput>>) \o packages) \o reports \o Sealing(kind), c, m, kind)
  <1> DEFINE e == ClearOutput
             x == pre \o <<e>>
             y == x \o packages
             z == y \o reports
             s == z \o Sealing(kind)
             c == Len(pre) + 1
             m == Len(z) + 1
  <1>1. /\ pre \in Seq(AnySteps) /\ packages \in Seq(AnySteps) /\ reports \in Seq(AnySteps)
        /\ e \in AnySteps
    BY StepsAreAny
  <1>2. <<e>> \in Seq(AnySteps) /\ Len(<<e>>) = 1 /\ <<e>>[1] = e
    <2> HIDE DEF e
    <2>1. QED BY <1>1
  <1> HIDE DEF e
  <1>3. x \in Seq(AnySteps) /\ Len(x) = Len(pre) + 1 /\ (\A i \in 1..Len(pre) : x[i] = pre[i]) /\ x[c] = e
    BY <1>1, <1>2
  <1> HIDE DEF x
  <1>4. y \in Seq(AnySteps) /\ Len(y) = Len(x) + Len(packages)
        /\ (\A i \in 1..Len(x) : y[i] = x[i])
        /\ \A i \in (Len(x) + 1)..Len(y) : y[i] \in WorkSteps
    <2>1. y \in Seq(AnySteps) /\ Len(y) = Len(x) + Len(packages)
      BY <1>1, <1>3, LengthOf, Joined
    <2>2. ASSUME NEW i \in 1..Len(x) PROVE y[i] = x[i]
      BY <1>1, <1>3
    <2>3. ASSUME NEW i \in (Len(x) + 1)..Len(y) PROVE y[i] \in WorkSteps
      <3>1. y[i] = packages[i - Len(x)] /\ i - Len(x) \in 1..Len(packages)
        BY <1>1, <1>3, <2>1, BackOf
      <3>2. QED
        BY <3>1
    <2>4. QED
      BY <2>1, <2>2, <2>3
  <1> HIDE DEF y
  <1>5. z \in Seq(AnySteps) /\ Len(z) = Len(y) + Len(reports)
        /\ (\A i \in 1..Len(y) : z[i] = y[i])
        /\ \A i \in (Len(y) + 1)..Len(z) : z[i] \in WorkSteps
    <2>1. z \in Seq(AnySteps) /\ Len(z) = Len(y) + Len(reports)
      BY <1>1, <1>4
    <2>2. ASSUME NEW i \in 1..Len(y) PROVE z[i] = y[i]
      BY <1>1, <1>4
    <2>3. ASSUME NEW i \in (Len(y) + 1)..Len(z) PROVE z[i] \in WorkSteps
      <3>1. z[i] = reports[i - Len(y)] /\ i - Len(y) \in 1..Len(reports)
        BY <1>1, <1>4, <2>1
      <3>2. QED
        BY <3>1
    <2>4. QED
      BY <2>1, <2>2, <2>3
  <1> HIDE DEF z
  <1> DEFINE t == Sealing(kind)
  <1>6. /\ s \in Seq(AnySteps) /\ Len(s) = Len(z) + 3
        /\ \A i \in 1..Len(z) : s[i] = z[i]
        /\ s[m] = ManifestOf(kind) /\ s[m + 1] = WriteSums /\ s[m + 2] = ValidateOutput
    <2>1. t \in Seq(AnySteps) /\ Len(t) = 3
      BY SealingOf
    <2> HIDE DEF t
    <2>2. /\ z \o t \in Seq(AnySteps) /\ Len(z \o t) = Len(z) + 3
          /\ \A i \in 1..Len(z) : (z \o t)[i] = z[i]
          /\ (z \o t)[Len(z) + 1] = t[1] /\ (z \o t)[Len(z) + 2] = t[2] /\ (z \o t)[Len(z) + 3] = t[3]
      <3>1. z \in Seq(AnySteps)
        BY <1>5
      <3>2. z \o t \in Seq(AnySteps) /\ Len(z \o t) = Len(z) + 3
        BY <2>1, <3>1, Joined, LengthOf
      <3>3. \A i \in 1..Len(z) : (z \o t)[i] = z[i]
        BY <2>1, <3>1, FrontOf
      <3>4. ASSUME NEW j \in 1..Len(t) PROVE (z \o t)[Len(z) + j] = t[j]
        <4>1. t \in Seq(AnySteps)
          BY <2>1
        <4>2. QED
          BY <3>1, <4>1, BackAt
      <3>5. 1 \in 1..Len(t) /\ 2 \in 1..Len(t) /\ 3 \in 1..Len(t)
        BY <2>1
      <3>6. QED
        BY <3>2, <3>3, <3>4, <3>5
    <2>3. m + 1 = Len(z) + 2 /\ m + 2 = Len(z) + 3
      BY <1>5
    <2>4. QED
      BY <2>2, <2>3, SealingOf DEF t
  <1>9. Len(pre) \in Nat /\ Len(x) \in Nat /\ Len(y) \in Nat /\ Len(z) \in Nat
        /\ Len(packages) \in Nat /\ Len(reports) \in Nat
    BY <1>3, <1>4, <1>5
  <1>10. Len(z) = c + Len(packages) + Len(reports) /\ m = Len(z) + 1 /\ Len(x) = c /\ c = Len(pre) + 1 /\ Len(y) = c + Len(packages)
    BY <1>3, <1>4, <1>5, <1>9
  <1> HIDE DEF s, c, m, t
  <1>7. Shaped(s, c, m, kind)
    <2>1. c \in Nat /\ m \in Nat /\ 1 < c /\ c < m /\ Len(s) = m + 2
      <3>1. c \in Nat /\ m \in Nat
        BY <1>9, <1>10
      <3>2. 1 < c /\ c < m
        BY <1>9, <1>10
      <3>3. Len(s) = Len(z) + 3
        BY <1>6
      <3>4. Len(s) = m + 2
        BY <1>9, <1>10, <3>3
      <3>5. QED
        BY <3>1, <3>2, <3>4
    <2>2. ASSUME NEW i \in 1..(c - 1) PROVE s[i] \in LookSteps
      <3>1. i \in 1..Len(pre) /\ i \in 1..Len(x) /\ i \in 1..Len(y) /\ i \in 1..Len(z)
        BY <1>9, <1>10
      <3>2. s[i] = pre[i]
        BY <1>3, <1>4, <1>5, <1>6, <3>1
      <3>3. QED
        BY <3>1, <3>2
    <2>3. s[c] = e
      <3>1. c \in 1..Len(x) /\ c \in 1..Len(y) /\ c \in 1..Len(z)
        BY <1>9, <1>10
      <3>2. QED
        BY <1>3, <1>4, <1>5, <1>6, <3>1 
    <2>4. ASSUME NEW i \in (c + 1)..(m - 1) PROVE s[i] \in WorkSteps
      <3>1. i \in 1..Len(z) /\ (i \in 1..Len(y) \/ i \in (Len(y) + 1)..Len(z)) /\ (i \in 1..Len(y) => i \in (Len(x) + 1)..Len(y))
        BY <1>9, <1>10
      <3>2. QED
        BY <1>4, <1>5, <1>6, <3>1
    <2>5. QED
      BY <1>6, <2>1, <2>2, <2>3, <2>4 DEF Shaped, e
  <1>8. QED
    BY <1>7 DEF s, z, y, x, e

\* The six scripts but for their return.
BuiltBy(kind) ==
  CASE kind = "general" -> Opening(<<"dependencies">>) \o GeneralPackages \o GeneralReports \o Sealing("general")
    [] kind = "r4" -> Opening(<<"dependencies">>) \o R4Packages \o R4Reports \o Sealing("r4")
    [] kind = "r5" -> Opening(<<"dependencies">>) \o R5Packages \o R5Reports \o Sealing("r5")
    [] kind = "r6" -> R6Build
    [] OTHER -> Opening(<<"dependencies", "mandatory_tasks">>) \o IntegratedPackages \o IntegratedReports \o Sealing("integrated")

LEMMA Openings ==
  ASSUME NEW checks, \/ checks = <<"dependencies">> \/ checks = <<"dependencies", "mandatory_tasks">>
  PROVE  \E pre \in Seq(LookSteps) : Len(pre) > 0 /\ Opening(checks) = pre \o <<ClearOutput>>
  <1> DEFINE a == BuildStep("check", "profile")
             b == BuildStep("identity", "")
  <1>1. a \in LookSteps /\ b \in LookSteps
    BY DEF LookSteps, BuildStep, RefusedFor
  <1> HIDE DEF a, b
  <1>2. <<a, b>> \in Seq(LookSteps) /\ Len(<<a, b>>) = 2
    BY <1>1
  <1>3. checks \in Seq(RefusedFor)
    <2>1. CASE checks = <<"dependencies">>
      BY <2>1 DEF RefusedFor
    <2>2. CASE checks = <<"dependencies", "mandatory_tasks">>
      BY <2>2 DEF RefusedFor
    <2>3. QED
      BY <2>1, <2>2
  <1>4. \A n \in RefusedFor : BuildStep("check", n) \in LookSteps
    BY DEF LookSteps, BuildStep
  <1>5. Each("check", checks) \in Seq(LookSteps)
    BY <1>3, <1>4, Alike
  <1>6. <<a, b>> \o Each("check", checks) \in Seq(LookSteps) /\ Len(<<a, b>> \o Each("check", checks)) > 0
    BY <1>2, <1>5
  <1>7. QED
    BY <1>6 DEF Opening, a, b

\* Five of the scripts have that shape, but for their return.
LEMMA BuiltShape ==
  ASSUME NEW kind \in Releases, kind # "r7"
  PROVE  StepsOf(kind) = BuiltBy(kind) \o Returning /\ \E c, m : Shaped(BuiltBy(kind), c, m, kind)
  <1>1. ASSUME NEW checks, \/ checks = <<"dependencies">> \/ checks = <<"dependencies", "mandatory_tasks">>,
               NEW packages \in Seq(WorkSteps), NEW reports \in Seq(WorkSteps)
        PROVE  \E c, m : Shaped(Opening(checks) \o packages \o reports \o Sealing(kind), c, m, kind)
    <2>1. PICK pre \in Seq(LookSteps) : Len(pre) > 0 /\ Opening(checks) = pre \o <<ClearOutput>>
      BY <1>1, Openings
    <2>2. QED
      BY <2>1, ShapeOf
  <1>2. CASE kind = "general"
    BY <1>1, <1>2, GeneralWork DEF BuiltBy, StepsOf, GeneralSteps
  <1>3. CASE kind = "r4"
    BY <1>1, <1>3, R4Work DEF BuiltBy, StepsOf, R4Steps
  <1>4. CASE kind = "r5"
    BY <1>1, <1>4, R5Work DEF BuiltBy, StepsOf, R5Steps
  <1>5. CASE kind = "r6"
    BY <1>1, <1>5, R6Work DEF BuiltBy, StepsOf, R6Steps, R6Build
  <1>6. CASE kind = "integrated"
    BY <1>1, <1>6, IntegratedWork DEF BuiltBy, StepsOf, IntegratedSteps
  <1>7. QED
    BY <1>2, <1>3, <1>4, <1>5, <1>6 DEF Releases

\* A sequence is two others, one behind the other.
Chained(s, a, b) ==
  /\ s \in Seq(AnySteps) /\ Len(s) = Len(a) + Len(b) /\ Len(a) \in Nat /\ Len(b) \in Nat
  /\ \A i \in 1..Len(a) : s[i] = a[i]
  /\ \A j \in 1..Len(b) : s[Len(a) + j] = b[j]

LEMMA Chaining ==
  ASSUME NEW a \in Seq(AnySteps), NEW b \in Seq(AnySteps), NEW s, s = a \o b
  PROVE  Chained(s, a, b)
  <1>1. a \o b \in Seq(AnySteps) /\ Len(a \o b) = Len(a) + Len(b) /\ Len(a) \in Nat /\ Len(b) \in Nat
    BY Joined, LengthOf
  <1>2. \A i \in 1..Len(a) : (a \o b)[i] = a[i]
    BY FrontOf
  <1>3. ASSUME NEW j \in 1..Len(b) PROVE (a \o b)[Len(a) + j] = b[j]
    BY BackAt
  <1>4. QED
    BY <1>1, <1>2, <1>3 DEF Chained

\* The steps of a script by their place: the output is cleared at c, a manifest is
\* written at f, that of the former release if there is one, and one at m.
First(kind) == IF kind = "r7" THEN "r6" ELSE kind

Placed(s, kind, c, f, m) ==
  /\ s \in Seq(AnySteps) /\ c \in Nat /\ f \in Nat /\ m \in Nat /\ 1 < c /\ c < f /\ Len(s) = m + 3
  /\ f = m \/ (kind = "r7" /\ f + 2 < m)
  /\ \A i \in 1..(c - 1) : s[i] \in LookSteps
  /\ s[c] = ClearOutput
  /\ \A i \in (c + 1)..(f - 1) : s[i] \in WorkSteps
  /\ s[f] = ManifestOf(First(kind)) /\ s[f + 1] = WriteSums /\ s[f + 2] = ValidateOutput
  /\ \A i \in (f + 3)..(m - 1) : s[i] \in LateSteps
  /\ s[m] = ManifestOf(kind) /\ s[m + 1] = WriteSums /\ s[m + 2] = ValidateOutput
  /\ s[m + 3] = ReturnReceipt

LEMMA ReturningOf == Returning \in Seq(AnySteps) /\ Len(Returning) = 1 /\ Returning[1] = ReturnReceipt
  <1> DEFINE a == ReturnReceipt
  <1>1. a \in AnySteps
    BY StepsAreAny
  <1>2. Returning = <<a>>
    BY DEF Returning
  <1> HIDE DEF a
  <1>3. <<a>> \in Seq(AnySteps) /\ Len(<<a>>) = 1 /\ <<a>>[1] = a
    BY <1>1
  <1>4. QED
    BY <1>2, <1>3 DEF a

LEMMA PlainPlaced ==
  ASSUME NEW kind \in Releases, kind # "r7"
  PROVE  \E c, m : Shaped(BuiltBy(kind), c, m, kind) /\ Placed(StepsOf(kind), kind, c, m, m)
  <1>1. PICK c, m : Shaped(BuiltBy(kind), c, m, kind)
    BY BuiltShape
  <1> DEFINE b == BuiltBy(kind)
             s == StepsOf(kind)
  <1>2. s = b \o Returning
    BY BuiltShape
  <1> HIDE DEF b, s
  <1>3. Shaped(b, c, m, kind)
    BY <1>1 DEF b
  <1>4. b \in Seq(AnySteps) /\ Len(b) = m + 2 /\ c \in Nat /\ m \in Nat /\ 1 < c /\ c < m
    BY <1>3 DEF Shaped
  <1>5. /\ s \in Seq(AnySteps) /\ Len(s) = Len(b) + 1
        /\ \A i \in 1..Len(b) : s[i] = b[i]
        /\ s[Len(b) + 1] = ReturnReceipt
    <2>1. 1 \in 1..Len(Returning)
      BY ReturningOf
    <2>2. Chained(s, b, Returning)
      BY <1>2, <1>4, ReturningOf, Chaining
    <2>3. QED
      BY <2>1, <2>2, ReturningOf DEF Chained
  <1>6. Len(s) = m + 3 /\ s[m + 3] = ReturnReceipt
    <2>1. Len(b) + 1 = m + 3
      BY <1>4
    <2>2. QED
      BY <1>5, <2>1
  <1>7. \A i \in 1..(m + 2) : s[i] = b[i]
    BY <1>4, <1>5
  <1>8. \A i \in 1..(c - 1) : s[i] \in LookSteps
    <2>1. \A i \in 1..(c - 1) : i \in 1..(m + 2)
      BY <1>4
    <2>2. QED
      BY <1>3, <1>7, <2>1 DEF Shaped
  <1>9. \A i \in (c + 1)..(m - 1) : s[i] \in WorkSteps
    <2>1. \A i \in (c + 1)..(m - 1) : i \in 1..(m + 2)
      BY <1>4
    <2>2. QED
      BY <1>3, <1>7, <2>1 DEF Shaped
  <1>10. s[c] = ClearOutput /\ s[m] = ManifestOf(kind) /\ s[m + 1] = WriteSums
         /\ s[m + 2] = ValidateOutput
    <2>1. c \in 1..(m + 2) /\ m \in 1..(m + 2) /\ m + 1 \in 1..(m + 2) /\ m + 2 \in 1..(m + 2)
      BY <1>4
    <2>2. QED
      BY <1>3, <1>7, <2>1 DEF Shaped
  <1>11. \A i \in (m + 3)..(m - 1) : s[i] \in LateSteps
    BY <1>4
  <1>12. Placed(s, kind, c, m, m)
    <2>1. First(kind) = kind
      BY DEF First
    <2>2. QED
      BY <1>4, <1>5, <1>6, <1>8, <1>9, <1>10, <1>11, <2>1 DEF Placed
  <1>13. QED
    BY <1>1, <1>12 DEF s

\* The next release is built over a whole build of the former one.
LEMMA NextPlaced ==
  \E c, f, m :
    /\ Placed(StepsOf("r7"), "r7", c, f, m)
    /\ Len(R6Build) + 1 = f + 2 /\ R6Build \in Seq(AnySteps)
    /\ \A i \in 1..Len(R6Build) : StepsOf("r7")[i + 1] = R6Build[i]
  <1>1. PICK c0, f0 : Shaped(R6Build, c0, f0, "r6")
    BY BuiltShape DEF BuiltBy, Releases
  <1> DEFINE p == Each("check", <<"profile">>)
             b == R6Build
             pb == p \o b
             x == pb \o R7Packages
             y == x \o R7Reports
             t == Sealing("r7")
             z == y \o t
             s == z \o Returning
             c == c0 + 1
             f == f0 + 1
             m == Len(y) + 1
  <1>2. s = StepsOf("r7")
    BY DEF StepsOf, R7Steps
  <1>3. /\ b \in Seq(AnySteps) /\ Len(b) = f0 + 2 /\ c0 \in Nat /\ f0 \in Nat /\ 1 < c0 /\ c0 < f0
    BY <1>1 DEF Shaped
  <1>4. p \in Seq(AnySteps) /\ Len(p) = 1 /\ p[1] \in LookSteps
    <2> DEFINE a == BuildStep("check", "profile")
    <2>1. a \in LookSteps
      BY DEF BuildStep, LookSteps, RefusedFor
    <2>2. p = <<a>>
      BY DEF Each
    <2>3. a \in AnySteps
      BY <2>1, StepsAreAny
    <2> HIDE DEF a, p
    <2>4. QED
      BY <2>1, <2>2, <2>3
  <1>5. /\ R7Packages \in Seq(AnySteps) /\ R7Reports \in Seq(AnySteps)
    BY R7Late, StepsAreAny
  <1>6. /\ t \in Seq(AnySteps) /\ Len(t) = 3 /\ t[1] = ManifestOf("r7") /\ t[2] = WriteSums
        /\ t[3] = ValidateOutput
    <2>1. "r7" \in Releases
      BY DEF Releases
    <2>2. QED
      BY <2>1, SealingOf
  <1> HIDE DEF p, b, t
  <1>7. Chained(pb, p, b)
    BY <1>3, <1>4, Chaining
  <1> HIDE DEF pb
  <1>8. Chained(x, pb, R7Packages)
    <2>1. pb \in Seq(AnySteps)
      BY <1>7 DEF Chained
    <2>2. QED
      BY <1>5, <2>1, Chaining
  <1> HIDE DEF x
  <1>9. Chained(y, x, R7Reports)
    <2>1. x \in Seq(AnySteps)
      BY <1>8 DEF Chained
    <2>2. QED
      BY <1>5, <2>1, Chaining
  <1> HIDE DEF y
  <1>10. Chained(z, y, t)
    <2>1. y \in Seq(AnySteps)
      BY <1>9 DEF Chained
    <2>2. QED
      BY <1>6, <2>1, Chaining
  <1> HIDE DEF z
  <1>11. Chained(s, z, Returning)
    <2>1. z \in Seq(AnySteps)
      BY <1>10 DEF Chained
    <2>2. QED
      BY <2>1, ReturningOf, Chaining
  <1> HIDE DEF s, c, f, m
  <1>12. /\ Len(b) \in Nat /\ Len(pb) \in Nat /\ Len(x) \in Nat /\ Len(y) \in Nat /\ Len(z) \in Nat
         /\ Len(R7Packages) \in Nat /\ Len(R7Reports) \in Nat
    <2>1. Len(b) \in Nat
      BY <1>7 DEF Chained
    <2>2. Len(pb) \in Nat /\ Len(R7Packages) \in Nat
      BY <1>8 DEF Chained
    <2>3. Len(x) \in Nat /\ Len(R7Reports) \in Nat
      BY <1>9 DEF Chained
    <2>4. Len(y) \in Nat
      BY <1>10 DEF Chained
    <2>5. Len(z) \in Nat
      BY <1>11 DEF Chained
    <2>6. QED
      BY <2>1, <2>2, <2>3, <2>4, <2>5
  <1>26. c = c0 + 1 /\ f = f0 + 1
    BY DEF c, f
  <1>27. c \in Nat /\ f \in Nat
    BY <1>3, <1>26
  <1>13. /\ m = Len(y) + 1 /\ Len(pb) = f + 2 /\ Len(x) = f + 2 + Len(R7Packages)
         /\ Len(y) = f + 2 + Len(R7Packages) + Len(R7Reports) /\ Len(z) = m + 2 /\ Len(s) = m + 3
    <2>1. Len(pb) = Len(p) + Len(b)
      BY <1>7 DEF Chained
    <2>2. Len(x) = Len(pb) + Len(R7Packages)
      BY <1>8 DEF Chained
    <2>3. Len(y) = Len(x) + Len(R7Reports)
      BY <1>9 DEF Chained
    <2>4. Len(z) = Len(y) + Len(t)
      BY <1>10 DEF Chained
    <2>5. Len(s) = Len(z) + Len(Returning)
      BY <1>11 DEF Chained
    <2>6. Len(p) = 1 /\ Len(t) = 3 /\ Len(Returning) = 1 /\ Len(b) = f0 + 2
      BY <1>3, <1>4, <1>6, ReturningOf
    <2>7. QED
      <3>1. Len(b) = f + 1
        BY <1>3, <1>26, <2>6
      <3>2. m = Len(y) + 1 /\ m \in Nat
        BY <1>12 DEF m
      <3>3. Len(pb) = f + 2
        BY <1>12, <1>27, <2>1, <2>6, <3>1
      <3>4. Len(x) = f + 2 + Len(R7Packages)
        BY <2>2, <3>3
      <3>5. Len(y) = f + 2 + Len(R7Packages) + Len(R7Reports)
        BY <2>3, <3>4
      <3>6. Len(z) = m + 2
        BY <1>12, <2>4, <2>6, <3>2
      <3>7. Len(s) = m + 3
        BY <2>5, <2>6, <3>2, <3>6
      <3>8. QED
        BY <3>2, <3>3, <3>4, <3>5, <3>6, <3>7
  <1>14. c \in Nat /\ f \in Nat /\ m \in Nat /\ 1 < c /\ c < f
    <2>1. m \in Nat
      BY <1>12 DEF m
    <2>2. QED
      BY <1>3, <1>26, <1>27, <2>1
  <1>15. f + 2 < m
    BY <1>12, <1>13, <1>14
  <1>16. \A i \in 1..Len(y) : s[i] = y[i]
    <2>1. \A i \in 1..Len(y) : i \in 1..Len(z)
      <3>1. Len(y) \in Nat /\ Len(z) \in Nat
        BY <1>12
      <3>2. m = Len(y) + 1 /\ Len(z) = m + 2
        BY <1>13
      <3>3. QED
        BY <3>1, <3>2
    <2>2. \A i \in 1..Len(z) : s[i] = z[i]
      BY <1>11 DEF Chained
    <2>3. \A i \in 1..Len(y) : z[i] = y[i]
      BY <1>10 DEF Chained
    <2>4. QED
      BY <2>1, <2>2, <2>3
  <1>17. \A i \in 1..Len(pb) : s[i] = pb[i]
    <2>1. \A i \in 1..Len(pb) : i \in 1..Len(x) /\ i \in 1..Len(y)
      BY <1>12, <1>27, <1>13
    <2>2. \A i \in 1..Len(x) : y[i] = x[i]
      BY <1>9 DEF Chained
    <2>3. \A i \in 1..Len(pb) : x[i] = pb[i]
      BY <1>8 DEF Chained
    <2>4. QED
      BY <1>16, <2>1, <2>2, <2>3
  <1>18. \A i \in 1..Len(b) : s[i + 1] = b[i]
    <2> SUFFICES ASSUME NEW i \in 1..Len(b) PROVE s[i + 1] = b[i]
      OBVIOUS
    <2>1. Len(p) + i = i + 1 /\ i + 1 \in 1..Len(pb)
      <3>1. Len(pb) = Len(p) + Len(b)
        BY <1>7 DEF Chained
      <3>2. QED
        BY <1>4, <1>12, <3>1
    <2>2. pb[Len(p) + i] = b[i]
      BY <1>7 DEF Chained
    <2>3. QED
      BY <1>17, <2>1, <2>2
  <1>19. \A i \in 1..(c - 1) : s[i] \in LookSteps
    <2> SUFFICES ASSUME NEW i \in 1..(c - 1) PROVE s[i] \in LookSteps
      OBVIOUS
    <2>1. CASE i = 1
      <3>1. 1 \in 1..Len(pb) /\ 1 \in 1..Len(p)
        BY <1>4, <1>12, <1>13, <1>14
      <3>2. pb[1] = p[1]
        BY <1>7, <3>1 DEF Chained
      <3>3. QED
        BY <1>4, <1>17, <2>1, <3>1, <3>2
    <2>2. CASE i # 1
      <3>1. i - 1 \in 1..Len(b) /\ i - 1 \in 1..(c0 - 1) /\ (i - 1) + 1 = i
        BY <1>3, <1>12, <1>26, <1>27, <1>13, <2>2
      <3>2. b[i - 1] \in LookSteps
        BY <1>1, <3>1 DEF Shaped, b
      <3>3. QED
        BY <1>18, <3>1, <3>2
    <2>3. QED
      BY <2>1, <2>2
  <1>20. \A i \in (c + 1)..(f - 1) : s[i] \in WorkSteps
    <2> SUFFICES ASSUME NEW i \in (c + 1)..(f - 1) PROVE s[i] \in WorkSteps
      OBVIOUS
    <2>1. i - 1 \in 1..Len(b) /\ i - 1 \in (c0 + 1)..(f0 - 1) /\ (i - 1) + 1 = i
      BY <1>3, <1>12, <1>26, <1>27, <1>13
    <2>2. b[i - 1] \in WorkSteps
      BY <1>1, <2>1 DEF Shaped, b
    <2>3. QED
      BY <1>18, <2>1, <2>2
  <1>21. /\ s[c] = ClearOutput /\ s[f] = ManifestOf("r6")
         /\ s[f + 1] = WriteSums /\ s[f + 2] = ValidateOutput
    <2>1. /\ c0 \in 1..Len(b) /\ f0 \in 1..Len(b) /\ f0 + 1 \in 1..Len(b) /\ f0 + 2 \in 1..Len(b)
          /\ c = c0 + 1 /\ f = f0 + 1 /\ f + 1 = (f0 + 1) + 1 /\ f + 2 = (f0 + 2) + 1
      BY <1>3, <1>12, <1>26, <1>27, <1>13
    <2>2. /\ b[c0] = ClearOutput /\ b[f0] = ManifestOf("r6") /\ b[f0 + 1] = WriteSums
          /\ b[f0 + 2] = ValidateOutput
      BY <1>1 DEF Shaped, b
    <2>3. QED
      BY <1>18, <2>1, <2>2
  <1>22. \A i \in (f + 3)..(m - 1) : s[i] \in LateSteps
    <2> SUFFICES ASSUME NEW i \in (f + 3)..(m - 1) PROVE s[i] \in LateSteps
      OBVIOUS
    <2>1. i \in 1..Len(y)
      BY <1>12, <1>13, <1>14
    <2>2. CASE i <= Len(x)
      <3>1. i - Len(pb) \in 1..Len(R7Packages) /\ Len(pb) + (i - Len(pb)) = i /\ i \in 1..Len(x)
        BY <1>12, <1>13, <1>14, <2>1, <2>2
      <3>2. s[i] = x[i]
        BY <1>9, <1>16, <2>1, <3>1 DEF Chained
      <3>3. x[i] = R7Packages[i - Len(pb)]
        <4>1. x[Len(pb) + (i - Len(pb))] = R7Packages[i - Len(pb)]
          BY <1>8, <3>1 DEF Chained
        <4>2. QED
          BY <3>1, <4>1
      <3>4. R7Packages[i - Len(pb)] \in LateSteps
        BY <3>1, R7Late
      <3>5. QED
        BY <3>2, <3>3, <3>4
    <2>3. CASE i > Len(x)
      <3>1. i - Len(x) \in 1..Len(R7Reports) /\ Len(x) + (i - Len(x)) = i
        BY <1>12, <1>13, <1>14, <2>1, <2>3
      <3>2. y[i] = R7Reports[i - Len(x)]
        <4>1. y[Len(x) + (i - Len(x))] = R7Reports[i - Len(x)]
          BY <1>9, <3>1 DEF Chained
        <4>2. QED
          BY <3>1, <4>1
      <3>3. R7Reports[i - Len(x)] \in LateSteps
        BY <3>1, R7Late
      <3>4. QED
        BY <1>16, <2>1, <3>2, <3>3
    <2>4. QED
      BY <1>12, <2>2, <2>3
  <1>23. /\ s[m] = ManifestOf("r7") /\ s[m + 1] = WriteSums /\ s[m + 2] = ValidateOutput
         /\ s[m + 3] = ReturnReceipt
    <2>1. /\ 1 \in 1..Len(t) /\ 2 \in 1..Len(t) /\ 3 \in 1..Len(t)
          /\ m = Len(y) + 1 /\ m + 1 = Len(y) + 2 /\ m + 2 = Len(y) + 3 /\ m + 3 = Len(z) + 1
          /\ m \in 1..Len(z) /\ m + 1 \in 1..Len(z) /\ m + 2 \in 1..Len(z)
      <3>1. Len(t) = 3
        BY <1>6, Zenon
      <3>2. 1 \in 1..Len(t) /\ 2 \in 1..Len(t) /\ 3 \in 1..Len(t)
        BY <3>1
      <3>6. m = Len(y) + 1 /\ Len(z) = m + 2 /\ Len(y) \in Nat /\ m \in Nat
        BY <1>12, <1>13, <1>14
      <3>3. m + 1 = Len(y) + 2 /\ m + 2 = Len(y) + 3 /\ m + 3 = Len(z) + 1
        BY <3>6
      <3>4. m \in 1..Len(z) /\ m + 1 \in 1..Len(z) /\ m + 2 \in 1..Len(z)
        BY <3>6
      <3>5. QED
        BY <3>2, <3>3, <3>4, <3>6
    <2>2. z[Len(y) + 1] = t[1] /\ z[Len(y) + 2] = t[2] /\ z[Len(y) + 3] = t[3]
      BY <1>10, <2>1 DEF Chained
    <2>3. s[m] = z[m] /\ s[m + 1] = z[m + 1] /\ s[m + 2] = z[m + 2]
      BY <1>11, <2>1 DEF Chained
    <2>4. s[Len(z) + 1] = ReturnReceipt
      <3>1. 1 \in 1..Len(Returning)
        BY ReturningOf
      <3>2. QED
        BY <1>11, <3>1, ReturningOf DEF Chained
    <2>5. QED
      BY <1>6, <2>1, <2>2, <2>3, <2>4
  <1>24. Placed(s, "r7", c, f, m)
    <2>1. First("r7") = "r6"
      BY DEF First
    <2>2. s \in Seq(AnySteps) /\ Len(s) = m + 3
      BY <1>11, <1>13 DEF Chained
    <2>3. QED
      BY <1>14, <1>15, <1>19, <1>20, <1>21, <1>22, <1>23, <2>1, <2>2 DEF Placed
  <1>25. QED
    <2>1. Len(b) + 1 = f + 2
      BY <1>3, <1>12, <1>26, <1>27, <1>13
    <2>2. QED
      BY <1>2, <1>3, <1>18, <1>24, <2>1 DEF b

\* Where the steps of a kind are in a script.
Where(s, kind, c, f, m, i) ==
  /\ s[i].op = "clear" => i = c
  /\ s[i].op = "manifest" => i = f \/ i = m
  /\ s[i].op = "sums" => i = f + 1 \/ i = m + 1
  /\ s[i].op = "return" => i = m + 3
  /\ s[i].op \in {"package", "report", "keep", "drop_reports"} => c < i /\ i < m
  /\ s[i].op \in {"keep", "drop_reports"} => f < i
  /\ s[i].op = "keep" => s[i].name \in PluginNames
  /\ s[i].op = "check" /\ s[i].name \in RefusedFor /\ kind # "r7" => i < c

\* What the steps of a part are called.
LEMMA OpsOf ==
  /\ ClearOutput.op = "clear" /\ WriteSums.op = "sums" /\ ValidateOutput.op = "validate" /\ ReturnReceipt.op = "return"
  /\ \A k : ManifestOf(k).op = "manifest" /\ ManifestOf(k).name = k
  BY DEF ClearOutput, WriteSums, ValidateOutput, ReturnReceipt, ManifestOf, BuildStep

LEMMA LooksAndWorks ==
  /\ \A x \in LookSteps : x.op \in {"check", "identity"}
  /\ \A x \in WorkSteps : x.op \in {"package", "check", "report"} /\ x.name \notin RefusedFor
  /\ \A x \in LateSteps : x.op \in {"identity", "check", "keep", "package", "drop_reports", "report"}
                          /\ (x.op = "keep" => x.name \in PluginNames)
  <1>1. WorkNames \cap RefusedFor = {}
    BY DEF WorkNames, PluginNames, RefusedFor
  <1>2. QED
    BY <1>1 DEF LookSteps, WorkSteps, LateSteps

LEMMA WhereStepsAre ==
  ASSUME NEW s, NEW kind, NEW c, NEW f, NEW m, Placed(s, kind, c, f, m), NEW i \in 1..Len(s)
  PROVE  Where(s, kind, c, f, m, i)
  <1>1. /\ c \in Nat /\ f \in Nat /\ m \in Nat /\ c < f /\ f <= m /\ i \in 1..(m + 3) /\ 1 < c
        /\ f # m => kind = "r7" /\ f + 2 < m
    BY DEF Placed
  <1>2. \/ i \in 1..(c - 1) \/ i = c \/ i \in (c + 1)..(f - 1) \/ i = f \/ i = f + 1 \/ i = f + 2
        \/ i \in (f + 3)..(m - 1) \/ i = m \/ i = m + 1 \/ i = m + 2 \/ i = m + 3
    BY <1>1
  <1>3. CASE i \in 1..(c - 1)
    <2>1. s[i].op \in {"check", "identity"} /\ i < c
      BY <1>1, <1>3, LooksAndWorks DEF Placed
    <2>2. QED
      BY <2>1 DEF Where
  <1>4. CASE i = c
    <2>1. s[i].op = "clear"
      BY <1>4, OpsOf DEF Placed
    <2>2. QED
      BY <1>4, <2>1 DEF Where
  <1>5. CASE i \in (c + 1)..(f - 1)
    <2>1. s[i].op \in {"package", "check", "report"} /\ s[i].name \notin RefusedFor
      BY <1>5, LooksAndWorks DEF Placed
    <2>2. c < i /\ i < m
      BY <1>1, <1>5
    <2>3. QED
      BY <2>1, <2>2 DEF Where
  <1>6. CASE i = f \/ i = m
    <2>1. s[i].op = "manifest"
      BY <1>6, OpsOf DEF Placed
    <2>2. QED
      BY <1>6, <2>1 DEF Where
  <1>7. CASE i = f + 1 \/ i = m + 1
    <2>1. s[i].op = "sums"
      BY <1>7, OpsOf DEF Placed
    <2>2. QED
      BY <1>7, <2>1 DEF Where
  <1>8. CASE i = f + 2 \/ i = m + 2
    <2>1. s[i].op = "validate"
      BY <1>8, OpsOf DEF Placed
    <2>2. QED
      BY <2>1 DEF Where
  <1>9. CASE i \in (f + 3)..(m - 1)
    <2>1. s[i].op \in {"identity", "check", "keep", "package", "drop_reports", "report"}
          /\ (s[i].op = "keep" => s[i].name \in PluginNames)
      BY <1>9, LooksAndWorks DEF Placed
    <2>2. c < i /\ f < i /\ i < m /\ kind = "r7"
      BY <1>1, <1>9
    <2>3. QED
      BY <2>1, <2>2 DEF Where
  <1>10. CASE i = m + 3
    <2>1. s[i].op = "return"
      BY <1>10, OpsOf DEF Placed
    <2>2. QED
      BY <1>10, <2>1 DEF Where
  <1>11. QED
    BY <1>2, <1>3, <1>4, <1>5, <1>6, <1>7, <1>8, <1>9, <1>10

\* The former output is removed, or a manifest written, before step i.
Cleared(s, i) == \E j \in 1..(i - 1) : s[j].op = "clear"
Sealed(s, i) == \E j \in 1..(i - 1) : s[j].op = "manifest"

\* The names of the steps before i.
Before(s, ops, i) == {s[j].name : j \in {k \in 1..(i - 1) : s[k].op \in ops}}

\* The reports before i that nothing has dropped since.
Pending(s, i) == {s[j].name : j \in {k \in 1..(i - 1) : s[k].op = "report" /\ \A l \in k..(i - 1) : s[l].op # "drop_reports"}}

Making == {"package", "keep"}
Writing == {"package", "keep", "report", "manifest", "sums", "drop_reports", "return"}

\* What the order of the steps provides for.
StepFacts(s, kind, i) ==
  /\ s[i].op # "return" => i + 1 \in 1..Len(s)
  /\ s[i].op \in Writing => Cleared(s, i)
  /\ s[i].op = "clear" => ~Cleared(s, i)
  /\ s[i].op = "check" /\ s[i].name \in RefusedFor /\ kind # "r7" => ~Cleared(s, i)
  /\ s[i].op = "return" => Sealed(s, i)
  /\ s[i].op = "keep" => s[i].name \in Before(s, {"package"}, i)
  /\ s[i].op = "manifest" =>
       /\ s[i].name \in Releases /\ PackagesOf[s[i].name] \subseteq Before(s, Making, i)
       /\ Before(s, {"keep"}, i) \subseteq KeptOf[s[i].name]
  /\ s[i].op = "sums" =>
       /\ i - 1 \in 1..Len(s) /\ s[i - 1].op = "manifest" 
       /\ ReportsOf[s[i - 1].name] \subseteq Pending(s, i)

\* What is easily seen of the places.
LEMMA PlacesFacts ==
  ASSUME NEW s, NEW kind, NEW c, NEW f, NEW m, Placed(s, kind, c, f, m), NEW i \in 1..Len(s)
  PROVE  /\ s[i].op # "return" => i + 1 \in 1..Len(s)
         /\ s[i].op \in Writing => Cleared(s, i)
         /\ s[i].op = "clear" => ~Cleared(s, i)
         /\ s[i].op = "check" /\ s[i].name \in RefusedFor /\ kind # "r7" => ~Cleared(s, i)
         /\ s[i].op = "return" => Sealed(s, i)
  <1>1. /\ c \in Nat /\ f \in Nat /\ m \in Nat /\ c < f /\ f <= m /\ i \in 1..(m + 3) /\ 1 < c
        /\ Len(s) = m + 3
    BY DEF Placed
  <1>2. Where(s, kind, c, f, m, i)
    BY WhereStepsAre
  <1>3. s[c].op = "clear" /\ s[m].op = "manifest" /\ s[m + 3].op = "return"
    BY OpsOf DEF Placed
  <1>4. \A j \in 1..Len(s) : s[j].op = "clear" => j = c
    BY WhereStepsAre DEF Where
  <1>5. i <= c => ~Cleared(s, i)
    <2> SUFFICES ASSUME i <= c, NEW j \in 1..(i - 1), s[j].op = "clear" PROVE FALSE
      BY DEF Cleared
    <2>1. j \in 1..Len(s) /\ j # c
      BY <1>1
    <2>2. QED
      BY <1>4, <2>1
  <1>6. c < i => Cleared(s, i)
    <2> SUFFICES ASSUME c < i PROVE Cleared(s, i)
      OBVIOUS
    <2>1. c \in 1..(i - 1)
      BY <1>1
    <2>2. QED
      BY <1>3, <2>1 DEF Cleared
  <1>7. s[i].op # "return" => i + 1 \in 1..Len(s)
    <2>1. ASSUME s[i].op # "return" PROVE i # m + 3
      BY <1>3, <2>1
    <2>2. QED
      BY <1>1, <2>1
  <1>8. s[i].op \in Writing => c < i
    BY <1>1, <1>2 DEF Where, Writing
  <1>9. s[i].op = "clear" \/ (s[i].op = "check" /\ s[i].name \in RefusedFor /\ kind # "r7") => i <= c
    BY <1>1, <1>2 DEF Where
  <1>10. s[i].op = "return" => Sealed(s, i)
    <2> SUFFICES ASSUME s[i].op = "return" PROVE Sealed(s, i)
      OBVIOUS
    <2>1. m \in 1..(i - 1)
      BY <1>1, <1>2 DEF Where
    <2>2. QED
      BY <1>3, <2>1 DEF Sealed
  <1>11. QED
    BY <1>5, <1>6, <1>7, <1>8, <1>9, <1>10

\* A step is one of a script.
Occurs(x, s) == \E j \in 1..Len(s) : s[j] = x

LEMMA OccursJoined ==
  ASSUME NEW a \in Seq(AnySteps), NEW b \in Seq(AnySteps), NEW x, Occurs(x, a) \/ Occurs(x, b)
  PROVE  Occurs(x, a \o b)
  <1>1. Chained(a \o b, a, b)
    BY Chaining
  <1>2. CASE Occurs(x, a)
    <2>1. PICK j \in 1..Len(a) : a[j] = x
      BY <1>2 DEF Occurs
    <2>2. j \in 1..Len(a \o b) /\ (a \o b)[j] = x
      <3>1. (a \o b)[j] = a[j]
        BY <1>1 DEF Chained
      <3>2. Len(a \o b) = Len(a) + Len(b) /\ Len(a) \in Nat /\ Len(b) \in Nat
        BY <1>1 DEF Chained
      <3>3. QED
        BY <2>1, <3>1, <3>2
    <2>3. QED
      BY <2>2 DEF Occurs
  <1>3. CASE Occurs(x, b)
    <2>1. PICK j \in 1..Len(b) : b[j] = x
      BY <1>3 DEF Occurs
    <2>2. Len(a) + j \in 1..Len(a \o b) /\ (a \o b)[Len(a) + j] = x
      <3>1. (a \o b)[Len(a) + j] = b[j]
        BY <1>1 DEF Chained
      <3>2. Len(a \o b) = Len(a) + Len(b) /\ Len(a) \in Nat /\ Len(b) \in Nat
        BY <1>1 DEF Chained
      <3>3. QED
        BY <2>1, <3>1, <3>2
    <2>3. QED
      BY <2>2 DEF Occurs
  <1>4. QED
    BY <1>2, <1>3

LEMMA PackageOccurs ==
  ASSUME NEW name \in WorkNames, NEW dryRun \in WorkNames
  PROVE  Occurs(BuildStep("package", name), PluginPackage(name, dryRun))
  <1> DEFINE a == Each("package", <<name>>)
             x == BuildStep("package", name)
  <1>1. <<name>> \in Seq(WorkNames)
    OBVIOUS
  <1>2. a \in Seq(WorkSteps)
    BY <1>1, WorkOf
  <1>3. a \in Seq(AnySteps) /\ CheckedReport(dryRun) \in Seq(AnySteps)
    BY <1>2, ReportOf, StepsAreAny
  <1>4. a = <<x>>
    BY DEF Each
  <1> HIDE DEF x
  <1>5. Len(<<x>>) = 1 /\ <<x>>[1] = x
    OBVIOUS
  <1>6. Occurs(x, a)
    BY <1>4, <1>5 DEF Occurs
  <1> HIDE DEF a
  <1>7. Occurs(x, a \o CheckedReport(dryRun))
    BY <1>3, <1>6, OccursJoined
  <1>8. QED
    BY <1>7 DEF PluginPackage, a, x

LEMMA PluginsOccur == \A name \in PluginNames : Occurs(BuildStep("package", name), PluginPackages)
  <1> DEFINE p == PluginPackage("mod_build_deploy", "dry_run_mod_build_deploy")
             q == PluginPackage("native_probes", "dry_run_native_probes")
             r == PluginPackage("research_graph", "dry_run_research_graph")
             x == BuildStep("package", "mod_build_deploy")
             y == BuildStep("package", "native_probes")
             z == BuildStep("package", "research_graph")
  <1>1. /\ "mod_build_deploy" \in WorkNames /\ "native_probes" \in WorkNames /\ "research_graph" \in WorkNames
        /\ "dry_run_mod_build_deploy" \in WorkNames /\ "dry_run_native_probes" \in WorkNames
        /\ "dry_run_research_graph" \in WorkNames
    BY DEF WorkNames, PluginNames
  <1>2. p \in Seq(AnySteps) /\ q \in Seq(AnySteps) /\ r \in Seq(AnySteps)
    BY <1>1, PluginOf, StepsAreAny
  <1>3. Occurs(x, p) /\ Occurs(y, q) /\ Occurs(z, r)
    BY <1>1, PackageOccurs
  <1>4. PluginPackages = (p \o q) \o r
    BY DEF PluginPackages
  <1>5. x = BuildStep("package", "mod_build_deploy") /\ y = BuildStep("package", "native_probes")
        /\ z = BuildStep("package", "research_graph")
    OBVIOUS
  <1> HIDE DEF p, q, r, x, y, z
  <1>6. p \o q \in Seq(AnySteps)
    BY <1>2, Joined
  <1>7. Occurs(x, p \o q) /\ Occurs(y, p \o q)
    BY <1>2, <1>3, OccursJoined
  <1>8. Occurs(x, (p \o q) \o r) /\ Occurs(y, (p \o q) \o r) /\ Occurs(z, (p \o q) \o r)
    BY <1>2, <1>3, <1>6, <1>7, OccursJoined
  <1>9. QED
    BY <1>4, <1>5, <1>8 DEF PluginNames

\* The former release packages each plugin.
LEMMA PluginsBuilt == \A name \in PluginNames : Occurs(BuildStep("package", name), R6Build)
  <1> DEFINE d == BasePackages
             o == PluginPackage("orchestrator", "dry_run_orchestrator")
             h == Opening(<<"dependencies">>)
             t == Sealing("r6")
  <1>1. "orchestrator" \in WorkNames /\ "dry_run_orchestrator" \in WorkNames
    BY DEF WorkNames
  <1>3. d \in Seq(AnySteps)
    BY BaseWork, StepsAreAny
  <1>4. o \in Seq(AnySteps)
    BY <1>1, PluginOf, StepsAreAny
  <1>5. h \in Seq(AnySteps)
    <2>1. PICK pre \in Seq(LookSteps) : Len(pre) > 0 /\ h = pre \o <<ClearOutput>>
      BY Openings
    <2> DEFINE e == ClearOutput
    <2>2. e \in AnySteps /\ pre \in Seq(AnySteps)
      BY StepsAreAny
    <2> HIDE DEF e
    <2>3. pre \o <<e>> \in Seq(AnySteps)
      BY <2>2
    <2>4. QED
      BY <2>1, <2>3 DEF e
  <1>6. t \in Seq(AnySteps)
    BY SealingOf DEF Releases
  <1>7. /\ R6Packages = (d \o PluginPackages) \o o
        /\ R6Build = ((h \o R6Packages) \o R6Reports) \o t
    BY DEF R6Packages, R6Build
  <1>8. /\ PluginPackages \in Seq(AnySteps) /\ R6Packages \in Seq(AnySteps) /\ R6Reports \in Seq(AnySteps)
    BY PluginWork, R6Work, StepsAreAny
  <1> HIDE DEF d, o, h, t
  <1>2. d \o PluginPackages \in Seq(AnySteps)
    BY <1>3, <1>8, Joined
  <1>9. h \o R6Packages \in Seq(AnySteps) /\ (h \o R6Packages) \o R6Reports \in Seq(AnySteps)
    BY <1>5, <1>8, Joined
  <1> SUFFICES ASSUME NEW name \in PluginNames PROVE Occurs(BuildStep("package", name), R6Build)
    OBVIOUS
  <1> DEFINE x == BuildStep("package", name)
  <1>10. Occurs(x, PluginPackages)
    BY PluginsOccur
  <1> HIDE DEF x
  <1>11. Occurs(x, d \o PluginPackages)
    BY <1>3, <1>8, <1>10, OccursJoined
  <1>12. Occurs(x, R6Packages)
    BY <1>2, <1>4, <1>7, <1>11, OccursJoined
  <1>13. Occurs(x, h \o R6Packages)
    BY <1>5, <1>8, <1>12, OccursJoined
  <1>14. Occurs(x, (h \o R6Packages) \o R6Reports)
    BY <1>8, <1>9, <1>13, OccursJoined
  <1>15. Occurs(x, R6Build)
    BY <1>6, <1>7, <1>9, <1>14, OccursJoined
  <1>16. QED
    BY <1>15 DEF x

\* What the last manifest of a script is written after, and its sums.
LEMMA LastManifest ==
  ASSUME NEW kind \in Releases, NEW c, NEW f, NEW m, Placed(StepsOf(kind), kind, c, f, m)
  PROVE  /\ PackagesOf[kind] \subseteq Before(StepsOf(kind), Making, m)
         /\ Before(StepsOf(kind), {"keep"}, m) \subseteq KeptOf[kind]
         /\ ReportsOf[kind] \subseteq Pending(StepsOf(kind), m + 1)
  <1> DEFINE s == StepsOf(kind)
  <1>1. PackagesOf[kind] = {s[i].name : i \in StepsWith(kind, {"package", "keep"})}
    BY DEF PackagesOf
  <1>2. KeptOf[kind] = {s[i].name : i \in StepsWith(kind, {"keep"})}
    BY DEF KeptOf
  <1>3. ReportsOf[kind] = {s[i].name : i \in {j \in StepsWith(kind, {"report"}) : \A k \in StepsWith(kind, {"drop_reports"}) : k < j}}
    BY DEF ReportsOf
  <1>4. \A ops : StepsWith(kind, ops) = {i \in 1..Len(s) : s[i].op \in ops}
    <2>1. DOMAIN s = 1..Len(s)
      BY DEF Placed
    <2>2. QED
      BY <2>1 DEF StepsWith
  <1>5. \A i \in 1..Len(s) : Where(s, kind, c, f, m, i)
    BY WhereStepsAre
  <1>6. m \in Nat /\ Len(s) = m + 3
    BY DEF Placed
  <1> HIDE DEF s
  <1>7. \A i \in 1..Len(s) : s[i].op \in {"package", "report", "keep", "drop_reports"} => i \in 1..(m - 1)
    BY <1>5, <1>6 DEF Where
  <1>8. PackagesOf[kind] \subseteq Before(s, Making, m)
    BY <1>1, <1>4, <1>7 DEF Before, Making
  <1>9. Before(s, {"keep"}, m) \subseteq KeptOf[kind]
    <2>1. \A i \in 1..(m - 1) : i \in 1..Len(s)
      BY <1>6
    <2>2. QED
      BY <1>2, <1>4, <2>1 DEF Before
  <1>10. ReportsOf[kind] \subseteq Pending(s, m + 1)
    <2> SUFFICES ASSUME NEW i \in StepsWith(kind, {"report"}), \A k \in StepsWith(kind, {"drop_reports"}) : k < i
                 PROVE  s[i].name \in Pending(s, m + 1)
      BY <1>3
    <2>1. i \in 1..(m - 1) /\ s[i].op = "report"
      BY <1>4, <1>7
    <2>2. ASSUME NEW l \in i..m PROVE s[l].op # "drop_reports"
      <3>1. l \in 1..Len(s) /\ ~(l < i)
        BY <1>6, <2>1
      <3>2. QED
        BY <1>4, <3>1
    <2>3. (m + 1) - 1 = m /\ i \in 1..m
      BY <1>6, <2>1
    <2>4. QED
      BY <2>1, <2>2, <2>3 DEF Pending
  <1>11. QED
    BY <1>8, <1>9, <1>10 DEF s

\* The manifest of the former release that the next one is built over.
LEMMA FormerManifest ==
  ASSUME NEW c, NEW f, NEW m, Placed(StepsOf("r7"), "r7", c, f, m),
         Len(R6Build) + 1 = f + 2, R6Build \in Seq(AnySteps),
         \A i \in 1..Len(R6Build) : StepsOf("r7")[i + 1] = R6Build[i]
  PROVE  /\ PackagesOf["r6"] \subseteq Before(StepsOf("r7"), Making, f)
         /\ Before(StepsOf("r7"), {"keep"}, f) = {}
         /\ ReportsOf["r6"] \subseteq Pending(StepsOf("r7"), f + 1)
  <1> DEFINE s == StepsOf("r7")
             r == StepsOf("r6")
             b == R6Build
  <1>1. "r6" \in Releases /\ "r6" # "r7"
    BY DEF Releases
  <1>2. PICK c6, m6 : Shaped(BuiltBy("r6"), c6, m6, "r6") /\ Placed(r, "r6", c6, m6, m6)
    BY <1>1, PlainPlaced
  <1>3. BuiltBy("r6") = b
    BY DEF BuiltBy
  <1>4. r = b \o Returning
    BY <1>1, <1>3, BuiltShape
  <1>5. Chained(r, b, Returning)
    <2> HIDE DEF b, r
    <2>1. b \in Seq(AnySteps)
      BY DEF b
    <2>2. QED
      BY <1>4, <2>1, ReturningOf, Chaining
  <1>6. Len(b) = m6 + 2 /\ m6 \in Nat /\ f \in Nat /\ Len(b) + 1 = f + 2
    BY <1>2, <1>3 DEF Shaped, Placed
  <1>7. f = m6 + 1
    BY <1>6
  <1>8. \A i \in 1..Len(s) : Where(s, "r7", c, f, m, i)
    BY WhereStepsAre
  <1>9. \A i \in 1..Len(r) : Where(r, "r6", c6, m6, m6, i)
    BY <1>2, WhereStepsAre
  <1>10. /\ PackagesOf["r6"] = {r[i].name : i \in StepsWith("r6", {"package", "keep"})}
         /\ ReportsOf["r6"] = {r[i].name : i \in {j \in StepsWith("r6", {"report"}) : \A k \in StepsWith("r6", {"drop_reports"}) : k < j}}
    BY <1>1 DEF PackagesOf, ReportsOf
  <1>11. \A ops : StepsWith("r6", ops) = {i \in 1..Len(r) : r[i].op \in ops}
    <2>1. DOMAIN r = 1..Len(r)
      BY <1>2 DEF Placed
    <2>2. QED
      BY <2>1 DEF StepsWith
  <1>12. m \in Nat /\ Len(s) = m + 3 /\ (f + 2 < m \/ f = m)
    BY DEF Placed
  <1>13. \A i \in 1..Len(b) : s[i + 1] = b[i]
    OBVIOUS
  <1> HIDE DEF s, r, b
  <1>21. m \in Nat /\ f <= m /\ Len(s) = m + 3
    <2>1. m \in Nat /\ f \in Nat
      BY <1>6, <1>12
    <2>2. f + 2 < m => f <= m
      BY <2>1
    <2>3. f = m => f <= m
      BY <2>1
    <2>4. QED
      BY <1>12, <2>1, <2>2, <2>3
  <1>14. \A i \in 1..Len(b) : r[i] = b[i]
    BY <1>5 DEF Chained
  <1>15. ASSUME NEW i \in 1..Len(r), r[i].op \in {"package", "report", "keep", "drop_reports"}
         PROVE  i \in 1..(m6 - 1) /\ i + 1 \in 1..(f - 1) /\ s[i + 1] = r[i]
    <2>1. i < m6
      BY <1>9, <1>15 DEF Where
    <2>2. i \in Nat /\ 0 < i
      OBVIOUS
    <2>3. i \in 1..(m6 - 1) /\ i + 1 \in 1..(f - 1) /\ i \in 1..Len(b)
      BY <1>6, <1>7, <2>1, <2>2
    <2>4. QED
      BY <1>13, <1>14, <2>3
  <1>16. PackagesOf["r6"] \subseteq Before(s, Making, f)
    BY <1>10, <1>11, <1>15 DEF Before, Making
  <1>17. \A i \in 1..f : i \in 1..Len(s) /\ s[i].op \notin {"keep", "drop_reports"}
    <2> SUFFICES ASSUME NEW i \in 1..f PROVE i \in 1..Len(s) /\ s[i].op \notin {"keep", "drop_reports"}
      OBVIOUS
    <2>1. i \in 1..Len(s) /\ ~(f < i)
      BY <1>6, <1>21
    <2>2. QED
      BY <1>8, <2>1 DEF Where
  <1>18. Before(s, {"keep"}, f) = {}
    <2>1. \A i \in 1..(f - 1) : i \in 1..f
      BY <1>6
    <2>2. QED
      BY <1>17, <2>1 DEF Before
  <1>19. ReportsOf["r6"] \subseteq Pending(s, f + 1)
    <2> SUFFICES ASSUME NEW i \in StepsWith("r6", {"report"}) PROVE  r[i].name \in Pending(s, f + 1)
      BY <1>10
    <2>1. i \in 1..Len(r) /\ r[i].op = "report"
      BY <1>11
    <2>2. i + 1 \in 1..(f - 1) /\ s[i + 1] = r[i]
      BY <1>15, <2>1
    <2>3. (f + 1) - 1 = f /\ i + 1 \in 1..f
      BY <1>6, <2>2
    <2>4. \A l \in (i + 1)..f : l \in 1..f
      BY <1>6, <2>3
    <2>5. QED
      BY <1>17, <2>1, <2>2, <2>3, <2>4 DEF Pending
  <1>20. QED
    BY <1>16, <1>18, <1>19 DEF s

\* What the next release keeps is a package of the former one.
LEMMA KeptAreBuilt ==
  ASSUME NEW c, NEW f, NEW m, Placed(StepsOf("r7"), "r7", c, f, m),
         Len(R6Build) + 1 = f + 2, R6Build \in Seq(AnySteps),
         \A i \in 1..Len(R6Build) : StepsOf("r7")[i + 1] = R6Build[i],
         NEW i \in 1..Len(StepsOf("r7")), StepsOf("r7")[i].op = "keep"
  PROVE  StepsOf("r7")[i].name \in Before(StepsOf("r7"), {"package"}, i)
  <1> DEFINE s == StepsOf("r7")
             b == R6Build
             x == BuildStep("package", s[i].name)
  <1>1. \A j \in 1..Len(s) : Where(s, "r7", c, f, m, j)
    BY WhereStepsAre
  <1>2. f < i /\ s[i].name \in PluginNames
    BY <1>1 DEF Where
  <1>3. f \in Nat /\ m \in Nat /\ Len(s) = m + 3 /\ f <= m /\ i \in Nat
    <2>1. f \in Nat /\ m \in Nat /\ Len(s) = m + 3
      BY DEF Placed
    <2>2. f = m \/ f + 2 < m
      BY DEF Placed
    <2> HIDE DEF s
    <2>3. f <= m
      BY <2>1, <2>2
    <2>4. QED
      BY <2>1, <2>3
  <1>4. s[f + 1].op = "sums" /\ s[f + 2].op = "validate" /\ s[f].op = "manifest"
    BY OpsOf DEF Placed
  <1>5. \A j \in 1..Len(b) : s[j + 1] = b[j]
    OBVIOUS
  <1>6. PICK j \in 1..Len(b) : b[j] = x
    BY <1>2, PluginsBuilt DEF Occurs
  <1>7. x.op = "package" /\ x.name = s[i].name
    BY DEF BuildStep
  <1>8. Len(b) + 1 = f + 2 /\ Len(b) \in Nat
    OBVIOUS
  <1> HIDE DEF s, b, x
  <1>9. s[j + 1] = x
    BY <1>5, <1>6
  <1>10. j + 1 \in 1..(f + 2) /\ j + 1 # f + 1 /\ j + 1 # f + 2
    <2>1. j + 1 \in 1..(f + 2)
      BY <1>3, <1>8
    <2>2. s[j + 1].op = "package"
      BY <1>7, <1>9
    <2>3. j + 1 # f + 1
      BY <1>4, <2>2
    <2>4. j + 1 # f + 2
      BY <1>4, <2>2
    <2>5. QED
      BY <2>1, <2>3, <2>4
  <1>11. j + 1 \in 1..(i - 1)
    BY <1>2, <1>3, <1>10
  <1>12. QED
    BY <1>7, <1>9, <1>11 DEF Before, s

LEMMA PlacedFacts ==
  ASSUME NEW kind \in Releases, NEW c, NEW f, NEW m, Placed(StepsOf(kind), kind, c, f, m),
         kind # "r7" => f = m,
         kind = "r7" => /\ PackagesOf["r6"] \subseteq Before(StepsOf("r7"), Making, f)
                        /\ Before(StepsOf("r7"), {"keep"}, f) = {}
                        /\ ReportsOf["r6"] \subseteq Pending(StepsOf("r7"), f + 1)
                        /\ \A i \in 1..Len(StepsOf("r7")) :
                             StepsOf("r7")[i].op = "keep" => StepsOf("r7")[i].name \in Before(StepsOf("r7"), {"package"}, i),
         NEW i \in 1..Len(StepsOf(kind))
  PROVE  StepFacts(StepsOf(kind), kind, i)
  <1> DEFINE s == StepsOf(kind)
  <1>1. Where(s, kind, c, f, m, i)
    BY WhereStepsAre
  <1>2. f \in Nat /\ m \in Nat /\ Len(s) = m + 3 /\ 0 < f
    BY DEF Placed
  <1>3. /\ s[m] = ManifestOf(kind) /\ s[f] = ManifestOf(First(kind))
    BY DEF Placed
  <1>4. s[m].op = "manifest" /\ s[f].op = "manifest" /\ s[m].name = kind /\ s[f].name = First(kind)
    BY <1>3, OpsOf
  <1>5. f <= m
    <2>1. f = m \/ f + 2 < m
      BY DEF Placed
    <2> HIDE DEF s
    <2>2. QED
      BY <1>2, <2>1
  <1>6. /\ PackagesOf[kind] \subseteq Before(s, Making, m)
        /\ Before(s, {"keep"}, m) \subseteq KeptOf[kind]
        /\ ReportsOf[kind] \subseteq Pending(s, m + 1)
    BY LastManifest
  <1>7. First(kind) \in Releases /\ (kind # "r7" => First(kind) = kind) /\ (kind = "r7" => First(kind) = "r6")
    BY DEF First, Releases
  <1>8. /\ PackagesOf[First(kind)] \subseteq Before(s, Making, f)
        /\ Before(s, {"keep"}, f) \subseteq KeptOf[First(kind)]
        /\ ReportsOf[First(kind)] \subseteq Pending(s, f + 1)
    BY <1>6, <1>7
  <1>9. /\ s[i].op # "return" => i + 1 \in 1..Len(s)
        /\ s[i].op \in Writing => Cleared(s, i)
        /\ s[i].op = "clear" => ~Cleared(s, i)
        /\ s[i].op = "check" /\ s[i].name \in RefusedFor /\ kind # "r7" => ~Cleared(s, i)
        /\ s[i].op = "return" => Sealed(s, i)
    BY PlacesFacts
  <1>10. s[i].op = "keep" => s[i].name \in Before(s, {"package"}, i)
    <2> SUFFICES ASSUME s[i].op = "keep" PROVE kind = "r7"
      OBVIOUS
    <2>1. f < i /\ i < m
      BY <1>1 DEF Where
    <2> HIDE DEF s
    <2>2. f # m
      BY <1>2, <2>1
    <2>3. QED
      BY <2>2
  <1> HIDE DEF s
  <1>11. s[i].op = "manifest" =>
           /\ s[i].name \in Releases /\ PackagesOf[s[i].name] \subseteq Before(s, Making, i)
           /\ Before(s, {"keep"}, i) \subseteq KeptOf[s[i].name]
    <2> SUFFICES ASSUME s[i].op = "manifest"
                 PROVE  /\ s[i].name \in Releases /\ PackagesOf[s[i].name] \subseteq Before(s, Making, i)
                        /\ Before(s, {"keep"}, i) \subseteq KeptOf[s[i].name]
      OBVIOUS
    <2>1. i = f \/ i = m
      BY <1>1 DEF Where
    <2>2. QED
      BY <2>1, <1>4, <1>6, <1>7, <1>8
  <1>12. s[i].op = "sums" =>
           /\ i - 1 \in 1..Len(s) /\ s[i - 1].op = "manifest"
           /\ ReportsOf[s[i - 1].name] \subseteq Pending(s, i)
    <2> SUFFICES ASSUME s[i].op = "sums"
                 PROVE  /\ i - 1 \in 1..Len(s) /\ s[i - 1].op = "manifest"
                        /\ ReportsOf[s[i - 1].name] \subseteq Pending(s, i)
      OBVIOUS
    <2>1. i = f + 1 \/ i = m + 1
      BY <1>1 DEF Where
    <2>2. CASE i = f + 1
      <3>1. i - 1 = f /\ i - 1 \in 1..Len(s)
        BY <1>2, <1>5, <2>2
      <3>2. QED
        BY <1>4, <1>8, <2>2, <3>1
    <2>3. CASE i = m + 1
      <3>1. i - 1 = m /\ i - 1 \in 1..Len(s)
        BY <1>2, <1>5, <2>3
      <3>2. QED
        BY <1>4, <1>6, <2>3, <3>1
    <2>4. QED
      BY <2>1, <2>2, <2>3
  <1>13. StepFacts(s, kind, i)
    BY <1>9, <1>10, <1>11, <1>12 DEF StepFacts
  <1>14. QED
    BY <1>13 DEF s

\* The order of the steps, and what a step is.
LEMMA ScriptsInOrder ==
  ASSUME NEW kind \in Releases
  PROVE  /\ StepsOf(kind) \in Seq(AnySteps) /\ 1 \in 1..Len(StepsOf(kind))
         /\ \A i \in 1..Len(StepsOf(kind)) : StepFacts(StepsOf(kind), kind, i)
  <1>1. PICK c, f, m :
          /\ Placed(StepsOf(kind), kind, c, f, m) /\ (kind # "r7" => f = m)
          /\ kind = "r7" => /\ PackagesOf["r6"] \subseteq Before(StepsOf("r7"), Making, f)
                            /\ Before(StepsOf("r7"), {"keep"}, f) = {}
                            /\ ReportsOf["r6"] \subseteq Pending(StepsOf("r7"), f + 1)
                            /\ \A i \in 1..Len(StepsOf("r7")) :
                                 StepsOf("r7")[i].op = "keep" => StepsOf("r7")[i].name \in Before(StepsOf("r7"), {"package"}, i)
    <2>1. CASE kind # "r7"
      BY <2>1, PlainPlaced
    <2>2. CASE kind = "r7"
      <3>1. PICK c, f, m :
              /\ Placed(StepsOf("r7"), "r7", c, f, m)
              /\ Len(R6Build) + 1 = f + 2 /\ R6Build \in Seq(AnySteps)
              /\ \A i \in 1..Len(R6Build) : StepsOf("r7")[i + 1] = R6Build[i]
        BY NextPlaced
      <3>2. /\ PackagesOf["r6"] \subseteq Before(StepsOf("r7"), Making, f)
            /\ Before(StepsOf("r7"), {"keep"}, f) = {}
            /\ ReportsOf["r6"] \subseteq Pending(StepsOf("r7"), f + 1)
        BY <3>1, FormerManifest
      <3>3. \A i \in 1..Len(StepsOf("r7")) :
              StepsOf("r7")[i].op = "keep" => StepsOf("r7")[i].name \in Before(StepsOf("r7"), {"package"}, i)
        BY <3>1, KeptAreBuilt
      <3>4. QED
        BY <2>2, <3>1, <3>2, <3>3
    <2>3. QED
      BY <2>1, <2>2
  <1>2. \A i \in 1..Len(StepsOf(kind)) : StepFacts(StepsOf(kind), kind, i)
    BY <1>1, PlacedFacts
  <1>3. StepsOf(kind) \in Seq(AnySteps) /\ m \in Nat /\ Len(StepsOf(kind)) = m + 3
    BY <1>1 DEF Placed
  <1>4. 1 \in 1..Len(StepsOf(kind))
    BY <1>3
  <1>5. QED
    BY <1>2, <1>3, <1>4

\* What a manifest that calls its source clean says of the packages.
SaysTrue(m) == m.clean => \A p \in DOMAIN m.packages : m.packages[p] = m.revision

OutFields == {"packages", "reports", "manifest", "sums"}

\* An output, whoever wrote it last.
OutHolds(out, damaged) ==
  /\ DOMAIN out = OutFields
  /\ DOMAIN out.manifest = {"kind", "revision", "clean", "packages"}
  /\ out.manifest.kind \in Releases \cup {"none"}
  /\ out.manifest.kind # "none" =>
       /\ PackagesOf[out.manifest.kind] \subseteq DOMAIN out.manifest.packages
       /\ \A p \in DOMAIN out.manifest.packages \ KeptOf[out.manifest.kind] : out.manifest.packages[p] # 0
  /\ (~damaged /\ out.sums.kind # "none") => ReportsOf[out.sums.kind] \subseteq out.sums.reports

\* What a build has done when it is about to take step i of its script s.
Underway(f, s, i) ==
  LET out == f.out
      b == f.build IN
  /\ DOMAIN b.built = Before(s, Making, i)
  /\ \A p \in DOMAIN b.built \ Before(s, {"keep"}, i) : b.built[p] # 0
  /\ ~Cleared(s, i) /\ ~f.damaged => out = f.before
  /\ Cleared(s, i) => Before(s, {"package"}, i) \subseteq DOMAIN out.packages
  /\ Cleared(s, i) /\ ~f.damaged => Pending(s, i) \subseteq out.reports
  /\ f.quiet /\ b.clean => b.revision = f.tree
  /\ f.quiet /\ Cleared(s, i) /\ ~f.damaged =>
       /\ \A p \in DOMAIN out.packages : out.packages[p] = f.tree
       /\ \A p \in DOMAIN b.built : b.built[p] = f.tree
  /\ f.quiet /\ Sealed(s, i) /\ ~f.damaged => SaysTrue(out.manifest)
  /\ s[i].op = "sums" => out.manifest.kind = s[i - 1].name

ReleaseFields ==
  {"topic", "head", "tree", "edits", "builds", "quiet", "damaged", "out", "before", "build", "returned"}

BuildFields == {"kind", "at", "revision", "clean", "built"}

ReleaseTyped(f) ==
  /\ DOMAIN f = ReleaseFields /\ f.topic = "release"
  /\ f.head \in Nat \ {0} /\ f.tree \in Nat \ {0} /\ f.edits \in Nat
  /\ f.quiet \in BOOLEAN /\ f.damaged \in BOOLEAN
  /\ DOMAIN f.build = BuildFields

ReleaseHolds(f) ==
  /\ ReleaseTyped(f)
  /\ OutHolds(f.out, f.damaged)
  /\ f.build # NotBuilding =>
       /\ f.build.kind \in Releases /\ f.build.at \in 1..Len(StepsOf(f.build.kind))
       /\ Underway(f, StepsOf(f.build.kind), f.build.at)
       /\ f.returned = "none"
  /\ f.returned \in Releases /\ f.quiet /\ ~f.damaged => SaysTrue(f.out.manifest)

\* The backlog: whatever is left out of what is needed is still to be visited.
TaskFields == {"topic", "status", "needs", "read", "pending", "visited", "imprecise"}

TasksHold(f) ==
  /\ DOMAIN f = TaskFields /\ f.topic = "tasks"
  /\ f.read \in BOOLEAN /\ f.needs \in [Tasks -> SUBSET Tasks]
  /\ f.pending \subseteq Tasks /\ f.visited \subseteq Tasks /\ f.imprecise \subseteq Tasks
  /\ DOMAIN f.status = Tasks
  /\ f.read => f.needs[ReleaseTask] \subseteq f.pending \cup f.visited
  /\ ~f.read => f.visited = {} /\ f.pending = {}
  /\ \A t \in f.visited : f.needs[t] \subseteq f.pending \cup f.visited /\ (t \in f.imprecise \/ Precise(f, t))

\* The inductive invariant.
ReleaseInv == ReleaseHolds(facts) \/ TasksHold(facts)

\* What the next step adds to what has been done before it.
LEMMA Advancing ==
  ASSUME NEW s, NEW i \in Nat \ {0}
  PROVE  /\ Cleared(s, i + 1) <=> Cleared(s, i) \/ s[i].op = "clear"
         /\ Sealed(s, i + 1) <=> Sealed(s, i) \/ s[i].op = "manifest"
         /\ s[i].op = "report" => Pending(s, i + 1) \subseteq Pending(s, i) \cup {s[i].name}
         /\ s[i].op = "drop_reports" => Pending(s, i + 1) = {}
         /\ s[i].op # "report" => Pending(s, i + 1) \subseteq Pending(s, i)
  <1>1. (i + 1) - 1 = i /\ i \in 1..i
    OBVIOUS
  <1>2. \A j : j \in 1..i <=> j \in 1..(i - 1) \/ j = i
    OBVIOUS
  <1>3. Cleared(s, i + 1) <=> Cleared(s, i) \/ s[i].op = "clear"
    BY <1>1, <1>2 DEF Cleared
  <1>4. Sealed(s, i + 1) <=> Sealed(s, i) \/ s[i].op = "manifest"
    BY <1>1, <1>2 DEF Sealed
  <1>6. ASSUME NEW n \in Pending(s, i + 1)
        PROVE  /\ s[i].op # "drop_reports"
               /\ n \in Pending(s, i) \/ (s[i].op = "report" /\ n = s[i].name)
    <2>1. PICK k \in 1..i : s[k].op = "report" /\ (\A l \in k..i : s[l].op # "drop_reports") /\ n = s[k].name
      BY <1>1 DEF Pending
    <2>2. i \in k..i /\ \A l \in k..(i - 1) : l \in k..i
      BY <2>1
    <2>3. CASE k = i
      BY <2>1, <2>2, <2>3
    <2>4. CASE k # i
      <3>1. k \in 1..(i - 1)
        BY <2>4
      <3>2. QED
        BY <2>1, <2>2, <3>1 DEF Pending
    <2>5. QED
      BY <2>3, <2>4
  <1>7. QED
    BY <1>3, <1>4, <1>6

Added(s, ops, i) == IF s[i].op \in ops THEN {s[i].name} ELSE {}

LEMMA AdvancingNames ==
  ASSUME NEW s, NEW i \in Nat \ {0}, NEW ops
  PROVE  Before(s, ops, i + 1) = Before(s, ops, i) \cup Added(s, ops, i)
  <1>1. (i + 1) - 1 = i
    OBVIOUS
  <1>2. \A j : j \in 1..i <=> j \in 1..(i - 1) \/ j = i
    OBVIOUS
  <1>3. QED
    BY <1>1, <1>2 DEF Before, Added

\* Nothing is made before the former output is removed.
LEMMA NothingYet ==
  ASSUME NEW s, NEW kind, NEW i \in 1..Len(s), \A j \in 1..Len(s) : StepFacts(s, kind, j), ~Cleared(s, i), Len(s) \in Nat
  PROVE  Before(s, Making, i) = {} /\ Before(s, {"package"}, i) = {} /\ Pending(s, i) = {} 
  <1>1. ASSUME NEW j \in 1..(i - 1) PROVE s[j].op \notin Writing
    <2> SUFFICES ASSUME s[j].op \in Writing PROVE FALSE
      OBVIOUS
    <2>1. j \in 1..Len(s) /\ \A k \in 1..(j - 1) : k \in 1..(i - 1)
      OBVIOUS
    <2>2. Cleared(s, j)
      BY <2>1 DEF StepFacts
    <2>3. QED
      BY <2>1, <2>2 DEF Cleared
  <1>2. QED
    BY <1>1 DEF Before, Pending, Making, Writing

\* A step of a build: what it leaves alone.
Progressed(f, g) ==
  /\ DOMAIN g = ReleaseFields /\ g.topic = f.topic /\ g.head = f.head /\ g.tree = f.tree /\ g.edits = f.edits
  /\ g.quiet = f.quiet /\ g.before = f.before /\ g.returned = f.returned
  /\ DOMAIN g.build = BuildFields /\ g.build.kind = f.build.kind /\ g.build.at = f.build.at + 1

\* What a step may leave alone: the output, and what the build knows.
Alone(f, g) == g.out = f.out /\ g.damaged = f.damaged
Unbuilt(f, g) == g.build.revision = f.build.revision /\ g.build.clean = f.build.clean /\ g.build.built = f.build.built


LEMMA DoneEffects ==
  ASSUME NEW f, DOMAIN f = ReleaseFields, DOMAIN f.build = BuildFields, NEW o
  PROVE  Progressed(f, Done(f, o)) /\ Done(f, o).out = o /\ Done(f, o).damaged = f.damaged /\ Unbuilt(f, Done(f, o))
  BY DEF Done, Progressed, Unbuilt, ReleaseFields, BuildFields

LEMMA BuiltEffects ==
  ASSUME NEW f, NEW d, Progressed(f, d), NEW v, NEW g, g = [d EXCEPT !.build.built = v]
  PROVE  /\ Progressed(f, g)
         /\ g.out = d.out /\ g.damaged = d.damaged /\ g.build.built = v
         /\ g.build.revision = d.build.revision /\ g.build.clean = d.build.clean
  BY DEF Progressed, ReleaseFields, BuildFields

\* What each kind of step does.
Effects(f, g, s) ==
  /\ s.op # "return" => Progressed(f, g)
  /\ s.op = "identity" =>
       Alone(f, g) /\ g.build.built = f.build.built
         /\ g.build.revision = f.head /\ g.build.clean = (f.tree = f.head)
  /\ s.op = "clear" => g.out = EmptyOutput /\ ~g.damaged /\ Unbuilt(f, g)
  /\ s.op = "package" =>
       /\ DOMAIN g.out = OutFields /\ g.out.packages = With(f.out.packages, s.name, f.tree)
       /\ g.out.reports = f.out.reports /\ g.out.manifest = f.out.manifest /\ g.out.sums = f.out.sums
       /\ g.damaged = f.damaged /\ g.build.built = With(f.build.built, s.name, f.tree)
       /\ g.build.revision = f.build.revision /\ g.build.clean = f.build.clean
  /\ s.op = "keep" =>
       /\ Alone(f, g) /\ g.build.built = With(f.build.built, s.name, f.out.packages[s.name])
       /\ g.build.revision = f.build.revision /\ g.build.clean = f.build.clean
  /\ s.op \in {"report", "drop_reports"} =>
       /\ DOMAIN g.out = OutFields /\ g.out.packages = f.out.packages
       /\ g.out.reports = (IF s.op = "report" THEN f.out.reports \cup {s.name} ELSE {})
       /\ g.out.manifest = f.out.manifest /\ g.out.sums = f.out.sums
       /\ g.damaged = f.damaged /\ Unbuilt(f, g)
  /\ s.op = "manifest" =>
       /\ DOMAIN g.out = OutFields /\ g.out.packages = f.out.packages /\ g.out.reports = f.out.reports
       /\ g.out.manifest = [kind |-> s.name, revision |-> f.build.revision, clean |-> f.build.clean, packages |-> f.build.built]
       /\ g.out.sums = f.out.sums /\ g.damaged = f.damaged /\ Unbuilt(f, g)
  /\ s.op = "sums" =>
       /\ DOMAIN g.out = OutFields /\ g.out.packages = f.out.packages /\ g.out.reports = f.out.reports
       /\ g.out.manifest = f.out.manifest /\ g.out.sums = SumsOf(f.out)
       /\ g.damaged = f.damaged /\ Unbuilt(f, g)
  /\ s.op = "return" =>
       /\ DOMAIN g = ReleaseFields /\ g.topic = f.topic /\ g.head = f.head /\ g.tree = f.tree /\ g.edits = f.edits
       /\ g.quiet = f.quiet /\ g.build = NotBuilding /\ Alone(f, g)
  /\ s.op \in {"check", "validate"} => Alone(f, g) /\ Unbuilt(f, g)

LEMMA StepEffects ==
  ASSUME NEW f, DOMAIN f = ReleaseFields, DOMAIN f.build = BuildFields, DOMAIN f.out = OutFields,
         NEW g, g = AfterStep(f), NEW s, s = Current(f)
  PROVE  Effects(f, g, s)
  <1>1. CASE s.op = "identity"
    <2>1. g = [Done(f, f.out) EXCEPT !.build.revision = Identity(f).revision, !.build.clean = Identity(f).clean]
      BY <1>1 DEF AfterStep
    <2> DEFINE d == Done(f, f.out)
               r == Identity(f).revision
               c == Identity(f).clean
    <2>2. Progressed(f, d) /\ d.out = f.out /\ d.damaged = f.damaged /\ Unbuilt(f, d)
      BY DoneEffects
    <2>3. r = f.head /\ c = (f.tree = f.head)
      BY DEF Identity
    <2> HIDE DEF d, r, c
    <2>4. g = [d EXCEPT !.build.revision = r, !.build.clean = c]
      BY <2>1, Zenon DEF d, r, c
    <2> DEFINE e == [d EXCEPT !.build.revision = r]
    <2>7. DOMAIN d = ReleaseFields /\ DOMAIN d.build = BuildFields
      BY <2>2 DEF Progressed
    <2>8. /\ DOMAIN e = ReleaseFields /\ DOMAIN e.build = BuildFields /\ e.build.revision = r
          /\ \A n \in ReleaseFields \ {"build"} : e[n] = d[n]
          /\ \A n \in BuildFields \ {"revision"} : e.build[n] = d.build[n]
      BY <2>7 DEF ReleaseFields, BuildFields
    <2>9. g = [e EXCEPT !.build.clean = c]
      BY <2>4
    <2> HIDE DEF e
    <2>10. /\ DOMAIN g = ReleaseFields /\ DOMAIN g.build = BuildFields /\ g.build.clean = c
           /\ \A n \in ReleaseFields \ {"build"} : g[n] = e[n]
           /\ \A n \in BuildFields \ {"clean"} : g.build[n] = e.build[n]
      BY <2>8, <2>9 DEF ReleaseFields, BuildFields
    <2>11. /\ DOMAIN g = ReleaseFields /\ DOMAIN g.build = BuildFields /\ g.build.clean = c /\ g.build.revision = r
           /\ \A n \in ReleaseFields \ {"build"} : g[n] = d[n]
           /\ \A n \in BuildFields \ {"revision", "clean"} : g.build[n] = d.build[n]
      BY <2>8, <2>10 DEF BuildFields
    <2>5. /\ Progressed(f, g) /\ g.out = d.out /\ g.damaged = d.damaged /\ g.build.built = d.build.built
          /\ g.build.revision = r /\ g.build.clean = c
      <3>1. /\ g.out = d.out /\ g.damaged = d.damaged /\ g.build.built = d.build.built /\ g.topic = d.topic
            /\ g.head = d.head /\ g.tree = d.tree /\ g.edits = d.edits /\ g.quiet = d.quiet /\ g.before = d.before
            /\ g.returned = d.returned /\ g.build.kind = d.build.kind /\ g.build.at = d.build.at
        BY <2>11 DEF ReleaseFields, BuildFields
      <3>2. QED
        BY <2>2, <2>11, <3>1 DEF Progressed
    <2>6. QED
      BY <1>1, <2>2, <2>3, <2>5 DEF Alone, Unbuilt, Effects
  <1>2. CASE s.op = "clear"
    <2>1. g = [Done(f, EmptyOutput) EXCEPT !.damaged = FALSE]
      BY <1>2 DEF AfterStep
    <2>2. QED
      BY <1>2, <2>1 DEF Done, Progressed, Unbuilt, ReleaseFields, BuildFields, Effects
  <1>3. CASE s.op = "package"
    <2>1. g = [Done(f, [f.out EXCEPT !.packages = With(@, s.name, f.tree)])
                              EXCEPT !.build.built = With(@, s.name, f.tree)]
      BY <1>3 DEF AfterStep
    <2> DEFINE v == With(f.build.built, s.name, f.tree)
               w == With(f.out.packages, s.name, f.tree)
               o == [f.out EXCEPT !.packages = w]
               d == Done(f, o)
    <2>2. Progressed(f, d) /\ d.out = o /\ d.damaged = f.damaged /\ Unbuilt(f, d)
      BY DoneEffects
    <2>3. g = [d EXCEPT !.build.built = v]
      <3>1. d.build.built = f.build.built
        BY <2>2 DEF Unbuilt
      <3>2. g = [d EXCEPT !.build.built = With(d.build.built, s.name, f.tree)]
        BY <2>1
      <3>3. QED
        BY <3>1, <3>2
    <2> HIDE DEF v, w
    <2>4. /\ DOMAIN o = OutFields /\ o.packages = w /\ o.reports = f.out.reports /\ o.manifest = f.out.manifest
          /\ o.sums = f.out.sums
      BY DEF OutFields
    <2> HIDE DEF d, o
    <2>6. /\ Progressed(f, g) /\ g.out = d.out /\ g.damaged = d.damaged /\ g.build.built = v
          /\ g.build.revision = d.build.revision /\ g.build.clean = d.build.clean
      BY <2>2, <2>3, BuiltEffects
    <2>7. QED
      BY <1>3, <2>2, <2>4, <2>6 DEF Unbuilt, v, w, Effects
  <1>4. CASE s.op = "keep"
    <2>1. g = [Done(f, f.out) EXCEPT !.build.built = With(@, s.name, f.out.packages[s.name])]
      BY <1>4 DEF AfterStep
    <2> DEFINE v == With(f.build.built, s.name, f.out.packages[s.name])
               d == Done(f, f.out)
    <2>2. Progressed(f, d) /\ d.out = f.out /\ d.damaged = f.damaged /\ Unbuilt(f, d)
      BY DoneEffects
    <2>3. g = [d EXCEPT !.build.built = v]
      <3>1. d.build.built = f.build.built
        BY <2>2 DEF Unbuilt
      <3>2. g = [d EXCEPT !.build.built = With(d.build.built, s.name, f.out.packages[s.name])]
        BY <2>1
      <3>3. QED
        BY <3>1, <3>2
    <2> HIDE DEF v, d
    <2>6. /\ Progressed(f, g) /\ g.out = d.out /\ g.damaged = d.damaged /\ g.build.built = v
          /\ g.build.revision = d.build.revision /\ g.build.clean = d.build.clean
      BY <2>2, <2>3, BuiltEffects
    <2>7. QED
      BY <1>4, <2>2, <2>6 DEF Alone, Unbuilt, v, Effects
  <1>5. CASE s.op = "report"
    <2>1. g = Done(f, [f.out EXCEPT !.reports = @ \cup {s.name}])
      BY <1>5 DEF AfterStep
    <2>2. QED
      BY <1>5, <2>1 DEF Done, Progressed, Alone, Unbuilt, ReleaseFields, BuildFields, OutFields, Effects
  <1>6. CASE s.op = "drop_reports"
    <2>1. g = Done(f, [f.out EXCEPT !.reports = {}])
      BY <1>6 DEF AfterStep
    <2>2. QED
      BY <1>6, <2>1 DEF Done, Progressed, Alone, Unbuilt, ReleaseFields, BuildFields, OutFields, Effects
  <1>7. CASE s.op = "manifest"
    <2>1. g = Done(f, [f.out EXCEPT !.manifest =
                 [kind |-> s.name, revision |-> f.build.revision, clean |-> f.build.clean, packages |-> f.build.built]])
      BY <1>7 DEF AfterStep
    <2>2. QED
      BY <1>7, <2>1 DEF Done, Progressed, Alone, Unbuilt, ReleaseFields, BuildFields, OutFields, Effects
  <1>8. CASE s.op = "sums"
    <2>1. g = Done(f, [f.out EXCEPT !.sums = SumsOf(f.out)])
      BY <1>8 DEF AfterStep
    <2>2. QED
      BY <1>8, <2>1 DEF Done, Progressed, Alone, Unbuilt, ReleaseFields, BuildFields, OutFields, Effects
  <1>9. CASE s.op = "return"
    <2>1. g = [f EXCEPT !.build = NotBuilding, !.returned = f.build.kind]
      BY <1>9 DEF AfterStep
    <2>2. QED
      BY <1>9, <2>1 DEF Alone, ReleaseFields, Effects
  <1>10. CASE s.op \notin {"identity", "clear", "package", "keep", "report", "drop_reports", "manifest", "sums", "return"}
    <2>1. g = Done(f, f.out)
      BY <1>10 DEF AfterStep
    <2>2. QED
      BY <1>10, <2>1 DEF Done, Progressed, Alone, Unbuilt, ReleaseFields, BuildFields, Effects
  <1>11. QED
    BY <1>1, <1>2, <1>3, <1>4, <1>5, <1>6, <1>7, <1>8, <1>9, <1>10

\* A build that is about to take the step i of its script s, and what the order
\* of the steps says of it.
AtStep(f, s, i) ==
  /\ i \in Nat \ {0} /\ f.tree \in Nat \ {0} /\ f.quiet \in BOOLEAN
  /\ OutHolds(f.out, f.damaged) /\ Underway(f, s, i)
  /\ StepFacts(s, f.build.kind, i)
  /\ Cleared(s, i + 1) <=> (Cleared(s, i) \/ s[i].op = "clear")
  /\ Sealed(s, i + 1) <=> (Sealed(s, i) \/ s[i].op = "manifest")
  /\ \A ops : Before(s, ops, i + 1) = Before(s, ops, i) \cup Added(s, ops, i)
  /\ s[i].op = "report" => Pending(s, i + 1) \subseteq Pending(s, i) \cup {s[i].name}
  /\ s[i].op = "drop_reports" => Pending(s, i + 1) = {}
  /\ s[i].op # "report" => Pending(s, i + 1) \subseteq Pending(s, i)
  /\ ~Cleared(s, i) => Before(s, Making, i) = {} /\ Before(s, {"package"}, i) = {} /\ Pending(s, i) = {}
  /\ s[i + 1].op = "sums" => s[i].op = "manifest"

\* No step of a build touches the repository.
Kept(f, g) == g.tree = f.tree /\ g.quiet = f.quiet /\ g.before = f.before

\* Where the step makes no package, the names are those before it.
LEMMA MakesNone ==
  ASSUME NEW f, NEW s, NEW i, AtStep(f, s, i), s[i].op \notin Making
  PROVE  /\ Before(s, Making, i + 1) = Before(s, Making, i)
         /\ Before(s, {"keep"}, i + 1) = Before(s, {"keep"}, i)
         /\ Before(s, {"package"}, i + 1) = Before(s, {"package"}, i)
  <1>1. s[i].op \notin {"keep"} /\ s[i].op \notin {"package"}
    BY DEF Making
  <1>2. \A ops : Before(s, ops, i + 1) = Before(s, ops, i) \cup Added(s, ops, i)
    BY DEF AtStep
  <1>3. \A ops : s[i].op \notin ops => Before(s, ops, i + 1) = Before(s, ops, i)
    BY <1>2 DEF Added
  <1>4. QED
    BY <1>1, <1>3

\* What a step adds that makes a package.
LEMMA MakesOne ==
  ASSUME NEW f, NEW s, NEW i, AtStep(f, s, i), NEW ops, s[i].op \in ops
  PROVE  Before(s, ops, i + 1) = Before(s, ops, i) \cup {s[i].name}
  <1>1. Before(s, ops, i + 1) = Before(s, ops, i) \cup Added(s, ops, i)
    BY DEF AtStep
  <1>2. QED
    BY <1>1 DEF Added

LEMMA MakesNot ==
  ASSUME NEW f, NEW s, NEW i, AtStep(f, s, i), NEW ops, s[i].op \notin ops
  PROVE  Before(s, ops, i + 1) = Before(s, ops, i)
  <1>1. Before(s, ops, i + 1) = Before(s, ops, i) \cup Added(s, ops, i)
    BY DEF AtStep
  <1>2. QED
    BY <1>1 DEF Added

\* Each kind of step keeps the output and the build as they should be.
LEMMA LeavesAlone ==
  ASSUME NEW f, NEW g, NEW s, NEW i, AtStep(f, s, i), s[i].op \in {"check", "validate"},
         Kept(f, g), Alone(f, g), Unbuilt(f, g)
  PROVE  OutHolds(g.out, g.damaged) /\ Underway(g, s, i + 1)
  <1>1. s[i].op \notin Making /\ s[i].op # "clear" /\ s[i].op # "manifest" /\ s[i].op # "report"
    BY DEF Making
  <1>2. /\ Before(s, Making, i + 1) = Before(s, Making, i)
        /\ Before(s, {"package"}, i + 1) = Before(s, {"package"}, i)
        /\ Before(s, {"keep"}, i + 1) = Before(s, {"keep"}, i)
    BY <1>1, MakesNone
  <1>3. /\ Pending(s, i + 1) \subseteq Pending(s, i) /\ s[i + 1].op # "sums"
        /\ (Cleared(s, i + 1) <=> Cleared(s, i)) /\ (Sealed(s, i + 1) <=> Sealed(s, i))
    BY <1>1 DEF AtStep
  <1>4. Underway(f, s, i) /\ OutHolds(f.out, f.damaged)
    BY DEF AtStep
  <1>5. OutHolds(g.out, g.damaged)
    BY <1>4 DEF Alone
  <1>6. Underway(g, s, i + 1)
    BY <1>2, <1>3, <1>4 DEF Underway, Kept, Alone, Unbuilt
  <1>7. QED
    BY <1>5, <1>6

LEMMA Identifies ==
  ASSUME NEW f, NEW g, NEW s, NEW i, AtStep(f, s, i), s[i].op = "identity",
         Kept(f, g), Alone(f, g), g.build.built = f.build.built,
         g.build.revision = f.head, g.build.clean = (f.tree = f.head)
  PROVE  OutHolds(g.out, g.damaged) /\ Underway(g, s, i + 1)
  <1>1. s[i].op \notin Making /\ s[i].op # "clear" /\ s[i].op # "manifest" /\ s[i].op # "report"
    BY DEF Making
  <1>2. /\ Before(s, Making, i + 1) = Before(s, Making, i)
        /\ Before(s, {"package"}, i + 1) = Before(s, {"package"}, i)
        /\ Before(s, {"keep"}, i + 1) = Before(s, {"keep"}, i)
    BY <1>1, MakesNone
  <1>3. /\ Pending(s, i + 1) \subseteq Pending(s, i) /\ s[i + 1].op # "sums"
        /\ (Cleared(s, i + 1) <=> Cleared(s, i)) /\ (Sealed(s, i + 1) <=> Sealed(s, i))
    BY <1>1 DEF AtStep
  <1>4. Underway(f, s, i) /\ OutHolds(f.out, f.damaged)
    BY DEF AtStep
  <1>5. OutHolds(g.out, g.damaged)
    BY <1>4 DEF Alone
  <1>6. Underway(g, s, i + 1)
    BY <1>2, <1>3, <1>4 DEF Underway, Kept, Alone
  <1>7. QED
    BY <1>5, <1>6

\* Outputs before any build.
LEMMA EmptyHolds ==
  /\ \A d : OutHolds(EmptyOutput, d)
  /\ DOMAIN EmptyOutput.packages = {}
  <1>1. EmptyOutput.manifest.kind = "none" /\ EmptyOutput.sums.kind = "none"
    BY DEF EmptyOutput, NoManifest, NoSums
  <1>2. DOMAIN EmptyOutput = OutFields /\ DOMAIN EmptyOutput.manifest = {"kind", "revision", "clean", "packages"}
    BY DEF EmptyOutput, NoManifest, OutFields
  <1>3. DOMAIN EmptyOutput.packages = {}
    BY DEF EmptyOutput
  <1>4. QED
    BY <1>1, <1>2, <1>3 DEF OutHolds, OutFields

LEMMA Clears ==
  ASSUME NEW f, NEW g, NEW s, NEW i, AtStep(f, s, i), s[i].op = "clear",
         Kept(f, g), g.out = EmptyOutput, ~g.damaged, Unbuilt(f, g)
  PROVE  OutHolds(g.out, g.damaged) /\ Underway(g, s, i + 1)
  <1>1. s[i].op \notin Making /\ s[i].op # "manifest" /\ s[i].op # "report"
    BY DEF Making
  <1>2. ~Cleared(s, i) /\ Cleared(s, i + 1)
    BY DEF AtStep, StepFacts
  <1>3. /\ Before(s, Making, i + 1) = {} /\ Before(s, {"package"}, i + 1) = {} /\ Pending(s, i + 1) = {}
    <2>1. Pending(s, i + 1) \subseteq Pending(s, i)
      BY <1>1 DEF AtStep
    <2>2. Before(s, Making, i) = {} /\ Before(s, {"package"}, i) = {} /\ Pending(s, i) = {}
      BY <1>2 DEF AtStep
    <2>3. QED
      BY <1>1, <2>1, <2>2, MakesNone
  <1>4. DOMAIN f.build.built = {}
    BY <1>2 DEF AtStep, Underway
  <1>5. SaysTrue(EmptyOutput.manifest)
    BY DEF SaysTrue, EmptyOutput, NoManifest
  <1>6. s[i + 1].op # "sums"
    BY DEF AtStep
  <1>7. f.quiet /\ g.build.clean => g.build.revision = f.tree
    BY DEF AtStep, Underway, Unbuilt
  <1>8. Underway(g, s, i + 1)
    BY <1>2, <1>3, <1>4, <1>5, <1>6, <1>7, EmptyHolds DEF Underway, Kept, Unbuilt
  <1>9. QED
    BY <1>8, EmptyHolds

LEMMA WithOf ==
  ASSUME NEW packages, NEW name, NEW content
  PROVE  /\ DOMAIN With(packages, name, content) = DOMAIN packages \cup {name}
         /\ With(packages, name, content)[name] = content
         /\ \A p \in DOMAIN packages : p # name => With(packages, name, content)[p] = packages[p]
  BY DEF With

LEMMA MakesPackage ==
  ASSUME NEW f, NEW g, NEW s, NEW i, AtStep(f, s, i), s[i].op = "package", Kept(f, g),
         DOMAIN g.out = OutFields, g.out.packages = With(f.out.packages, s[i].name, f.tree),
         g.out.reports = f.out.reports, g.out.manifest = f.out.manifest, g.out.sums = f.out.sums,
         g.damaged = f.damaged, g.build.built = With(f.build.built, s[i].name, f.tree),
         g.build.revision = f.build.revision, g.build.clean = f.build.clean
  PROVE  OutHolds(g.out, g.damaged) /\ Underway(g, s, i + 1)
  <1>1. s[i].op \in Making /\ s[i].op \in {"package"} /\ s[i].op \notin {"keep"} /\ s[i].op \in Writing
    BY DEF Making, Writing
  <1>12. /\ Before(s, Making, i + 1) = Before(s, Making, i) \cup {s[i].name}
         /\ Before(s, {"package"}, i + 1) = Before(s, {"package"}, i) \cup {s[i].name}
         /\ Before(s, {"keep"}, i + 1) = Before(s, {"keep"}, i)
    BY <1>1, MakesOne, MakesNot
  <1>13. /\ Pending(s, i + 1) \subseteq Pending(s, i) /\ s[i + 1].op # "sums"
         /\ (Sealed(s, i + 1) <=> Sealed(s, i)) /\ f.tree # 0
    BY <1>1 DEF AtStep
  <1>14. Cleared(s, i) /\ Cleared(s, i + 1)
    BY <1>1 DEF AtStep, StepFacts
  <1>2. /\ Before(s, Making, i + 1) = Before(s, Making, i) \cup {s[i].name}
        /\ Before(s, {"package"}, i + 1) = Before(s, {"package"}, i) \cup {s[i].name}
        /\ Before(s, {"keep"}, i + 1) = Before(s, {"keep"}, i)
        /\ Pending(s, i + 1) \subseteq Pending(s, i) /\ s[i + 1].op # "sums"
        /\ Cleared(s, i) /\ Cleared(s, i + 1) /\ (Sealed(s, i + 1) <=> Sealed(s, i))
        /\ f.tree # 0
    BY <1>12, <1>13, <1>14
  <1>3. OutHolds(g.out, g.damaged)
    BY DEF AtStep, OutHolds, OutFields
  <1> DEFINE n == s[i].name
             w == g.out.packages
             b == g.build.built
  <1>4. /\ DOMAIN w = DOMAIN f.out.packages \cup {n} /\ w[n] = f.tree
        /\ \A p \in DOMAIN f.out.packages : p # n => w[p] = f.out.packages[p]
        /\ DOMAIN b = DOMAIN f.build.built \cup {n} /\ b[n] = f.tree
        /\ \A p \in DOMAIN f.build.built : p # n => b[p] = f.build.built[p]
    <2> DEFINE v == f.tree
    <2>1. w = With(f.out.packages, n, v)
      OBVIOUS
    <2>5. b = With(f.build.built, n, v)
      OBVIOUS
    <2> HIDE DEF n, w, b, v
    <2>2. /\ DOMAIN w = DOMAIN f.out.packages \cup {n} /\ w[n] = v
          /\ \A p \in DOMAIN f.out.packages : p # n => w[p] = f.out.packages[p]
      BY <2>1 DEF With
    <2>3. /\ DOMAIN b = DOMAIN f.build.built \cup {n} /\ b[n] = v
          /\ \A p \in DOMAIN f.build.built : p # n => b[p] = f.build.built[p]
      BY <2>5, WithOf
    <2>4. QED
      BY <2>2, <2>3 DEF v
  <1>5. Underway(f, s, i)
    BY DEF AtStep
  <1> HIDE DEF n, w, b
  <1>6. DOMAIN b = Before(s, Making, i + 1)
    BY <1>2, <1>4, <1>5 DEF Underway, n
  <1>7. \A p \in DOMAIN b \ Before(s, {"keep"}, i + 1) : b[p] # 0
    BY <1>2, <1>4, <1>5 DEF Underway
  <1>8. Before(s, {"package"}, i + 1) \subseteq DOMAIN w
    BY <1>2, <1>4, <1>5 DEF Underway, n
  <1>9. f.quiet /\ ~f.damaged => (\A p \in DOMAIN w : w[p] = f.tree) /\ (\A p \in DOMAIN b : b[p] = f.tree)
    BY <1>2, <1>4, <1>5 DEF Underway
  <1>10. Underway(g, s, i + 1)
    BY <1>2, <1>5, <1>6, <1>7, <1>8, <1>9 DEF Underway, Kept, w, b
  <1>11. QED
    BY <1>3, <1>10

LEMMA KeepsPackage ==
  ASSUME NEW f, NEW g, NEW s, NEW i, AtStep(f, s, i), s[i].op = "keep", Kept(f, g), Alone(f, g),
         g.build.built = With(f.build.built, s[i].name, f.out.packages[s[i].name]),
         g.build.revision = f.build.revision, g.build.clean = f.build.clean
  PROVE  OutHolds(g.out, g.damaged) /\ Underway(g, s, i + 1)
  <1>1. s[i].op \in Making /\ s[i].op \notin {"package"} /\ s[i].op \in {"keep"} /\ s[i].op \in Writing
    BY DEF Making, Writing
  <1>12. /\ Before(s, Making, i + 1) = Before(s, Making, i) \cup {s[i].name}
         /\ Before(s, {"package"}, i + 1) = Before(s, {"package"}, i)
         /\ Before(s, {"keep"}, i + 1) = Before(s, {"keep"}, i) \cup {s[i].name}
    BY <1>1, MakesOne, MakesNot
  <1>13. /\ Pending(s, i + 1) \subseteq Pending(s, i) /\ s[i + 1].op # "sums"
         /\ (Sealed(s, i + 1) <=> Sealed(s, i))
    BY <1>1 DEF AtStep
  <1>14. Cleared(s, i) /\ Cleared(s, i + 1) /\ s[i].name \in Before(s, {"package"}, i)
    BY <1>1 DEF AtStep, StepFacts
  <1>2. /\ Before(s, Making, i + 1) = Before(s, Making, i) \cup {s[i].name}
        /\ Before(s, {"package"}, i + 1) = Before(s, {"package"}, i)
        /\ Before(s, {"keep"}, i + 1) = Before(s, {"keep"}, i) \cup {s[i].name}
        /\ Pending(s, i + 1) \subseteq Pending(s, i) /\ s[i + 1].op # "sums"
        /\ Cleared(s, i) /\ Cleared(s, i + 1) /\ (Sealed(s, i + 1) <=> Sealed(s, i))
        /\ s[i].name \in Before(s, {"package"}, i)
    BY <1>12, <1>13, <1>14
  <1>3. OutHolds(g.out, g.damaged)
    BY DEF AtStep, Alone
  <1> DEFINE n == s[i].name
             b == g.build.built
  <1>4. /\ DOMAIN b = DOMAIN f.build.built \cup {n} /\ b[n] = f.out.packages[n]
        /\ \A p \in DOMAIN f.build.built : p # n => b[p] = f.build.built[p]
    <2> DEFINE v == f.out.packages[n]
    <2>1. b = With(f.build.built, n, v)
      OBVIOUS
    <2> HIDE DEF n, b, v
    <2>2. /\ DOMAIN b = DOMAIN f.build.built \cup {n} /\ b[n] = v
          /\ \A p \in DOMAIN f.build.built : p # n => b[p] = f.build.built[p]
      BY <2>1, WithOf
    <2>3. QED
      BY <2>2 DEF v
  <1>5. Underway(f, s, i)
    BY DEF AtStep
  <1> HIDE DEF n, b
  <1>6. DOMAIN b = Before(s, Making, i + 1)
    BY <1>2, <1>4, <1>5 DEF Underway, n
  <1>7. \A p \in DOMAIN b \ Before(s, {"keep"}, i + 1) : b[p] # 0
    BY <1>2, <1>4, <1>5 DEF Underway, n
  <1>8. n \in DOMAIN f.out.packages
    BY <1>2, <1>5 DEF Underway, n
  <1>9. f.quiet /\ ~f.damaged => \A p \in DOMAIN b : b[p] = f.tree
    BY <1>2, <1>4, <1>5, <1>8 DEF Underway
  <1>10. Underway(g, s, i + 1)
    BY <1>2, <1>5, <1>6, <1>7, <1>9 DEF Underway, Kept, Alone, b
  <1>11. QED
    BY <1>3, <1>10

LEMMA MakesReport ==
  ASSUME NEW f, NEW g, NEW s, NEW i, AtStep(f, s, i), s[i].op \in {"report", "drop_reports"}, Kept(f, g),
         DOMAIN g.out = OutFields, g.out.packages = f.out.packages,
         g.out.reports = (IF s[i].op = "report" THEN f.out.reports \cup {s[i].name} ELSE {}),
         g.out.manifest = f.out.manifest, g.out.sums = f.out.sums, g.damaged = f.damaged, Unbuilt(f, g)
  PROVE  OutHolds(g.out, g.damaged) /\ Underway(g, s, i + 1)
  <1>1. s[i].op \notin Making /\ s[i].op \in Writing /\ s[i].op # "clear" /\ s[i].op # "manifest"
    BY DEF Making, Writing
  <1>2. /\ Before(s, Making, i + 1) = Before(s, Making, i)
        /\ Before(s, {"package"}, i + 1) = Before(s, {"package"}, i)
        /\ Before(s, {"keep"}, i + 1) = Before(s, {"keep"}, i)
        /\ s[i + 1].op # "sums"
        /\ Cleared(s, i) /\ Cleared(s, i + 1) /\ (Sealed(s, i + 1) <=> Sealed(s, i))
    BY <1>1, MakesNone DEF AtStep, StepFacts
  <1>3. OutHolds(g.out, g.damaged)
    BY DEF AtStep, OutHolds, OutFields
  <1>5. Underway(f, s, i)
    BY DEF AtStep
  <1>6. ~f.damaged => Pending(s, i + 1) \subseteq g.out.reports
    <2>1. CASE s[i].op = "report"
      BY <1>2, <1>5, <2>1 DEF Underway, AtStep
    <2>2. CASE s[i].op = "drop_reports"
      BY <2>2 DEF AtStep
    <2>3. QED
      BY <2>1, <2>2
  <1>10. Underway(g, s, i + 1)
    BY <1>2, <1>5, <1>6 DEF Underway, Kept, Unbuilt
  <1>11. QED
    BY <1>3, <1>10

LEMMA SealsManifest ==
  ASSUME NEW f, NEW g, NEW s, NEW i, AtStep(f, s, i), s[i].op = "manifest", Kept(f, g),
         DOMAIN g.out = OutFields, g.out.packages = f.out.packages, g.out.reports = f.out.reports,
         g.out.manifest = [kind |-> s[i].name, revision |-> f.build.revision, clean |-> f.build.clean, packages |-> f.build.built],
         g.out.sums = f.out.sums, g.damaged = f.damaged, Unbuilt(f, g)
  PROVE  OutHolds(g.out, g.damaged) /\ Underway(g, s, i + 1)
  <1>1. s[i].op \notin Making /\ s[i].op \in Writing /\ s[i].op # "clear" /\ s[i].op # "report"
    BY DEF Making, Writing
  <1>2. /\ Before(s, Making, i + 1) = Before(s, Making, i)
        /\ Before(s, {"package"}, i + 1) = Before(s, {"package"}, i)
        /\ Before(s, {"keep"}, i + 1) = Before(s, {"keep"}, i)
        /\ Pending(s, i + 1) \subseteq Pending(s, i)
        /\ Cleared(s, i) /\ Cleared(s, i + 1)
    <2>1. /\ Before(s, Making, i + 1) = Before(s, Making, i)
          /\ Before(s, {"package"}, i + 1) = Before(s, {"package"}, i)
          /\ Before(s, {"keep"}, i + 1) = Before(s, {"keep"}, i)
      BY <1>1, MakesNone
    <2>2. Pending(s, i + 1) \subseteq Pending(s, i)
      BY <1>1 DEF AtStep
    <2>3. Cleared(s, i) /\ Cleared(s, i + 1)
      BY <1>1 DEF AtStep, StepFacts
    <2>4. QED
      BY <2>1, <2>2, <2>3
  <1>3. /\ s[i].name \in Releases /\ PackagesOf[s[i].name] \subseteq Before(s, Making, i)
        /\ Before(s, {"keep"}, i) \subseteq KeptOf[s[i].name]
    BY DEF AtStep, StepFacts
  <1>4. Underway(f, s, i) /\ OutHolds(f.out, f.damaged)
    BY DEF AtStep
  <1>5. (i + 1) - 1 = i
    BY DEF AtStep
  <1> DEFINE x == g.out.manifest
  <1>6. /\ DOMAIN x = {"kind", "revision", "clean", "packages"} /\ x.kind = s[i].name /\ x.revision = f.build.revision
        /\ x.clean = f.build.clean /\ x.packages = f.build.built
    OBVIOUS
  <1> HIDE DEF x
  <1>7. OutHolds(g.out, g.damaged)
    <2>1. \A p \in DOMAIN x.packages \ KeptOf[x.kind] : x.packages[p] # 0
      BY <1>3, <1>4, <1>6 DEF Underway
    <2>2. PackagesOf[x.kind] \subseteq DOMAIN x.packages /\ x.kind \in Releases
      BY <1>3, <1>4, <1>6 DEF Underway
    <2>3. ~g.damaged /\ g.out.sums.kind # "none" => ReportsOf[g.out.sums.kind] \subseteq g.out.sums.reports
      BY <1>4 DEF OutHolds
    <2>4. QED
      BY <1>6, <2>1, <2>2, <2>3 DEF OutHolds, OutFields, x
  <1>8. f.quiet /\ ~f.damaged => SaysTrue(x)
    <2> SUFFICES ASSUME f.quiet, ~f.damaged, x.clean, NEW p \in DOMAIN x.packages PROVE x.packages[p] = x.revision
      BY DEF SaysTrue
    <2>1. f.build.revision = f.tree
      BY <1>4, <1>6 DEF Underway
    <2>2. f.build.built[p] = f.tree
      BY <1>2, <1>4, <1>6 DEF Underway
    <2>3. QED
      BY <1>6, <2>1, <2>2
  <1>10. Underway(g, s, i + 1)
    BY <1>2, <1>4, <1>5, <1>6, <1>8 DEF Underway, Kept, Unbuilt, x
  <1>11. QED
    BY <1>7, <1>10

LEMMA SealsSums ==
  ASSUME NEW f, NEW g, NEW s, NEW i, AtStep(f, s, i), s[i].op = "sums", Kept(f, g),
         DOMAIN g.out = OutFields, g.out.packages = f.out.packages, g.out.reports = f.out.reports,
         g.out.manifest = f.out.manifest, g.out.sums = SumsOf(f.out), g.damaged = f.damaged, Unbuilt(f, g)
  PROVE  OutHolds(g.out, g.damaged) /\ Underway(g, s, i + 1)
  <1>1. s[i].op \notin Making /\ s[i].op \in Writing /\ s[i].op # "clear" /\ s[i].op # "report" /\ s[i].op # "manifest"
    BY DEF Making, Writing
  <1>2. /\ Before(s, Making, i + 1) = Before(s, Making, i)
        /\ Before(s, {"package"}, i + 1) = Before(s, {"package"}, i)
        /\ Before(s, {"keep"}, i + 1) = Before(s, {"keep"}, i)
        /\ Pending(s, i + 1) \subseteq Pending(s, i) /\ s[i + 1].op # "sums"
        /\ Cleared(s, i) /\ Cleared(s, i + 1) /\ (Sealed(s, i + 1) <=> Sealed(s, i))
    <2>1. /\ Before(s, Making, i + 1) = Before(s, Making, i)
          /\ Before(s, {"package"}, i + 1) = Before(s, {"package"}, i)
          /\ Before(s, {"keep"}, i + 1) = Before(s, {"keep"}, i)
      BY <1>1, MakesNone
    <2>2. /\ Pending(s, i + 1) \subseteq Pending(s, i) /\ s[i + 1].op # "sums"
          /\ (Sealed(s, i + 1) <=> Sealed(s, i))
      BY <1>1 DEF AtStep
    <2>3. Cleared(s, i) /\ Cleared(s, i + 1)
      BY <1>1 DEF AtStep, StepFacts
    <2>4. QED
      BY <2>1, <2>2, <2>3
  <1>3. Underway(f, s, i) /\ OutHolds(f.out, f.damaged)
    BY DEF AtStep
  <1>4. /\ ReportsOf[s[i - 1].name] \subseteq Pending(s, i) /\ f.out.manifest.kind = s[i - 1].name
    BY <1>3 DEF AtStep, StepFacts, Underway
  <1>5. g.out.sums.kind = f.out.manifest.kind /\ g.out.sums.reports = f.out.reports
    BY DEF SumsOf
  <1>6. ~f.damaged => ReportsOf[g.out.sums.kind] \subseteq g.out.sums.reports
    BY <1>2, <1>3, <1>4, <1>5 DEF Underway
  <1>7. OutHolds(g.out, g.damaged)
    BY <1>3, <1>6 DEF OutHolds, OutFields
  <1>10. Underway(g, s, i + 1)
    BY <1>2, <1>3 DEF Underway, Kept, Unbuilt
  <1>11. QED
    BY <1>7, <1>10

\* All kinds of steps.
Ops == {"check", "identity", "clear", "package", "keep", "report", "drop_reports", "manifest", "sums", "validate", "return"}

LEMMA OpsKnown == \A x \in AnySteps : x.op \in Ops
  BY DEF AnySteps, LookSteps, LateSteps, Ops

LEMMA BuildAtStep ==
  ASSUME NEW f, ReleaseHolds(f), f.build # NotBuilding,
         NEW s, s = StepsOf(f.build.kind), NEW i, i = f.build.at
  PROVE  /\ i \in 1..Len(s) /\ StepFacts(s, f.build.kind, i) /\ Current(f) = s[i] /\ s[i].op \in Ops
         /\ s[i].op # "return" => AtStep(f, s, i) /\ i + 1 \in 1..Len(s)
  <1> DEFINE k == f.build.kind
  <1>1. k \in Releases /\ i \in 1..Len(s) /\ Underway(f, s, i)
    BY DEF ReleaseHolds
  <1>2. s \in Seq(AnySteps) /\ \A j \in 1..Len(s) : StepFacts(s, k, j)
    BY <1>1, ScriptsInOrder
  <1>3. Current(f) = s[i]
    BY DEF Current
  <1> HIDE DEF k
  <1>4. Len(s) \in Nat /\ i \in Nat \ {0} /\ s[i] \in AnySteps
    BY <1>1, <1>2
  <1>5. s[i].op \in Ops
    BY <1>4, OpsKnown
  <1>6. ASSUME s[i].op # "return" PROVE AtStep(f, s, i) /\ i + 1 \in 1..Len(s)
    <2>1. i + 1 \in 1..Len(s)
      BY <1>1, <1>2, <1>6 DEF StepFacts
    <2>2. s[i + 1].op = "sums" => s[i].op = "manifest"
      <3>1. (i + 1) - 1 = i
        BY <1>4
      <3>2. StepFacts(s, k, i + 1)
        BY <1>2, <2>1
      <3>3. s[i + 1].op = "sums" => s[(i + 1) - 1].op = "manifest"
        BY <3>2 DEF StepFacts
      <3>4. QED
        BY <3>1, <3>3
    <2>3. ~Cleared(s, i) => Before(s, Making, i) = {} /\ Before(s, {"package"}, i) = {} /\ Pending(s, i) = {}
      BY <1>1, <1>2, <1>4, NothingYet
    <2>4. f.tree \in Nat \ {0} /\ f.quiet \in BOOLEAN /\ OutHolds(f.out, f.damaged)
      BY DEF ReleaseHolds, ReleaseTyped
    <2>5. StepFacts(s, f.build.kind, i)
      BY <1>1, <1>2 DEF k
    <2>6. /\ Cleared(s, i + 1) <=> (Cleared(s, i) \/ s[i].op = "clear")
          /\ Sealed(s, i + 1) <=> (Sealed(s, i) \/ s[i].op = "manifest")
      BY <1>4, Advancing
    <2>7. \A ops : Before(s, ops, i + 1) = Before(s, ops, i) \cup Added(s, ops, i)
      BY <1>4, AdvancingNames
    <2>8. /\ s[i].op = "report" => Pending(s, i + 1) \subseteq Pending(s, i) \cup {s[i].name}
          /\ s[i].op = "drop_reports" => Pending(s, i + 1) = {}
          /\ s[i].op # "report" => Pending(s, i + 1) \subseteq Pending(s, i)
      BY <1>4, Advancing
    <2>9. AtStep(f, s, i)
      BY <1>1, <1>4, <2>2, <2>3, <2>4, <2>5, <2>6, <2>7, <2>8 DEF AtStep
    <2>10. QED
      BY <2>1, <2>9
  <1>7. QED
    BY <1>1, <1>2, <1>3, <1>5, <1>6 DEF k

LEMMA StepKeeps ==
  ASSUME NEW f, ReleaseHolds(f), f.build # NotBuilding
  PROVE  ReleaseHolds(AfterStep(f))
  <1> DEFINE s == StepsOf(f.build.kind)
             i == f.build.at
             g == AfterStep(f)
             x == Current(f)
  <1>4. g = AfterStep(f) /\ x = Current(f)
    OBVIOUS
  <1>1. /\ i \in 1..Len(s) /\ StepFacts(s, f.build.kind, i) /\ x = s[i] /\ s[i].op \in Ops
        /\ s[i].op # "return" => AtStep(f, s, i) /\ i + 1 \in 1..Len(s)
    BY BuildAtStep
  <1>2. /\ DOMAIN f = ReleaseFields /\ DOMAIN f.build = BuildFields /\ DOMAIN f.out = OutFields
        /\ f.build.kind \in Releases /\ Underway(f, s, i) /\ OutHolds(f.out, f.damaged) /\ f.returned = "none"
    BY DEF ReleaseHolds, ReleaseTyped, OutHolds, OutFields
  <1>3. /\ f.topic = "release" /\ f.head \in Nat \ {0} /\ f.tree \in Nat \ {0} /\ f.edits \in Nat
        /\ f.quiet \in BOOLEAN /\ f.damaged \in BOOLEAN
    BY DEF ReleaseHolds, ReleaseTyped
  <1>9. i = f.build.at /\ s = StepsOf(f.build.kind)
    OBVIOUS
  <1> SUFFICES ReleaseHolds(g)
    OBVIOUS
  <1> HIDE DEF g, x, s, i
  <1>8. Effects(f, g, x)
    BY <1>2, <1>4, StepEffects
  <1>5. CASE s[i].op # "return"
    <2>1. Progressed(f, g)
      BY <1>1, <1>8, <1>5 DEF Effects
    <2>2. Kept(f, g)
      BY <2>1 DEF Progressed, Kept
    <2>3. AtStep(f, s, i)
      BY <1>1, <1>5
    <2>4. OutHolds(g.out, g.damaged) /\ Underway(g, s, i + 1) /\ g.damaged \in BOOLEAN
      <3>1. CASE s[i].op = "identity"
        <4>1. Alone(f, g) /\ g.build.built = f.build.built
                /\ g.build.revision = f.head /\ g.build.clean = (f.tree = f.head)
          BY <1>1, <1>8, <3>1 DEF Effects
        <4>2. OutHolds(g.out, g.damaged) /\ Underway(g, s, i + 1)
          BY <2>2, <2>3, <3>1, <4>1, Identifies
        <4>3. QED
          BY <1>3, <4>1, <4>2 DEF Alone
      <3>2. CASE s[i].op = "clear"
        <4>1. g.out = EmptyOutput /\ ~g.damaged /\ g.damaged \in BOOLEAN /\ Unbuilt(f, g)
          <5>1. g.out = EmptyOutput /\ ~g.damaged /\ Unbuilt(f, g)
            BY <1>1, <1>8, <3>2 DEF Effects
          <5>2. g = [Done(f, EmptyOutput) EXCEPT !.damaged = FALSE]
            BY <1>1, <1>4, <3>2 DEF AfterStep
          <5>3. DOMAIN Done(f, EmptyOutput) = ReleaseFields
            BY <1>2, DoneEffects DEF Progressed
          <5> DEFINE d == Done(f, EmptyOutput)
          <5> HIDE DEF d
          <5>4. g.damaged = FALSE
            BY <5>2, <5>3 DEF ReleaseFields, d
          <5>5. QED
            BY <5>1, <5>4
        <4>2. OutHolds(g.out, g.damaged) /\ Underway(g, s, i + 1)
          BY <2>2, <2>3, <3>2, <4>1, Clears
        <4>3. QED
          BY <4>1, <4>2
      <3>3. CASE s[i].op = "package"
        <4>1. /\ DOMAIN g.out = OutFields /\ g.out.packages = With(f.out.packages, s[i].name, f.tree)
              /\ g.out.reports = f.out.reports /\ g.out.manifest = f.out.manifest /\ g.out.sums = f.out.sums
              /\ g.damaged = f.damaged /\ g.build.built = With(f.build.built, s[i].name, f.tree)
              /\ g.build.revision = f.build.revision /\ g.build.clean = f.build.clean
          BY <1>1, <1>8, <3>3 DEF Effects
        <4>2. OutHolds(g.out, g.damaged) /\ Underway(g, s, i + 1)
          BY <2>2, <2>3, <3>3, <4>1, MakesPackage
        <4>3. QED
          BY <1>3, <4>1, <4>2
      <3>4. CASE s[i].op = "keep"
        <4>1. /\ Alone(f, g) /\ g.build.built = With(f.build.built, s[i].name, f.out.packages[s[i].name])
              /\ g.build.revision = f.build.revision /\ g.build.clean = f.build.clean
          BY <1>1, <1>8, <3>4 DEF Effects
        <4>2. OutHolds(g.out, g.damaged) /\ Underway(g, s, i + 1)
          BY <2>2, <2>3, <3>4, <4>1, KeepsPackage
        <4>3. QED
          BY <1>3, <4>1, <4>2 DEF Alone
      <3>5. CASE s[i].op \in {"report", "drop_reports"}
        <4>1. /\ DOMAIN g.out = OutFields /\ g.out.packages = f.out.packages
              /\ g.out.reports = (IF s[i].op = "report" THEN f.out.reports \cup {s[i].name} ELSE {})
              /\ g.out.manifest = f.out.manifest /\ g.out.sums = f.out.sums
              /\ g.damaged = f.damaged /\ Unbuilt(f, g)
          BY <1>1, <1>8, <3>5 DEF Effects
        <4>2. OutHolds(g.out, g.damaged) /\ Underway(g, s, i + 1)
          BY <2>2, <2>3, <3>5, <4>1, MakesReport
        <4>3. QED
          BY <1>3, <4>1, <4>2
      <3>6. CASE s[i].op = "manifest"
        <4>1. /\ DOMAIN g.out = OutFields /\ g.out.packages = f.out.packages /\ g.out.reports = f.out.reports
              /\ g.out.manifest = [kind |-> s[i].name, revision |-> f.build.revision, clean |-> f.build.clean, packages |-> f.build.built]
              /\ g.out.sums = f.out.sums /\ g.damaged = f.damaged /\ Unbuilt(f, g)
          BY <1>1, <1>8, <3>6 DEF Effects
        <4>2. OutHolds(g.out, g.damaged) /\ Underway(g, s, i + 1)
          BY <2>2, <2>3, <3>6, <4>1, SealsManifest
        <4>3. QED
          BY <1>3, <4>1, <4>2
      <3>7. CASE s[i].op = "sums"
        <4>1. /\ DOMAIN g.out = OutFields /\ g.out.packages = f.out.packages /\ g.out.reports = f.out.reports
              /\ g.out.manifest = f.out.manifest /\ g.out.sums = SumsOf(f.out)
              /\ g.damaged = f.damaged /\ Unbuilt(f, g)
          BY <1>1, <1>8, <3>7 DEF Effects
        <4>2. OutHolds(g.out, g.damaged) /\ Underway(g, s, i + 1)
          BY <2>2, <2>3, <3>7, <4>1, SealsSums
        <4>3. QED
          BY <1>3, <4>1, <4>2
      <3>8. CASE s[i].op \in {"check", "validate"}
        <4>1. Alone(f, g) /\ Unbuilt(f, g)
          BY <1>1, <1>8, <3>8 DEF Effects
        <4>2. OutHolds(g.out, g.damaged) /\ Underway(g, s, i + 1)
          BY <2>2, <2>3, <3>8, <4>1, LeavesAlone
        <4>3. QED
          BY <1>3, <4>1, <4>2 DEF Alone
      <3>9. QED
        BY <1>1, <1>5, <3>1, <3>2, <3>3, <3>4, <3>5, <3>6, <3>7, <3>8 DEF Ops
    <2>5. g.build.kind = f.build.kind /\ g.build.at = i + 1 /\ g.returned = "none" /\ "none" \notin Releases
      BY <1>2, <1>9, <2>1 DEF Progressed, Releases
    <2>6. i + 1 \in 1..Len(s)
      BY <1>1, <1>5
    <2>7. Underway(g, StepsOf(g.build.kind), g.build.at) /\ g.build.at \in 1..Len(StepsOf(g.build.kind))
      BY <1>9, <2>4, <2>5, <2>6
    <2>8. ReleaseTyped(g)
      BY <1>3, <2>1, <2>4 DEF ReleaseTyped, Progressed
    <2>9. g.build.kind \in Releases /\ g.returned \notin Releases
      BY <1>2, <2>5
    <2>10. QED
      BY <2>4, <2>5, <2>7, <2>8, <2>9 DEF ReleaseHolds
  <1>6. CASE s[i].op = "return"
    <2>1. /\ DOMAIN g = ReleaseFields /\ g.topic = f.topic /\ g.head = f.head /\ g.tree = f.tree /\ g.edits = f.edits
          /\ g.quiet = f.quiet /\ g.build = NotBuilding /\ Alone(f, g)
      BY <1>1, <1>8, <1>6 DEF Effects
    <2>2. Sealed(s, i)
      BY <1>1, <1>6 DEF StepFacts
    <2>3. f.quiet /\ ~f.damaged => SaysTrue(f.out.manifest)
      BY <1>2, <2>2 DEF Underway
    <2>4. DOMAIN NotBuilding = BuildFields
      BY DEF NotBuilding, BuildFields
    <2>5. /\ OutHolds(g.out, g.damaged) /\ g.quiet = f.quiet /\ g.damaged = f.damaged
          /\ g.quiet /\ ~g.damaged => SaysTrue(g.out.manifest)
      BY <1>2, <2>1, <2>3 DEF Alone
    <2>6. ReleaseTyped(g)
      BY <1>3, <2>1, <2>4, <2>5 DEF ReleaseTyped
    <2>7. QED
      BY <2>1, <2>5, <2>6 DEF ReleaseHolds
  <1>7. QED
    BY <1>5, <1>6

LEMMA NotBuildingFields == DOMAIN NotBuilding = BuildFields /\ NotBuilding.kind = "none" /\ "none" \notin Releases /\ "raised" \notin Releases
                           /\ "died" \notin Releases
  BY DEF NotBuilding, BuildFields, Releases

LEMMA FormerHolds == \A d : OutHolds(FormerOutput, d)
  <1> DEFINE packages == [p \in PackagesOf["general"] |-> 1]
             m == [kind |-> "general", revision |-> 1, clean |-> TRUE, packages |-> packages]
             out == [EmptyOutput EXCEPT !.packages = packages, !.reports = ReportsOf["general"], !.manifest = m]
             g == FormerOutput
  <1>1. g = [out EXCEPT !.sums = SumsOf(out)]
    BY DEF FormerOutput
  <1>2. /\ DOMAIN out = OutFields /\ out.packages = packages /\ out.reports = ReportsOf["general"] /\ out.manifest = m
    BY DEF EmptyOutput, OutFields
  <1> HIDE DEF out
  <1>3. /\ DOMAIN g = OutFields /\ g.manifest = m /\ g.sums = SumsOf(out)
    BY <1>1, <1>2 DEF OutFields
  <1> HIDE DEF g
  <1>4. g.sums.kind = "general" /\ g.sums.reports = ReportsOf["general"]
    BY <1>2, <1>3 DEF SumsOf
  <1>5. /\ DOMAIN g.manifest = {"kind", "revision", "clean", "packages"} /\ g.manifest.kind = "general"
        /\ g.manifest.packages = packages
    BY <1>3
  <1>6. DOMAIN packages = PackagesOf["general"] /\ \A p \in DOMAIN packages : packages[p] # 0
    OBVIOUS
  <1> HIDE DEF packages, m
  <1>7. "general" \in Releases
    BY DEF Releases
  <1>8. \A d : OutHolds(g, d)
    BY <1>3, <1>4, <1>5, <1>6, <1>7 DEF OutHolds, OutFields
  <1>9. QED
    BY <1>8 DEF g

LEMMA ReleaseBegins ==
  ASSUME NEW out, out \in {FormerOutput, EmptyOutput}, NEW f,
         f = [topic |-> "release", head |-> 1, tree |-> 1, edits |-> 0, builds |-> 0, quiet |-> TRUE, damaged |-> FALSE,
              out |-> out, before |-> EmptyOutput, build |-> NotBuilding, returned |-> "none"]
  PROVE  ReleaseHolds(f)
  <1>1. OutHolds(out, FALSE)
    BY FormerHolds, EmptyHolds
  <1> DEFINE n == NotBuilding
  <1>2. DOMAIN n = BuildFields /\ "none" \notin Releases
    BY NotBuildingFields
  <1>6. n = NotBuilding
    OBVIOUS
  <1> HIDE DEF n
  <1>3. f.build = n /\ f.out = out /\ f.damaged = FALSE /\ f.returned = "none"
    BY <1>6
  <1>4. ReleaseTyped(f)
    BY <1>2, <1>3 DEF ReleaseTyped, ReleaseFields
  <1>5. QED
    BY <1>1, <1>2, <1>3, <1>4, <1>6 DEF ReleaseHolds

\* What others do meanwhile, and the ends of a build.
LEMMA StartKeeps ==
  ASSUME ReleaseHolds(facts), StartRelease
  PROVE  ReleaseHolds(facts')
  <1>1. PICK k \in Releases :
          facts' = [facts EXCEPT !.build = [NotBuilding EXCEPT !.kind = k, !.at = 1], !.before = facts.out, !.builds = @ + 1,
                              !.quiet = TRUE, !.returned = "none"]
    BY ZenonT(30) DEF StartRelease
  <1> DEFINE g == facts'
             f == facts
             b == [NotBuilding EXCEPT !.kind = k, !.at = 1]
             s == StepsOf(k)
  <1>2. DOMAIN f = ReleaseFields
    BY DEF ReleaseHolds, ReleaseTyped
  <1>3. DOMAIN b = BuildFields /\ b.kind = k /\ b.at = 1 /\ b.clean = FALSE /\ b.built = <<>>
    BY DEF NotBuilding, BuildFields
  <1> HIDE DEF b
  <1>4. /\ DOMAIN g = ReleaseFields /\ g.build = b /\ g.before = f.out /\ g.quiet = TRUE /\ g.returned = "none"
        /\ g.out = f.out /\ g.damaged = f.damaged /\ g.tree = f.tree /\ g.head = f.head /\ g.edits = f.edits /\ g.topic = f.topic
    BY <1>1, <1>2 DEF ReleaseFields, b
  <1>5. 1 \in 1..Len(s) /\ StepFacts(s, k, 1)
    BY ScriptsInOrder
  <1>6. /\ ~Cleared(s, 1) /\ ~Sealed(s, 1) /\ \A ops : Before(s, ops, 1) = {}
    <2>1. 1..(1 - 1) = {}
      OBVIOUS
    <2>2. QED
      BY <2>1 DEF Cleared, Sealed, Before
  <1>7. s[1].op # "sums"
    <2> HIDE DEF s
    <2>1. s[1].op = "sums" => 1 - 1 \in 1..Len(s)
      BY <1>5 DEF StepFacts
    <2>2. 1 - 1 \notin 1..Len(s)
      OBVIOUS
    <2>3. QED
      BY <2>1, <2>2
  <1> HIDE DEF g, s
  <1>8. DOMAIN b.built = {}
    BY <1>3
  <1>9. Underway(g, s, 1)
    BY <1>3, <1>4, <1>6, <1>7, <1>8 DEF Underway
  <1>10. ReleaseTyped(g) /\ OutHolds(g.out, g.damaged)
    BY <1>3, <1>4 DEF ReleaseHolds, ReleaseTyped
  <1>11. "none" \notin Releases
    BY DEF Releases
  <1>12. ReleaseHolds(g)
    <2>1. g.build.kind = k /\ g.build.at = 1 /\ g.returned = "none"
      BY <1>3, <1>4
    <2>2. s = StepsOf(g.build.kind)
      BY <2>1 DEF s
    <2>3. QED
      BY <1>5, <1>9, <1>10, <1>11, <2>1, <2>2 DEF ReleaseHolds
  <1>13. QED
    BY <1>12 DEF g

LEMMA EndsKeep ==
  ASSUME NEW f, ReleaseHolds(f), NEW word, word \notin Releases, NEW g, g = [f EXCEPT !.build = NotBuilding, !.returned = word]
  PROVE  ReleaseHolds(g)
  <1>1. DOMAIN f = ReleaseFields
    BY DEF ReleaseHolds, ReleaseTyped
  <1> DEFINE n == NotBuilding
  <1>2. DOMAIN n = BuildFields
    BY NotBuildingFields
  <1>6. n = NotBuilding
    OBVIOUS
  <1> HIDE DEF n
  <1>3. /\ DOMAIN g = ReleaseFields /\ g.build = n /\ g.returned = word
        /\ g.out = f.out /\ g.damaged = f.damaged /\ g.tree = f.tree /\ g.head = f.head /\ g.edits = f.edits /\ g.topic = f.topic
        /\ g.quiet = f.quiet
    BY <1>1, <1>6 DEF ReleaseFields
  <1>4. ReleaseTyped(g) /\ OutHolds(g.out, g.damaged)
    BY <1>2, <1>3 DEF ReleaseHolds, ReleaseTyped
  <1>5. QED
    BY <1>3, <1>4, <1>6 DEF ReleaseHolds

LEMMA EditKeeps ==
  ASSUME ReleaseHolds(facts), EditTree \/ CommitTree
  PROVE  ReleaseHolds(facts')
  <1> DEFINE g == facts'
             f == facts
  <1>1. DOMAIN f = ReleaseFields /\ f.edits \in Nat /\ f.tree \in Nat \ {0} /\ f.head \in Nat \ {0}
    BY DEF ReleaseHolds, ReleaseTyped
  <1>2. /\ DOMAIN g = ReleaseFields /\ g.build = f.build /\ g.before = f.before /\ g.quiet = FALSE /\ g.returned = f.returned
        /\ g.out = f.out /\ g.damaged = f.damaged /\ g.topic = f.topic
        /\ g.edits \in Nat /\ g.tree \in Nat \ {0} /\ g.head \in Nat \ {0}
    <2>1. CASE EditTree
      <3>1. g = [f EXCEPT !.edits = @ + 1, !.tree = 1 + f.edits + 1, !.quiet = FALSE]
        BY <2>1 DEF EditTree
      <3> HIDE DEF g, f
      <3>2. QED
        BY <1>1, <3>1 DEF ReleaseFields
    <2>2. CASE CommitTree
      <3>1. g = [f EXCEPT !.head = f.tree, !.quiet = FALSE]
        BY <2>2 DEF CommitTree
      <3> HIDE DEF g, f
      <3>2. QED
        BY <1>1, <3>1 DEF ReleaseFields
    <2>3. QED
      BY <2>1, <2>2
  <1>3. ReleaseHolds(f)
    OBVIOUS
  <1> HIDE DEF g, f
  <1>4. ReleaseTyped(g) /\ OutHolds(g.out, g.damaged)
    BY <1>2, <1>3 DEF ReleaseHolds, ReleaseTyped
  <1>5. ASSUME f.build # NotBuilding, Underway(f, StepsOf(f.build.kind), f.build.at)
        PROVE  Underway(g, StepsOf(g.build.kind), g.build.at)
    <2> DEFINE s == StepsOf(f.build.kind)
               i == f.build.at
    <2>1. Underway(f, s, i)
      BY <1>5
    <2> HIDE DEF s, i
    <2>2. Underway(g, s, i)
      BY <1>2, <2>1 DEF Underway
    <2>3. QED
      BY <1>2, <2>2 DEF s, i
  <1>6. ReleaseHolds(g)
    BY <1>2, <1>3, <1>4, <1>5 DEF ReleaseHolds
  <1>7. QED
    BY <1>6 DEF g

LEMMA DamageKeeps ==
  ASSUME ReleaseHolds(facts), DamageOutput
  PROVE  ReleaseHolds(facts')
  <1> DEFINE g == facts'
             f == facts
  <1>1. DOMAIN f = ReleaseFields /\ DOMAIN f.out = OutFields
    BY DEF ReleaseHolds, ReleaseTyped, OutHolds, OutFields
  <1>2. /\ DOMAIN g = ReleaseFields /\ g.build = f.build /\ g.before = f.before /\ g.quiet = f.quiet /\ g.returned = f.returned
        /\ g.damaged = TRUE /\ g.topic = f.topic /\ g.edits = f.edits /\ g.tree = f.tree /\ g.head = f.head
        /\ DOMAIN g.out = OutFields /\ g.out.manifest = f.out.manifest /\ g.out.sums = f.out.sums
        /\ DOMAIN g.out.packages = DOMAIN f.out.packages
    <2>1. CASE \E p \in DOMAIN f.out.packages : g = [f EXCEPT !.damaged = TRUE, !.out.packages[p] = 0]
      <3>1. PICK p \in DOMAIN f.out.packages : g = [f EXCEPT !.damaged = TRUE, !.out.packages[p] = 0]
        BY <2>1
      <3> HIDE DEF g, f
      <3> DEFINE w == [f.out.packages EXCEPT ![p] = 0]
                 o == [f.out EXCEPT !.packages = w]
      <3>2. g = [f EXCEPT !.damaged = TRUE, !.out = o]
        BY <1>1, <3>1
      <3>3. DOMAIN w = DOMAIN f.out.packages
        OBVIOUS
      <3> HIDE DEF w
      <3>4. DOMAIN o = OutFields /\ o.manifest = f.out.manifest /\ o.sums = f.out.sums /\ o.packages = w
        BY <1>1 DEF OutFields
      <3> HIDE DEF o
      <3>5. QED
        BY <1>1, <3>2, <3>3, <3>4 DEF ReleaseFields
    <2>2. CASE g = [f EXCEPT !.damaged = TRUE, !.out.reports = {}]
      <3>1. g = [f EXCEPT !.damaged = TRUE, !.out.reports = {}]
        BY <2>2
      <3> HIDE DEF g, f
      <3> DEFINE o == [f.out EXCEPT !.reports = {}]
      <3>2. g = [f EXCEPT !.damaged = TRUE, !.out = o]
        BY <1>1, <3>1
      <3>4. DOMAIN o = OutFields /\ o.manifest = f.out.manifest /\ o.sums = f.out.sums /\ o.packages = f.out.packages
        BY <1>1 DEF OutFields
      <3> HIDE DEF o
      <3>5. QED
        BY <1>1, <3>2, <3>4 DEF ReleaseFields
    <2>3. QED
      BY <2>1, <2>2 DEF DamageOutput
  <1>3. ReleaseHolds(f)
    OBVIOUS
  <1> HIDE DEF g, f
  <1>4. ReleaseTyped(g)
    BY <1>2, <1>3 DEF ReleaseHolds, ReleaseTyped
  <1>8. OutHolds(g.out, g.damaged)
    BY <1>2, <1>3 DEF ReleaseHolds, OutHolds, OutFields
  <1>5. ASSUME f.build # NotBuilding, Underway(f, StepsOf(f.build.kind), f.build.at)
        PROVE  Underway(g, StepsOf(g.build.kind), g.build.at)
    <2> DEFINE s == StepsOf(f.build.kind)
               i == f.build.at
    <2>1. Underway(f, s, i)
      BY <1>5
    <2> HIDE DEF s, i
    <2>2. Underway(g, s, i)
      BY <1>2, <2>1 DEF Underway
    <2>3. QED
      BY <1>2, <2>2 DEF s, i
  <1>6. ReleaseHolds(g)
    BY <1>2, <1>3, <1>4, <1>5, <1>8 DEF ReleaseHolds
  <1>7. QED
    BY <1>6 DEF g

LEMMA BuildKeeps ==
  ASSUME ReleaseHolds(facts), StepRelease \/ BuildDies
  PROVE  ReleaseHolds(facts')
  <1>1. facts.build # NotBuilding
    BY DEF StepRelease, BuildDies
  <1>2. CASE facts' = AfterStep(facts)
    BY <1>1, <1>2, StepKeeps
  <1>3. CASE facts' = Raises(facts)
    <2>1. facts' = [facts EXCEPT !.build = NotBuilding, !.returned = "raised"]
      BY <1>3 DEF Raises
    <2>2. QED
      BY <2>1, EndsKeep, NotBuildingFields
  <1>4. CASE BuildDies
    <2>1. facts' = [facts EXCEPT !.build = NotBuilding, !.returned = "died"]
      BY <1>4 DEF BuildDies
    <2>2. QED
      BY <2>1, EndsKeep, NotBuildingFields
  <1>5. QED
    BY <1>2, <1>3, <1>4 DEF StepRelease

LEMMA TasksBegin ==
  ASSUME NEW s \in [Tasks -> {"done", "blocked_for_a_reason", "open"}], NEW n \in [Tasks -> SUBSET Tasks], NEW f,
         f = [topic |-> "tasks", status |-> s, needs |-> n, read |-> FALSE, pending |-> {}, visited |-> {}, imprecise |-> {}]
  PROVE  TasksHold(f)
  BY DEF TasksHold, TaskFields

LEMMA ReleaseStarts == ReleaseInit => ReleaseInv
  <1>1. ASSUME NEW old \in BOOLEAN,
               facts = [topic |-> "release", head |-> 1, tree |-> 1, edits |-> 0, builds |-> 0, quiet |-> TRUE, damaged |-> FALSE,
                        out |-> IF old THEN FormerOutput ELSE EmptyOutput, before |-> EmptyOutput, build |-> NotBuilding, returned |-> "none"]
        PROVE  ReleaseHolds(facts)
    <2> DEFINE o == IF old THEN FormerOutput ELSE EmptyOutput
    <2>1. o \in {FormerOutput, EmptyOutput}
      OBVIOUS
    <2>2. facts = [topic |-> "release", head |-> 1, tree |-> 1, edits |-> 0, builds |-> 0, quiet |-> TRUE, damaged |-> FALSE,
                   out |-> o, before |-> EmptyOutput, build |-> NotBuilding, returned |-> "none"]
      BY <1>1, Zenon
    <2> HIDE DEF o
    <2>3. QED
      BY <2>1, <2>2, ReleaseBegins
  <1>2. ASSUME NEW s \in [Tasks -> {"done", "blocked_for_a_reason", "open"}], NEW n \in [Tasks -> SUBSET Tasks],
               facts = [topic |-> "tasks", status |-> s, needs |-> n, read |-> FALSE, pending |-> {}, visited |-> {}, imprecise |-> {}]
        PROVE  TasksHold(facts)
    BY <1>2, TasksBegin
  <1>3. QED
    BY <1>1, <1>2, ZenonT(30) DEF ReleaseInit, ReleaseInv

LEMMA TaskSteps ==
  ASSUME TasksHold(facts), ReopenTask \/ ReadBacklog \/ PopVisited \/ VisitTask
  PROVE  TasksHold(facts')
  <1> DEFINE f == facts
             g == facts'
  <1>1. /\ DOMAIN f = TaskFields /\ f.topic = "tasks" /\ f.read \in BOOLEAN /\ f.needs \in [Tasks -> SUBSET Tasks]
        /\ f.pending \subseteq Tasks /\ f.visited \subseteq Tasks /\ f.imprecise \subseteq Tasks /\ DOMAIN f.status = Tasks
        /\ f.read => f.needs[ReleaseTask] \subseteq f.pending \cup f.visited
        /\ ~f.read => f.visited = {} /\ f.pending = {}
        /\ \A t \in f.visited : f.needs[t] \subseteq f.pending \cup f.visited /\ (t \in f.imprecise \/ Precise(f, t))
    BY DEF TasksHold, TaskFields
  <1>2. CASE ReopenTask
    <2>1. PICK t \in Tasks : g = [f EXCEPT !.status[t] = "open"]
      BY <1>2 DEF ReopenTask
    <2>2. ~f.read
      BY <1>2 DEF ReopenTask
    <2> HIDE DEF f, g
    <2> DEFINE w == [f.status EXCEPT ![t] = "open"]
    <2>3. g = [f EXCEPT !.status = w] /\ DOMAIN w = Tasks
      BY <1>1, <2>1 DEF TaskFields
    <2> HIDE DEF w
    <2>4. /\ DOMAIN g = TaskFields /\ g.topic = f.topic /\ g.read = f.read /\ g.needs = f.needs /\ g.pending = f.pending
          /\ g.visited = f.visited /\ g.imprecise = f.imprecise /\ g.status = w
      BY <1>1, <2>3 DEF TaskFields
    <2>5. TasksHold(g)
      BY <1>1, <2>2, <2>3, <2>4 DEF TasksHold, TaskFields
    <2>6. QED
      BY <2>5 DEF g
  <1>3. CASE ReadBacklog
    <2>1. g = [f EXCEPT !.read = TRUE, !.pending = f.needs[ReleaseTask]] /\ ~f.read
      BY <1>3 DEF ReadBacklog
    <2> HIDE DEF f, g
    <2>4. /\ DOMAIN g = TaskFields /\ g.topic = f.topic /\ g.read = TRUE /\ g.needs = f.needs /\ g.pending = f.needs[ReleaseTask]
          /\ g.visited = f.visited /\ g.imprecise = f.imprecise /\ g.status = f.status
      BY <1>1, <2>1 DEF TaskFields
    <2>5. f.needs[ReleaseTask] \subseteq Tasks
      BY <1>1, ReleaseAssumption
    <2>6. TasksHold(g)
      BY <1>1, <2>1, <2>4, <2>5 DEF TasksHold, TaskFields
    <2>7. QED
      BY <2>6 DEF g
  <1>4. CASE PopVisited
    <2>1. PICK t \in f.pending \cap f.visited : g = [f EXCEPT !.pending = @ \ {t}]
      BY <1>4 DEF PopVisited
    <2> HIDE DEF f, g
    <2>4. /\ DOMAIN g = TaskFields /\ g.topic = f.topic /\ g.read = f.read /\ g.needs = f.needs /\ g.pending = f.pending \ {t}
          /\ g.visited = f.visited /\ g.imprecise = f.imprecise /\ g.status = f.status
      BY <1>1, <2>1 DEF TaskFields
    <2>5. g.pending \cup g.visited = f.pending \cup f.visited
      BY <2>1, <2>4
    <2>6. \A u \in g.visited : u \in g.imprecise \/ Precise(g, u)
      BY <1>1, <2>4 DEF Precise
    <2>7. TasksHold(g)
      BY <1>1, <2>4, <2>5, <2>6 DEF TasksHold, TaskFields
    <2>8. QED
      BY <2>7 DEF g
  <1>5. CASE VisitTask
    <2>1. PICK t \in f.pending \ f.visited :
            g = [f EXCEPT !.pending = (@ \ {t}) \cup f.needs[t], !.visited = @ \cup {t},
                          !.imprecise = IF Precise(f, t) THEN @ ELSE @ \cup {t}]
      BY <1>5 DEF VisitTask
    <2> HIDE DEF f, g
    <2>4. /\ DOMAIN g = TaskFields /\ g.topic = f.topic /\ g.read = f.read /\ g.needs = f.needs
          /\ g.pending = (f.pending \ {t}) \cup f.needs[t]
          /\ g.visited = f.visited \cup {t} /\ g.imprecise = (IF Precise(f, t) THEN f.imprecise ELSE f.imprecise \cup {t})
          /\ g.status = f.status
      BY <1>1, <2>1 DEF TaskFields
    <2>5. t \in Tasks /\ f.needs[t] \subseteq Tasks
      BY <1>1
    <2>6. g.pending \cup g.visited = f.pending \cup f.visited \cup f.needs[t]
      BY <2>1, <2>4
    <2>7. \A u \in g.visited : u \in g.imprecise \/ Precise(g, u)
      <3>1. \A u : Precise(g, u) <=> Precise(f, u)
        BY <2>4 DEF Precise
      <3>2. QED
        BY <1>1, <2>4, <3>1
    <2>8. \A u \in g.visited : g.needs[u] \subseteq g.pending \cup g.visited
      BY <1>1, <2>4, <2>6
    <2>9. g.pending \subseteq Tasks /\ g.visited \subseteq Tasks /\ g.imprecise \subseteq Tasks
      BY <1>1, <2>4, <2>5
    <2>10. f.read
      BY <1>1, <2>1
    <2>11. g.needs[ReleaseTask] \subseteq g.pending \cup g.visited
      BY <1>1, <2>4, <2>6, <2>10
    <2>12. TasksHold(g)
      BY <1>1, <2>4, <2>7, <2>8, <2>9, <2>10, <2>11 DEF TasksHold, TaskFields
    <2>13. QED
      BY <2>12 DEF g
  <1>6. QED
    BY <1>2, <1>3, <1>4, <1>5

LEMMA ReleaseSteps == ReleaseInv /\ [ReleaseNext]_facts => ReleaseInv'
  <1> SUFFICES ASSUME ReleaseInv, [ReleaseNext]_facts PROVE ReleaseInv'
    OBVIOUS
  <1>1. ASSUME ReleaseHolds(facts) PROVE facts.topic = "release"
    BY <1>1 DEF ReleaseHolds, ReleaseTyped
  <1>2. ASSUME TasksHold(facts) PROVE facts.topic = "tasks"
    BY <1>2 DEF TasksHold
  <1>3. CASE About("release") /\ (StartRelease \/ StepRelease \/ BuildDies \/ EditTree \/ CommitTree \/ DamageOutput)
    <2>1. ReleaseHolds(facts)
      BY <1>2, <1>3 DEF ReleaseInv, About
    <2>2. ReleaseHolds(facts')
      BY <1>3, <2>1, StartKeeps, BuildKeeps, EditKeeps, DamageKeeps
    <2>3. QED
      BY <2>2 DEF ReleaseInv
  <1>4. CASE About("tasks") /\ (ReopenTask \/ ReadBacklog \/ PopVisited \/ VisitTask)
    <2>1. TasksHold(facts)
      BY <1>1, <1>4 DEF ReleaseInv, About
    <2>2. TasksHold(facts')
      BY <1>4, <2>1, TaskSteps
    <2>3. QED
      BY <2>2 DEF ReleaseInv
  <1>5. CASE UNCHANGED facts
    <2>1. facts' = facts
      BY <1>5
    <2>2. QED
      BY <2>1 DEF ReleaseInv
  <1>6. QED
    BY <1>3, <1>4, <1>5 DEF ReleaseNext

LEMMA ValidatesWholeHolds == ReleaseInv => ValidatesWhole
  <1> DEFINE o == facts.out
             m == o.manifest
  <1> SUFFICES ASSUME ReleaseInv, About("release"), Validates(facts.out)
               PROVE  /\ PackagesOf[m.kind] \subseteq DOMAIN o.packages
                      /\ \A p \in PackagesOf[m.kind] \ KeptOf[m.kind] : o.packages[p] # 0
                      /\ ~facts.damaged => ReportsOf[m.kind] \subseteq o.reports
    BY DEF ValidatesWhole
  <1>1. OutHolds(o, facts.damaged)
    BY DEF ReleaseInv, About, TasksHold, ReleaseHolds
  <1>2. /\ m.kind # "none" /\ o.sums = SumsOf(o)
        /\ \A p \in DOMAIN m.packages : p \in DOMAIN o.packages /\ o.packages[p] = m.packages[p]
    BY DEF Validates
  <1>3. o.sums.kind = m.kind /\ o.sums.reports = o.reports
    <2> HIDE DEF o
    <2>1. SumsOf(o).kind = o.manifest.kind /\ SumsOf(o).reports = o.reports
      BY DEF SumsOf
    <2>2. QED
      BY <1>2, <2>1
  <1> HIDE DEF o
  <1>4. QED
    BY <1>1, <1>2, <1>3 DEF OutHolds

LEMMA FormerOutputKeptHolds == ReleaseInv => FormerOutputKept
  <1> SUFFICES ASSUME ReleaseInv, About("release"), facts.build # NotBuilding, facts.build.kind # "r7",
                      Current(facts).op = "check", Current(facts).name \in {"profile", "dependencies", "mandatory_tasks"},
                      ~facts.damaged
               PROVE  facts.out = facts.before
    BY DEF FormerOutputKept
  <1>1. ReleaseHolds(facts)
    BY DEF ReleaseInv, About, TasksHold
  <1> DEFINE s == StepsOf(facts.build.kind)
             i == facts.build.at
  <1>2. Underway(facts, s, i)
    BY <1>1 DEF ReleaseHolds
  <1>3. StepFacts(s, facts.build.kind, i) /\ Current(facts) = s[i]
    BY <1>1, BuildAtStep
  <1> HIDE DEF s, i
  <1>4. ~Cleared(s, i)
    BY <1>3 DEF StepFacts, RefusedFor
  <1>5. QED
    BY <1>2, <1>4 DEF Underway

LEMMA FromItsRevisionHolds == ReleaseInv => FromItsRevision
  <1> SUFFICES ASSUME ReleaseInv, About("release"), facts.returned \in Releases, facts.quiet, ~facts.damaged,
                      facts.out.manifest.clean, NEW p \in DOMAIN facts.out.manifest.packages
               PROVE  facts.out.manifest.packages[p] = facts.out.manifest.revision
    BY DEF FromItsRevision
  <1>1. SaysTrue(facts.out.manifest)
    BY DEF ReleaseInv, About, TasksHold, ReleaseHolds
  <1>2. QED
    BY <1>1 DEF SaysTrue

LEMMA TasksAllPreciseHolds == ReleaseInv => TasksAllPrecise
  <1> SUFFICES ASSUME ReleaseInv, About("tasks"), TasksAccepted(facts), NEW S \in SUBSET Tasks,
                      facts.needs[ReleaseTask] \subseteq S, \A t \in S : facts.needs[t] \subseteq S,
                      \A T \in SUBSET S : facts.needs[ReleaseTask] \subseteq T /\ (\A t \in T : facts.needs[t] \subseteq T) => T = S,
                      NEW t \in S
               PROVE  Precise(facts, t)
    BY DEF TasksAllPrecise
  <1>1. TasksHold(facts)
    BY DEF ReleaseInv, About, ReleaseHolds, ReleaseTyped
  <1>2. facts.read /\ facts.pending = {} /\ facts.imprecise = {}
    BY DEF TasksAccepted
  <1>3. /\ facts.needs[ReleaseTask] \subseteq facts.visited
        /\ \A u \in facts.visited : facts.needs[u] \subseteq facts.visited /\ Precise(facts, u)
    BY <1>1, <1>2 DEF TasksHold
  <1> DEFINE T == S \cap facts.visited
  <1>4. T \in SUBSET S /\ facts.needs[ReleaseTask] \subseteq T /\ \A u \in T : facts.needs[u] \subseteq T
    BY <1>3
  <1>5. T = S
    BY <1>4
  <1>6. QED
    BY <1>3, <1>5

\* For any repository, backlog, edits, damage and deaths: what validates is all of one
\* release, a refused build leaves the former one, a clean release is of the revision that
\* it names, and its tasks are all precise.  (release_staging.py)
THEOREM ReleasesAreWhole == ReleaseSpec => []ReleasedWhole
  <1>1. ReleaseInv => ReleasedWhole
    BY ValidatesWholeHolds, FormerOutputKeptHolds, FromItsRevisionHolds, TasksAllPreciseHolds DEF ReleasedWhole
  <1>2. QED
    BY <1>1, ReleaseStarts, ReleaseSteps, PTL DEF ReleaseSpec

===============================================================================
