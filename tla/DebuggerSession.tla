--------------------------- MODULE DebuggerSession ---------------------------
(***************************************************************************)
(* Handing the game over from a debugger, capturing a checkpoint, closing  *)
(* the session (kcd2_native_probes/x64dbg_session.py).  Each operation     *)
(* inspects, acts, waits and inspects again under a lock of its helper     *)
(* process; a provider talks to the debugger, which changes by itself and  *)
(* by the user's hand at any time, also between the two last inspections.  *)
(***************************************************************************)
EXTENDS Integers, Sequences, FiniteSets

CONSTANTS
  Threads,      \* threads of one helper that run operations
  Temporary,    \* breakpoints that a request declares
  Foreign,      \* breakpoints that the user sets
  MaxTouches,   \* bound on what the user and the game do to the debugger
  MaxOps,       \* bound on finished operations
  Nobody

ASSUME DebuggerConstants ==
  /\ Temporary \cap Foreign = {}
  /\ MaxTouches \in Nat /\ MaxOps \in Nat
  /\ Nobody \notin Threads

VARIABLES
  debugger,     \* the debugger as an inspection would find it
  sessionLock,  \* _SESSION_LOCK
  session,      \* session[t]: the operation of thread t and what it has seen
  receipts,     \* history: the receipts, each with the debugger as it then was
  touches       \* how often the user or the game changed the debugger

debuggerVars == <<debugger, sessionLock, session, receipts, touches>>

Breakpoints == Temporary \cup Foreign

\* running and paused exclude one another (DebuggerSnapshot.__post_init__).
Snapshots == {s \in [connected : BOOLEAN, debugging : BOOLEAN, running : BOOLEAN,
                     paused : BOOLEAN, breakpoints : SUBSET Breakpoints] :
                ~(s.running /\ s.paused)}

GameplaySafe(s) == s.connected /\ s.debugging /\ s.running /\ ~s.paused

Unexpected(s) == s.breakpoints \ Temporary

\* What a receipt promises of the debugger: _blockers and _close_blockers find
\* nothing.  (A capture promises nothing.)
Promised(op, s) ==
  CASE op = "handoff" -> GameplaySafe(s) /\ Unexpected(s) = {}
    [] op = "close"   -> ~s.connected /\ ~s.debugging /\ ~s.paused /\ s.breakpoints = {}
    [] op = "capture" -> TRUE

Idle == [op |-> "none", step |-> "idle", attached |-> FALSE, checks |-> <<>>, since |-> 0]

DebuggerInit ==
  /\ debugger \in {s \in Snapshots : s.connected = s.debugging /\ s.connected /\ s.paused}
  /\ sessionLock = Nobody
  /\ session = [t \in Threads |-> Idle]
  /\ receipts = <<>>
  /\ touches = 0

At(t, step) == session[t].step = step

Step(t, step) == session' = [session EXCEPT ![t].step = step]

\* Mutant: no lock is taken.
EnterUnlocked(t, op) ==
  /\ At(t, "idle")
  /\ Len(receipts) < MaxOps
  /\ session' = [session EXCEPT ![t] = [Idle EXCEPT !.op = op, !.step = "inspect"]]
  /\ UNCHANGED <<debugger, sessionLock, receipts, touches>>

\* The thread takes the lock; the approval is executed under it.
Enter(t, op) ==
  /\ At(t, "idle")
  /\ sessionLock = Nobody
  /\ Len(receipts) < MaxOps
  /\ sessionLock' = t
  /\ session' = [session EXCEPT ![t] = [Idle EXCEPT !.op = op, !.step = "inspect"]]
  /\ UNCHANGED <<debugger, receipts, touches>>

Leave(t) ==
  /\ sessionLock' = IF sessionLock = t THEN Nobody ELSE sessionLock
  /\ session' = [session EXCEPT ![t] = Idle]

\* The receipt is returned and the lock is freed.  It reports success if both
\* inspections found what it promises.
Conclude(t, checks) ==
  LET op == session[t].op
  IN  /\ receipts' = Append(receipts,
           [op |-> op, now |-> debugger, fresh |-> session[t].since = touches,
            pass |-> (op = "capture" \/ Len(checks) = 2) /\ \A k \in 1..Len(checks) : Promised(op, checks[k])])
      /\ Leave(t)
      /\ UNCHANGED <<debugger, touches>>

\* The first inspection.  A handoff or a close that finds a foreign breakpoint
\* is blocked without touching the debugger; a handoff and a capture need a
\* connected debugging session, and only the capture raises without one.
Inspect(t) ==
  LET op == session[t].op
      live == debugger.connected /\ debugger.debugging
  IN  /\ At(t, "inspect")
      /\ CASE op = "capture" /\ ~live ->
                Leave(t) /\ UNCHANGED <<debugger, receipts, touches>>
           [] op = "handoff" /\ ~live -> Conclude(t, <<>>)
           [] op # "capture" /\ Unexpected(debugger) # {} -> Conclude(t, <<>>)
           [] OTHER ->
                /\ session' = [session EXCEPT ![t].attached = debugger.connected, ![t].step = op]
                /\ UNCHANGED <<debugger, sessionLock, receipts, touches>>

\* provider.resume
Resume(t) ==
  /\ At(t, "handoff")
  /\ debugger' = IF debugger.connected /\ debugger.debugging
                  THEN [debugger EXCEPT !.running = TRUE, !.paused = FALSE] ELSE debugger
  /\ Step(t, "check")
  /\ UNCHANGED <<sessionLock, receipts, touches>>

\* provider.capture reads memory and registers; the receipt repeats the state
\* of the first inspection.
Capture(t) ==
  /\ At(t, "capture")
  /\ Conclude(t, <<>>)

\* The declared breakpoints are cleared one by one.
ClearBreakpoint(t) ==
  \E b \in Temporary :
    /\ At(t, "close")
    /\ b \in debugger.breakpoints
    /\ debugger' = [debugger EXCEPT !.breakpoints = @ \ {b}]
    /\ UNCHANGED <<sessionLock, session, receipts, touches>>

\* provider.detach, if the first inspection found the debugger connected.
Detach(t) ==
  /\ At(t, "close")
  /\ debugger.breakpoints \cap Temporary = {}
  /\ debugger' = IF session[t].attached
                  THEN [debugger EXCEPT !.connected = FALSE, !.debugging = FALSE] ELSE debugger
  /\ Step(t, "check")
  /\ UNCHANGED <<sessionLock, receipts, touches>>

\* After the wait: two inspections, then the receipt.
Check(t) ==
  LET s == session[t]
  IN  /\ At(t, "check")
      /\ IF Len(s.checks) < 2
         THEN /\ session' = [session EXCEPT ![t].checks = Append(@, debugger),
                                            ![t].since = touches]
              /\ UNCHANGED <<debugger, sessionLock, receipts, touches>>
         ELSE Conclude(t, s.checks)

\* Mutant: the lock is not freed when the provider raises.
ProviderFailsLocked(t) ==
  /\ session[t].step # "idle"
  /\ touches < MaxTouches
  /\ touches' = touches + 1
  /\ session' = [session EXCEPT ![t] = Idle]
  /\ UNCHANGED <<debugger, sessionLock, receipts>>

\* The provider raises: the exception leaves the operation and frees the lock.
ProviderFails(t) ==
  /\ session[t].step # "idle"
  /\ touches < MaxTouches
  /\ touches' = touches + 1
  /\ Leave(t)
  /\ UNCHANGED <<debugger, receipts>>

\* The user works in the debugger, or the game runs into a breakpoint.
Touch ==
  /\ touches < MaxTouches
  /\ touches' = touches + 1
  /\ \/ \E b \in Foreign : debugger' = [debugger EXCEPT !.breakpoints = @ \cup {b}]
     \/ /\ debugger.connected /\ debugger.breakpoints # {}
        /\ debugger' = [debugger EXCEPT !.running = FALSE, !.paused = TRUE]
     \/ debugger' = [debugger EXCEPT !.connected = ~@, !.debugging = ~debugger.connected]
  /\ debugger' # debugger
  /\ UNCHANGED <<sessionLock, session, receipts>>

DebuggerNext ==
  \/ \E t \in Threads :
       \/ \E op \in {"handoff", "capture", "close"} : Enter(t, op)
       \/ Inspect(t) \/ Resume(t) \/ Capture(t) \/ ClearBreakpoint(t) \/ Detach(t) \/ Check(t)
       \/ ProviderFails(t)
  \/ Touch

\* A thread in an operation goes on; a provider call returns or raises.
DebuggerFairness ==
  \A t \in Threads :
    WF_debuggerVars(Inspect(t) \/ Resume(t) \/ Capture(t) \/ ClearBreakpoint(t) \/ Detach(t) \/ Check(t))

DebuggerSpec == DebuggerInit /\ [][DebuggerNext]_debuggerVars /\ DebuggerFairness

-----------------------------------------------------------------------------
(***************************************************************************)
(* Correctness.                                                            *)
(***************************************************************************)

\* "Resume and prove gameplay-safe x64dbg state", "Clear declared temporary
\* breakpoints, detach, and verify unpaused twice": a receipt that reports success
\* is true when it is returned, unless the user or the game touched the debugger
\* after the last inspection; other operations of the helper never make it false.
\* (prepare_gameplay_handoff, close_debug_session, _SESSION_LOCK)
ReceiptHolds ==
  \A i \in 1..Len(receipts) :
    LET r == receipts[i]
    IN  r.pass /\ r.fresh => Promised(r.op, r.now)

\* Every operation ends and the lock becomes free again.
LockReleased == (sessionLock # Nobody) ~> (sessionLock = Nobody)
=============================================================================
