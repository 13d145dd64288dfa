----------------------------- MODULE MCProgress -----------------------------
(***************************************************************************)
(* The two components that promise progress, side by side for TLC: the     *)
(* client of the Index server and the debugger session.  A behaviour works *)
(* on one of them and the other stays in its initial state.                *)
(***************************************************************************)
EXTENDS IndexClient, DebuggerSession

VARIABLE part  \* the component that this behaviour works on

InitEither ==
  /\ part \in {"client", "debugger"}
  /\ Init
  /\ DebuggerInit /\ (part # "debugger" => debugger.breakpoints = {})

NextEither ==
  /\ \/ part = "client" /\ Next /\ UNCHANGED debuggerVars
     \/ part = "debugger" /\ DebuggerNext /\ UNCHANGED vars
  /\ UNCHANGED part

SpecEither == InitEither /\ [][NextEither]_<<part, vars, debuggerVars>> /\ Fairness /\ DebuggerFairness
=============================================================================
