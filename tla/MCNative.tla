------------------------------ MODULE MCNative ------------------------------
(***************************************************************************)
(* The parts of native-probes and the decisions of toolchain-core and of   *)
(* its neighbours, side by side for TLC: a behaviour works on one of them  *)
(* and the others stay in their initial state.                             *)
(***************************************************************************)
EXTENDS NativeExperiment, RuntimeStream, ProbeGates, SessionRecords,
        GuardedProject, AcceptanceGates, ReleaseBuild, ActiveState, TLC

VARIABLE part  \* the component that this behaviour works on

vars == <<part, experimentVars, streamVars, limitVars, facts>>

MCLimit == [a \in Aggregates |-> CASE a = "max_total_bytes" -> 3 [] a = "max_event_families" -> 2 [] OTHER -> 2]

MCContents == {<<>>, <<1>>, <<1, 1, 1>>, <<1, 2, 1>>, <<3, 1>>}

\* Approvals, families, subjects and the like may change places.  A behaviour works
\* on one component, so the twins of each have the same names in the configuration
\* and one exchange serves them all.
Twins == Permutations(Families)

MCLocks == {<<"x">>, <<"x", "y">>}

Init ==
  /\ part \in {"experiment", "stream", "limits", "gates", "sessions", "declared", "acceptance", "release", "active"}
  /\ ExperimentInit /\ (part # "experiment" => controller.mode = "current")
  /\ StreamInit
  /\ LimitsInit
  /\ CASE part = "gates" -> ProbeInit
       [] part = "sessions" -> SessionInit
       [] part = "declared" -> DeclaredInit
       [] part = "acceptance" -> AcceptanceInit
       \* a release that is being built is not done
       [] part = "release" -> ReleaseInit /\ (About("tasks") => facts.status[ReleaseTask] = "open")
       [] part = "active" -> ActiveInit
       [] OTHER -> facts = Unasked

Next ==
  /\ \/ part = "experiment" /\ ExperimentNext /\ UNCHANGED <<streamVars, limitVars, facts>>
     \/ part = "stream" /\ StreamNext /\ UNCHANGED <<experimentVars, limitVars, facts>>
     \/ part = "limits" /\ LimitsNext /\ UNCHANGED <<experimentVars, streamVars, facts>>
     \/ part \in {"gates", "sessions", "declared", "acceptance", "release", "active"}
          /\ (ProbeNext \/ SessionNext \/ DeclaredNext \/ AcceptanceNext \/ ReleaseNext \/ ActiveNext)
          /\ UNCHANGED <<experimentVars, streamVars, limitVars>>
  /\ UNCHANGED part

Spec == Init /\ [][Next]_vars
=============================================================================
