-------------------------- MODULE CandidateLifecycle --------------------------
(***************************************************************************)
(* Candidates, deployments and the history of a candidate                  *)
(* (kcd2_mod_build_deploy/candidate_registry.py, deployment_registry.py,   *)
(* candidate_lifecycle.py).  The registries are immutable values that grow *)
(* by validated adds; a snapshot gate decides whether a registered         *)
(* deployment is what is installed; the events of a candidate are appended *)
(* in time order and reduced to independent dimensions.  The time at which *)
(* a gate is evaluated and that of an event are the caller's word.         *)
(***************************************************************************)
EXTENDS Integers, Sequences, FiniteSets, Functions

CONSTANTS
  Candidates,    \* content-addressed candidates
  Parents,       \* Parents[c]: the parent in c's identity, or NoCandidate
  Labels,        \* human labels of aliases
  SnapshotIds,   \* ids a caller gives to snapshots
  MaxAge,        \* max_age_seconds of the gate
  MaxTime,       \* bound on the clock
  EventTypes,    \* the types of the events that are appended
  MaxEvents,     \* bound on a history
  MaxSnapshots,  \* bound on snapshots
  NoCandidate

ASSUME LifecycleConstants ==
  /\ Parents \in [Candidates -> Candidates \cup {NoCandidate}]
  /\ NoCandidate \notin Candidates
  /\ {MaxAge, MaxTime, MaxEvents, MaxSnapshots} \subseteq Nat

VARIABLES
  records,     \* the candidate registry
  installed,   \* the candidate whose files are installed, or NoCandidate
  snapshots,   \* exact active snapshots that were captured
  nodes,       \* the deployment registry
  decisions,   \* snapshot gate decisions that allow; `seen` and `at` are history:
               \* when the snapshot was captured and at which time it was judged
  events,      \* the history of one candidate
  clock

lifecycleVars == <<records, installed, snapshots, nodes, decisions, events, clock>>

ParentEdges == {"derived_from"} \* rebuilt_from is treated alike
EdgeTypes == ParentEdges \cup {"variant_of"}

\* A record: lineage edges and one alias, with or without a variant key.
Records == [id : Candidates, edges : SUBSET [type : EdgeTypes, other : Candidates],
            label : Labels, keyed : BOOLEAN]

Ids(rs) == {r.id : r \in rs}
Edge(rs, a, b) == \E r \in rs : r.id = a /\ \E e \in r.edges : e.other = b
VariantEdge(rs, a, b) ==
  \E r \in rs : r.id \in {a, b} /\ \E e \in r.edges : e.type = "variant_of" /\ {r.id, e.other} = {a, b}

\* The candidates that can be reached from c by steps of a relation.
Reached(rs, Step(_, _, _), c) ==
  LET grow[n \in 0..Cardinality(Candidates)] ==
        IF n = 0 THEN {b \in Ids(rs) : Step(rs, c, b)}
        ELSE grow[n - 1] \cup {b \in Ids(rs) : \E a \in grow[n - 1] : Step(rs, a, b)}
  IN  grow[Cardinality(Candidates)]

\* CandidateRecord: no relationship twice, no edge to itself.
RecordValid(r) == \A e \in r.edges : e.other # r.id

\* CandidateRegistry: known targets, exactly one edge to the parent of the
\* identity, no cycle, and candidates of one label joined as variants.
RegistryValid(rs) ==
  /\ \A r, q \in rs : r.id = q.id => r = q
  /\ \A r \in rs : \A e \in r.edges : e.other \in Ids(rs)
  /\ \A r \in rs :
       {e.other : e \in {x \in r.edges : x.type \in ParentEdges}}
         = IF Parents[r.id] = NoCandidate THEN {} ELSE {Parents[r.id]}
  /\ \A r \in rs : Cardinality({e \in r.edges : e.type \in ParentEdges}) <= 1
  /\ \A c \in Ids(rs) : c \notin Reached(rs, Edge, c)
  /\ \A r, q \in rs :
       r.id # q.id /\ r.label = q.label =>
         r.keyed /\ q.keyed /\ q.id \in Reached(rs, VariantEdge, r.id)

LifecycleInit ==
  /\ records = {}
  /\ installed = NoCandidate
  /\ snapshots = {} /\ nodes = {} /\ decisions = {}
  /\ events = <<>>
  /\ clock = 0

\* CandidateRegistry.add
AddCandidate(r) ==
  /\ r.id \notin Ids(records) \* an equal record is already there; another one of its id is an error
  /\ RecordValid(r)
  /\ RegistryValid(records \cup {r})
  /\ records' = records \cup {r}
  /\ UNCHANGED <<installed, snapshots, nodes, decisions, events, clock>>

\* Another program, or this one, installs a candidate or removes it.
WorldChanges ==
  /\ clock < MaxTime
  /\ installed' \in (Candidates \cup {NoCandidate}) \ {installed}
  /\ UNCHANGED <<records, snapshots, nodes, decisions, events, clock>>

Tick ==
  /\ clock < MaxTime
  /\ clock' = clock + 1
  /\ UNCHANGED <<records, installed, snapshots, nodes, decisions, events>>

\* A snapshot of what is installed; its id is the caller's choice.
CaptureSnapshot(id, complete) ==
  /\ installed # NoCandidate
  /\ Cardinality(snapshots) < MaxSnapshots
  /\ snapshots' = snapshots \cup {[id |-> id, identity |-> installed, at |-> clock, complete |-> complete]}
  /\ UNCHANGED <<records, installed, nodes, decisions, events, clock>>

\* create_deployment_node and DeploymentRegistry.add: the files of the node are
\* those of a registered candidate; the node is bound to the snapshot.
Register(s) ==
  /\ s.complete
  /\ s.identity \in Ids(records)
  /\ nodes' = nodes \cup {[identity |-> s.identity, snapshot |-> s.id]}
  /\ UNCHANGED <<records, installed, snapshots, decisions, events, clock>>

\* SNAPSHOT_STALE, SNAPSHOT_FROM_FUTURE
Fresh(s, evaluated) == s.at <= evaluated /\ evaluated - s.at <= MaxAge

\* authorize_fresh_snapshot; a refusal authorizes nothing and is not kept.  The
\* hash of the snapshot, by which more snapshots are refused, is left out.
Allowed(n, s, evaluated) ==
  n \in nodes /\ s.complete /\ Fresh(s, evaluated) /\ s.id = n.snapshot /\ s.identity = n.identity

Decide(n, s, evaluated) ==
  /\ Allowed(n, s, evaluated)
  /\ decisions' = decisions \cup {[node |-> n, seen |-> s.at, at |-> evaluated]}
  /\ UNCHANGED <<records, installed, snapshots, nodes, events, clock>>

\* The event types of each dimension.
TypesOf ==
  [build |-> {"BUILD_FAILED", "BUILD_STATIC_VALIDATED"},
   package |-> {"PACKAGE_FAILED", "PACKAGE_VALIDATED", "PACKAGE_VALIDATED_WITH_SCOPED_WAIVER"},
   installation |-> {"INSTALL_PREPARED", "INSTALL_VALIDATED", "ROLLED_BACK"},
   runtime |-> {"RUNTIME_UNTESTED", "RUNTIME_OBSERVED_PASS", "RUNTIME_OBSERVED_FAIL", "RUNTIME_INCONCLUSIVE"},
   causal |-> {"CAUSALLY_ISOLATED", "CAUSALLY_CONFOUNDED", "CAUSALITY_INCONCLUSIVE"},
   disposition |-> {"REJECTED", "SUPERSEDED", "ARCHIVED"}]

\* The times at which the events are said to have occurred.
EventTimes == {0, MaxTime}

\* _PRODUCER_AUTHORITY
Authority ==
  [builder |-> TypesOf.build, package_validator |-> TypesOf.package, installer |-> TypesOf.installation,
   runtime_importer |-> TypesOf.runtime, user_confirmation |-> TypesOf.runtime, causal_analysis |-> TypesOf.causal,
   migration |-> UNION {TypesOf[d] : d \in DOMAIN TypesOf},
   operator |-> TypesOf.disposition \cup {"RUNTIME_UNTESTED"}]

NoNode == [identity |-> NoCandidate, snapshot |-> "none"]

\* The event names an exact deployment when its type asks for one.
EventValid(e) ==
  /\ e.type \in Authority[e.producer]
  /\ e.type \in {"INSTALL_VALIDATED", "RUNTIME_OBSERVED_PASS", "RUNTIME_OBSERVED_FAIL"} => e.node # NoNode

\* The decision is one of the event's deployment.
GatedBy(e, d) == d.node = e.node

\* CandidateLifecycle.append: INSTALL_VALIDATED comes with a snapshot decision,
\* whose times are compared with nothing; the history is in order of occurred_at.
AppendEvent(e) ==
  /\ Len(events) < MaxEvents
  /\ EventValid(e)
  /\ e.type = "INSTALL_VALIDATED" => \E d \in decisions : GatedBy(e, d)
  /\ \A i \in 1..Len(events) : events[i].at <= e.at
  /\ events' = Append(events, [type |-> e.type, node |-> e.node, at |-> e.at])
  /\ UNCHANGED <<records, installed, snapshots, nodes, decisions, clock>>

LifecycleNext ==
  \/ \E r \in Records : AddCandidate(r)
  \/ WorldChanges \/ Tick
  \/ \E id \in SnapshotIds, complete \in BOOLEAN : CaptureSnapshot(id, complete)
  \/ \E s \in snapshots : Register(s)
  \/ \E n \in nodes, s \in snapshots, evaluated \in 0..MaxTime : Decide(n, s, evaluated)
  \/ \E type \in EventTypes, producer \in {"installer", "runtime_importer", "migration"}, node \in nodes \cup {NoNode} :
     \E at \in EventTimes : AppendEvent([type |-> type, producer |-> producer, node |-> node, at |-> at])

LifecycleSpec == LifecycleInit /\ [][LifecycleNext]_lifecycleVars

-----------------------------------------------------------------------------
(***************************************************************************)
(* Correctness.                                                            *)
(***************************************************************************)

\* Behind every INSTALL_VALIDATED event stands a decision for that deployment,
\* judged as of a time at most MaxAge after the deployment's own candidate was
\* seen installed, in a snapshot with the deployment's id; and that candidate is
\* in the registry, with its whole ancestry.  (How the event's own time lies to
\* these is the caller's word.)  (authorize_fresh_snapshot, append, CandidateRegistry)
InstallTrue ==
  \A i \in 1..Len(events) :
    events[i].type = "INSTALL_VALIDATED" =>
      /\ \E d \in decisions :
           /\ d.node = events[i].node /\ d.seen <= d.at /\ d.at - d.seen <= MaxAge
           /\ \E s \in snapshots : s.at = d.seen /\ s.identity = d.node.identity /\ s.id = d.node.snapshot /\ s.complete
      /\ events[i].node.identity \in Ids(records)
      /\ Parents[events[i].node.identity] \in Ids(records) \cup {NoCandidate}
=============================================================================
