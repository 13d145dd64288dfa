---------------------------- MODULE GraphAudits ----------------------------
(***************************************************************************)
(* The audits of quest and world graphs: quest_topology.py joins documents *)
(* with the evidence on the provider that wins their path, and says of     *)
(* each domain whether absence may be claimed; world_behavior.py does the  *)
(* same for records of several documents that refer to each other.         *)
(***************************************************************************)
EXTENDS Evidence, Sequences

CONSTANTS
  GraphSources,   \* documents, each [path, provider, domain]
  RecordKeys,     \* identities of world records
  MaxGraphFlaws   \* bound on what is wrong in one audit

(***************************************************************************)
(* quest_topology.py.  A document's flaw, and the winner evidence of each  *)
(* path: its state, and the provider it names if it names one.             *)
(***************************************************************************)
DocumentFlaws == {"none", "topology_incomplete", "unsupported_kind", "half_open_edge", "dangling_edge"}
WinnerStates == {"winner", "contributors", "missing", "stale", "partial", "inconclusive"}

PathsOf == {s.path : s \in GraphSources}
DomainsOf == {s.domain : s \in GraphSources}
SourcesOf(path) == {s \in GraphSources : s.path = path}

Winning(f, path) == {s \in SourcesOf(path) : s.provider = f.winner[path].provider}

\* Mutant: the first source of the winner will do.
JoinReasonFirst(f, path) ==
  IF f.winner[path].state \in {"winner", "contributors"} THEN "none" ELSE f.winner[path].state

\* _join_path: the reason for which the evidence decides nothing, ...
JoinReason(f, path) ==
  CASE f.winner[path].state = "winner" -> IF Cardinality(Winning(f, path)) = 1 THEN "none" ELSE "winner_source_not_unique"
    [] f.winner[path].state = "contributors" -> "none"
    [] OTHER -> f.winner[path].state

\* ... and the documents that are read: all of them if nothing is decided.
Selected(f, path) ==
  IF f.winner[path].state = "winner" /\ JoinReason(f, path) = "none" THEN Winning(f, path) ELSE SourcesOf(path)

Read(f) == UNION {Selected(f, p) : p \in PathsOf}

\* acquire_quest_xgen_topology: an edge both ends of which are unknown belongs
\* to no domain.
TopologyStatus(f, domain) ==
  LET docs == {s \in Read(f) : s.domain = domain}
      reasons == {JoinReason(f, s.path) : s \in docs} \ {"none"}
      flaws == {f.flaw[s] : s \in docs} \ {"none", "dangling_edge"} IN
  CASE reasons \cap {"stale", "partial"} # {} -> "capture_inconclusive"
    [] reasons \cap {"stale", "partial"} = {} /\ reasons \cup flaws # {} -> "partial"
    [] OTHER -> "complete"

AbsenceAllowed(f, domain) == \E s \in Read(f) : s.domain = domain /\ TopologyStatus(f, domain) = "complete"

(***************************************************************************)
(* world_behavior.py.  The world has a record for each of RecordKeys, of   *)
(* which each is written in one of two documents and may name an owner;    *)
(* references link two identities.  f.kind and f.owner are of the records  *)
(* that the documents still hold, f.world and f.document of all there are, *)
(* and f.uncovered are the documents that do not cover their scope.        *)
(***************************************************************************)
WorldKinds == {"entity", "persistent_state", "persistence_owner"}
WorldDomain(kind) == IF kind = "entity" THEN "world" ELSE "persistence"
Nowhere == "nowhere"

\* A record without an owner has None.
ASSUME NowhereIsNoRecord == Nowhere \notin RecordKeys

WorldRecords(f) == DOMAIN f.kind

WorldDocuments == {1, 2}

\* resolve_world_behavior_graph: an owner or an end of a reference that is
\* missing taints the domains of the records at hand, and a document that does
\* not cover its scope those of the records that it still holds.
Incomplete(f, domain) ==
  \/ \E k \in WorldRecords(f) : WorldDomain(f.kind[k]) = domain /\ f.owner[k] \notin WorldRecords(f) \cup {Nowhere}
  \/ \E r \in f.references :
       /\ ~({r[1], r[2]} \subseteq WorldRecords(f))
       /\ \E k \in {r[1], r[2]} \cap WorldRecords(f) : WorldDomain(f.kind[k]) = domain
  \/ \E k \in WorldRecords(f) : WorldDomain(f.kind[k]) = domain /\ f.document[k] \in f.uncovered

WorldComplete(f, domain) == ~Incomplete(f, domain) /\ \E k \in WorldRecords(f) : WorldDomain(f.kind[k]) = domain

(***************************************************************************)
(* Evidence in order, and what may be wrong with it.                       *)
(***************************************************************************)
GraphInit ==
  \/ \E w \in [PathsOf -> {[state |-> "winner", provider |-> s.provider] : s \in GraphSources}
                             \cup {[state |-> "contributors", provider |-> Nowhere]}] :
       facts = [topic |-> "topology", changes |-> 0, winner |-> w, flaw |-> [s \in GraphSources |-> "none"]]
  \/ \E kind \in [RecordKeys -> WorldKinds], refs \in SUBSET {r \in RecordKeys \X RecordKeys : r[1] # r[2]} :
     \E owner \in [RecordKeys -> RecordKeys \cup {Nowhere}], document \in [RecordKeys -> WorldDocuments] :
       facts = [topic |-> "world", changes |-> 0, kind |-> kind, owner |-> owner, references |-> refs, uncovered |-> {},
                world |-> kind, document |-> document]

\* A record is not in its document; only a document cut off tells so.
WithoutRecord(f, k) ==
  [f EXCEPT !.changes = @ + 1,
            !.kind = [x \in WorldRecords(f) \ {k} |-> f.kind[x]], !.owner = [x \in WorldRecords(f) \ {k} |-> f.owner[x]]]

GraphNext ==
  \/ /\ About("topology") /\ facts.changes < MaxGraphFlaws
     /\ \/ \E s \in GraphSources, d \in DocumentFlaws :
             facts' = [facts EXCEPT !.changes = @ + 1, !.flaw[s] = d]
        \/ \E p \in PathsOf, w \in WinnerStates : facts' = [facts EXCEPT !.changes = @ + 1, !.winner[p].state = w]
  \/ /\ About("world") /\ facts.changes < MaxGraphFlaws
     /\ \/ \E k \in WorldRecords(facts) : facts' = WithoutRecord(facts, k)
        \/ \E d \in WorldDocuments : facts' = [facts EXCEPT !.changes = @ + 1, !.uncovered = @ \cup {d}]

-----------------------------------------------------------------------------
\* Absence in a domain of a quest graph may be claimed only if the game's own
\* choice of a document is known for every path from which a document of the
\* domain was read, and what the game uses was read to its end.
TopologyAbsenceEarned ==
  About("topology") =>
    \A d \in DomainsOf : AbsenceAllowed(facts, d) =>
      \A s \in GraphSources :
        s.domain = d /\ (facts.winner[s.path].state = "winner" => s.provider = facts.winner[s.path].provider) =>
          /\ facts.winner[s.path].state = "contributors"
               \/ (facts.winner[s.path].state = "winner" /\ Cardinality(Winning(facts, s.path)) = 1)
          /\ facts.flaw[s] \in {"none", "dangling_edge"}

\* Where a domain of the world is called complete, a record of the world that
\* was not read is of no consequence for it: no record of the domain is owned by
\* it or shares a reference with it; and if it is itself of the domain and its
\* document was cut off, nothing of the domain was read from that document.
\* (A document that says it is whole is believed, and one that has lost all its
\* records of a domain no longer speaks against the domain.)
WorldDomainWhole ==
  About("world") =>
    \A d \in {"world", "persistence"} : WorldComplete(facts, d) =>
      \A lost \in DOMAIN facts.world \ WorldRecords(facts), k \in WorldRecords(facts) :
        WorldDomain(facts.world[k]) = d =>
          /\ facts.owner[k] # lost
          /\ <<k, lost>> \notin facts.references /\ <<lost, k>> \notin facts.references
          /\ WorldDomain(facts.world[lost]) = d /\ facts.document[lost] \in facts.uncovered =>
               facts.document[k] # facts.document[lost]

-----------------------------------------------------------------------------
(***************************************************************************)
(* ai_quest_runtime.py: what a passive capture of a play session proves.   *)
(* The game changes a state, saves, loads and checks it, and each of its   *)
(* steps leaves a marker unless the source drops it; the adapter then says *)
(* whether the state survives a save.  The markers of the other stages are *)
(* left out, and of the identities only one state is kept.                 *)
(***************************************************************************)

CONSTANTS
  StateValues,   \* values of the state; 0 is the one a new game starts with
  MaxMarkers,    \* bound on the markers of a session
  MaxDrops       \* bound on the markers that the source drops

VARIABLES
  game,      \* the game: value, saves, what it is doing, whether it honours saves
  markers,   \* the markers captured so far
  drops      \* how many were dropped

questVars == <<game, markers, drops>>

QuestInit ==
  /\ \E honest \in BOOLEAN : game = [value |-> 0, saves |-> <<>>, busy |-> 0, honest |-> honest, restored |-> FALSE, over |-> FALSE]
  /\ markers = <<>> /\ drops = 0

Marker(kind, id, value) == [kind |-> kind, id |-> id, value |-> value]

\* A marker is captured, or dropped.
Leaves(marker) ==
  \/ markers' = Append(markers, marker) /\ UNCHANGED drops
  \/ drops < MaxDrops /\ drops' = drops + 1 /\ UNCHANGED markers

Playing == ~game.over /\ Len(markers) + drops < MaxMarkers

Mutate ==
  /\ Playing /\ game.busy = 0
  /\ \E v \in StateValues : /\ game' = [game EXCEPT !.value = v, !.restored = FALSE]
                            /\ Leaves(Marker("state_mutated", 0, v))

SaveStart ==
  /\ Playing /\ game.busy = 0
  /\ game' = [game EXCEPT !.saves = Append(@, game.value), !.busy = Len(game.saves) + 1]
  /\ Leaves(Marker("save_started", Len(game.saves) + 1, 0))

SaveEnd ==
  /\ Playing /\ game.busy > 0
  /\ game' = [game EXCEPT !.busy = 0]
  /\ Leaves(Marker("save_completed", game.busy, 0))

LoadStart ==
  /\ Playing /\ game.busy = 0
  /\ \E id \in DOMAIN game.saves :
       /\ game' = [game EXCEPT !.value = IF game.honest THEN game.saves[id] ELSE 0, !.restored = TRUE]
       /\ Leaves(Marker("load_started", id, 0))

LoadEnd ==
  /\ Playing /\ game.busy = 0 /\ game.saves # <<>>
  /\ \E id \in DOMAIN game.saves : Leaves(Marker("load_completed", id, 0))
  /\ UNCHANGED game

Check ==
  /\ Playing
  /\ Leaves(Marker("persistence_checked", 0, game.value))
  /\ UNCHANGED game

Cleanup ==
  /\ ~game.over
  /\ game' = [game EXCEPT !.over = TRUE]
  /\ Leaves(Marker("session_cleanup", 0, 0))

QuestNext == Mutate \/ SaveStart \/ SaveEnd \/ LoadStart \/ LoadEnd \/ Check \/ Cleanup

QuestSpec == QuestInit /\ [][QuestNext]_questVars

Stages == <<"state_mutated", "save_started", "save_completed", "load_started", "load_completed", "persistence_checked">>

Observed(kind) == {i \in DOMAIN markers : markers[i].kind = kind}
Earliest(kind) == CHOOSE i \in Observed(kind) : \A j \in Observed(kind) : i <= j

\* PERSISTENCE_SEQUENCE_INVALID is raised unless the first markers of the
\* stages come in their order.
InSequence == \A i \in 1..5 : Earliest(Stages[i]) < Earliest(Stages[i + 1])

\* The checks of one state: every stage seen, one save, the value that was set.
PersistenceVerified ==
  /\ \A i \in DOMAIN Stages : Observed(Stages[i]) # {}
  /\ InSequence
  /\ Cardinality({markers[Earliest(Stages[i])].id : i \in 2..5}) = 1
  /\ markers[Earliest("persistence_checked")].value = markers[Earliest("state_mutated")].value

\* A dropped marker leaves the source unhealthy; the cleanup is the last marker.
CaptureComplete == drops = 0 /\ markers # <<>> /\ markers[Len(markers)].kind = "session_cleanup"

PersistenceClaimed == PersistenceVerified /\ CaptureComplete

-----------------------------------------------------------------------------
\* A session in which persistence is claimed, and in which the state was not
\* set again after the game began to load, is one of a game that restores what
\* was saved, or whose mutation set the value that a new game starts with.
PersistenceClaimTrue ==
  PersistenceClaimed /\ (\A i \in Observed("state_mutated") : i < Earliest("load_started")) =>
    game.honest \/ markers[Earliest("state_mutated")].value = 0
=============================================================================
