--------------------------- MODULE SourceEvidence ---------------------------
(***************************************************************************)
(* What index-adapter says of sources that move while they are surveyed:   *)
(* reference_integrity.py on definitions, provider_classifier.py on where  *)
(* a mod is installed, installed_state.py on whether the game loaded it;   *)
(* and coverage.py, path_contributions.py and conflict_classifier.py on    *)
(* what its layers allow to claim of a path.  At the end, what a claim of  *)
(* these modules or of GraphAudits rests on.                               *)
(***************************************************************************)
EXTENDS GraphAudits

CONSTANTS
  DefinitionIds,     \* definitions that the inventory may hold
  Roots,             \* the configured roots of each kind of provider
  MaxCatalogAge,     \* the freshness rule
  MaxClock,          \* bound on the time
  MaxSourceChanges   \* bound on the other changes

\* ProviderFreshnessRules takes positive integers only.
ASSUME CatalogAgeAssumption == MaxCatalogAge \in Nat \ {0}

(***************************************************************************)
(* reference_integrity.py: one reference to the key "x", by a provider of  *)
(* load order 1.  "X" is the same key in another case.                     *)
(***************************************************************************)
Definitions == [key : {"x", "X"}, active : BOOLEAN, dependency : BOOLEAN, order : 0..2]

Held(f) == {f.definitions[i] : i \in DOMAIN f.definitions}
NumberOf(f, Test(_)) == Cardinality({i \in DOMAIN f.definitions : Test(f.definitions[i])})

ExactKey(d) == d.key = "x"

\* _resolve_one
ResolveOne(f) ==
  LET active == NumberOf(f, LAMBDA d : ExactKey(d) /\ d.active)
      dependency == NumberOf(f, LAMBDA d : ExactKey(d) /\ d.dependency)
      other == NumberOf(f, LAMBDA d : ExactKey(d) /\ ~d.dependency) IN
  IF active > 1 THEN "ambiguous_duplicate_definition"
  ELSE IF active = 1
    THEN IF \E d \in Held(f) : ExactKey(d) /\ d.active /\ d.order > 1 THEN "defined_by_later_mod" ELSE "resolved_active"
  ELSE IF dependency > 1 \/ (dependency = 0 /\ other > 1) THEN "ambiguous_duplicate_definition"
  ELSE IF dependency = 1 THEN "available_only_in_dependency"
  ELSE IF other = 1 THEN "missing_from_active_set"
  ELSE IF Held(f) # {} THEN "defined_wrong_case"
  ELSE IF f.covered THEN "missing_globally" ELSE "capture_inconclusive"

\* check_reference_integrity
ReferenceStatus(f) ==
  CASE ~f.covered -> "capture_inconclusive"
    [] f.covered /\ ResolveOne(f) = "resolved_active" -> "resolved"
    [] OTHER -> "issues_found"

(***************************************************************************)
(* provider_classifier.py: the mod is put into roots and taken out of them *)
(* while catalogs of the two kinds are captured.  A capture may leave a    *)
(* root out, or stop at a limit.                                           *)
(***************************************************************************)
ProviderKinds == {"local", "workshop"}
NotChecked == [checked |-> FALSE, covered |-> {}, found |-> FALSE, at |-> 0, whole |-> FALSE]

Installed(f, kind) == \E r \in Roots : <<kind, r>> \in f.places

CatalogFresh(f, kind) == f.catalog[kind].checked /\ f.now - f.catalog[kind].at <= MaxCatalogAge

\* _evaluate_catalog
AbsenceReady(f, kind) == CatalogFresh(f, kind) /\ f.catalog[kind].whole /\ f.catalog[kind].covered = Roots

\* classify_mod_providers
ProviderState(f) ==
  LET present == {k \in ProviderKinds : f.catalog[k].found} IN
  CASE present = ProviderKinds -> "LOCAL_AND_WORKSHOP_PRESENT"
    [] present = {"local"} -> "LOCAL_PRESENT"
    [] present = {"workshop"} -> "WORKSHOP_PRESENT"
    [] OTHER -> CASE \A k \in ProviderKinds : AbsenceReady(f, k) -> "MISSING_CONFIRMED"
                  [] (\E k \in ProviderKinds : ~AbsenceReady(f, k)) /\ f.catalog["workshop"].checked /\ ~CatalogFresh(f, "workshop")
                       -> "WORKSHOP_COVERAGE_STALE"
                  [] OTHER -> "POSSIBLY_WORKSHOP_MANAGED"

\* gone[k] is the last time at which no root of the kind held the mod.
Moved(f, places) ==
  [f EXCEPT !.places = places, !.changes = @ + 1,
            !.gone = [k \in ProviderKinds |-> IF \A r \in Roots : <<k, r>> \notin places THEN f.now ELSE @[k]]]

PassTime(f) ==
  [f EXCEPT !.now = @ + 1, !.gone = [k \in ProviderKinds |-> IF Installed(f, k) THEN @[k] ELSE f.now + 1]]

CaptureCatalog(f, kind, covered, whole) ==
  [f EXCEPT !.catalog[kind] = [checked |-> TRUE, covered |-> covered, at |-> f.now, whole |-> whole,
                               found |-> \E r \in covered : <<kind, r>> \in f.places]]

(***************************************************************************)
(* installed_state.py: boots of the game, of which each opens the package  *)
(* and loads the script or not.  A receipt on one of them is made from the *)
(* log as it then was, and somebody looks at the script in that boot or in *)
(* another; either may see too little to conclude anything.                *)
(***************************************************************************)
LuaStates == {"loaded", "failed", "not_observed", "incomplete"}
PakConclusions == {"confirmed", "not_observed", "incomplete"}
Boots == [pak : {"confirmed", "not_observed"}, lua : LuaStates \ {"incomplete"}, whole : BOOLEAN]

\* A receipt says of which boot it is, whether that was whole and the latest such,
\* and what its log concludes; a look says of which boot it is and what was seen.
\* `made` is the number of boots that there had been.
BootReceipts == [boot : Nat, complete : BOOLEAN, latest : BOOLEAN, conclusion : PakConclusions, made : Nat]
Looks == [boot : Nat, lua : LuaStates]

NoReceipt == [boot |-> 0, complete |-> FALSE, latest |-> FALSE, conclusion |-> "incomplete", made |-> 0]
NoLook == [boot |-> 0, lua |-> "incomplete"]

WholeSince(f, i, n) == \E j \in i + 1..n : f.boots[j].whole

ReceiptOf(f, i, conclusion) ==
  [boot |-> i, complete |-> f.boots[i].whole, latest |-> ~WholeSince(f, i, Len(f.boots)), conclusion |-> conclusion,
   made |-> Len(f.boots)]

\* from_boot_receipt: the state of the package, and whether all is of one boot.
PakState(f) == IF f.receipt.complete /\ f.receipt.latest THEN f.receipt.conclusion ELSE "incomplete"

SameCompleteBoot(f) == f.receipt.complete /\ f.receipt.latest /\ f.look.boot = f.receipt.boot

\* resolve_state
LoadedState(f) ==
  LET lua == f.look.lua IN
  IF ~SameCompleteBoot(f) \/ PakState(f) = "incomplete" \/ lua = "incomplete" THEN "capture_inconclusive"
  ELSE IF PakState(f) = "not_observed" THEN IF lua = "not_observed" THEN "pak_not_opened" ELSE "capture_inconclusive"
  ELSE CASE lua = "loaded" -> "pak_opened_lua_loaded"
         [] lua = "failed" -> "pak_opened_lua_failed"
         [] OTHER -> "pak_opened_lua_not_observed"

(***************************************************************************)
(* What happens to the sources.                                            *)
(***************************************************************************)
SourcesInit ==
  \/ \E n \in 0..Cardinality(DefinitionIds) : \E d \in [1..n -> Definitions] :
       facts = [topic |-> "references", definitions |-> d, covered |-> TRUE]
  \/ facts = [topic |-> "catalogs", now |-> 0, changes |-> 0, places |-> {}, gone |-> [k \in ProviderKinds |-> 0],
              catalog |-> [k \in ProviderKinds |-> NotChecked]]
  \/ facts = [topic |-> "boots", boots |-> <<>>, receipt |-> NoReceipt, look |-> NoLook]

SourcesNext ==
  \/ About("references") /\ facts.covered /\ facts' = [facts EXCEPT !.covered = FALSE]
  \/ About("catalogs") /\ facts.now < MaxClock /\ facts' = PassTime(facts)
  \/ /\ About("catalogs") /\ facts.changes < MaxSourceChanges
     /\ \E k \in ProviderKinds, r \in Roots :
          \/ <<k, r>> \notin facts.places /\ facts' = Moved(facts, facts.places \cup {<<k, r>>})
          \/ <<k, r>> \in facts.places /\ facts' = Moved(facts, facts.places \ {<<k, r>>})
  \/ /\ About("catalogs")
     /\ \E k \in ProviderKinds, c \in SUBSET Roots, w \in BOOLEAN : facts' = CaptureCatalog(facts, k, c, w)
  \/ /\ About("boots") /\ Len(facts.boots) < MaxSourceChanges
     /\ \E b \in Boots : facts' = [facts EXCEPT !.boots = Append(@, b)]
  \/ /\ About("boots") /\ facts.receipt = NoReceipt
     /\ \E i \in DOMAIN facts.boots : \E c \in {facts.boots[i].pak, "incomplete"} :
          facts' = [facts EXCEPT !.receipt = ReceiptOf(facts, i, c)]
  \/ /\ About("boots") /\ facts.look = NoLook
     /\ \E i \in DOMAIN facts.boots : \E s \in {facts.boots[i].lua, "incomplete"} :
          facts' = [facts EXCEPT !.look = [boot |-> i, lua |-> s]]

-----------------------------------------------------------------------------
\* A reference is reported as resolved only if exactly one active definition
\* has its very key and is loaded before it; and a key as defined nowhere only
\* if no definition has it, in whatever case, and nothing was left unsurveyed.
ReferencesSound ==
  About("references") =>
    /\ ReferenceStatus(facts) = "resolved" =>
         /\ facts.covered
         /\ NumberOf(facts, LAMBDA d : d.key = "x" /\ d.active) = 1
         /\ \E d \in Held(facts) : d.key = "x" /\ d.active /\ d.order <= 1
    /\ ResolveOne(facts) = "missing_globally" => facts.covered /\ Held(facts) = {}

\* A mod is confirmed to be missing only if, not longer ago than the freshness
\* rule allows, no root of either kind held it.
MissingWasMissing ==
  About("catalogs") =>
    (ProviderState(facts) = "MISSING_CONFIRMED" => \A k \in ProviderKinds : facts.now - facts.gone[k] <= MaxCatalogAge)

\* What is said of the package and the script, that they were loaded, failed or
\* were not opened, is what one boot did to both: the boot that both were looked
\* at in, which was whole, and after which no other whole one had come when the
\* receipt was made.
LoadedInOneBoot ==
  About("boots") /\ LoadedState(facts) # "capture_inconclusive" =>
    LET i == facts.receipt.boot IN
    /\ i \in DOMAIN facts.boots /\ facts.look.boot = i
    /\ facts.boots[i].whole /\ \A j \in i + 1..facts.receipt.made : ~facts.boots[j].whole
    /\ LoadedState(facts) =
         CASE facts.boots[i].pak = "not_observed" -> "pak_not_opened"
           [] facts.boots[i].pak = "confirmed" /\ facts.boots[i].lua = "loaded" -> "pak_opened_lua_loaded"
           [] facts.boots[i].pak = "confirmed" /\ facts.boots[i].lua = "failed" -> "pak_opened_lua_failed"
           [] OTHER -> "pak_opened_lua_not_observed"

-----------------------------------------------------------------------------
(***************************************************************************)
(* localization_provider.py audits which provider's text and voice a       *)
(* dialog gets, and localization_release.py accepts a release on that      *)
(* audit and on what the game was seen to show.  One language, one mount   *)
(* and one dialog are kept; the world may change between the audit and the *)
(* play session.                                                           *)
(***************************************************************************)

CONSTANTS
  TextProviders,    \* providers of texts and voices
  NoTextProvider,   \* no provider
  MaxWorldMoves     \* bound on the changes of the providers

ASSUME TextProvidersAreFinite == IsFiniteSet(TextProviders)

\* What the providers hold: text 0 is none.
TextWorlds == [loaded : SUBSET TextProviders, priority : [TextProviders -> {0, 1}],
               text : [TextProviders -> 0..2], voice : SUBSET TextProviders]

WithText(w) == {p \in w.loaded : w.text[p] # 0}
WithVoice(w) == {p \in w.loaded : p \in w.voice}

Top(w, S) == {p \in S : \A q \in S : w.priority[q] <= w.priority[p]}

\* The candidates are sorted by priority; two at the top leave no winner.
Winner(w, S) == IF Cardinality(Top(w, S)) = 1 THEN CHOOSE p \in Top(w, S) : TRUE ELSE NoTextProvider

\* audit_localization_dialog_mapping: what makes the audit inconclusive, ...
AuditReasons(a) ==
  (IF a.coverage = "COMPLETE" THEN {} ELSE {"INCOMPLETE_LANGUAGE_COVERAGE"})
    \cup (IF \E S \in {WithText(a.world), WithVoice(a.world)} : Cardinality(Top(a.world, S)) > 1
          THEN {"AMBIGUOUS_PROVIDER_PRIORITY"} ELSE {})

TextConflict(w) == Cardinality({w.text[p] : p \in WithText(w)}) > 1

\* ... and what is wrong with the texts, looked for if the mount is covered.
AuditIssues(a) ==
  (IF TextConflict(a.world) THEN {"LOCALIZATION_PAYLOAD_CONFLICT"} ELSE {})
    \cup (IF a.coverage = "COMPLETE" /\ Winner(a.world, WithText(a.world)) = NoTextProvider
          THEN {"MISSING_DIALOG_TRANSLATION"} ELSE {})
    \cup (IF a.coverage = "COMPLETE" /\ Winner(a.world, WithVoice(a.world)) = NoTextProvider
          THEN {"MISSING_VOICE_REFERENCE"} ELSE {})

AuditStatus(a) ==
  CASE AuditReasons(a) # {} -> "capture_inconclusive"
    [] AuditReasons(a) = {} /\ AuditIssues(a) # {} -> "issues_found"
    [] OTHER -> "resolved"

\* The observation of the dialog against the audit.  The provider of the
\* displayed text is recorded and compared with nothing.
LinksMatched(f) ==
  LET audited == Winner(f.audit.world, WithVoice(f.audit.world)) IN
  audited # NoTextProvider => f.seen.voice = audited

Faults == {"package_not_isolated", "no_package", "duration_mismatch", "capture_incomplete", "correlation_invalid"}

\* evaluate_localization_release_acceptance
ReleaseStatus(f) ==
  LET partial == AuditStatus(f.audit) # "resolved"
      runtime == {"capture_incomplete", "correlation_invalid"} \cap f.flaws
      observed == f.seen.at > 0
      diagnosed == (f.flaws \ runtime) # {} \/ (observed /\ ~LinksMatched(f)) \/ (runtime = {} /\ ~observed) IN
  CASE partial \/ runtime # {} -> "capture_inconclusive"
    [] ~(partial \/ runtime # {}) /\ diagnosed -> "rejected"
    [] OTHER -> "accepted"

Unseen == [at |-> 0, text |-> NoTextProvider, voice |-> NoTextProvider]
NotAudited == [at |-> 0, coverage |-> "UNKNOWN", world |-> [loaded |-> {}, priority |-> <<>>, text |-> <<>>, voice |-> {}]]

LocalizationInit ==
  \E w \in TextWorlds :
    facts = [topic |-> "texts", world |-> w, moves |-> 0, audit |-> NotAudited, seen |-> Unseen, flaws |-> {}]

\* The providers are reordered, loaded, unloaded or edited.
WorldMoves ==
  /\ facts.moves < MaxWorldMoves
  /\ \E p \in TextProviders, i \in {0, 1}, t \in 0..2 :
       \/ facts' = [facts EXCEPT !.moves = @ + 1, !.world.priority[p] = i]
       \/ facts' = [facts EXCEPT !.moves = @ + 1, !.world.loaded = IF p \in @ THEN @ \ {p} ELSE @ \cup {p}]
       \/ facts' = [facts EXCEPT !.moves = @ + 1, !.world.text[p] = t]

TakeAudit ==
  /\ facts.audit = NotAudited
  /\ \E c \in {"COMPLETE", "PARTIAL"} : facts' = [facts EXCEPT !.audit = [at |-> 1, coverage |-> c, world |-> facts.world]]

\* The game plays the dialog, with the text and the voice of the top providers.
PlayDialog ==
  /\ facts.seen = Unseen
  /\ \E t \in Top(facts.world, WithText(facts.world)), v \in Top(facts.world, WithVoice(facts.world)) :
       facts' = [facts EXCEPT !.seen = [at |-> 1, text |-> t, voice |-> v]]

LocalizationNext ==
  About("texts") /\ (WorldMoves \/ TakeAudit \/ PlayDialog \/ GetsWorse("texts", Faults, 1))

-----------------------------------------------------------------------------
\* An accepted release was seen to play the dialog with the voice of the very
\* provider that outranked all others when the audit was made, and at that time
\* no two loaded providers had different texts for it.
ReleaseAsAudited ==
  About("texts") /\ facts.audit # NotAudited =>
    (ReleaseStatus(facts) = "accepted" =>
       LET w == facts.audit.world IN
       /\ facts.seen.at > 0 /\ Top(w, WithVoice(w)) = {facts.seen.voice}
       /\ \A p, q \in w.loaded : w.text[p] # 0 /\ w.text[q] # 0 => w.text[p] = w.text[q])

-----------------------------------------------------------------------------
(***************************************************************************)
(* How index-adapter gets from scanned layers to a statement on conflicts: *)
(* coverage.py says what the layers allow to claim, path_contributions.py  *)
(* which provider of a path the game uses, and conflict_classifier.py      *)
(* whether there are conflicts and whether the declared winners win.       *)
(***************************************************************************)

CONSTANTS
  Providers,           \* the providers of the game's files
  Layers,              \* the layers that a scan covers
  Bases,               \* what a coverage may rest on
  MaxEvidenceChanges,  \* bound on the changes of one body of evidence
  Nobody               \* no provider

\* CoverageInput admits these bases only; the providers are those of a finite scan.
ASSUME PathsAssumption ==
  IsFiniteSet(Providers) /\ Bases \subseteq {"active_snapshot", "direct_exact_scan", "manual_contributions", "hybrid"}

(***************************************************************************)
(* coverage.py.  What befell a layer; from_mapping refuses a layer that    *)
(* claims a complete scan next to a reached cap.  A layer whose scan was   *)
(* complete and that yet gives reasons for what it left uncovered counts   *)
(* as complete, with its reasons beside the status.                        *)
(***************************************************************************)
LayerStates == {"whole", "with_reasons", "not_configured", "unavailable", "capped", "stale", "incomplete", "empty"}

LayerStatus(state, basis) ==
  CASE state = "not_configured" -> "NOT_CONFIGURED"
    [] state = "unavailable" -> "UNAVAILABLE"
    [] state = "capped" -> "PARTIAL_LIMIT_REACHED"
    [] state = "stale" -> "PARTIAL_STALE"
    [] state \in {"incomplete", "empty"} -> "UNKNOWN"
    [] OTHER -> IF basis = "direct_exact_scan" THEN "COMPLETE_FOR_REQUESTED_SCOPE" ELSE "COMPLETE"

OverallStatus(states, basis) ==
  LET found == {LayerStatus(states[l], basis) : l \in Layers} IN
  CASE basis \in {"manual_contributions", "hybrid"} -> "INCONCLUSIVE"
    [] basis \notin {"manual_contributions", "hybrid"} /\ "PARTIAL_LIMIT_REACHED" \in found -> "PARTIAL_LIMIT_REACHED"
    [] OTHER ->
         IF "PARTIAL_STALE" \in found THEN "PARTIAL_STALE"
         ELSE IF found = {"UNAVAILABLE"} THEN "UNAVAILABLE"
         ELSE IF found \subseteq {LayerStatus("whole", basis)} THEN LayerStatus("whole", basis)
         ELSE "INCONCLUSIVE"

\* Absence, winner and absence of conflicts are claimed on the same condition.
ClaimAllowed(f) == OverallStatus(f.layers, f.basis) \in {"COMPLETE", "COMPLETE_FOR_REQUESTED_SCOPE"}

(***************************************************************************)
(* path_contributions.py: the contributors of one path.  f.order gives     *)
(* each of them its place in the load order, 0 for none.                   *)
(***************************************************************************)
Semantics == {"override_last_wins", "ordered_merge", "parallel_load", "separate_namespace",
              "component_specific", "no_runtime_override", "unknown"}

Contributors(f) == DOMAIN f.order

\* Mutant: two contributors may share a place.
OrderIsCompleteTied(f) == f.orderComplete /\ \A p \in Contributors(f) : f.order[p] # 0

OrderIsComplete(f) ==
  /\ f.orderComplete
  /\ \A p \in Contributors(f) : f.order[p] # 0
  /\ \A p, q \in Contributors(f) : f.order[p] = f.order[q] => p = q

LastContributor(f) == CHOOSE p \in Contributors(f) : \A q \in Contributors(f) : f.order[q] <= f.order[p]

\* _resolve_selection: the conclusion, and the winner if there is one.
ResolveSelection(f) ==
  LET is(c) == [conclusion |-> c, winner |-> Nobody] IN
  CASE f.manual # {} -> is("inconclusive")
    [] f.manual = {} /\ Contributors(f) = {} -> is(IF ClaimAllowed(f) THEN "no_provider_observed" ELSE "inconclusive")
    [] OTHER ->
         CASE f.semantics \in {"no_runtime_override", "separate_namespace", "component_specific"} -> is("multiple_contributors")
           [] f.semantics = "parallel_load" -> is("parallel_contributors")
           [] f.semantics = "ordered_merge" -> is(IF OrderIsComplete(f) THEN "multiple_contributors" ELSE "inconclusive")
           [] f.semantics = "override_last_wins" ->
                IF ClaimAllowed(f) /\ OrderIsComplete(f) THEN [conclusion |-> "winner", winner |-> LastContributor(f)]
                ELSE is("inconclusive")
           [] OTHER -> is("inconclusive")

(***************************************************************************)
(* conflict_classifier.py.                                                 *)
(***************************************************************************)
UnsupportedOverlap(f) ==
  /\ Cardinality(Contributors(f) \cup f.manual) > 1
  /\ f.semantics \in {"unknown", "separate_namespace", "component_specific"}

ObservedOverlap(f) ==
  /\ Cardinality(Contributors(f) \cup f.manual) > 1
  /\ f.semantics \in {"override_last_wins", "ordered_merge"}

\* classify_conflicts
ConflictConclusion(f) ==
  LET status == OverallStatus(f.layers, f.basis) IN
  CASE ObservedOverlap(f) -> "CONFLICTS_OBSERVED"
    [] ~ObservedOverlap(f) /\ (f.manifests > 1 \/ UnsupportedOverlap(f)) -> "INCONCLUSIVE"
    [] OTHER -> CASE ClaimAllowed(f) -> "CONFIRMED_NONE"
                  [] status = "PARTIAL_STALE" -> "ZERO_OBSERVED_STALE_COVERAGE"
                  [] status \in {"PARTIAL_LIMIT_REACHED", "INCONCLUSIVE"} -> "ZERO_OBSERVED_PARTIAL_COVERAGE"
                  [] OTHER -> "INCONCLUSIVE"

\* _effective_outcome: the providers whose contribution takes effect.
EffectiveProviders(f) ==
  LET r == ResolveSelection(f) IN
  CASE r.conclusion = "winner" -> {r.winner}
    [] r.conclusion \in {"parallel_contributors", "multiple_contributors"} -> Contributors(f)
    [] OTHER -> {}

\* analyze_semantic_conflicts, for a path with the table comparison f.table, an
\* intended winner and a provider that is protected.
AnalysisResult(f) ==
  LET r == ResolveSelection(f)
      supported == r.conclusion # "inconclusive" /\ f.table \in {"none", "resolved"}
      intentional == f.intended # Nobody /\ r.winner = f.intended
      mismatch == f.intended # Nobody /\ ~intentional /\ supported
      violated == f.protected # Nobody /\ supported /\ f.protected \notin EffectiveProviders(f) IN
  CASE mismatch \/ violated -> "FAIL"
    [] ~(mismatch \/ violated) /\ ~supported -> "INCONCLUSIVE"
    [] OTHER -> "PASS"

(***************************************************************************)
(* A body of evidence in order, and what may change about it.              *)
(***************************************************************************)
PathsInit ==
  \E semantics \in Semantics, basis \in Bases, contributors \in SUBSET Providers,
     declared \in {Nobody} \cup Providers, table \in {"none", "unresolved"} :
  \E order \in [contributors -> 1..Cardinality(Providers)] :
    /\ \A p, q \in contributors : order[p] = order[q] => p = q
    /\ facts = [topic |-> "paths", changes |-> 0, semantics |-> semantics, basis |-> basis, order |-> order,
                layers |-> [l \in Layers |-> "whole"], manual |-> {}, orderComplete |-> TRUE, manifests |-> 1,
                intended |-> IF semantics = "override_last_wins" THEN declared ELSE Nobody, protected |-> declared,
                table |-> table]

Changed1(f) == facts' = [f EXCEPT !.changes = @ + 1]

PathsNext ==
  /\ About("paths") /\ facts.changes < MaxEvidenceChanges
  /\ \/ \E l \in Layers, s \in LayerStates : Changed1([facts EXCEPT !.layers[l] = s])
     \/ \E p \in Contributors(facts), i \in 0..Cardinality(Providers) : Changed1([facts EXCEPT !.order[p] = i])
     \/ \E p \in Providers \ Contributors(facts) : Changed1([facts EXCEPT !.manual = @ \cup {p}])
     \/ Changed1([facts EXCEPT !.orderComplete = FALSE])
     \/ Changed1([facts EXCEPT !.manifests = 2])

PathsSpec == PathsInit /\ [][PathsNext]_facts

-----------------------------------------------------------------------------
\* Every layer was scanned to its end, with or without reasons for what it left out.
Surveyed(f) ==
  f.basis \in {"active_snapshot", "direct_exact_scan"} /\ \A l \in Layers : f.layers[l] \in {"whole", "with_reasons"}

\* An analysis that passes although a provider of an overridden path is declared
\* the winner, or protected, rests on a survey that calls each of its layers
\* complete, in which that provider comes after every other contributor in a
\* known load order.
DeclaredReallyWins ==
  About("paths") =>
    (AnalysisResult(facts) = "PASS" /\ facts.semantics = "override_last_wins" /\ facts.protected # Nobody =>
       /\ Surveyed(facts) /\ facts.manual = {} /\ facts.orderComplete
       /\ facts.protected \in Contributors(facts)
       /\ \A q \in Contributors(facts) \ {facts.protected} : facts.order[q] < facts.order[facts.protected] /\ facts.order[q] # 0)

\* "No conflict" is confirmed only after such a survey, and if no two
\* providers meet at a path where one could displace or change the other.
ConfirmedNoneIsNone ==
  About("paths") =>
    (ConflictConclusion(facts) = "CONFIRMED_NONE" =>
       /\ Surveyed(facts) /\ facts.manifests = 1
       /\ Cardinality(Contributors(facts) \cup facts.manual) > 1 =>
            facts.semantics \in {"parallel_load", "no_runtime_override"})

-----------------------------------------------------------------------------
ClaimsInit == GraphInit \/ SourcesInit \/ LocalizationInit
ClaimsNext == GraphNext \/ SourcesNext \/ LocalizationNext
ClaimsSpec == ClaimsInit /\ [][ClaimsNext]_facts

\* A claim about the game's sources, that something is absent, whole, persistent,
\* resolved, missing, loaded or released, rests on evidence that covers it and is of
\* one moment.  (quest_topology.py, world_behavior.py, ai_quest_runtime.py,
\* reference_integrity.py, provider_classifier.py, installed_state.py,
\* localization_release.py)
ClaimsRest ==
  /\ TopologyAbsenceEarned
  /\ WorldDomainWhole
  /\ PersistenceClaimTrue
  /\ ReferencesSound
  /\ MissingWasMissing
  /\ LoadedInOneBoot
  /\ ReleaseAsAudited
=============================================================================
