--------------------------- MODULE ProbeDocuments ---------------------------
(***************************************************************************)
(* The documents of a native probe and their validators: where a record's  *)
(* fields lie (record_layout.py), whether carrier source, manifest and     *)
(* compiled contract agree (source_contract.py), the stages of a bundle of *)
(* evidence (probe_bundle.py), and what is concluded from the log of a     *)
(* probe of the old kind (legacy_audit.py).                                *)
(***************************************************************************)
EXTENDS Evidence, Sequences

CONSTANTS
  RecordFamilies,   \* families of game records
  Places,           \* an offset and a width within a record
  LogEvents,        \* events of an old log
  MaxDocumentEdits  \* bound on the edits of a document

(***************************************************************************)
(* record_layout.py                                                        *)
(***************************************************************************)
IdentityTypes == {"fragment_guid", "database_index"} \* two of the five
Discovered == "unknown_discovery_candidate"

\* One field_id; a field is looked up by it and its family.
LayoutFields ==
  [family : RecordFamilies, place : Places, semantic : IdentityTypes \cup {Discovered},
   promotion : {"confirmed", "provisional_discovery"}, discovery : BOOLEAN, corroborated : BOOLEAN]

Matchers == [family : RecordFamilies, mode : {"exact_field", "bounded_readable_span", "unfiltered_population"},
             kind : IdentityTypes \cup {"known_value_span_discovery"},
             state : {"confirmed_filter", "unfiltered_observation", "provisional_discovery"}]

\* _lint_field, _valid_corroboration
FieldLints(f) ==
  /\ f.promotion = "provisional_discovery" => f.discovery /\ f.semantic = Discovered
  /\ f.semantic = Discovered => f.discovery /\ f.promotion # "confirmed"
  /\ f.discovery /\ f.promotion = "confirmed" => f.corroborated

Named(fields, family) == {i \in 1..Len(fields) : fields[i].family = family}

KeysUnique(fields) == \A family \in RecordFamilies : Cardinality(Named(fields, family)) <= 1

\* FIELD_IDENTITY_CONFLATION
OneTypePerPlace(fields) ==
  \A i, j \in 1..Len(fields) :
    /\ fields[i].family = fields[j].family /\ fields[i].place = fields[j].place
    /\ {fields[i].semantic, fields[j].semantic} \subseteq IdentityTypes
    => fields[i].semantic = fields[j].semantic

\* _lint_matcher, given the field that was found first.
MatcherLints(m, f) ==
  IF m.mode = "bounded_readable_span"
  THEN m.kind = "known_value_span_discovery" /\ m.state = "provisional_discovery" /\ f.discovery
  ELSE /\ m.kind \in IdentityTypes /\ f.semantic = m.kind
       /\ m.mode = "exact_field" => /\ m.state # "provisional_discovery"
                                    /\ m.state = "confirmed_filter" => f.promotion = "confirmed"
       /\ m.mode = "unfiltered_population" => m.state = "unfiltered_observation"

\* record_layout_lint
LayoutValid(fields, m) ==
  /\ KeysUnique(fields) /\ OneTypePerPlace(fields)
  /\ \A i \in 1..Len(fields) : FieldLints(fields[i])
  /\ \E i \in Named(fields, m.family) :
       /\ \A j \in Named(fields, m.family) : i <= j
       /\ MatcherLints(m, fields[i])

\* What discover_readable_span says of a value that it found.
DiscoveredField(family, place) ==
  [family |-> family, place |-> place, semantic |-> Discovered, promotion |-> "provisional_discovery",
   discovery |-> TRUE, corroborated |-> FALSE]

DiscoveredFields == {DiscoveredField(family, p) : family \in RecordFamilies, p \in Places}

AddField ==
  /\ About("layout") /\ Len(facts.fields) < MaxDocumentEdits
  /\ \E f \in LayoutFields \cup DiscoveredFields :
       /\ \A i \in 1..Len(facts.fields) : FieldLints(facts.fields[i])
       /\ facts' = [facts EXCEPT !.fields = Append(@, f)]

(***************************************************************************)
(* source_contract.py.  A hook of the manifest is absent, active, dormant  *)
(* or off; the source marks hooks and events.  One hook and one event.     *)
(***************************************************************************)
Manifests == [hook : {"absent", "active", "dormant", "off"}, event : BOOLEAN, dormantAllowed : BOOLEAN]
CarrierSources == [hook : BOOLEAN, dormant : BOOLEAN, event : BOOLEAN]

\* generate_probe_contract: header, blob and the hashes the manifest declares
\* are all made of its payload.
Payload(m) == m

\* Mutant: a hook that the manifest knows may be compiled in.
SourceAgreesKnown(m, s) == (s.hook => m.hook # "absent") /\ (m.hook = "active" => s.hook) /\ (s.event <=> m.event)

\* _source_diagnostics
SourceAgrees(m, s) ==
  /\ s.hook <=> m.hook = "active"
  /\ s.dormant <=> m.hook = "dormant"
  /\ s.dormant => m.dormantAllowed
  /\ s.event <=> m.event

\* probe_source_manifest_check
CarrierValid(c) == c.header = Payload(c.manifest) /\ c.compiled = Payload(c.manifest) /\ SourceAgrees(c.manifest, c.source)

CarrierStep ==
  /\ About("carrier")
  /\ \/ facts' = [facts EXCEPT !.header = Payload(facts.manifest)]
     \/ facts' = [facts EXCEPT !.compiled = facts.header]
     \/ /\ facts.edits < MaxDocumentEdits
        /\ \/ \E m \in Manifests : facts' = [facts EXCEPT !.manifest = m, !.edits = @ + 1]
           \/ \E s \in CarrierSources : facts' = [facts EXCEPT !.source = s, !.edits = @ + 1]

(***************************************************************************)
(* probe_bundle.py.  `cleanup` and `filled` are what the bundle records.   *)
(***************************************************************************)
ProbeStages == <<"plan", "capture_ready", "captured", "final", "import_ready">>
Carriers == {"x64dbg", "kcse", "hybrid", "lua"}
AllowedSources(carrier) == IF carrier = "hybrid" THEN {"x64dbg", "kcse"} ELSE {carrier}
CleanupSteps == {"game_closed", "raw_log_archived", "breakpoints_cleared", "debugger_detached", "temporary_probe_removed"}

\* _validate_cleanup
CleanupOf(carrier) ==
  {"game_closed", "raw_log_archived"}
    \cup (IF carrier \in {"x64dbg", "hybrid"} THEN {"breakpoints_cleared", "debugger_detached"} ELSE {})
    \cup (IF carrier \in {"kcse", "hybrid", "lua"} THEN {"temporary_probe_removed"} ELSE {})

\* _validate_evidence_result, _validate_limits: any limit that is reached is a defect.
ResultConsistent(b) ==
  /\ ~b.saturated
  /\ b.complete => ~b.reasons
  /\ b.result = "confirmed_negative_in_covered_scope" => b.complete
  /\ b.result = "positive_observation" => b.confirmed
  /\ b.result = "capture_inconclusive" => b.reasons

SourcesCompatible(b) ==
  /\ b.sources \subseteq AllowedSources(b.carrier)
  /\ b.carrier = "hybrid" /\ b.sources # {} => b.sources = {"x64dbg", "kcse"}

\* validate_probe_bundle
BundleValid(b) ==
  /\ ResultConsistent(b) /\ SourcesCompatible(b)
  /\ b.stage \in {4, 5} => /\ CleanupOf(b.carrier) \subseteq b.cleanup
                           /\ b.filled /\ b.sources # {} /\ b.result # "not_evaluated"

Results == {"not_evaluated", "positive_observation", "confirmed_negative_in_covered_scope", "capture_inconclusive"}

\* migrate_v1_bundle: an old bundle becomes one that concludes nothing.
Migrated(carrier) ==
  [stage |-> 3, carrier |-> carrier, sources |-> AllowedSources(carrier), result |-> "capture_inconclusive", complete |-> FALSE,
   reasons |-> TRUE, confirmed |-> TRUE, saturated |-> FALSE, cleanup |-> {}, filled |-> FALSE]

Planned(carrier) == [Migrated(carrier) EXCEPT !.stage = 1, !.result = "not_evaluated", !.reasons = FALSE, !.sources = {}, !.confirmed = FALSE]

BundleStep ==
  /\ About("bundle")
  /\ \/ LET next == [facts.bundle EXCEPT !.stage = @ + 1]
        IN  /\ next.stage <= Len(ProbeStages) /\ BundleValid(next)
            /\ facts' = [facts EXCEPT !.bundle = next, !.edits = 0]
     \/ /\ facts.bundle.stage < 5 /\ facts.edits < 2
        /\ \E b \in {[facts.bundle EXCEPT !.result = r, !.complete = (r # "capture_inconclusive"), !.reasons = (r = "capture_inconclusive")]
                       : r \in Results}
                    \cup {[facts.bundle EXCEPT !.cleanup = CleanupSteps \ {c}] : c \in CleanupSteps}
                    \cup {[facts.bundle EXCEPT !.cleanup = CleanupSteps, !.filled = TRUE]}
                    \cup {[facts.bundle EXCEPT !.sources = s] : s \in SUBSET {"x64dbg", "kcse", "lua"}}
                    \cup {[facts.bundle EXCEPT !.confirmed = ~@], [facts.bundle EXCEPT !.saturated = TRUE], [facts.bundle EXCEPT !.complete = ~@]} :
             facts' = [facts EXCEPT !.bundle = b, !.edits = @ + 1]

(***************************************************************************)
(* legacy_audit.py.  The artifacts are read and identified, the log is     *)
(* read once more to count its events, and the DLL to see that it stood.   *)
(***************************************************************************)

\* _classify_events
ClassifyEvents(seen, startup, target) ==
  IF seen \cap target # {} THEN "target_events_observed_legacy_unvalidated"
  ELSE IF seen = {} THEN "no_parseable_events_inconclusive"
  ELSE IF seen \subseteq startup THEN "startup_only_inconclusive" ELSE "no_target_events_inconclusive"

\* audit_legacy_probe, in the order of its reads; it raises if the DLL changed.
AuditStep ==
  /\ About("legacy")
  /\ \/ facts.step = "identify" /\ facts' = [facts EXCEPT !.step = "summarize", !.identified = facts.log, !.dllBefore = facts.dll]
     \/ facts.step = "summarize"
          /\ facts' = [facts EXCEPT !.step = "compare", !.verdict = ClassifyEvents(facts.log, facts.startup, facts.target)]
     \/ facts.step = "compare" /\ facts' = [facts EXCEPT !.step = IF facts.dll = facts.dllBefore THEN "receipt" ELSE "raised"]

\* The game still writes its log, or starts it afresh, which "afresh" tells if it
\* falls between the two reads; somebody updates the DLL.
LegacyWorld ==
  /\ About("legacy") /\ facts.step \notin {"receipt", "raised"}
  /\ \/ \E e \in LogEvents \ facts.log : facts' = [facts EXCEPT !.log = @ \cup {e}]
     \/ facts' = [facts EXCEPT !.log = {}, !.afresh = @ \/ facts.step = "summarize"]
     \/ facts.dll < 2 /\ facts' = [facts EXCEPT !.dll = @ + 1]

-----------------------------------------------------------------------------
DocumentsInit ==
  \/ \E m \in Matchers : facts = [topic |-> "layout", fields |-> <<>>, matcher |-> m]
  \/ \E m \in Manifests, s \in CarrierSources :
       facts = [topic |-> "carrier", manifest |-> m, source |-> s, header |-> Payload(m), compiled |-> Payload(m), edits |-> 0]
  \/ \E c \in Carriers, b \in {"migrated", "planned"} :
       facts = [topic |-> "bundle", migrated |-> b = "migrated", edits |-> 0, bundle |-> IF b = "migrated" THEN Migrated(c) ELSE Planned(c)]
  \/ \E startup, target \in SUBSET LogEvents :
       /\ startup # {} /\ target # {} /\ startup \cap target = {} \* validate_legacy_probe_migration_plan
       /\ facts = [topic |-> "legacy", step |-> "identify", log |-> {}, dll |-> 0, startup |-> startup, target |-> target,
                   identified |-> {}, dllBefore |-> 0, verdict |-> "none", afresh |-> FALSE]

DocumentsNext == AddField \/ CarrierStep \/ BundleStep \/ AuditStep \/ LegacyWorld

-----------------------------------------------------------------------------
\* A filter that is called confirmed reads a field that is known: every
\* description of it in the document is confirmed, corroborated if it was
\* discovered, and of the matcher's kind.  (record_layout_lint)
FilterProven ==
  About("layout") =>
    (LayoutValid(facts.fields, facts.matcher) /\ facts.matcher.state = "confirmed_filter" =>
       \A i \in Named(facts.fields, facts.matcher.family) :
         LET f == facts.fields[i]
         IN  f.promotion = "confirmed" /\ f.semantic = facts.matcher.kind /\ (f.discovery => f.corroborated))

\* A carrier that passes hooks exactly what its manifest enables, and was
\* compiled from it, in whatever order the files were edited, generated and
\* compiled.  (generate_probe_contract, probe_source_manifest_check)
HooksAsDeclared ==
  About("carrier") =>
    (CarrierValid(facts) =>
       /\ facts.source.hook <=> facts.compiled.hook = "active"
       /\ ~(facts.source.hook /\ facts.source.dormant)
       /\ facts.source.event <=> facts.compiled.event)

\* A bundle that may be imported has left nothing behind, concludes no more
\* than its capture bears, and a hybrid one holds both kinds of captures.
\* (validate_probe_bundle)
ImportEarned ==
  About("bundle") =>
    (facts.bundle.stage = 5 /\ facts.edits = 0 =>
       LET b == facts.bundle
       IN  /\ CleanupOf(b.carrier) \subseteq b.cleanup
           /\ b.sources = AllowedSources(b.carrier)
           /\ b.result = "confirmed_negative_in_covered_scope" => b.complete /\ ~b.reasons /\ ~b.saturated)

\* An audit that says that a log holds startup events only is true of the log
\* that it identifies, although it reads the log twice while the game writes it:
\* all that can make it untrue is a log that was started afresh between the two.
\* (audit_legacy_probe, _classify_events)
StartupOnlyTrue ==
  About("legacy") =>
    (facts.step = "receipt" /\ facts.verdict = "startup_only_inconclusive" /\ ~facts.afresh => facts.identified \subseteq facts.startup)
=============================================================================
