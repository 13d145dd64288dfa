----------------------------- MODULE ProbeGates -----------------------------
(***************************************************************************)
(* What native-probes concludes from the evidence of a probe: whether the  *)
(* user may play (playtest_readiness.py), whether two native stages belong *)
(* together (correlation.py), what a result is worth (result_validity.py), *)
(* whether the probe disturbed the game (overhead.py), and how two play    *)
(* sessions compare (gameplay_observation.py).                             *)
(***************************************************************************)
EXTENDS Evidence

CONSTANTS
  MaxProbeFlaws, \* bound on the defects of one piece of evidence
  Assertions,    \* assertions of a play session, numbered by domain and name
  Sources        \* log sources of an overhead report

ASSUME ComparedAssertions == IsFiniteSet(Assertions) /\ Assertions \subseteq Nat

(***************************************************************************)
(* correlation.py.  A correlation names two stages, a strategy, and the    *)
(* proof of the strategy; each proof is bound to the module's digest.      *)
(***************************************************************************)
Strategies == {"same_owner_function", "exact_caller_return", "same_object_lifetime_proven",
               "tls_lifetime_proven", "bounded_x64dbg_proof"}

\* What each proof must show; a name is missing from `shown` if it does not.
OwnerProof == {"owner_location", "owner_owns_both", "owner_static_evidence"}
ProofOf ==
  [same_owner_function |-> OwnerProof,
   exact_caller_return |-> {"lock_kind", "lock_location", "lock_static_evidence"},
   same_object_lifetime_proven |-> {"object_lifetime", "object_routing"},
   tls_lifetime_proven |-> {"tls_lifetime", "tls_routing"},
   bounded_x64dbg_proof |-> {"dbg_module", "dbg_bounds", "dbg_checkpoints", "dbg_complete", "dbg_runtime_evidence"}]

\* _validate_correlation: the diagnostics of one correlation.
CorrelationDiagnostics(c) ==
  (ProofOf[c.strategy] \ c.shown)
    \cup (IF OwnerProof \subseteq c.shown /\ c.strategy # "same_owner_function" THEN {"OWNER_FUNCTION_PREFERRED"} ELSE {})
    \cup (IF c.separated /\ c.strategy # "bounded_x64dbg_proof" THEN {"SEPARATED_STAGE_X64DBG_PROOF_REQUIRED"} ELSE {})

\* _report: every correlation, and at least one; the identifiers are unique.
CorrelationValid(cs) == cs # {} /\ \A c \in cs : CorrelationDiagnostics(c) = {}

Correlations == [strategy : Strategies, separated : BOOLEAN,
                 shown : {ProofOf[s] : s \in Strategies} \cup {ProofOf[s] \cup OwnerProof : s \in Strategies}]

(***************************************************************************)
(* playtest_readiness.py.  `f` is the set of defects of a request.         *)
(***************************************************************************)
ReadinessDefects ==
  {"manifest", "no_hooks", "entry_module", "prototype_module", "prototype_report", "layout", "entry_lock", "abi",
   "stolen", "trampoline", "correlation", "source", "controls", "policy", "bounds", "install", "boot", "boot_session",
   "unresponsive", "responsive_session", "debugger", "deployment", "deployment_install"}

\* _prototype_checks: a report of other hooks or of another module proves nothing.
PrototypeUnbound == {"prototype_module", "prototype_report", "no_hooks"}

\* The reasons of a receipt, each with the defects that cause it.
Causes ==
  [MANIFEST_INVALID |-> {"manifest"},
   MODULE_PROFILE_MISMATCH |-> {"manifest", "no_hooks", "entry_module", "prototype_module"},
   RECORD_LAYOUT_INVALID |-> {"layout"},
   ENTRY_LOCK_INVALID |-> {"entry_lock", "entry_module", "no_hooks"},
   PROTOTYPE_ABI_UNRESOLVED |-> {"abi"} \cup PrototypeUnbound,
   STOLEN_INSTRUCTIONS_UNSAFE |-> {"stolen"} \cup PrototypeUnbound,
   TRAMPOLINE_UNSAFE |-> {"trampoline"} \cup PrototypeUnbound,
   CALLER_OWNER_CORRELATION_UNRESOLVED |-> {"manifest", "correlation"},
   SOURCE_MANIFEST_COMPILED_MISMATCH |-> {"manifest", "source"},
   CONTROLS_INSUFFICIENT |-> {"controls"},
   NEGATIVE_VALIDITY_POLICY_INCOMPLETE |-> {"policy"},
   EVENT_BOUNDS_INVALID |-> {"bounds"},
   BOOT_NOT_CONFIRMED |-> {"boot", "boot_session"},
   INSTALL_OK_INVALID |-> {"install", "manifest"},
   PROCESS_UNRESPONSIVE |-> {"unresponsive", "responsive_session"},
   DEBUGGER_HANDOFF_UNSAFE |-> {"debugger"},
   DEPLOYMENT_IDENTITY_INVALID |-> {"deployment", "deployment_install"}]

Reasons(f) == {r \in DOMAIN Causes : Causes[r] \cap f # {}}

Uncertainties == {"PROTOTYPE_ABI_UNRESOLVED", "CALLER_OWNER_CORRELATION_UNRESOLVED"}

NextAction(f) ==
  IF Reasons(f) = {} THEN "user_gameplay"
  ELSE IF Reasons(f) \subseteq Uncertainties THEN "bounded_x64dbg_proof" ELSE "repair_preflight"

(***************************************************************************)
(* result_validity.py                                                      *)
(***************************************************************************)
ResultChecks ==
  {"boot_ok", "install_ok", "game_fingerprint_match", "deployment_binding_exact", "module_base_emitted",
   "unfiltered_queries_observed", "record_layout_valid", "identity_filter_valid", "positive_control_or_population",
   "log_complete", "no_dropped_events", "user_state_confirmed", "correlation_contract_valid"}

\* _normalize_input: the caller's word for the correlation counts only with a contract that validates.
ChecksPassed(r) ==
  (ResultChecks \ r.flaws) \ (IF CorrelationValid(r.contract) THEN {} ELSE {"correlation_contract_valid"})

\* A family is saturated if the caller says so or the count is at the limit.
Saturated(s) == s.reached \/ s.observed >= s.limit

\* Mutant: a missing list of families is no reason.
ZeroReasonsLoose(r) == (ResultChecks \ ChecksPassed(r)) \cup (IF \E s \in r.families : Saturated(s) THEN {"event_family_saturated"} ELSE {})

\* _audit_zero_count
ZeroReasons(r) ==
  (ResultChecks \ ChecksPassed(r)) \cup (IF \E s \in r.families : Saturated(s) THEN {"event_family_saturated"} ELSE {})
    \cup (IF r.families = {} THEN {"event_family_saturation_missing"} ELSE {})

Verdict(r) ==
  CASE r.count = "null" -> "not_evaluated"
    [] r.count = "some" -> IF "correlation_contract_valid" \in ChecksPassed(r) THEN "positive_observation"
                           ELSE "capture_inconclusive"
    [] r.count = "zero" -> IF ZeroReasons(r) = {} THEN "confirmed_negative_in_covered_scope"
                           ELSE "capture_inconclusive"

(***************************************************************************)
(* overhead.py.  A level is its index in LEVELS; of the rates and times    *)
(* remains whether their upper bound is beyond the policy.                 *)
(***************************************************************************)
Levels == 0..4 \* OFF, MINIMAL, NORMAL, VERBOSE, TRACE

SourceReport == [level : Levels, steady : Levels, lossy : BOOLEAN, severe : BOOLEAN]

Recommended(s) == IF s.level < s.steady THEN s.level ELSE s.steady

InvalidationReasons(o) ==
  (IF o.responsive # "responsive" THEN {"responsiveness_not_confirmed"} ELSE {})
    \cup (IF o.responsive = "unresponsive" THEN {"severe_responsiveness_failure"} ELSE {})
    \cup (IF \E x \in Sources : o.source[x].severe THEN {"severe_timing_overhead"} ELSE {})
    \cup (IF \E x \in Sources : o.source[x].lossy THEN {"source_loss_or_saturation"} ELSE {})

SevereOverhead(o) == o.responsive = "unresponsive" \/ \E x \in Sources : o.source[x].severe

\* The lowest level that is recommended for any source.
ReducedLevel(o) ==
  LET levels == {Recommended(o.source[x]) : x \in Sources} IN CHOOSE l \in levels : \A k \in levels : l <= k

\* _overall_recommendation
Recommendation(o) ==
  IF SevereOverhead(o) THEN "CAPTURE_INVALID_OVERHEAD"
  ELSE IF \A x \in Sources : o.source[x].level <= Recommended(o.source[x]) THEN "KEEP_CURRENT"
  ELSE CASE ReducedLevel(o) = 0 -> "DISABLE_AFTER_VALIDATION"
         [] ReducedLevel(o) = 1 -> "REDUCE_TO_MINIMAL"
         [] ReducedLevel(o) = 2 -> "REDUCE_TO_NORMAL"
         [] ReducedLevel(o) \in {3, 4} -> "KEEP_CURRENT"

(***************************************************************************)
(* gameplay_observation.py.  A session: its completeness, its scope (test  *)
(* case and game build), the statuses of its steps, and what it saw of     *)
(* each assertion.                                                         *)
(***************************************************************************)
Statuses == {"PASS", "FAIL", "INCONCLUSIVE"} \* NOT_RUN is treated like INCONCLUSIVE

Observations == [status : Statuses, actual : {1, 2}]

\* What is said of an assertion that a session does not make.
Unmade == [status |-> "absent", actual |-> 0]

Made(s) == {a \in Assertions : s.seen[a] # Unmade}

\* _derived_result, of the steps and the assertions.
DerivedResult(s) ==
  LET statuses == s.steps \cup {s.seen[a].status : a \in Made(s)}
  IN  IF ~s.complete \/ "INCONCLUSIVE" \in statuses THEN "INCONCLUSIVE"
      ELSE IF "FAIL" \in statuses THEN "FAIL" ELSE "PASS"

\* Why compare_gameplay_observation_sessions draws no comparison; a drift of
\* the expected values is one of scope here.
DriftReasons(b, a) ==
  (IF ~b.complete \/ ~a.complete THEN {"INCOMPLETE_SESSION"} ELSE {})
    \cup (IF b.scope # a.scope THEN {"PLAYTEST_SCOPE_DRIFT"} ELSE {})
    \cup (IF Made(b) # Made(a) THEN {"ASSERTION_SET_DRIFT"} ELSE {})

Common(b, a) == Made(b) \cap Made(a)

\* What the comparison lists: the first `limit` assertions that both make.
Listed(b, a, limit) ==
  IF DriftReasons(b, a) # {} THEN {}
  ELSE {x \in Common(b, a) : Cardinality({y \in Common(b, a) : y < x}) < limit}

Changed(b, a, limit) == {x \in Listed(b, a, limit) : b.seen[x] # a.seen[x]}

Truncated(b, a, limit) == DriftReasons(b, a) = {} /\ Cardinality(Common(b, a)) > limit

-----------------------------------------------------------------------------
(***************************************************************************)
(* The evidence.                                                           *)
(***************************************************************************)
Sessions ==
  [complete : BOOLEAN, scope : {"same", "other"}, steps : SUBSET Statuses,
   seen : [Assertions -> Observations \cup {Unmade}]]

\* Sessions to start with: one step stands for all, and actual values are told
\* apart from those of the first session.
FirstSessions ==
  {s \in [complete : {TRUE}, scope : {"same"}, steps : {{x} : x \in Statuses},
           seen : [Assertions -> {o \in Observations : o.actual = 1} \cup {Unmade}]] : Made(s) # {}}
FamilyCounts == [observed : {1}, limit : 1..2, reached : BOOLEAN]

ProbeInit ==
  \/ facts = [topic |-> "readiness", flaws |-> {}]
  \/ \E c \in {"null", "zero", "some"}, contract \in {{}} \cup {{x} : x \in Correlations} :
       facts = [topic |-> "result", count |-> c, contract |-> contract, families |-> {}, flaws |-> {}]
  \/ \E s \in [Sources -> {r \in SourceReport : ~r.lossy /\ ~r.severe}] :
       facts = [topic |-> "overhead", responsive |-> "responsive", source |-> s]
  \/ \E s \in FirstSessions, limit \in 1..Cardinality(Assertions) :
       facts = [topic |-> "sessions", before |-> s, after |-> s, limit |-> limit]

ProbeNext ==
  \/ GetsWorse("readiness", ReadinessDefects, MaxProbeFlaws)
  \/ GetsWorse("result", ResultChecks, MaxProbeFlaws)
  \/ /\ About("result")
     /\ Cardinality(facts.families) < 2
     /\ \E s \in FamilyCounts : facts' = [facts EXCEPT !.families = @ \cup {s}]
  \/ /\ About("overhead")
     /\ \/ facts.responsive = "responsive" /\ \E r \in {"unresponsive", "not_observed"} : facts' = [facts EXCEPT !.responsive = r]
        \/ \E x \in Sources : facts' = [facts EXCEPT !.source[x].lossy = TRUE]
        \/ \E x \in Sources : facts' = [facts EXCEPT !.source[x].severe = TRUE]
  \/ /\ About("sessions")
     /\ \/ /\ \E a \in Assertions, o \in Observations \cup {Unmade} : facts' = [facts EXCEPT !.after.seen[a] = o]
           /\ Made(facts'.after) # {}
        \/ \E x \in Statuses : facts' = [facts EXCEPT !.after.steps = {x}]
        \/ facts' = [facts EXCEPT !.after.scope = "other"]
        \/ facts' = [facts EXCEPT !.after.complete = FALSE]

ProbeSpec == ProbeInit /\ [][ProbeNext]_facts

-----------------------------------------------------------------------------
(***************************************************************************)
(* Correctness.                                                            *)
(***************************************************************************)

\* A debugger proof is asked for only when it can be made and is all that is
\* missing: everything else is known to be in order, the module is bound and
\* there is a hook to stop at.  (probe_playtest_readiness, _bounded_proof_request)
ProofWillDo ==
  About("readiness") =>
    (NextAction(facts.flaws) = "bounded_x64dbg_proof" <=>
       facts.flaws # {} /\ facts.flaws \subseteq {"abi", "correlation"})

\* A negative is confirmed only for a whole capture: no check is open, there is
\* a correlation contract that proves its strategy and no better one was at
\* hand, and some family of events was counted, each below its limit.
\* (_audit_zero_count, _normalize_input, _validate_correlation)
NegativeEarned ==
  About("result") =>
    (Verdict(facts) = "confirmed_negative_in_covered_scope" =>
       /\ facts.flaws = {} /\ facts.families # {}
       /\ \A s \in facts.families : ~s.reached /\ s.observed < s.limit
       /\ \E c \in facts.contract :
            /\ ProofOf[c.strategy] \subseteq c.shown
            /\ c.separated => c.strategy = "bounded_x64dbg_proof" /\ ~(OwnerProof \subseteq c.shown))

\* What the overhead report recommends is never louder than what any source
\* does now, and a capture that was disturbed is not called complete.
\* (audit_probe_overhead, _overall_recommendation)
NeverLouder ==
  About("overhead") =>
    /\ Recommendation(facts) = "REDUCE_TO_NORMAL" => \A x \in Sources : facts.source[x].level >= 2
    /\ Recommendation(facts) = "REDUCE_TO_MINIMAL" => \A x \in Sources : facts.source[x].level >= 1
    /\ Recommendation(facts) = "CAPTURE_INVALID_OVERHEAD" => InvalidationReasons(facts) # {}

\* A comparison that is drawn and not cut off misses no assertion that changed,
\* and if the results of the two sessions differ although it shows no change, the
\* difference is in their steps, which count for a result and are not compared.
\* (compare_gameplay_observation_sessions, record_gameplay_observation_session)
ChangeReported ==
  About("sessions") =>
    LET b == facts.before
        a == facts.after
        cut == Truncated(b, a, facts.limit)
        changed == Changed(b, a, facts.limit)
    IN  DriftReasons(b, a) = {} /\ ~cut =>
          /\ \A x \in Made(b) \cup Made(a) : b.seen[x] # a.seen[x] => x \in changed
          /\ DerivedResult(b) # DerivedResult(a) => changed # {} \/ b.steps # a.steps

\* The verdicts on a probe say no more than its captures bear: on what is missing,
\* on a negative, on the overhead and on two sessions that differ.
\* (probe_playtest_readiness, _audit_zero_count, audit_probe_overhead,
\* compare_gameplay_observation_sessions)
ProbeVerdictsEarned ==
  /\ ProofWillDo
  /\ NegativeEarned
  /\ NeverLouder
  /\ ChangeReported
=============================================================================
