-------------------------- MODULE AcceptanceGates --------------------------
(***************************************************************************)
(* The acceptance of a stack of mods in toolchain-core: a manifest of the  *)
(* stack (compatibility_stacks.py), an audit of the files and a capture of *)
(* a game session are written at different times, while the player changes *)
(* what is active, and one of five evaluations gates them together         *)
(* (their modules end in "acceptance").  The acceptance of a read-only run *)
(* (live_readonly_acceptance.py) compares what is protected around each of *)
(* its cases.                                                              *)
(***************************************************************************)
EXTENDS Evidence, Sequences

CONSTANTS
  Projects,        \* members of a stack that provide the resource
  MaxActivations,  \* bound on what was active in turn
  MaxStackFlaws,   \* bound on the defects of the evidence
  Subjects,        \* protected files of a read-only run
  Cases            \* cases of a read-only run

StackKinds == {"balance", "ai_world", "ui_visual", "animation", "scripting"}

\* A defect, the gate that it reaches, whether it fails the gate (else it
\* leaves it open), and the defects in presence of which it only leaves it open.
Effect(flaw, gate, fails, unless) == [flaw |-> flaw, gate |-> gate, fails |-> fails, unless |-> unless]
Fails(flaws, gate) == {Effect(x, gate, TRUE, {}) : x \in flaws}
Opens(flaws, gate) == {Effect(x, gate, FALSE, {}) : x \in flaws}
FailsUnless(flaws, gate, unless) == {Effect(x, gate, TRUE, unless) : x \in flaws}

\* compatibility_stacks: _result over the checks and the coverage of a manifest.
\* An evaluation that knows no open stack fails it.
StackEffects(kind) ==
  Fails(IF kind = "scripting" THEN {"check_failed"} ELSE {"family", "check_failed"}, "stack")
    \cup (IF kind \in {"ui_visual", "animation"} THEN Fails({"check_not_run", "coverage_partial"}, "stack")
          ELSE Opens({"check_not_run", "coverage_partial"}, "stack"))

\* balance_table_rpg_acceptance
TableEffects ==
  Opens({"audit_inconclusive", "table_unresolved"}, "table_semantics")
    \cup FailsUnless({"audit_issues"}, "table_semantics", {"audit_inconclusive"})
    \cup Fails({"baseline_table_missing", "table_type", "value_mismatch"}, "table_semantics")
ReferenceEffects ==
  Fails({"reference_missing", "upstream_restored"}, "references") \cup Opens({"reference_unseen"}, "references")
InventoryEffects ==
  FailsUnless({"chain_cycle"}, "inventory", {"chain_limit"}) \cup Opens({"chain_limit"}, "inventory")
    \cup Fails({"chain_item_missing"}, "inventory")
BalanceEffects ==
  TableEffects \cup ReferenceEffects \cup InventoryEffects
    \cup Fails({"winner_unbound", "attribute_lost"}, "winners")
    \cup Fails({"effect_unbound", "effect_mismatch"}, "compounded_effects") \cup Fails({"tbl_blocked"}, "tbl_release")

\* ai_world_acceptance
AIWorldEffects ==
  LET partial == {"quest_partial", "world_partial"} IN
  Fails({"variant_unbound"}, "stack") \cup Fails({"winner_unbound"}, "winners") \cup Opens(partial, "graph_topology")
    \cup FailsUnless({"path_unresolved"}, "paths", partial)
    \cup FailsUnless({"scheduler_unowned"}, "scheduler_ownership", {"world_partial"})
    \cup Opens({"capture_incomplete"}, "runtime_capture")
    \cup FailsUnless({"identity_unbound"}, "runtime_capture", {"capture_incomplete"})
    \cup Opens({"state_unproven", "identity_unbound"}, "persistence")

\* ui_visual_localization_acceptance: that the capture is incomplete is a
\* reason and reaches no gate.
UIVisualEffects ==
  Fails({"variant_unbound"}, "stack") \cup Fails({"winner_unbound"}, "winners")
    \cup Opens({"language_partial"}, "language_mounts")
    \cup FailsUnless({"mount_collision"}, "language_mounts", {"language_partial"})
    \cup Opens({"focus_lost", "input_held"}, "focus_input_lifecycle") \cup Opens({"aspect_unproven"}, "aspect_behavior")
    \cup Opens({"listener_left"}, "listener_cleanup") \cup Opens({"fallback_unproven"}, "resource_fallbacks")
    \cup Fails({"identity_unbound"}, "runtime_identity")

\* animation_haptic_acceptance
AnimationEffects ==
  Fails({"variant_unbound"}, "stack") \cup Fails({"winner_unbound"}, "winners") \cup Fails({"route_uncovered"}, "animation_route_coverage")
    \cup Fails({"role_mismatch"}, "role_compatibility") \cup Fails({"event_mismatch"}, "animevent_event_routes")
    \cup Fails({"identity_unbound"}, "configuration_and_identity")
    \cup Fails({"scope_leak"}, "scope_isolation") \cup Fails({"non_finite_exit"}, "finite_exit")
    \cup Opens({"capture_incomplete"}, "controller_behavior") \cup Opens({"capture_incomplete"}, "fallback_behavior")
    \cup FailsUnless({"controller_mismatch"}, "controller_behavior", {"capture_incomplete"})
    \cup FailsUnless({"fallback_unseen"}, "fallback_behavior", {"capture_incomplete"})
    \cup Opens({"capture_incomplete", "haptics_unproven"}, "haptics_preservation")

\* core_scripting_acceptance: the captures are bound to members, and to no snapshot.
ScriptingEffects ==
  Fails({"collision"}, "namespace_collisions") \cup Fails({"listener_leak", "double_start"}, "runtime_lifecycle")
    \cup Opens({"capture_incomplete"}, "runtime_lifecycle") \cup Opens({"error_rate"}, "custom_log_error_rate")
    \cup Opens({"overhead_incomplete"}, "overhead") \cup Fails({"mutation"}, "non_mutation")

EffectsOf(kind) ==
  StackEffects(kind) \cup
    (CASE kind = "balance" -> BalanceEffects
       [] kind = "ai_world" -> AIWorldEffects
       [] kind = "ui_visual" -> UIVisualEffects
       [] kind = "animation" -> AnimationEffects
       [] OTHER -> ScriptingEffects)

(***************************************************************************)
(* What was active in turn is a sequence of snapshots, each with the       *)
(* project that wins the resource; a session plays one of them.            *)
(***************************************************************************)
NotWritten == [at |-> 0]

\* Mutant: a session of the stack need not have played its snapshot.
IdentityBoundBySession(f) == f.capture.session \in f.stack.sessions

\* The snapshots of the stack, of the audit and of the capture are one, and the
\* session is one that the stack names.
IdentityBound(f) ==
  /\ f.capture.at = f.stack.at /\ f.audit.at = f.stack.at
  /\ f.capture.session \in f.stack.sessions

\* The winner that the audit found is the one that the stack intends.
WinnerBound(f) == f.audit.winner = f.stack.intended

\* The defects of the evidence, those included that lie in its parts together.
Defects(f) ==
  f.flaws \cup (IF WinnerBound(f) THEN {} ELSE {"winner_unbound"})
    \cup (IF IdentityBound(f) THEN {} ELSE {"identity_unbound"})

\* _gate
GateStatus(f, gate) ==
  LET seen == Defects(f)
      hit == {e \in EffectsOf(f.kind) : e.gate = gate /\ e.flaw \in seen} IN
  CASE \E e \in hit : e.fails /\ e.unless \cap seen = {} -> "FAIL"
    [] hit # {} /\ ~(\E e \in hit : e.fails /\ e.unless \cap seen = {}) -> "INCONCLUSIVE"
    [] OTHER -> "PASS"

\* _status
Acceptance(f) ==
  LET statuses == {GateStatus(f, e.gate) : e \in EffectsOf(f.kind)} IN
  CASE "FAIL" \in statuses -> "FAIL"
    [] "FAIL" \notin statuses /\ "INCONCLUSIVE" \in statuses -> "INCONCLUSIVE"
    [] OTHER -> "PASS"

(***************************************************************************)
(* live_readonly_acceptance: around each case the digests of the protected *)
(* subjects are taken; 0 stands for a subject that does not exist.         *)
(***************************************************************************)
Revisions(protected) == {<<s, protected[s]>> : s \in {x \in Subjects : protected[x] # 0}}

Drifted(c) == {s \in Subjects : \E v \in 1..2 : <<s, v>> \in (c.before \ c.after) \cup (c.after \ c.before)}

\* _evaluate_observation: what the case says of itself, unless it wrote.
CaseStatus(c) == IF c.wrote \/ Drifted(c) # {} THEN "FAIL" ELSE c.status

ReadOnlyStatus(f) ==
  LET statuses == {CaseStatus(f.done[c]) : c \in DOMAIN f.done} IN
  CASE DOMAIN f.done # Cases -> "refused"
    [] DOMAIN f.done = Cases /\ "FAIL" \in statuses -> "FAIL"
    [] DOMAIN f.done = Cases /\ "FAIL" \notin statuses /\ "BLOCKED" \in statuses -> "BLOCKED"
    [] DOMAIN f.done = Cases /\ statuses \cap {"FAIL", "BLOCKED"} = {} /\ "INCONCLUSIVE" \in statuses -> "PARTIAL"
    [] OTHER -> "PASS"

NoCase == "none"

-----------------------------------------------------------------------------
AcceptanceInit ==
  \/ \E k \in StackKinds, p \in Projects :
       facts = [topic |-> "acceptance", kind |-> k, active |-> <<p>>, plays |-> <<>>,
                stack |-> NotWritten, audit |-> NotWritten, capture |-> NotWritten, flaws |-> {}]
  \/ facts = [topic |-> "readonly", protected |-> [s \in Subjects |-> 1], running |-> NoCase, before |-> {},
              touched |-> {}, atBegin |-> [s \in Subjects |-> 1], done |-> <<>>]

Activate ==
  /\ Len(facts.active) < MaxActivations
  /\ \E p \in Projects : facts' = [facts EXCEPT !.active = Append(@, p)]

Play ==
  /\ Len(facts.plays) < MaxActivations
  /\ facts' = [facts EXCEPT !.plays = Append(@, Len(facts.active))]

\* The manifest names some sessions, not only those of its snapshot, and a winner.
WriteManifest ==
  /\ facts.stack = NotWritten
  /\ \E s \in SUBSET (1..(Len(facts.plays) + 1)), p \in Projects :
       facts' = [facts EXCEPT !.stack = [at |-> Len(facts.active), intended |-> p, sessions |-> s]]

WriteAudit ==
  /\ facts.audit = NotWritten
  /\ facts' = [facts EXCEPT !.audit = [at |-> Len(facts.active), winner |-> facts.active[Len(facts.active)]]]

WriteCapture ==
  /\ facts.capture = NotWritten
  /\ \E i \in DOMAIN facts.plays : facts' = [facts EXCEPT !.capture = [at |-> facts.plays[i], session |-> i]]

Written(f) == NotWritten \notin {f.stack, f.audit, f.capture}

\* A case begins, somebody writes a protected subject, the case ends.
BeginCase ==
  /\ facts.running = NoCase
  /\ \E c \in Cases \ DOMAIN facts.done :
       facts' = [facts EXCEPT !.running = c, !.before = Revisions(facts.protected), !.atBegin = facts.protected]

TouchProtected ==
  \E s \in Subjects, v \in 0..2 :
    /\ v # facts.protected[s] /\ Cardinality(facts.touched \cup {s}) <= 1
    /\ facts' = [facts EXCEPT !.protected[s] = v, !.touched = @ \cup {s}]

EndCase ==
  /\ facts.running # NoCase
  /\ \E w \in BOOLEAN, st \in {"PASS", "INCONCLUSIVE", "BLOCKED", "FAIL"} :
       facts' = [facts EXCEPT !.running = NoCase, !.before = {},
                              !.done = [c \in DOMAIN facts.done \cup {facts.running} |->
                                 IF c \in DOMAIN facts.done THEN facts.done[c]
                                 ELSE [before |-> facts.before, after |-> Revisions(facts.protected), wrote |-> w, status |-> st,
                                       intact |-> facts.atBegin = facts.protected]]]

AcceptanceNext ==
  \/ About("acceptance") /\ (Activate \/ Play \/ WriteManifest \/ WriteAudit \/ WriteCapture)
  \* defects within the parts, of evidence whose parts fit together
  \/ About("acceptance") /\ Written(facts) /\ Defects(facts) = facts.flaws
       /\ GetsWorse("acceptance", {e.flaw : e \in EffectsOf(facts.kind)} \ {"winner_unbound", "identity_unbound"}, MaxStackFlaws)
  \/ About("readonly") /\ (BeginCase \/ TouchProtected \/ EndCase)

AcceptanceSpec == AcceptanceInit /\ [][AcceptanceNext]_facts

-----------------------------------------------------------------------------
\* A stack that passes was played as it is: in the evaluations that bind their
\* evidence to a snapshot, the session that was captured played the snapshot of
\* the manifest, in which the intended project wins the resource.  In the one of
\* tables, which binds no snapshot, the intended project won when the files were
\* audited.
PassedAsPlayed ==
  About("acceptance") /\ Written(facts) =>
    (Acceptance(facts) = "PASS" =>
       /\ facts.kind \in {"ai_world", "ui_visual", "animation"} =>
            /\ facts.plays[facts.capture.session] = facts.stack.at
            /\ facts.active[facts.plays[facts.capture.session]] = facts.stack.intended
       /\ facts.kind = "balance" => facts.active[facts.audit.at] = facts.stack.intended)

\* What is only incomplete does not fail a stack: without any contradiction, the
\* evaluations that know an open stack answer that nothing can be concluded.
IncompleteIsOpen ==
  About("acceptance") /\ Written(facts) /\ facts.kind \in {"balance", "ai_world", "scripting"} =>
    (Defects(facts) # {} /\ Defects(facts) \subseteq {"check_not_run", "coverage_partial", "audit_inconclusive",
         "table_unresolved", "reference_unseen", "chain_limit", "quest_partial", "world_partial", "capture_incomplete",
         "state_unproven", "overhead_incomplete"} => Acceptance(facts) = "INCONCLUSIVE")

\* A read-only run passes only if every case ended with each protected subject as
\* it was when the case began; between two cases the subjects may change.
ReadOnlyPass ==
  About("readonly") =>
    (ReadOnlyStatus(facts) = "PASS" => DOMAIN facts.done = Cases /\ \A c \in Cases : facts.done[c].intact)

\* Acceptance says what was played: a stack passes as it was played, fails only on a
\* contradiction, and a read-only run passes only without a change.
\* (the evaluate_..._acceptance functions of toolchain-core)
AcceptedAsPlayed ==
  /\ PassedAsPlayed
  /\ IncompleteIsOpen
  /\ ReadOnlyPass
=============================================================================
