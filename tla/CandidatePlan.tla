--------------------------- MODULE CandidatePlan ---------------------------
(***************************************************************************)
(* general_candidate_plan.py: the audit that says whether a candidate may  *)
(* be built.  It reads the mod's folder, a specification, the parent       *)
(* package, an inventory, a report of conflicts and a descriptor, some of  *)
(* them more than once, judges eight gates, and issues an identity that    *)
(* names what it looked at.  Other programs edit the files meanwhile.      *)
(* With the comparison of a candidate with its parent and the refresh of   *)
(* the index, and with the modules it extends, this is what is reviewed    *)
(* about a candidate from its plan to its rollback.                        *)
(***************************************************************************)
EXTENDS InstallGates, CandidateLifecycle

CONSTANT MaxPlanEdits  \* bound on edits of the files during one audit

PlanFiles == {"source", "spec", "parent", "inventory", "conflicts", "descriptor"}

\* The reads in their order, and the file that each is of.
PlanReads == <<"source", "spec_document", "spec_report", "parent", "profile", "inventory", "conflicts", "descriptor",
               "spec_named", "descriptor_named">>
FileRead(read) ==
  CASE read \in {"spec_document", "spec_report", "spec_named"} -> "spec"
    [] read = "profile" -> "parent"
    [] read = "descriptor_named" -> "descriptor"
    [] OTHER -> read

\* What a file holds: what the audit accepts, something else that is readable, or
\* what leaves the question open.
Holds(f, read, what) == f.read[read] = what
Fits(f, read) == Holds(f, read, "fit")

Gate(passes, opens) == IF passes THEN "PASS" ELSE IF opens THEN "CAPTURE_INCONCLUSIVE" ELSE "FAIL"

\* The parent has the hash that the specification names.
ParentGate(f) == Gate(Fits(f, "spec_document") /\ Fits(f, "parent"), FALSE)
ProfileGate(f) == Gate(Fits(f, "profile") /\ Fits(f, "spec_document"), FALSE)

\* _inventory_gate: the mod is listed, and everything that may override it was seen.
InventoryGate(f) == Gate(Fits(f, "inventory"), Holds(f, "inventory", "partial"))

\* _conflict_gate: absence is proved; a conflict that was seen fails.
ConflictGate(f) == Gate(Fits(f, "conflicts"), Holds(f, "conflicts", "partial"))

SourceGate(f) == Gate(~Holds(f, "source", "partial"), TRUE)
TopologyGate(f) == Gate(Fits(f, "source"), FALSE)
SpecGate(f) == Gate(Fits(f, "spec_report"), FALSE)
ComponentsGate(f) == Gate(Fits(f, "descriptor") /\ Fits(f, "spec_document"), FALSE)

PlanGates(f) ==
  <<SourceGate(f), ParentGate(f), TopologyGate(f), ProfileGate(f), InventoryGate(f), ConflictGate(f), ComponentsGate(f), SpecGate(f)>>

PlanReady(f) == f.next > Len(PlanReads) /\ \A i \in 1 .. 8 : PlanGates(f)[i] = "PASS"

\* What the identity names: the tree of the source, the parent and the inventory
\* as they were judged, the specification and the descriptor as they are hashed
\* at the end.
Named(f) ==
  [file \in {"source", "spec", "parent", "inventory", "descriptor"} |->
     f.read[CASE file = "spec" -> "spec_named" [] file = "descriptor" -> "descriptor_named" [] OTHER -> file]]

-----------------------------------------------------------------------------
PlanInit ==
  \E h \in [PlanFiles -> {"fit", "unfit", "partial"}] :
    facts = [topic |-> "plan", holds |-> h, next |-> 1, edits |-> 0, late |-> {}, read |-> [r \in {PlanReads[i] : i \in DOMAIN PlanReads} |-> "unread"]]

ReadForPlan ==
  /\ facts.next <= Len(PlanReads)
  /\ LET r == PlanReads[facts.next] IN facts' = [facts EXCEPT !.read[r] = facts.holds[FileRead(r)], !.next = @ + 1]

\* Some read of the file is done, and another is still to come.
BetweenReads(f, x) ==
  \E i, j \in DOMAIN PlanReads :
    i < f.next /\ f.next <= j /\ FileRead(PlanReads[i]) = x /\ FileRead(PlanReads[j]) = x

\* `late` are the files that were edited between two of their reads.
EditPlanFile ==
  /\ facts.edits < MaxPlanEdits
  /\ \E x \in PlanFiles, c \in {"fit", "unfit"} :
       facts' = [facts EXCEPT !.holds[x] = c, !.edits = @ + 1, !.late = IF BetweenReads(facts, x) THEN @ \cup {x} ELSE @]

PlanNext == About("plan") /\ (ReadForPlan \/ EditPlanFile)

-----------------------------------------------------------------------------
\* Whatever is edited before, during or after the reads of an audit, a plan that is
\* ready found every file fit in each of its reads, the one that is hashed for the
\* identity among them, but for a file that was itself edited between two of its
\* reads; and what the identity names as source, parent and inventory was judged
\* fit even then.  The specification and the descriptor are not: the audit judges
\* one read of them and hashes another (l. 283, 288), and names what it never saw.
ReadyNamesTheAccepted ==
  About("plan") =>
    (PlanReady(facts) =>
       /\ \A r \in DOMAIN facts.read : FileRead(r) \notin facts.late => facts.read[r] = "fit"
       /\ \A x \in {"source", "parent", "inventory"} : Named(facts)[x] = "fit")

-----------------------------------------------------------------------------
(***************************************************************************)
(* The comparison of a candidate's archive with its parent's               *)
(* (candidate_parent_diff.py): a ledger of what was added, removed and     *)
(* changed, of which every entry must be declared in the build spec.       *)
(***************************************************************************)

CONSTANTS
  MemberPaths,    \* paths of members in the archives
  MaxDeclared,    \* bound on the declarations of the spec
  MaxMemberEdits  \* bound on the edits that made the candidate

(***************************************************************************)
(* A member is a document with two areas that selectors can select, each a *)
(* sequence of records, and the rest.  `spacing` changes bytes only; a     *)
(* member that is no XML, or is too large to be parsed, has xml = FALSE.   *)
(***************************************************************************)
Areas == {"a", "b"}

ParentMember ==
  [there |-> TRUE, xml |-> TRUE, area |-> [s \in Areas |-> <<"old">>], rest |-> "old", spacing |-> "old"]
NoMember == [there |-> FALSE]

\* `fits`: the declaration names the digest of the parent's member.
Declarations ==
  [path : MemberPaths, kind : {"add_member", "remove_member", "replace_member"}, area : {"none"}, fits : BOOLEAN]
    \cup [path : MemberPaths, kind : {"patch_record"}, area : Areas, fits : BOOLEAN]

Declared(f, path, kind) == {d \in f.declared : d.path = path /\ d.kind = kind}
Fitting(f, path, kind) == {d \in Declared(f, path, kind) : d.fits}

\* _mask_node: every selected record gives way to a marker.
Masked(m, areas) ==
  [area |-> [s \in Areas |-> IF s \in areas THEN [i \in DOMAIN m.area[s] |-> "declared"] ELSE m.area[s]],
   rest |-> m.rest]

\* _xml_changes
PatchAuthorized(old, new, areas) ==
  /\ old.xml /\ new.xml /\ areas # {}
  /\ \A s \in areas : old.area[s] # <<>> /\ Len(old.area[s]) = Len(new.area[s])
  /\ \E s \in areas : old.area[s] # new.area[s]
  /\ Masked(old, areas) = Masked(new, areas)

\* _changed_member
ChangeDeclared(f, path) ==
  \/ Fitting(f, path, "replace_member") # {}
  \/ PatchAuthorized(f.parent[path], f.candidate[path], {d.area : d \in Fitting(f, path, "patch_record")})

\* _compare_members: the paths with an entry that nothing declares.
UndeclaredPaths(f) ==
  {path \in MemberPaths :
     LET old == f.parent[path]
         new == f.candidate[path] IN
     /\ old # new
     /\ CASE ~old.there -> Declared(f, path, "add_member") = {}
          [] ~new.there -> Fitting(f, path, "remove_member") = {}
          [] OTHER -> ~ChangeDeclared(f, path)}

\* candidate_parent_diff: `contaminated` says that a clean parent is given
\* and that some member of the declared parent differs from it.
DiffStatus(f) == IF UndeclaredPaths(f) # {} \/ f.contaminated THEN "FAIL" ELSE "PASS"

(***************************************************************************)
(* The spec declares, and the candidate is edited.                         *)
(***************************************************************************)
DiffInit ==
  \E there \in [MemberPaths -> BOOLEAN], c \in BOOLEAN :
    LET parent == [path \in MemberPaths |-> IF there[path] THEN ParentMember ELSE NoMember] IN
    facts = [topic |-> "parent diff", parent |-> parent, candidate |-> parent, contaminated |-> c, declared |-> {}, edits |-> 0]

\* The ways to change a member that is there.
EditsOf(m) ==
  {NoMember, [m EXCEPT !.rest = "new"], [m EXCEPT !.spacing = "new"], [m EXCEPT !.xml = FALSE]}
    \cup {[m EXCEPT !.area[s] = Append(@, "new")] : s \in {t \in Areas : Len(m.area[t]) < 2}}
    \cup {[m EXCEPT !.area[s] = <<>>] : s \in Areas}
    \cup {[m EXCEPT !.area[s][1] = "new"] : s \in {t \in Areas : m.area[t] # <<>>}}

DiffNext ==
  /\ About("parent diff")
  /\ \/ /\ Cardinality(facts.declared) < MaxDeclared /\ facts.edits = 0
        /\ \E d \in Declarations \ facts.declared : facts' = [facts EXCEPT !.declared = @ \cup {d}]
     \/ /\ facts.edits < MaxMemberEdits
        /\ \E path \in MemberPaths :
             \E m \in IF facts.candidate[path].there THEN EditsOf(facts.candidate[path]) ELSE {ParentMember} :
               facts' = [facts EXCEPT !.candidate[path] = m, !.edits = @ + 1]

-----------------------------------------------------------------------------
\* A candidate that passes differs from its parent in nothing but what the
\* spec declares: members added or removed under their declaration, members
\* replaced, and records changed one by one inside the areas that are
\* patched; a patch adds and removes no record and covers nothing else.
NothingUndeclared ==
  About("parent diff") /\ DiffStatus(facts) = "PASS" =>
    /\ ~facts.contaminated
    /\ \A path \in MemberPaths :
         LET old == facts.parent[path]
             new == facts.candidate[path]
             kinds == {d.kind : d \in {x \in facts.declared : x.path = path}}
             patched == {d.area : d \in Declared(facts, path, "patch_record")} IN
         CASE old = new -> TRUE
           [] old # new /\ ~old.there -> "add_member" \in kinds
           [] old # new /\ ~new.there -> "remove_member" \in kinds
           [] OTHER -> \/ "replace_member" \in kinds
                       \/ /\ old.rest = new.rest
                          /\ \A s \in Areas : Len(old.area[s]) = Len(new.area[s])
                          /\ \A s \in Areas \ patched : old.area[s] = new.area[s]

-----------------------------------------------------------------------------
(***************************************************************************)
(* refresh_orchestrator.py: one changed target of the index is refreshed   *)
(* through an executor that the caller brings.  The coordinator asks for   *)
(* an exact refresh of the observations of that target that are stale, and *)
(* judges the receipt.  Meanwhile the target is built anew, and executors  *)
(* refresh less than they were asked for, or more.                         *)
(***************************************************************************)

CONSTANTS
  Targets,       \* what observations are of; Refreshed is one of them
  Refreshed,     \* the one that is refreshed
  Observations,
  MaxRebuilds    \* bound on builds of the target

ASSUME ObservationsAreFinite == IsFiniteSet(Observations)

Freshnesses == {"fresh", "stale"}

OfTarget(f) == {o \in Observations : f.obs[o].target = Refreshed}

\* _is_stale: a target's own observations have to be of its present contents.
IsStale(f, o) == f.obs[o].freshness # "fresh" \/ (o \in OfTarget(f) /\ f.obs[o].version # f.version)
TargetStale(f) == {o \in OfTarget(f) : IsStale(f, o)}

NoRequest == [stale |-> {}, version |-> 0]
NoRefresh == [version |-> 0, ids |-> {}, others |-> 0, fault |-> "none"]

\* What an executor may say of itself that refuses its receipt whatever it did.
ExecutorFaults == {"none", "other_operation", "other_target", "scope_not_ok", "not_complete"}

\* _receipt_reasons
ReceiptRefused(f) ==
  \/ f.receipt.fault # "none"
  \/ f.receipt.version # f.request.version
  \/ f.receipt.ids # f.request.stale
  \/ f.receipt.others # 0

\* orchestrate_active_target_refresh up to the call of the executor
Orchestrate ==
  /\ facts.status = "idle"
  /\ facts' = IF OfTarget(facts) = {} THEN [facts EXCEPT !.status = "capture_inconclusive"]
              ELSE IF TargetStale(facts) = {} THEN [facts EXCEPT !.status = "fresh"]
              ELSE [facts EXCEPT !.status = "asked", !.request = [stale |-> TargetStale(facts), version |-> facts.version]]

\* The executor refreshes some observations from what it finds, and says so; what
\* it says of its operation, target, scope and coverage is its own word.
ExecuteRefresh ==
  /\ facts.status = "asked"
  /\ \E did \in SUBSET Observations, fault \in ExecutorFaults :
       facts' = [facts EXCEPT !.status = "returned", !.did = did,
                   !.obs = [o \in Observations |-> IF o \in did THEN [facts.obs[o] EXCEPT !.freshness = "fresh", !.version = facts.version]
                                                   ELSE facts.obs[o]],
                   !.receipt = [version |-> facts.version, ids |-> did \cap OfTarget(facts),
                                others |-> Cardinality(did \ OfTarget(facts)), fault |-> fault]]

\* The receipt is judged; conclusions stay in quarantine in either case.
JudgeRefresh ==
  /\ facts.status = "returned"
  /\ facts' = [facts EXCEPT !.status = IF ReceiptRefused(facts) THEN "capture_inconclusive" ELSE "refresh_confirmed"]

\* The target is built anew, before the executor looks at it or after.
RebuildTarget == facts.version < MaxRebuilds + 1 /\ facts.status # "idle" /\ facts' = [facts EXCEPT !.version = @ + 1]

-----------------------------------------------------------------------------
RefreshInit ==
  \E obs \in [Observations -> [target : Targets, version : {0, 1}, freshness : Freshnesses]] :
    facts = [topic |-> "refresh", obs |-> obs, version |-> 1, status |-> "idle", request |-> NoRequest, receipt |-> NoRefresh, did |-> {}]

RefreshNext == About("refresh") /\ (Orchestrate \/ ExecuteRefresh \/ JudgeRefresh \/ RebuildTarget)

-----------------------------------------------------------------------------
\* A refresh that is confirmed brought every observation of the target up to the
\* contents that the caller asked about, and touched no other target, although the
\* target may have been built anew before the executor or since.
ConfirmedIsExact ==
  About("refresh") =>
    (facts.status = "refresh_confirmed" =>
       /\ facts.did \subseteq OfTarget(facts)
       /\ \A o \in OfTarget(facts) : facts.obs[o].freshness = "fresh" /\ facts.obs[o].version = facts.request.version)

-----------------------------------------------------------------------------
ReviewInit == InstallGatesInit \/ PlanInit \/ DiffInit \/ RefreshInit
ReviewNext == InstallGatesNext \/ PlanNext \/ DiffNext \/ RefreshNext
ReviewSpec == ReviewInit /\ [][ReviewNext]_facts

\* From the plan to the rollback, what is done is what was looked at: the sources of
\* a plan, the differences from the parent, the package and the receipts of an
\* install, the decision behind an event, and the observations of a refresh.
\* (general_candidate_plan.py, candidate_parent_diff.py, atomic_deployment.py,
\* candidate_lifecycle.py, refresh_orchestrator.py)
InstalledIsReviewed ==
  /\ InstallTrue
  /\ InstalledAsApproved
  /\ OneEditRefused
  /\ RollbackAnchored
  /\ ReadyNamesTheAccepted
  /\ NothingUndeclared
  /\ ConfirmedIsExact
=============================================================================
