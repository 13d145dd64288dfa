---------------------------- MODULE ReleaseBuild ----------------------------
(***************************************************************************)
(* release_staging.py: six scripts that build a release of the toolchain   *)
(* from the repository into an output folder.  Each is a sequence of       *)
(* steps; meanwhile the repository may be edited, a file of the output may *)
(* be damaged, and the process may die.  A later build, of the same        *)
(* release or of another, starts over what is left.                        *)
(***************************************************************************)
EXTENDS Evidence, Naturals, Sequences

CONSTANTS
  MaxEdits,    \* bound on edits and commits of the repository
  MaxBuilds,   \* bound on builds that are started
  Tasks,       \* tasks of the backlog; the first of them is the release's
  ReleaseTask

\* A release is a task of the backlog; if it is missing, the script raises.
ASSUME ReleaseAssumption == ReleaseTask \in Tasks

BuildStep(op, name) == [op |-> op, name |-> name]
Each(op, names) == [i \in DOMAIN names |-> BuildStep(op, names[i])]
ClearOutput == BuildStep("clear", "")
ManifestOf(kind) == BuildStep("manifest", kind)
WriteSums == BuildStep("sums", "")
ValidateOutput == BuildStep("validate", "")
ReturnReceipt == BuildStep("return", "")

(***************************************************************************)
(* The steps.  "check" may find what it looks at wanting and raise.        *)
(***************************************************************************)
\* The beginning of each script: roots and profile, the source identity, the
\* dependencies, and only then the removal of the former output.
Opening(checks) == <<BuildStep("check", "profile"), BuildStep("identity", "")>> \o Each("check", checks) \o <<ClearOutput>>

\* The end: the manifest, the sums and the validation of a release, and the receipt.
Sealing(kind) == <<ManifestOf(kind), WriteSums, ValidateOutput>>
Returning == <<ReturnReceipt>>

\* A report may be the result of a check that raises.
CheckedReport(name) == <<BuildStep("check", name), BuildStep("report", name)>>
Plugins == <<"mod_build_deploy", "native_probes", "research_graph">>

GeneralPackages == Each("package", <<"adapter", "runtime", "mod_build_deploy">>) \o Each("check", <<"dry_runs">>)
GeneralReports ==
  CheckedReport("changed_files") \o CheckedReport("coverage") \o Each("report", <<"migration", "rollback">>)
    \o CheckedReport("test_receipts") \o Each("report", <<"boundaries">>)
GeneralSteps == Opening(<<"dependencies">>) \o GeneralPackages \o GeneralReports \o Sealing("general") \o Returning

R4Packages ==
  Each("package", <<"adapter", "runtime", "mod_build_deploy", "native_probes">>)
    \o Each("check", <<"dry_run_mod_build_deploy", "dry_run_native_probes", "tool_inventory">>)
R4Reports ==
  CheckedReport("changed_files") \o CheckedReport("coverage") \o Each("report", <<"tool_inventory", "surface_receipts">>)
    \o CheckedReport("negative_claims") \o Each("report", <<"dry_runs">>) \o CheckedReport("test_receipts")
    \o Each("report", <<"boundaries">>)
R4Steps == Opening(<<"dependencies">>) \o R4Packages \o R4Reports \o Sealing("r4") \o Returning

\* What releases with plugins begin with.
BasePackages == Each("check", <<"declarations">>) \o Each("package", <<"adapter", "runtime">>)

\* Each plugin is installed and rolled back in a folder of its own, and the
\* two reports about that are written: in R5 when all of them are packaged.
R5DryRuns ==
  CheckedReport("dry_run_mod_build_deploy") \o CheckedReport("dry_run_native_probes") \o CheckedReport("dry_run_research_graph")
R5Packages == BasePackages \o Each("package", Plugins) \o R5DryRuns
R5Reports ==
  Each("check", <<"tool_catalog", "dossier">>) \o Each("report", <<"tool_catalog", "dossier">>)
    \o CheckedReport("changed_files") \o CheckedReport("test_receipts") \o Each("report", <<"boundaries">>)
    \o CheckedReport("copied_receipts")
R5Steps == Opening(<<"dependencies">>) \o R5Packages \o R5Reports \o Sealing("r5") \o Returning

\* In R6 before the next one is packaged.
PluginPackage(name, dryRun) == Each("package", <<name>>) \o CheckedReport(dryRun)
PluginPackages ==
  PluginPackage("mod_build_deploy", "dry_run_mod_build_deploy")
    \o PluginPackage("native_probes", "dry_run_native_probes")
    \o PluginPackage("research_graph", "dry_run_research_graph")

R6Packages == BasePackages \o PluginPackages \o PluginPackage("orchestrator", "dry_run_orchestrator")
R6Reports ==
  Each("check", <<"tool_catalog", "dossier", "channels">>) \o Each("report", <<"tool_catalog", "dossier", "channels">>)
    \o CheckedReport("changed_files") \o CheckedReport("test_receipts") \o Each("report", <<"boundaries">>)
    \o CheckedReport("copied_receipts")
R6Build == Opening(<<"dependencies">>) \o R6Packages \o R6Reports \o Sealing("r6")
R6Steps == R6Build \o Returning

\* The next release is built over a whole build of the former one, whose
\* packages of plugins it keeps under another name.  What it builds anew
\* replaces a package of the former one.
R7Packages ==
  <<BuildStep("identity", ""), BuildStep("check", "dependencies")>> \o Each("keep", Plugins)
    \o Each("package", <<"adapter", "runtime", "orchestrator", "contracts_bundle">>)
R7Reports ==
  <<BuildStep("drop_reports", "")>> \o CheckedReport("dry_run_plugins") \o CheckedReport("dry_run_orchestrator")
    \o Each("check", <<"tool_catalog", "provider_catalog", "dossier">>)
    \o Each("report", <<"tool_catalog", "provider_catalog", "dossier">>) \o CheckedReport("changed_files")
    \o CheckedReport("test_receipts") \o Each("report", <<"plans", "boundaries">>) \o CheckedReport("copied_receipts")
R7Steps ==
  Each("check", <<"profile">>) \o R6Build \o R7Packages \o R7Reports \o Sealing("r7") \o Returning

IntegratedPackages == Each("check", <<"declarations">>) \o Each("package", Append(Plugins, "contract_bundle")) \o Each("check", <<"lifecycle">>)
IntegratedReports ==
  CheckedReport("migration") \o CheckedReport("closure") \o Each("report", <<"tasks", "lifecycle">>)
    \o CheckedReport("boundaries") \o CheckedReport("test_receipts")
IntegratedSteps == Opening(<<"dependencies", "mandatory_tasks">>) \o IntegratedPackages \o IntegratedReports \o Sealing("integrated") \o Returning

Releases == {"general", "r4", "r5", "r6", "r7", "integrated"}
StepsOf(kind) ==
  CASE kind = "general" -> GeneralSteps [] kind = "r4" -> R4Steps [] kind = "r5" -> R5Steps
    [] kind = "r6" -> R6Steps [] kind = "r7" -> R7Steps [] OTHER -> IntegratedSteps

\* What the steps of a release make: its packages, those that it keeps, its reports.
StepsWith(kind, ops) == {i \in DOMAIN StepsOf(kind) : StepsOf(kind)[i].op \in ops}
PackagesOf == [kind \in Releases |-> {StepsOf(kind)[i].name : i \in StepsWith(kind, {"package", "keep"})}]
KeptOf == [kind \in Releases |-> {StepsOf(kind)[i].name : i \in StepsWith(kind, {"keep"})}]
ReportsOf ==
  [kind \in Releases |->
     {StepsOf(kind)[i].name : i \in {j \in StepsWith(kind, {"report"}) : \A k \in StepsWith(kind, {"drop_reports"}) : k < j}}]

(***************************************************************************)
(* A package stands for the contents of the repository that it was built   *)
(* from; 0 is a damaged one.                                               *)
(***************************************************************************)
NoManifest == [kind |-> "none", revision |-> 0, clean |-> FALSE, packages |-> <<>>]
NoSums == [written |-> FALSE, packages |-> <<>>, reports |-> {}, kind |-> "none"]
EmptyOutput == [packages |-> <<>>, reports |-> {}, manifest |-> NoManifest, sums |-> NoSums]

With(packages, name, content) ==
  [p \in DOMAIN packages \cup {name} |-> IF p = name THEN content ELSE packages[p]]

SumsOf(out) == [written |-> TRUE, packages |-> out.packages, reports |-> out.reports, kind |-> out.manifest.kind]

\* validate_staged_release: exactly the summed files, and the packages of the manifest.
Validates(out) ==
  /\ out.manifest.kind # "none" /\ out.sums = SumsOf(out)
  /\ \A p \in DOMAIN out.manifest.packages :
       p \in DOMAIN out.packages /\ out.packages[p] = out.manifest.packages[p]

\* Mutant: whether the work tree is modified is not asked.
IdentityHead(f) == [revision |-> f.head, clean |-> TRUE]

\* _source_identity
Identity(f) == [revision |-> f.head, clean |-> f.tree = f.head]

NotBuilding == [kind |-> "none", at |-> 0, revision |-> 0, clean |-> FALSE, built |-> <<>>]

Current(f) == StepsOf(f.build.kind)[f.build.at]
Done(f, out) == [f EXCEPT !.out = out, !.build.at = @ + 1]

\* A build has the value of `facts` after its next step.
AfterStep(f) ==
  LET s == Current(f)
      b == f.build
      out == f.out IN
  CASE s.op = "identity" -> [Done(f, out) EXCEPT !.build.revision = Identity(f).revision, !.build.clean = Identity(f).clean]
    [] s.op = "clear" -> [Done(f, EmptyOutput) EXCEPT !.damaged = FALSE]
    \* a package is written and hashed, under the name of a former one or another
    [] s.op = "package" -> [Done(f, [out EXCEPT !.packages = With(@, s.name, f.tree)])
                              EXCEPT !.build.built = With(@, s.name, f.tree)]
    \* the file of the former release is renamed and hashed
    [] s.op = "keep" -> [Done(f, out) EXCEPT !.build.built = With(@, s.name, out.packages[s.name])]
    [] s.op = "report" -> Done(f, [out EXCEPT !.reports = @ \cup {s.name}])
    [] s.op = "drop_reports" -> Done(f, [out EXCEPT !.reports = {}])
    [] s.op = "manifest" -> Done(f, [out EXCEPT !.manifest =
         [kind |-> s.name, revision |-> b.revision, clean |-> b.clean, packages |-> b.built]])
    [] s.op = "sums" -> Done(f, [out EXCEPT !.sums = SumsOf(out)])
    [] s.op = "return" -> [f EXCEPT !.build = NotBuilding, !.returned = b.kind]
    [] OTHER -> Done(f, out)

Raises(f) == [f EXCEPT !.build = NotBuilding, !.returned = "raised"]

(***************************************************************************)
(* _mandatory_task_state: the backlog is read, and the tasks on which the  *)
(* release depends, directly or not, are visited.  The list of those that  *)
(* are left may name a task again that was visited.                        *)
(***************************************************************************)
Precise(f, t) == f.status[t] \in {"done", "blocked_for_a_reason"}

ReadBacklog ==
  /\ ~facts.read
  /\ facts' = [facts EXCEPT !.read = TRUE, !.pending = facts.needs[ReleaseTask]]

PopVisited == \E t \in facts.pending \cap facts.visited : facts' = [facts EXCEPT !.pending = @ \ {t}]

VisitTask ==
  \E t \in facts.pending \ facts.visited :
    facts' = [facts EXCEPT !.pending = (@ \ {t}) \cup facts.needs[t], !.visited = @ \cup {t},
                           !.imprecise = IF Precise(facts, t) THEN @ ELSE @ \cup {t}]

TasksAccepted(f) == f.read /\ f.pending = {} /\ f.imprecise = {}

-----------------------------------------------------------------------------
\* What a general release left in the folder.
FormerOutput ==
  LET packages == [p \in PackagesOf["general"] |-> 1]
      out == [EmptyOutput EXCEPT !.packages = packages, !.reports = ReportsOf["general"],
                !.manifest = [kind |-> "general", revision |-> 1, clean |-> TRUE, packages |-> packages]] IN
  [out EXCEPT !.sums = SumsOf(out)]

ReleaseInit ==
  \/ \E old \in BOOLEAN :
       facts = [topic |-> "release", head |-> 1, tree |-> 1, edits |-> 0, builds |-> 0, quiet |-> TRUE, damaged |-> FALSE,
                out |-> IF old THEN FormerOutput ELSE EmptyOutput, before |-> EmptyOutput, build |-> NotBuilding, returned |-> "none"]
  \/ \E s \in [Tasks -> {"done", "blocked_for_a_reason", "open"}], n \in [Tasks -> SUBSET Tasks] :
       facts = [topic |-> "tasks", status |-> s, needs |-> n, read |-> FALSE, pending |-> {}, visited |-> {}, imprecise |-> {}]

StartRelease ==
  /\ facts.build = NotBuilding /\ facts.builds < MaxBuilds
  /\ \E k \in Releases :
       facts' = [facts EXCEPT !.build = [NotBuilding EXCEPT !.kind = k, !.at = 1], !.before = facts.out, !.builds = @ + 1,
                              !.quiet = TRUE, !.returned = "none"]

\* Some step of the build, or one that raises: a check, the reading of the
\* packages that are missing, or the validation.
StepRelease ==
  /\ facts.build # NotBuilding
  /\ LET s == Current(facts) IN
     \/ ~(s.op = "validate" /\ ~Validates(facts.out)) /\ facts' = AfterStep(facts)
     \/ (s.op = "check" \/ (s.op = "validate" /\ ~Validates(facts.out))) /\ facts' = Raises(facts)

BuildDies == facts.build # NotBuilding /\ facts' = [facts EXCEPT !.build = NotBuilding, !.returned = "died"]

\* The repository and the output are changed when the build is about to read
\* them, or is over: it cannot tell a change before that from one just then.
BeforeOneOf(ops) == facts.build # NotBuilding => Current(facts).op \in ops

EditTree ==
  /\ facts.edits < MaxEdits /\ BeforeOneOf({"identity", "package"})
  /\ facts' = [facts EXCEPT !.edits = @ + 1, !.tree = 1 + facts.edits + 1, !.quiet = FALSE]
CommitTree ==
  /\ facts.head # facts.tree /\ BeforeOneOf({"identity"})
  /\ facts' = [facts EXCEPT !.head = facts.tree, !.quiet = FALSE]

\* Another program damages a package or removes the reports.
DamageOutput ==
  /\ ~facts.damaged /\ BeforeOneOf({"keep", "sums", "validate"})
  /\ \/ \E p \in DOMAIN facts.out.packages : facts' = [facts EXCEPT !.damaged = TRUE, !.out.packages[p] = 0]
     \/ facts.out.reports # {} /\ facts' = [facts EXCEPT !.damaged = TRUE, !.out.reports = {}]

\* Somebody reopens a task before the backlog is read.
ReopenTask == ~facts.read /\ \E t \in Tasks : facts' = [facts EXCEPT !.status[t] = "open"]

ReleaseNext ==
  \/ About("release") /\ (StartRelease \/ StepRelease \/ BuildDies \/ EditTree \/ CommitTree \/ DamageOutput)
  \/ About("tasks") /\ (ReopenTask \/ ReadBacklog \/ PopVisited \/ VisitTask)

ReleaseSpec == ReleaseInit /\ [][ReleaseNext]_facts

-----------------------------------------------------------------------------
\* Whatever a crash or a damage leaves in the output, what validates is all of
\* one release, with the packages as they were built.  A package that a release
\* keeps from the former one is excepted: it is not compared with the hash that
\* it had there.  So are reports, unless they were lost after the sums: nothing
\* but the sums knows them.
ValidatesWhole ==
  About("release") =>
    (Validates(facts.out) =>
       LET m == facts.out.manifest IN
       /\ PackagesOf[m.kind] \subseteq DOMAIN facts.out.packages
       /\ \A p \in PackagesOf[m.kind] \ KeptOf[m.kind] : facts.out.packages[p] # 0
       /\ ~facts.damaged => ReportsOf[m.kind] \subseteq facts.out.reports)

\* A build that is refused for its profile or its dependencies leaves the former
\* output alone.  The release that is built over another one is excepted: it looks
\* at its own dependencies when the former output is gone.
FormerOutputKept ==
  About("release") =>
    (facts.build # NotBuilding /\ facts.build.kind # "r7" /\ Current(facts).op = "check"
       /\ Current(facts).name \in {"profile", "dependencies", "mandatory_tasks"} /\ ~facts.damaged
     => facts.out = facts.before)

\* If nobody touches the repository during the build, a release that calls its
\* source clean has every package from the revision that it names.
FromItsRevision ==
  About("release") =>
    (facts.returned \in Releases /\ facts.quiet /\ ~facts.damaged /\ facts.out.manifest.clean =>
       \A p \in DOMAIN facts.out.manifest.packages : facts.out.manifest.packages[p] = facts.out.manifest.revision)

\* The integrated release is refused if any task that it depends on, however
\* indirectly, is neither done nor blocked for a stated reason.
TasksAllPrecise ==
  About("tasks") =>
    (TasksAccepted(facts) =>
       \A S \in SUBSET Tasks :
         facts.needs[ReleaseTask] \subseteq S /\ (\A t \in S : facts.needs[t] \subseteq S)
           /\ (\A T \in SUBSET S : facts.needs[ReleaseTask] \subseteq T /\ (\A t \in T : facts.needs[t] \subseteq T) => T = S)
         => \A t \in S : Precise(facts, t))

\* A release is whole, from the revision that it names and after all of its tasks,
\* and a refused one leaves the former release in place.  (release_staging.py)
ReleasedWhole ==
  /\ ValidatesWhole
  /\ FormerOutputKept
  /\ FromItsRevision
  /\ TasksAllPrecise
=============================================================================
