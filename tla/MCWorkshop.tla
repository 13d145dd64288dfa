----------------------------- MODULE MCWorkshop -----------------------------
(***************************************************************************)
(* The components of the helpers' desks that share no state, side by side  *)
(* for TLC: a behaviour works on one of them and the others stay in their  *)
(* initial state.                                                          *)
(***************************************************************************)
EXTENDS GuardedBuild, GhidraExport, ExactInspection, TableMerge,
        SourceEvidence, CandidatePlan

VARIABLE part  \* the component that this behaviour works on

vars == <<part, facts, buildVars, cacheVars, scratchVars, exportVars, pageVars, lifecycleVars, inspectVars, questVars>>

MCDetailSets == {<<1, 2, 1>>, <<2, 3>>, <<3, 1, 1, 2>>, <<>>, <<4>>}

MCParents == [c \in Candidates |-> IF c = "child" THEN "parent" ELSE NoCandidate]

\* One record in every shape, none, the same key twice, no key, half a key.
MCRecords(keys) ==
  [key : keys, attrs : [{"a"} -> {1, 2}] \cup {[a |-> 1, b |-> 1], [a |-> 2, b |-> 1], [a |-> 1, b |-> 2]}, children : {<<>>, <<"x">>}]
MCDocuments ==
  {<<r>> : r \in MCRecords({"k"})}
    \cup {<<>>} \cup {<<r, r>> : r \in {x \in MCRecords({"k", NoKey, "half"}) : x.attrs = [a |-> 1] /\ x.children = <<>>}}

\* Processes may change places, and so may providers, members of an archive, layers
\* and scratch workspaces.  A behaviour works on one component, so the twins of each
\* have the same names in the configuration and one exchange serves them all.
Twins == Permutations(Builders)

MCGraphSources ==
  {[path |-> 1, provider |-> "base", domain |-> "quest"], [path |-> 1, provider |-> "mod", domain |-> "quest"],
   [path |-> 2, provider |-> "mod", domain |-> "quest"], [path |-> 2, provider |-> "mod", domain |-> "dialog"]}

\* Two presets, each with at most two children of a few sorts; 3 is no preset.
MCChildren == {[to |-> 0, amount |-> 2, level |-> 0], [to |-> 0, amount |-> 1, level |-> 2],
               [to |-> 2, amount |-> 3, level |-> 0], [to |-> 1, amount |-> 1, level |-> 1], [to |-> 3, amount |-> 1, level |-> 0]}
MCPresetTables == [{1, 2} -> BoundedSeq(MCChildren, 2)]

\* Two builds of the candidate's package and two of another one.
MCBuildsMade ==
  {[artifact |-> "a", spec |-> 1, profile |-> 1, changed |-> TRUE, gate |-> "CLEAR", passed |-> TRUE],
   [artifact |-> "a", spec |-> 2, profile |-> 1, changed |-> FALSE, gate |-> "CLEAR", passed |-> TRUE],
   [artifact |-> "b", spec |-> 1, profile |-> 1, changed |-> TRUE, gate |-> "BLOCKED", passed |-> TRUE],
   [artifact |-> "b", spec |-> 2, profile |-> 2, changed |-> FALSE, gate |-> "CLEAR", passed |-> FALSE]}

One(S) == CHOOSE x \in S : TRUE

Init ==
  /\ part \in {"build", "cache", "scratch", "export", "pages", "lifecycle", "inspection", "quest", "decisions"}
  /\ BuildInit /\ (part # "build" => inputs = One(InputVersions) /\ staging = [x \in Transactions |-> NoStaging])
  /\ CacheInit /\ (part # "cache" => archive = One(Archives))
  /\ ScratchInit /\ (part # "scratch" => source = One(SourceVersions))
  /\ ExportInit /\ (part # "export" => projectOf = [w \in Wrappers |-> One(Projects)] /\ operationOf = [w \in Wrappers |-> One(Operations)])
  /\ PagesInit /\ (part # "pages" => detail = <<>>)
  /\ LifecycleInit
  /\ InspectInit /\ (part # "inspection" => folder = [f \in ModFiles |-> Link] /\ scan = NewScan(One(FileLimits), One(ByteLimits), One(EntryLimits), TRUE))
  /\ QuestInit /\ (part # "quest" => game.honest)
  /\ CASE part = "decisions" -> TableInit \/ PathsInit \/ PresetsInit \/ ClaimsInit \/ ReviewInit
       [] OTHER -> facts = Unasked

\* The components that the behaviour does not work on.
Still ==
  /\ part # "build" => UNCHANGED buildVars
  /\ part # "cache" => UNCHANGED cacheVars
  /\ part # "scratch" => UNCHANGED scratchVars
  /\ part # "export" => UNCHANGED exportVars
  /\ part # "pages" => UNCHANGED pageVars
  /\ part # "lifecycle" => UNCHANGED lifecycleVars
  /\ part # "inspection" => UNCHANGED inspectVars
  /\ part # "quest" => UNCHANGED questVars
  /\ part # "decisions" => UNCHANGED facts

Next ==
  /\ \/ part = "build" /\ BuildNext
     \/ part = "cache" /\ CacheNext
     \/ part = "scratch" /\ ScratchNext
     \/ part = "export" /\ ExportNext
     \/ part = "pages" /\ PagesNext
     \/ part = "lifecycle" /\ LifecycleNext
     \/ part = "inspection" /\ InspectNext
     \/ part = "quest" /\ QuestNext
     \/ part = "decisions"
          /\ (TableNext \/ PathsNext \/ PresetsNext \/ ClaimsNext \/ ReviewNext)
  /\ Still
  /\ UNCHANGED part

Spec == Init /\ [][Next]_vars

\* What several providers write into one table, preset or path comes out as the
\* game's own rule has it: the merge agrees with its reference definition, the audit
\* names the writers, and a declared winner or the absence of a conflict rests on a
\* survey that calls each of its layers complete.  (table_semantics.py, portfolio_table_audit.py,
\* inventory_presets.py, path_contributions.py, conflict_classifier.py)
WinnersTrue ==
  /\ ResolvedIsLastWriter
  /\ UnchangedMeansUnchanged
  /\ AuditNamesWriters
  /\ CompleteIsEverything
  /\ DeclaredReallyWins
  /\ ConfirmedNoneIsNone
=============================================================================
