---------------------------- MODULE ActiveState -----------------------------
(***************************************************************************)
(* What is said of the mods that the running game has: latest_boot.py on   *)
(* the log that the game writes, and portfolio_active_state.py on evidence *)
(* gathered piece by piece while mods, load order and boots change.        *)
(***************************************************************************)
EXTENDS Evidence, Sequences

CONSTANTS
  PortfolioProjects,  \* the projects of the request
  MaxLogLines,        \* the parser's limit
  MaxWritten,         \* bound on the lines that the game writes
  MaxWorldChanges     \* bound on changes of the mods, the order, the index and on boots

\* A request without a project is refused.
ASSUME ActiveAssumption == PortfolioProjects # {} /\ MaxLogLines \in Nat

Latest(boots) == boots[Len(boots)]

(***************************************************************************)
(* latest_boot.py.  A line of the log is the set of patterns it matches;   *)
(* "open" is the selected package, "broken" an event with an empty group.  *)
(* The game may die and start again in the same log or in a fresh one.     *)
(***************************************************************************)
LogLines == {{"start"}, {"open"}, {"broken"}, {"complete"}, {"open", "complete"}}

NewBoot == [opened |-> FALSE, broken |-> FALSE, done |-> FALSE]

\* What the boots really were: history, which the parser does not see.
BootsAfter(boots, line) ==
  IF "start" \in line THEN Append(boots, NewBoot)
  ELSE IF boots = <<>> \/ Latest(boots).done THEN boots
  ELSE [boots EXCEPT ![Len(boots)] =
          [opened |-> @.opened \/ "open" \in line, broken |-> @.broken \/ "broken" \in line, done |-> "complete" \in line]]

NothingParsed == [within |-> FALSE, opened |-> FALSE, broken |-> FALSE, boots |-> <<>>]

ParseLine(state, line) ==
  IF "start" \in line THEN [NothingParsed EXCEPT !.within = TRUE, !.boots = state.boots]
  ELSE IF ~state.within THEN state
  ELSE LET opened == state.opened \/ "open" \in line
           broken == state.broken \/ "broken" \in line IN
       IF "complete" \in line
       THEN [NothingParsed EXCEPT !.boots = Append(state.boots, [opened |-> opened, broken |-> broken])]
       ELSE [state EXCEPT !.opened = opened, !.broken = broken]

\* _parse_boots
Parsed(log) ==
  LET parse[n \in 0..Len(log)] == IF n = 0 THEN NothingParsed ELSE ParseLine(parse[n - 1], log[n]) IN
  parse[Len(log)]

ParseBoots(log) == Parsed(log).boots

\* parse_latest_boot: the conclusion and the reason.
BootReceipt(f) ==
  LET boots == ParseBoots(f.log) IN
  CASE ~f.readable -> <<"incomplete", "BOOT_LOG_UNREADABLE">>
    [] f.readable /\ Len(f.log) > MaxLogLines -> <<"incomplete", "BOOT_LOG_LINE_LIMIT_EXCEEDED">>
    [] f.readable /\ Len(f.log) <= MaxLogLines /\ boots = <<>> -> <<"incomplete", "NO_COMPLETE_BOOT">>
    [] OTHER -> CASE Latest(boots).broken -> <<"incomplete", "PAK_OPEN_CAPTURE_INVALID">>
                  [] ~Latest(boots).broken /\ Latest(boots).opened -> <<"confirmed", "none">>
                  [] OTHER -> <<"not_observed", "EXACT_PAK_OPEN_NOT_OBSERVED">>

LogWritten(f, line, log) ==
  [f EXCEPT !.log = Append(log, line), !.boots = BootsAfter(@, line), !.written = @ + 1]

(***************************************************************************)
(* portfolio_active_state.py.  The mods and the load order have one of two *)
(* values and may go back to an earlier one; the index holds the mods as   *)
(* they were when it was built.  Each piece of evidence is gathered once.  *)
(***************************************************************************)
Unseen == [seen |-> FALSE]

NoWorld ==
  [topic |-> "active", mods |-> 0, order |-> 0, indexed |-> FALSE, index |-> 0, boots |-> <<>>, changes |-> 0,
   snapshot |-> Unseen, modOrder |-> Unseen, latestBoot |-> Unseen, installed |-> Unseen,
   sessions |-> [p \in PortfolioProjects |-> Unseen], inventory |-> "complete"]

Gathered(f) == \A e \in {f.snapshot, f.modOrder, f.latestBoot, f.installed} : e.seen

\* The coverage of the inventory and that of the snapshot.
CompleteCoverage(f) == f.inventory # "partial"

\* What is wrong with the evidence that all projects share.
GlobalReasons(f) ==
  {r \in {"SNAPSHOT_COVERAGE_PARTIAL", "ACTIVE_SNAPSHOT_STALE", "MOD_ORDER_SNAPSHOT_DRIFT", "LATEST_BOOT_SNAPSHOT_DRIFT",
          "LATEST_BOOT_MOD_ORDER_DRIFT", "LATEST_COMPLETE_BOOT_MISSING"} :
     CASE r = "SNAPSHOT_COVERAGE_PARTIAL" -> ~CompleteCoverage(f)
       [] r = "ACTIVE_SNAPSHOT_STALE" -> ~f.snapshot.current
       [] r = "MOD_ORDER_SNAPSHOT_DRIFT" -> f.modOrder.snapshot # f.snapshot.id
       [] r = "LATEST_BOOT_SNAPSHOT_DRIFT" -> f.latestBoot.mods # f.snapshot.id
       [] r = "LATEST_BOOT_MOD_ORDER_DRIFT" -> f.latestBoot.order # f.modOrder.order
       [] OTHER -> ~f.latestBoot.complete}

SemanticStatus(f) ==
  CASE ~f.installed.indexed -> "missing"
    [] f.installed.indexed /\ (~f.installed.current \/ f.installed.snapshot # f.snapshot.id \/ ~f.snapshot.current) -> "stale"
    [] OTHER -> IF CompleteCoverage(f) THEN "current" ELSE "partial"

\* Mutant: a session may be of an earlier boot.
SessionDriftsOfAnyBoot(f, p) ==
  {r \in {"RUNTIME_LATEST_BOOT_DRIFT", "RUNTIME_ACTIVE_SNAPSHOT_DRIFT", "RUNTIME_MOD_ORDER_DRIFT"} :
     /\ f.sessions[p].seen
     /\ CASE r = "RUNTIME_LATEST_BOOT_DRIFT" -> FALSE
          [] r = "RUNTIME_ACTIVE_SNAPSHOT_DRIFT" -> f.sessions[p].mods # f.snapshot.id
          [] OTHER -> f.sessions[p].order # f.modOrder.order}

SessionDrifts(f, p) ==
  {r \in {"RUNTIME_LATEST_BOOT_DRIFT", "RUNTIME_ACTIVE_SNAPSHOT_DRIFT", "RUNTIME_MOD_ORDER_DRIFT"} :
     /\ f.sessions[p].seen
     /\ CASE r = "RUNTIME_LATEST_BOOT_DRIFT" -> f.sessions[p].boot # f.latestBoot.number
          [] r = "RUNTIME_ACTIVE_SNAPSHOT_DRIFT" -> f.sessions[p].mods # f.snapshot.id
          [] OTHER -> f.sessions[p].order # f.modOrder.order}

\* A project's own reasons: its index, its load, its providers and its session.
ProjectReasons(f, p) ==
  UNION {GlobalReasons(f), SessionDrifts(f, p),
         IF SemanticStatus(f) = "missing" THEN {"SEMANTIC_INDEX_MISSING"} ELSE {},
         IF f.installed.boot # f.latestBoot.number THEN {"LATEST_LOAD_BOOT_DRIFT"} ELSE {},
         IF f.inventory = "undeclared" THEN {"UNDECLARED_PROVIDER_OBSERVED"} ELSE {},
         IF f.sessions[p].seen THEN {} ELSE {"RUNTIME_SESSION_MISSING"}}

\* link_portfolio_active_state
LinkStatus(f) ==
  IF \A p \in PortfolioProjects : ProjectReasons(f, p) = {} /\ SemanticStatus(f) = "current"
  THEN "exact_current" ELSE "capture_inconclusive"

\* The last boot that became complete, or 0.
LastComplete(f) ==
  LET complete == {i \in DOMAIN f.boots : f.boots[i].done} IN
  IF complete = {} THEN 0 ELSE CHOOSE i \in complete : \A j \in complete : j <= i

SeenBoot(f) ==
  LET n == LastComplete(f) IN
  [seen |-> TRUE, number |-> n, complete |-> n # 0,
   mods |-> IF n = 0 THEN f.mods ELSE f.boots[n].mods, order |-> IF n = 0 THEN f.order ELSE f.boots[n].order]

(***************************************************************************)
(* What happens to the game, the mods and the evidence.                    *)
(***************************************************************************)
ActiveInit ==
  \/ facts = [topic |-> "boot log", log |-> <<>>, boots |-> <<>>, written |-> 0, readable |-> TRUE]
  \/ \E c \in {"complete", "partial", "undeclared"} : facts = [NoWorld EXCEPT !.inventory = c]

Changes(f) == [f EXCEPT !.changes = @ + 1]

ActiveNext ==
  \/ /\ About("boot log") /\ facts.readable /\ facts.written < MaxWritten
     /\ \/ \E line \in LogLines : facts' = LogWritten(facts, line, facts.log)
        \/ facts' = LogWritten(facts, {"start"}, <<>>)
  \/ About("boot log") /\ facts' = [facts EXCEPT !.readable = FALSE]
  \/ /\ About("active") /\ facts.changes < MaxWorldChanges
     /\ \/ facts' = [Changes(facts) EXCEPT !.mods = 1 - @]
        \/ facts' = [Changes(facts) EXCEPT !.order = 1 - @]
        \/ facts' = [Changes(facts) EXCEPT !.indexed = TRUE, !.index = facts.mods]
        \/ \E d \in BOOLEAN :
             facts' = [Changes(facts) EXCEPT !.boots = Append(@, [mods |-> facts.mods, order |-> facts.order, done |-> d])]
  \/ /\ About("active") /\ facts.indexed
     /\ \/ /\ ~facts.snapshot.seen
           /\ facts' = [facts EXCEPT !.snapshot =
                         [seen |-> TRUE, id |-> facts.index, current |-> facts.index = facts.mods]]
        \/ /\ ~facts.modOrder.seen
           /\ facts' = [facts EXCEPT !.modOrder = [seen |-> TRUE, order |-> facts.order, snapshot |-> facts.index]]
  \/ About("active") /\ ~facts.latestBoot.seen /\ facts' = [facts EXCEPT !.latestBoot = SeenBoot(facts)]
  \/ /\ About("active") /\ ~facts.installed.seen
     /\ facts' = [facts EXCEPT !.installed = [seen |-> TRUE, indexed |-> facts.indexed, snapshot |-> facts.index,
                                              current |-> facts.index = facts.mods, boot |-> LastComplete(facts)]]
  \/ /\ About("active") /\ facts.boots # <<>> /\ Latest(facts.boots).done
     /\ \E p \in PortfolioProjects :
          /\ ~facts.sessions[p].seen
          /\ facts' = [facts EXCEPT !.sessions[p] =
                         [seen |-> TRUE, boot |-> Len(facts.boots), mods |-> facts.mods, order |-> facts.order]]

ActiveSpec == ActiveInit /\ [][ActiveNext]_facts

-----------------------------------------------------------------------------
\* A package is confirmed to have been opened, or said not to have been seen
\* opened, only of the last boot that the game completed: what a boot that
\* died had opened, or one before it, counts for nothing.
BootConclusionTrue ==
  About("boot log") /\ BootReceipt(facts)[1] \in {"confirmed", "not_observed"} =>
    \E i \in DOMAIN facts.boots :
      /\ facts.boots[i].done /\ \A j \in DOMAIN facts.boots : facts.boots[j].done => j <= i
      /\ BootReceipt(facts)[1] = "confirmed" => facts.boots[i].opened /\ ~facts.boots[i].broken
      /\ BootReceipt(facts)[1] = "not_observed" => ~facts.boots[i].opened

\* The portfolio is exact and current only if there was one complete boot with
\* which everything agrees, whenever it was gathered: that boot had the mods
\* of the snapshot and of the index and the load order that was read, and
\* every project ran in it while mods and order were still the same.
ExactOfOneBoot ==
  About("active") /\ Gathered(facts) =>
    (LinkStatus(facts) = "exact_current" =>
       \E i \in DOMAIN facts.boots :
         LET boot == facts.boots[i] IN
         /\ boot.done
         /\ facts.snapshot.id = boot.mods /\ facts.installed.snapshot = boot.mods /\ facts.modOrder.order = boot.order
         /\ \A p \in PortfolioProjects :
              facts.sessions[p].seen /\ facts.sessions[p].boot = i
                /\ facts.sessions[p].mods = boot.mods /\ facts.sessions[p].order = boot.order)

\* What is said of the game is of one boot that it completed, whether the log of
\* that boot or the whole portfolio is concerned.  (latest_boot.py,
\* portfolio_active_state.py)
StateOfOneBoot ==
  /\ BootConclusionTrue
  /\ ExactOfOneBoot
=============================================================================
