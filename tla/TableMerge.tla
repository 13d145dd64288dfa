----------------------------- MODULE TableMerge -----------------------------
(***************************************************************************)
(* table_semantics.py: the records that the providers of one table         *)
(* contribute, in load order, merged under the profile of the table; and   *)
(* the comparison of a candidate with vanilla and its dependencies.  A     *)
(* record is a key, its attributes and its nested children; the names of   *)
(* elements and the sources of documents are left out.                     *)
(***************************************************************************)
EXTENDS Evidence, SequencesExt

CONSTANTS
  Documents,    \* sequences of records that one provider may contribute
  NoKey,        \* the key of a record without any primary key
  PartialKeys   \* keys of records that lack some of their primary keys

\* The profiles that from_mapping admits, as far as merging looks at them.
Profiles == [type : {"old"}, list : {"not_applicable"}]
              \cup [type : {"new"}, list : {"append", "replace", "per_item_patch", "unknown"}]
              \cup [type : {"unsupported_replace_only"}, list : {"unknown"}]

ResolutionSupported(profile) == profile.type \in {"old", "new"}

Payload(record) == <<record.attrs, record.children>>

\* The children after a provider of a new-style table; unproven says that the
\* profile does not tell.
Children(profile, old, new) ==
  CASE profile.list = "append" -> old \o new
    [] profile.list = "replace" -> new
    [] profile.list = "per_item_patch" /\ old = <<>> -> new
    [] OTHER -> old

ChildrenUnproven(profile, old, new) ==
  \/ profile.list = "per_item_patch" /\ old # <<>> /\ new # <<>>
  \/ profile.list \in {"unknown", "not_applicable"} /\ (old # <<>> \/ new # <<>>)

\* A row that a later provider contributes to.
Overlay(profile, row, c) ==
  IF profile.type = "old" THEN [attrs |-> c.attrs, children |-> c.children]
  ELSE [attrs |-> c.attrs @@ row.attrs, children |-> Children(profile, row.children, c.children)]

OverlayReasons(profile, row, c) ==
  IF profile.type = "old"
    THEN IF DOMAIN row.attrs \subseteq DOMAIN c.attrs THEN {} ELSE {"OLD_TABLE_FULL_ROW_REQUIRED"}
    ELSE IF ChildrenUnproven(profile, row.children, c.children) THEN {"NESTED_CHILD_SEMANTICS_UNPROVEN"} ELSE {}

\* One contribution c on top of what the earlier ones made.
MergeRecord(profile, merged, c) ==
  LET again == <<c.provider, c.key>> \in merged.seen
      known == c.key \in DOMAIN merged.rows
      row == merged.rows[c.key] IN
  CASE c.key = NoKey -> [merged EXCEPT !.reasons = @ \cup {"MISSING_PRIMARY_KEY"}]
    [] c.key # NoKey /\ again -> [merged EXCEPT !.reasons = @ \cup {"AMBIGUOUS_DUPLICATE_RECORD"}]
    [] OTHER ->
         [rows |-> CASE ~known -> (c.key :> [attrs |-> c.attrs, children |-> c.children]) @@ merged.rows
                     [] known /\ Payload(row) = Payload(c) -> merged.rows
                     [] OTHER -> [merged.rows EXCEPT ![c.key] = Overlay(profile, row, c)],
          seen |-> merged.seen \cup {<<c.provider, c.key>>},
          reasons |-> merged.reasons \cup
             (IF known /\ Payload(row) # Payload(c) THEN OverlayReasons(profile, row, c) ELSE {})]

\* The records of the providers, in load order.
ContributionsOf(docs) ==
  FlattenSeq([i \in DOMAIN docs |-> [j \in DOMAIN docs[i] |->
    [provider |-> i, key |-> docs[i][j].key, attrs |-> docs[i][j].attrs, children |-> docs[i][j].children]]])

NoRows == [rows |-> <<>>, seen |-> {}, reasons |-> {}]

MergeEffective(profile, docs) ==
  FoldLeft(LAMBDA merged, c : MergeRecord(profile, merged, c), NoRows, ContributionsOf(docs))

Extract(profile, docs) ==
  LET merged == IF ResolutionSupported(profile) THEN MergeEffective(profile, docs)
                ELSE [NoRows EXCEPT !.reasons = {"UNSUPPORTED_TABLE_SEMANTICS"}]
      inconclusive == docs = <<>> \/ \E i \in DOMAIN docs : docs[i] = <<>>
      halfKeyed == \E i \in DOMAIN docs : \E j \in DOMAIN docs[i] : docs[i][j].key \in PartialKeys \cup {NoKey} IN
  [rows |-> merged.rows,
   status |-> CASE inconclusive -> "capture_inconclusive"
                [] ~inconclusive /\ (merged.reasons # {} \/ halfKeyed) -> "unresolved"
                [] OTHER -> "resolved"]

\* The records that the candidate changes with respect to its baseline.  (The
\* code also lists removals for whole-file tables; merging supports none of
\* them, so that there are no records to compare.)
ChangedKeys(base, cand) ==
  {k \in DOMAIN cand.rows : k \notin DOMAIN base.rows \/ base.rows[k] # cand.rows[k]}

CompareStatus(parts) ==
  CASE "capture_inconclusive" \in parts -> "capture_inconclusive"
    [] "unresolved" \in parts /\ "capture_inconclusive" \notin parts -> "unresolved"
    [] OTHER -> "resolved"

\* Vanilla, then the dependencies, then the candidate.  The text of a candidate
\* may differ from vanilla's although the records are the same: reflowed.
Compare(profile, docs, reflowed) ==
  LET base == Extract(profile, Front(docs))
      cand == Extract(profile, <<Last(docs)>>)
      all == Extract(profile, docs) IN
  [changed |-> ChangedKeys(base, cand), base |-> base, all |-> all,
   status |-> CompareStatus({base.status, cand.status, all.status}),
   formattingOnly |-> /\ Len(docs) = 2 /\ ChangedKeys(base, cand) = {}
                      /\ reflowed \/ Last(docs) # docs[1]
                      /\ DOMAIN cand.rows = DOMAIN base.rows]

(***************************************************************************)
(* Providers are edited, one at a time.                                    *)
(***************************************************************************)
TableInit ==
  \E profile \in Profiles, doc \in Documents, n \in {2, 3}, reflowed \in BOOLEAN :
    /\ reflowed => n = 2
    /\ facts = [topic |-> "table", profile |-> profile, docs |-> [i \in 1..n |-> doc], reflowed |-> reflowed]

TableNext ==
  /\ About("table")
  /\ \E i \in DOMAIN facts.docs, doc \in Documents : facts' = [facts EXCEPT !.docs[i] = doc]

-----------------------------------------------------------------------------
\* The providers whose records have the key k.
With(docs, k) == {i \in DOMAIN docs : \E j \in DOMAIN docs[i] : docs[i][j].key = k}

RecordOf(docs, i, k) == docs[i][CHOOSE j \in DOMAIN docs[i] : docs[i][j].key = k]

\* Each attribute of a table that is reported as resolved has the value of the
\* last provider that names it, and a row of an old-style table is the row of
\* its last provider; the lists of a table that replaces them are the last ones.
ResolvedIsLastWriter ==
  About("table") =>
    LET docs == facts.docs
        result == Extract(facts.profile, docs) IN
    result.status = "resolved" =>
      \A k \in DOMAIN result.rows :
        LET row == result.rows[k]
            last == RecordOf(docs, Max(With(docs, k)), k)
            naming(a) == {i \in With(docs, k) : a \in DOMAIN RecordOf(docs, i, k).attrs} IN
        /\ \A a \in DOMAIN row.attrs : row.attrs[a] = RecordOf(docs, Max(naming(a)), k).attrs[a]
        /\ facts.profile.type = "old" => row.attrs = last.attrs
        /\ facts.profile.list \in {"replace", "not_applicable"} => row.children = last.children

\* What the game has under the key k: each attribute from the last provider that
\* names it, and the last list of children where lists are replaced.
InGame(profile, docs, k) ==
  LET record(i) == RecordOf(docs, i, k)
      naming(a) == {i \in With(docs, k) : a \in DOMAIN record(i).attrs} IN
  [attrs |-> [a \in UNION {DOMAIN record(i).attrs : i \in With(docs, k)} |-> record(Max(naming(a))).attrs[a]],
   children |-> IF With(docs, k) # {} /\ profile.list = "replace" THEN record(Max(With(docs, k))).children ELSE <<>>]

\* Each record of a supported table has a key that no other of its provider has.
EachHasItsKey(profile, docs) ==
  /\ ResolutionSupported(profile)
  /\ \A i \in DOMAIN docs : \A j, l \in DOMAIN docs[i] :
       docs[i][j].key # NoKey /\ (docs[i][j].key = docs[i][l].key => j = l)

\* A candidate of which the comparison says that it changes no record of a table
\* that is resolved leaves every record of the game as it was; so does one that is
\* said to differ in its XML only, if each record has its key.  Where the table is
\* not supported, or records have no key or share one, the code sets formatting_only
\* for every change, since it has no rows to compare.  (compare_table_semantics)
UnchangedMeansUnchanged ==
  About("table") =>
    LET c == Compare(facts.profile, facts.docs, facts.reflowed)
        before == Front(facts.docs) IN
    \/ c.status = "resolved" /\ c.changed = {}
    \/ c.formattingOnly /\ EachHasItsKey(facts.profile, facts.docs)
    => \A i \in DOMAIN facts.docs : \A j \in DOMAIN facts.docs[i] :
         LET k == facts.docs[i][j].key IN
         InGame(facts.profile, facts.docs, k) = InGame(facts.profile, before, k)

-----------------------------------------------------------------------------
(***************************************************************************)
(* portfolio_table_audit.py: which provider of a table is said to have     *)
(* written each attribute of a record, and where a candidate puts back a   *)
(* vanilla value over the one of a dependency.  It reads the same          *)
(* contributions as the merge, and decides on its own.                     *)
(***************************************************************************)

\* The contributions to a key, one per provider (the first of each counts).
Items(docs, k) ==
  LET all == ContributionsOf(docs) IN
  SelectSeq([i \in DOMAIN all |-> [c |-> all[i], repeated |-> \E j \in 1..(i - 1) : all[j].provider = all[i].provider /\ all[j].key = k]],
            LAMBDA x : x.c.key = k /\ ~x.repeated)

Naming(items, a) == {i \in DOMAIN items : a \in DOMAIN items[i].c.attrs}

\* _record_audits: attribute -> the contribution that wins it.
AttributeWinners(profile, items) ==
  IF profile.type = "old" THEN [a \in DOMAIN Last(items).c.attrs |-> Last(items).c]
  ELSE [a \in UNION {DOMAIN items[i].c.attrs : i \in DOMAIN items} |-> items[Max(Naming(items, a))].c]

\* The children are those of all providers, or of the last one.
ChildWinners(profile, items) ==
  IF profile.list = "append" THEN FlattenSeq([i \in DOMAIN items |-> items[i].c.children]) ELSE Last(items).c.children

\* Attributes that the candidate, the last provider, sets back to what vanilla,
\* the first, has, over the provider before it.
Restorations(items, n) ==
  LET vanilla == items[1].c
      upstream == items[Len(items) - 1].c
      candidate == Last(items).c IN
  IF Len(items) < 3 \/ vanilla.provider # 1 \/ candidate.provider # n THEN {}
  ELSE {a \in DOMAIN vanilla.attrs \cap DOMAIN upstream.attrs \cap DOMAIN candidate.attrs :
          candidate.attrs[a] = vanilla.attrs[a] /\ vanilla.attrs[a] # upstream.attrs[a]}

-----------------------------------------------------------------------------
\* For a table whose merge is resolved, the audit names for each attribute that
\* the record ends up with, and for no other, a provider whose value it has; the
\* children it cites are those of the record; and what it calls restored does
\* have the vanilla value.  Children that are appended or patched one by one are
\* excepted: there the audit cites the list of a provider that repeats a record,
\* which the merge does not append, and the empty list of a last provider, which
\* the merge does not take.
AuditNamesWriters ==
  About("table") =>
    LET docs == facts.docs
        result == Extract(facts.profile, docs) IN
    result.status = "resolved" =>
      \A k \in DOMAIN result.rows :
        LET row == result.rows[k]
            items == Items(docs, k)
            winners == AttributeWinners(facts.profile, items) IN
        /\ DOMAIN winners = DOMAIN row.attrs
        /\ \A a \in DOMAIN winners : winners[a].attrs[a] = row.attrs[a]
        /\ facts.profile.list \notin {"append", "per_item_patch"} => ChildWinners(facts.profile, items) = row.children
        /\ \A a \in Restorations(items, Len(docs)) : row.attrs[a] = items[1].c.attrs[a]

-----------------------------------------------------------------------------
(***************************************************************************)
(* inventory_presets.py: the items that an inventory preset leads to, by a *)
(* walk through presets that refer to each other, within limits of depth   *)
(* and size.  A child refers to a preset or is an item; it has an amount   *)
(* and may ask for a combat level.  Weights and provenance are left out.   *)
(***************************************************************************)

CONSTANTS
  PresetTables,  \* effective tables: preset -> its children, each [to, amount, level]
  Item,          \* the `to` of a child that is an item
  Depths,        \* values of max_depth
  NodeLimits     \* values of max_nodes

Root == 1

NoOutcomes == [nodes |-> 0, outcomes |-> {}, reasons |-> {}]

\* capacity
Room(f, acc) == acc.nodes + Cardinality(acc.outcomes) < f.maxNodes

Because(acc, reason) == [acc EXCEPT !.reasons = @ \cup {reason}]

AddItem(f, acc, outcome) ==
  IF Room(f, acc) THEN [acc EXCEPT !.outcomes = @ \cup {outcome}] ELSE Because(acc, "MAX_NODES_REACHED")

\* walk: the path so far is a sequence of ordinals.
RECURSIVE Walk(_, _, _, _, _, _, _)
Walk(f, preset, path, ancestors, amount, level, acc) ==
  LET here == [acc EXCEPT !.nodes = @ + 1] IN
  IF ~Room(f, acc) THEN Because(acc, "MAX_NODES_REACHED")
  ELSE IF preset \in ancestors THEN Because(here, "CYCLE_DETECTED")
  ELSE IF preset \notin DOMAIN f.table
    THEN Because(here, IF f.resolved THEN "MISSING_PRESET_REFERENCE" ELSE "CAPTURE_INCONCLUSIVE")
  ELSE IF Len(path) >= f.maxDepth THEN Because(here, "MAX_DEPTH_REACHED")
  ELSE FoldLeftDomain(LAMBDA a, i :
         LET child == f.table[preset][i]
             needed == Max({level, child.level}) IN
         IF child.to # Item
           THEN Walk(f, child.to, Append(path, i), ancestors \cup {preset}, amount * child.amount, needed, a)
           ELSE AddItem(f, a, [path |-> Append(path, i), amount |-> amount * child.amount,
                               eligible |-> f.level >= needed]),
         here, f.table[preset])

Resolution(f) == Walk(f, Root, <<>>, {}, 1, 0, NoOutcomes)

\* resolve_inventory_preset
Complete(f) == Resolution(f).reasons = {} /\ f.resolved

PresetsInit ==
  \E t \in PresetTables, d \in Depths, n \in NodeLimits, r \in BOOLEAN :
    facts = [topic |-> "presets", table |-> t, maxDepth |-> d, maxNodes |-> n, resolved |-> r, level |-> 1]

\* The caller asks for another combat level.
PresetsNext ==
  About("presets") /\ \E l \in 0..2 : facts' = [facts EXCEPT !.level = l]

-----------------------------------------------------------------------------
\* The children along a path of ordinals, as far as it can be followed.
Along(f, path) ==
  FoldLeft(LAMBDA seen, i :
    LET at == IF seen = <<>> THEN Root ELSE Last(seen).to IN
    IF at \in DOMAIN f.table /\ i \in DOMAIN f.table[at] THEN Append(seen, f.table[at][i]) ELSE seen,
    <<>>, path)

ItemPaths(f) ==
  LET widest == Max({0} \cup {Len(f.table[p]) : p \in DOMAIN f.table})
      paths == UNION {[1..n -> 1..widest] : n \in 1..Cardinality(DOMAIN f.table)} IN
  {p \in paths : Len(Along(f, p)) = Len(p) /\ Last(Along(f, p)).to = Item}

\* A resolution that is complete lists every item that a path through the
\* presets leads to, with the product of the amounts along that path, and as
\* eligible exactly if every level along it is reached.
CompleteIsEverything ==
  About("presets") =>
    (Complete(facts) =>
       Resolution(facts).outcomes =
         {[path |-> p, amount |-> FoldLeft(LAMBDA x, c : x * c.amount, 1, Along(facts, p)),
           eligible |-> \A i \in DOMAIN p : facts.level >= Along(facts, p)[i].level] : p \in ItemPaths(facts)})
=============================================================================
