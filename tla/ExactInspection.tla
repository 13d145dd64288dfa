-------------------------- MODULE ExactInspection --------------------------
(***************************************************************************)
(* exact_inspection.py and scope_guard.py: the inspection of one mod       *)
(* folder, file by file, while another program edits it; the budget that   *)
(* bounds it; and the receipt that says what the answer may support.  At   *)
(* the end, what answers that are cut, here or into pages, may claim.      *)
(***************************************************************************)
EXTENDS ResponsePages

CONSTANTS
  ModFiles,          \* the files of the folder, as numbers in the order of their names
  ModPaks,           \* those that are standard packages
  FileLimits,        \* values of max_files
  ByteLimits,        \* values of max_physical_bytes; a file, and a look into a package, is one byte
  EntryLimits,       \* values of max_archive_entries; a package has one entry
  MaxFolderEdits     \* bound on the edits while the inspection runs

ASSUME InspectionAssumption == ModFiles \subseteq Nat /\ ModPaks \subseteq ModFiles

VARIABLES
  folder,   \* file -> what is there: its kind and, for a file, its version
  folderEdits,    \* edits so far
  scan      \* the inspection

inspectVars == <<folder, folderEdits, scan>>

Missing == [kind |-> "absent", version |-> 0]
Link == [kind |-> "link", version |-> 0]
File(v) == [kind |-> "file", version |-> v]

\* What the scan of a request has seen.  `todo` are the names the listing gave;
\* `open` is the file being read, 0 for none.
NewScan(f, b, e, withOrder) ==
  [phase |-> "list", maxFiles |-> f, maxBytes |-> b, maxEntries |-> e, withOrder |-> withOrder,
   todo |-> {}, records |-> <<>>, hashes |-> <<>>, members |-> <<>>, open |-> 0,
   opened |-> 0, bytes |-> 0, entries |-> 0, complete |-> TRUE, breach |-> FALSE, limits |-> {}]

InspectInit ==
  /\ folder \in [ModFiles -> {Missing, Link, File(1)}]
  /\ \A f \in ModFiles : folder[f] # Missing
  /\ folderEdits = 0
  /\ \E f \in FileLimits, b \in ByteLimits, e \in EntryLimits, o \in BOOLEAN : scan = NewScan(f, b, e, o)

\* Another program changes the folder.
EditFolder ==
  /\ folderEdits < MaxFolderEdits
  /\ \E f \in ModFiles, now \in {Missing, Link, File(folderEdits + 2)} :
       folder[f] # now /\ folder' = [folder EXCEPT ![f] = now]
  /\ folderEdits' = folderEdits + 1
  /\ UNCHANGED scan

First(S) == CHOOSE x \in S : \A y \in S : x <= y

\* A map with one file noted.
Noted(h, f, v) == [g \in {f} \cup DOMAIN h |-> IF g = f THEN v ELSE h[g]]

Failed(s) == [s EXCEPT !.phase = "done", !.complete = FALSE, !.open = 0]
Breach(s) == [Failed(s) EXCEPT !.breach = TRUE]
Limit(s, name) == [Failed(s) EXCEPT !.limits = @ \cup {name}]

\* _enumerate_provider: the names are listed at once, ...
ListFolder ==
  /\ scan.phase = "list"
  /\ scan' = [scan EXCEPT !.phase = "stat", !.todo = {f \in ModFiles : folder[f] # Missing}]
  /\ UNCHANGED <<folder, folderEdits>>

\* ... and then each entry is looked at: a link ends the scan as a breach.
StatEntry ==
  /\ scan.phase = "stat" /\ scan.todo # {}
  /\ LET f == First(scan.todo) IN
     scan' = CASE folder[f] = Missing -> Failed(scan)
               [] folder[f] = Link -> Breach(scan)
               [] Cardinality(DOMAIN scan.records) >= scan.maxFiles -> Limit(scan, "files")
               [] OTHER -> [scan EXCEPT !.todo = @ \ {f}, !.records = Noted(@, f, folder[f].version)]
  /\ UNCHANGED <<folder, folderEdits>>

Enumerated ==
  /\ scan.phase = "stat" /\ scan.todo = {}
  /\ scan' = [scan EXCEPT !.phase = "hash", !.todo = DOMAIN scan.records]
  /\ UNCHANGED <<folder, folderEdits>>

SameIdentity(f) == folder[f] = File(scan.records[f])

\* _hash_file: the identity is compared before the file is opened ...
OpenToHash ==
  /\ scan.phase = "hash" /\ scan.todo # {} /\ scan.open = 0
  /\ LET f == First(scan.todo) IN
     scan' = CASE folder[f] = Missing -> Limit(scan, "physical_bytes")
               [] folder[f] # Missing /\ ~SameIdentity(f) -> Breach(scan)
               [] OTHER -> IF scan.bytes >= scan.maxBytes THEN Limit(scan, "physical_bytes")
                           ELSE [scan EXCEPT !.open = f, !.opened = @ + 1]
  /\ UNCHANGED <<folder, folderEdits>>

\* ... and after it was read.  A file that was deleted meanwhile is still open.
CloseHashed ==
  /\ scan.phase = "hash" /\ scan.open # 0
  /\ LET f == scan.open
         read == IF folder[f].kind = "file" THEN folder[f].version ELSE scan.records[f] IN
     scan' = IF folder[f].kind = "file" /\ ~SameIdentity(f) THEN Breach([scan EXCEPT !.bytes = @ + 1])
             ELSE [scan EXCEPT !.todo = @ \ {f}, !.open = 0, !.bytes = @ + 1, !.hashes = Noted(@, f, read)]
  /\ UNCHANGED <<folder, folderEdits>>

Hashed ==
  /\ scan.phase = "hash" /\ scan.todo = {}
  /\ scan' = [scan EXCEPT !.phase = "paks", !.todo = DOMAIN scan.records \cap ModPaks]
  /\ UNCHANGED <<folder, folderEdits>>

\* _inspect_pak: the package is opened again by its name, a link is followed and
\* its identity is not compared; a package that is gone leaves a diagnostic.
LookIntoPak ==
  /\ scan.phase = "paks" /\ scan.todo # {}
  /\ LET f == First(scan.todo) IN
     scan' = CASE folder[f] = Missing -> [scan EXCEPT !.todo = @ \ {f}]
               [] folder[f] # Missing /\ scan.bytes >= scan.maxBytes -> Limit(scan, "physical_bytes")
               [] OTHER -> IF scan.entries >= scan.maxEntries THEN Limit([scan EXCEPT !.bytes = @ + 1], "archive_entries")
                           ELSE [scan EXCEPT !.todo = @ \ {f}, !.bytes = @ + 1, !.entries = @ + 1,
                                             !.members = Noted(@, f, folder[f].version)]
  /\ UNCHANGED <<folder, folderEdits>>

\* The load order may be read too; it counts as an opened file.
FinishScan ==
  /\ scan.phase = "paks" /\ scan.todo = {}
  /\ scan' = IF ~scan.withOrder THEN [scan EXCEPT !.phase = "done"]
             ELSE IF scan.bytes >= scan.maxBytes THEN Limit(scan, "physical_bytes")
             ELSE [scan EXCEPT !.phase = "done", !.bytes = @ + 1, !.opened = @ + 1]
  /\ UNCHANGED <<folder, folderEdits>>

InspectNext ==
  \/ EditFolder \/ ListFolder \/ StatEntry \/ Enumerated \/ OpenToHash
  \/ CloseHashed \/ Hashed \/ LookIntoPak \/ FinishScan

InspectSpec == InspectInit /\ [][InspectNext]_inspectVars

\* ScopeGuard.emit: the counters are compared with the limits once more.
ScopeStatus(s) ==
  CASE s.breach -> "TARGET_SCOPE_BREACH"
    [] ~s.breach /\ (s.limits # {} \/ s.opened > s.maxFiles \/ s.entries > s.maxEntries \/ s.bytes > s.maxBytes)
         -> "TARGET_SCOPE_LIMIT_REACHED"
    [] OTHER -> IF s.complete THEN "TARGET_SCOPE_OK" ELSE "INCONCLUSIVE"

-----------------------------------------------------------------------------
\* The inventory of an answer whose receipt is in order is that of the folder
\* as it was enumerated: every file that was listed was read, and read with the
\* contents it had then, whatever was edited during the scan.
InventoryAsEnumerated ==
  scan.phase = "done" /\ ScopeStatus(scan) = "TARGET_SCOPE_OK" => scan.hashes = scan.records

\* An answer whose list of packages was cut to fit says that its inventory is
\* complete: once a package was looked into, every file has been read.
CutInventoryComplete == scan.members # <<>> => DOMAIN scan.hashes = DOMAIN scan.records

\* What is answered in pages, or cut to fit, is of one state of its source and is
\* called complete only when it is.  (read_page, inspect_exact_scope)
CutsRecognised ==
  /\ PagesWhole
  /\ InventoryAsEnumerated
  /\ CutInventoryComplete
=============================================================================
