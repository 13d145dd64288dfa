---------------------------- MODULE GuardedBuild ----------------------------
(***************************************************************************)
(* Guarded builds of a candidate (kcd2_mod_build_deploy/                   *)
(* guarded_operations.py): a single build into the staging directory       *)
(* "candidate", or a double build by two threads into "repro-build-a" and  *)
(* "repro-build-b" of one build root.  Builders are processes that may     *)
(* share the root, crash at any step and leave what they wrote.            *)
(***************************************************************************)
EXTENDS Integers, FiniteSets

CONSTANTS
  Builders,       \* processes that run guarded builds over one build root
  BuildSpecs,     \* build specifications, all of one mod folder
  InputVersions,  \* contents of the input root
  MaxBuildFaults, \* bound on edits of the input root and removals that raise
  MaxBuilds       \* bound on builds started

ASSUME BuildConstants == MaxBuildFaults \in Nat /\ MaxBuilds \in Nat /\ BuildSpecs \subseteq InputVersions

VARIABLES
  inputs,   \* the content of the input root
  staging,  \* staging[x]: the staging directory of transaction name x
  builder,  \* builder[p]: the build of process p
  lane,     \* lane[p][x]: the thread of p that builds transaction x
  built,    \* history: the receipts, each with the staging directories as they then were
  buildFaults, started

buildVars == <<inputs, staging, builder, lane, built, buildFaults, started>>

Transactions == {"candidate", "repro-build-a", "repro-build-b"}
Lanes(mode) == IF mode = "single" THEN {"candidate"} ELSE {"repro-build-a", "repro-build-b"}

\* The digests that a specification declares are those of one input content.
DeclaredInputs(s) == s

\* A staging directory: what an earlier build left in it, the candidate's
\* folder, and its PAK, which is partial while it is written.
Pak(spec, from) == [spec |-> spec, from |-> from]
NoPak == Pak("none", "none")
PartialPak == Pak("partial", "partial")
NoStaging == [exists |-> FALSE, debris |-> FALSE, folder |-> FALSE, pak |-> NoPak]
EmptyStaging == [NoStaging EXCEPT !.exists = TRUE]

IdleLane == [step |-> "idle", digest |-> NoPak, disturbed |-> FALSE]
IdleBuild == [mode |-> "none", spec |-> "none", step |-> "idle", frozen |-> "none"]

BuildInit ==
  /\ inputs \in InputVersions
  /\ \E left \in {NoStaging, [EmptyStaging EXCEPT !.debris = TRUE]} : staging = [x \in Transactions |-> left]
  /\ builder = [p \in Builders |-> IdleBuild]
  /\ lane = [p \in Builders |-> [x \in Transactions |-> IdleLane]]
  /\ built = {}
  /\ buildFaults = 0 /\ started = 0

LaneAt(p, x, step) == builder[p].step = "lanes" /\ x \in Lanes(builder[p].mode) /\ lane[p][x].step = step

\* Thread x of p goes on; every other build in the same directory is disturbed
\* by what p does to it.
MoveLane(p, x, step, digest) ==
  lane' = [q \in Builders |->
            IF q = p THEN [lane[p] EXCEPT ![x].step = step, ![x].digest = digest]
            ELSE [lane[q] EXCEPT ![x].disturbed = @ \/ lane[q][x].step \notin {"idle", "clear"}]]

BuildFault == buildFaults < MaxBuildFaults /\ buildFaults' = buildFaults + 1

\* Mutant: a failed build leaves what it wrote.
LaneFailsDirty(p, x) ==
  /\ MoveLane(p, x, "failed", NoPak)
  /\ UNCHANGED <<staging, buildFaults>>

\* What a removal of a directory that raises has left of it.
PartlyRemoved(dir) == {dir, [dir EXCEPT !.pak = NoPak], [dir EXCEPT !.folder = FALSE, !.pak = NoPak]}

\* The exception of a build clears its staging directory again, if it exists.
\* That may raise as well: while it is removed, or before it is made anew.
LaneFails(p, x) ==
  \/ /\ MoveLane(p, x, "failed", NoPak)
     /\ staging' = [staging EXCEPT ![x] = IF @.exists THEN EmptyStaging ELSE @]
     /\ UNCHANGED buildFaults
  \/ /\ BuildFault /\ staging[x].exists
     /\ MoveLane(p, x, "uncleared", NoPak)
     /\ \E left \in PartlyRemoved(staging[x]) \cup {NoStaging} : staging' = [staging EXCEPT ![x] = left]

StartBuild(p, mode, s) ==
  /\ builder[p].step = "idle"
  /\ started < MaxBuilds
  /\ started' = started + 1
  /\ builder' = [builder EXCEPT ![p] = [mode |-> mode, spec |-> s, frozen |-> "none",
                                        step |-> IF mode = "single" THEN "lanes" ELSE "freeze"]]
  /\ lane' = [lane EXCEPT ![p] = [x \in Transactions |->
                IF x \in Lanes(mode) THEN [IdleLane EXCEPT !.step = "clear"] ELSE IdleLane]]
  /\ UNCHANGED <<inputs, staging, built, buildFaults>>

\* Every file has the size and digest that the specification declares.
Verified(s, content) == content = DeclaredInputs(s)

\* A double build freezes the inputs once, before it touches a staging directory.
FreezeOnce(p) ==
  /\ builder[p].step = "freeze"
  /\ builder' = [builder EXCEPT ![p] =
       IF Verified(builder[p].spec, inputs) THEN [@ EXCEPT !.step = "lanes", !.frozen = inputs] ELSE IdleBuild]
  /\ UNCHANGED <<inputs, staging, lane, built, buildFaults, started>>

\* _prepare_empty_staging: an existing directory is removed, then created anew.
\* A removal that raises does so before the try.
ClearStaging(p, x) ==
  /\ LaneAt(p, x, "clear")
  /\ \/ staging' = [staging EXCEPT ![x] = NoStaging] /\ MoveLane(p, x, "mkdir", NoPak) /\ UNCHANGED buildFaults
     \/ /\ BuildFault /\ staging[x].exists
        /\ \E left \in PartlyRemoved(staging[x]) : staging' = [staging EXCEPT ![x] = left]
        /\ MoveLane(p, x, "uncleared", NoPak)
  /\ UNCHANGED <<inputs, builder, built, started>>

\* mkdir raises if another build was faster; that is before the try.
MakeStaging(p, x) ==
  /\ LaneAt(p, x, "mkdir")
  /\ IF staging[x].exists
     THEN MoveLane(p, x, "failed", NoPak) /\ UNCHANGED staging
     ELSE /\ staging' = [staging EXCEPT ![x] = EmptyStaging]
          /\ MoveLane(p, x, IF builder[p].mode = "single" THEN "freeze" ELSE "folder", NoPak)
  /\ UNCHANGED <<inputs, builder, built, buildFaults, started>>

\* A single build freezes its inputs with its staging directory already there.
FreezeLane(p, x) ==
  /\ LaneAt(p, x, "freeze")
  /\ IF Verified(builder[p].spec, inputs)
     THEN /\ builder' = [builder EXCEPT ![p].frozen = inputs]
          /\ MoveLane(p, x, "folder", NoPak)
          /\ UNCHANGED <<staging, buildFaults>>
     ELSE LaneFails(p, x) /\ UNCHANGED builder
  /\ UNCHANGED <<inputs, built, started>>

\* The folders of the PAK are made, the staging directory with them if it is
\* gone; the manifest is written and the PAK is opened.
OpenPak(p, x) ==
  /\ LaneAt(p, x, "folder")
  /\ \/ /\ ~staging[x].folder
        /\ staging' = [staging EXCEPT ![x].exists = TRUE, ![x].folder = TRUE, ![x].pak = PartialPak]
        /\ MoveLane(p, x, "pak", NoPak) /\ UNCHANGED buildFaults
     \/ LaneFails(p, x)  \* the folder is there; or accidental inclusions, a ledger, the disk
  /\ UNCHANGED <<inputs, builder, built, started>>

WritePak(p, x) ==
  /\ LaneAt(p, x, "pak")
  /\ \/ /\ staging[x].folder
        /\ staging' = [staging EXCEPT ![x].pak = Pak(builder[p].spec, builder[p].frozen)]
        /\ MoveLane(p, x, "hash", NoPak) /\ UNCHANGED buildFaults
     \/ LaneFails(p, x)
  /\ UNCHANGED <<inputs, builder, built, started>>

\* The PAK is hashed from the disk,
HashPak(p, x) ==
  /\ LaneAt(p, x, "hash")
  /\ IF staging[x].pak = NoPak THEN LaneFails(p, x)
     ELSE MoveLane(p, x, "inspect", staging[x].pak) /\ UNCHANGED <<staging, buildFaults>>
  /\ UNCHANGED <<inputs, builder, built, started>>

\* and its packaging is inspected.
InspectPak(p, x) ==
  /\ LaneAt(p, x, "inspect")
  /\ IF staging[x].pak \in {NoPak, PartialPak} THEN LaneFails(p, x)
     ELSE MoveLane(p, x, "built", lane[p][x].digest) /\ UNCHANGED <<staging, buildFaults>>
  /\ UNCHANGED <<inputs, builder, built, started>>

\* When its threads are done, a build returns its receipt, or raises if one
\* failed or the two digests differ.
ConcludeBuild(p) ==
  LET mine == Lanes(builder[p].mode)
      digests == {lane[p][x].digest : x \in mine}
  IN  /\ builder[p].step = "lanes"
      /\ \A x \in mine : lane[p][x].step \in {"built", "failed", "uncleared"}
      /\ built' = IF (\E x \in mine : lane[p][x].step # "built") \/ Cardinality(digests) # 1 THEN built
                  ELSE built \cup {[spec |-> builder[p].spec, digests |-> digests,
                                    staged |-> {staging[x] : x \in mine},
                                    disturbed |-> \E x \in mine : lane[p][x].disturbed]}
      /\ builder' = [builder EXCEPT ![p] = IdleBuild]
      /\ lane' = [lane EXCEPT ![p] = [x \in Transactions |-> IdleLane]]
      /\ UNCHANGED <<inputs, staging, buildFaults, started>>

\* The process dies; its staging directories stay as they are.
BuilderDies(p) ==
  /\ builder[p].step # "idle"
  /\ builder' = [builder EXCEPT ![p] = IdleBuild]
  /\ lane' = [lane EXCEPT ![p] = [x \in Transactions |-> IdleLane]]
  /\ UNCHANGED <<inputs, staging, built, buildFaults, started>>

EditInputs ==
  /\ BuildFault
  /\ inputs' \in InputVersions \ {inputs}
  /\ UNCHANGED <<staging, builder, lane, built, started>>

BuildNext ==
  \/ \E p \in Builders :
       \/ \E mode \in {"single", "double"}, s \in BuildSpecs : StartBuild(p, mode, s)
       \/ FreezeOnce(p) \/ ConcludeBuild(p) \/ BuilderDies(p)
       \/ \E x \in Transactions :
            \/ ClearStaging(p, x) \/ MakeStaging(p, x) \/ FreezeLane(p, x)
            \/ OpenPak(p, x) \/ WritePak(p, x) \/ HashPak(p, x) \/ InspectPak(p, x)
  \/ EditInputs

BuildSpec == BuildInit /\ [][BuildNext]_buildVars

-----------------------------------------------------------------------------
(***************************************************************************)
(* Correctness.                                                            *)
(***************************************************************************)

\* Unless another build worked in one of its staging directories meanwhile, the
\* receipt of a build names a PAK made of the declared inputs, whatever happened
\* to the input root during the build and whatever a build left behind that
\* crashed, or failed and could not clear its directory again,
\* and each of its staging directories holds exactly that PAK.
\* (_freeze_build_inputs, _prepare_empty_staging, _build_candidate_twice_impl)
ReceiptTrue ==
  \A r \in built :
    LET pak == Pak(r.spec, DeclaredInputs(r.spec))
    IN  ~r.disturbed =>
          /\ r.digests = {pak}
          /\ r.staged = {[EmptyStaging EXCEPT !.folder = TRUE, !.pak = pak]}

\* A build that fails leaves no half-built candidate in its staging directory,
\* unless another build works there or clearing it raises too; a "failed" lane
\* is one that was cleared.  (_build_candidate_impl, the except clause)
FailureLeavesNothing ==
  \A p \in Builders, x \in Transactions :
    lane[p][x].step = "failed" /\ ~lane[p][x].disturbed => staging[x] \in {NoStaging, EmptyStaging}

-----------------------------------------------------------------------------
(***************************************************************************)
(* The content-addressed cache of archive members (kcd2_mod_build_deploy/  *)
(* archive_member_cache.py): readers that look an entry up, quarantine it  *)
(* if it does not verify, read the archive on a miss, and rename a         *)
(* directory of their own into place.  Readers interleave and die; entries *)
(* rot; the archive is replaced by other programs.  One archive path.      *)
(***************************************************************************)

CONSTANTS
  Readers,        \* processes and threads that read archives through the cache
  Archives,       \* contents of the archive; a digest names one of them
  MaxCacheFaults, \* bound on rotten entries, replaced archives and dead readers
  MaxReads        \* bound on calls

ASSUME CacheConstants == MaxCacheFaults \in Nat /\ MaxReads \in Nat

VARIABLES
  archive,      \* what the archive's path holds
  entries,      \* entries[d]: the cache entry of digest d
  temporaries,  \* the readers' temporary directories
  reader,       \* reader[r]: the call of r
  answers,      \* history: the results
  unnoticed,    \* history: what the cache cannot notice has happened: an archive was
                \* "replaced" between hash and read, members were "renamed" in a manifest
  cacheFaults, reads

cacheVars == <<archive, entries, temporaries, reader, answers, unnoticed, cacheFaults, reads>>

\* An entry is whole, or it does not verify: an object is not what its name says, or
\* the manifest cannot be read or counts otherwise.  Nothing binds the paths that
\* the manifest gives to its objects: with one of them damaged it verifies.
NoEntry == [there |-> FALSE, sound |-> FALSE, members |-> "none"]
Entry(content) == [there |-> TRUE, sound |-> TRUE, members |-> content]

IdleReader == [step |-> "idle", digest |-> "none", members |-> "none"]

CacheInit ==
  /\ archive \in Archives
  /\ entries = [d \in Archives |-> NoEntry]
  /\ temporaries = {}
  /\ reader = [r \in Readers |-> IdleReader]
  /\ answers = {}
  /\ unnoticed = {}
  /\ cacheFaults = 0 /\ reads = 0

ReaderAt(r, step) == reader[r].step = step

\* The call returns, or raises and removes its temporary, which may raise too.
EndRead(r, result) ==
  /\ reader' = [reader EXCEPT ![r] = IdleReader]
  /\ answers' = answers \cup result
  /\ temporaries' \in {temporaries, temporaries \ {r}}

\* The caller has hashed the archive and asks for the members of that digest.
StartRead(r) ==
  /\ ReaderAt(r, "idle")
  /\ reads < MaxReads
  /\ reads' = reads + 1
  /\ reader' = [reader EXCEPT ![r] = [IdleReader EXCEPT !.step = "lookup", !.digest = archive]]
  /\ UNCHANGED <<archive, entries, temporaries, answers, unnoticed, cacheFaults>>

\* _load_entry: the manifest, every object, their sizes, digests and totals, not
\* what the members are called.
Loads(e) == e.there /\ e.sound

\* The members that an entry yields; a rotten one would yield something else.
Yields(e) == IF e.sound THEN e.members ELSE "rotten"

\* A hit, an entry to quarantine, or a miss.
LookUp(r) ==
  LET e == entries[reader[r].digest]
  IN  /\ ReaderAt(r, "lookup")
      /\ IF Loads(e)
         THEN EndRead(r, {[digest |-> reader[r].digest, members |-> Yields(e)]})
         ELSE /\ reader' = [reader EXCEPT ![r].step = IF e.there THEN "quarantine" ELSE "archive"]
              /\ UNCHANGED <<answers, temporaries>>
      /\ UNCHANGED <<archive, entries, unnoticed, cacheFaults, reads>>

\* The rename raises if another reader was faster; a new entry that another
\* reader has put there in the meantime is quarantined as well.
Quarantine(r) ==
  LET d == reader[r].digest
  IN  /\ ReaderAt(r, "quarantine")
      /\ IF entries[d].there
         THEN /\ entries' = [entries EXCEPT ![d] = NoEntry]
              /\ reader' = [reader EXCEPT ![r].step = "archive"]
              /\ UNCHANGED <<answers, temporaries>>
         ELSE EndRead(r, {}) /\ UNCHANGED entries
      /\ UNCHANGED <<archive, unnoticed, cacheFaults, reads>>

\* _read_archive reads the archive that the path holds now; it is not hashed again.
ReadArchive(r) ==
  /\ ReaderAt(r, "archive")
  /\ reader' = [reader EXCEPT ![r].step = "populate", ![r].members = archive]
  /\ unnoticed' = unnoticed \cup (IF archive = reader[r].digest THEN {} ELSE {"replaced"})
  /\ UNCHANGED <<archive, entries, temporaries, answers, cacheFaults, reads>>

\* Objects and manifest are written to a directory of the reader's own, or that raises.
Populate(r) ==
  /\ ReaderAt(r, "populate")
  /\ \/ /\ temporaries' = temporaries \cup {r}
        /\ reader' = [reader EXCEPT ![r].step = "promote"]
        /\ UNCHANGED answers
     \/ EndRead(r, {})
  /\ UNCHANGED <<archive, entries, unnoticed, cacheFaults, reads>>

\* The directory is renamed to the entry.  Over an existing entry the rename
\* raises: FileExistsError is caught and the other entry used; the errors that
\* most file systems give instead (not empty, access denied) leave the call.
Promote(r) ==
  LET d == reader[r].digest
  IN  /\ ReaderAt(r, "promote")
      /\ \/ /\ ~entries[d].there
            /\ entries' = [entries EXCEPT ![d] = Entry(reader[r].members)]
            /\ reader' = [reader EXCEPT ![r].step = "load"]
            /\ temporaries' = temporaries \ {r}
            /\ UNCHANGED answers
         \/ /\ entries[d].there
            /\ reader' = [reader EXCEPT ![r].step = "load"]
            /\ temporaries' = temporaries \ {r}
            /\ UNCHANGED <<entries, answers>>
         \/ entries[d].there /\ EndRead(r, {}) /\ UNCHANGED entries
      /\ UNCHANGED <<archive, unnoticed, cacheFaults, reads>>

\* The entry is loaded and verified before its members are returned.
LoadEntry(r) ==
  LET e == entries[reader[r].digest]
  IN  /\ ReaderAt(r, "load")
      /\ EndRead(r, IF Loads(e) THEN {[digest |-> reader[r].digest, members |-> Yields(e)]} ELSE {})
      /\ UNCHANGED <<archive, entries, unnoticed, cacheFaults, reads>>

CacheFault == cacheFaults < MaxCacheFaults /\ cacheFaults' = cacheFaults + 1

\* A damaged object, or a damaged path in a manifest.
EntryRots ==
  /\ CacheFault
  /\ \E d \in {a \in Archives : entries[a].there} :
       \/ entries' = [entries EXCEPT ![d].sound = FALSE] /\ UNCHANGED unnoticed
       \/ entries' = [entries EXCEPT ![d].members = "renamed"] /\ unnoticed' = unnoticed \cup {"renamed"}
  /\ UNCHANGED <<archive, temporaries, reader, answers, reads>>

ArchiveReplaced ==
  /\ CacheFault
  /\ archive' \in Archives \ {archive}
  /\ UNCHANGED <<entries, temporaries, reader, answers, unnoticed, reads>>

\* A reader that dies leaves its temporary directory.
ReaderDies(r) ==
  /\ CacheFault
  /\ ~ReaderAt(r, "idle")
  /\ reader' = [reader EXCEPT ![r] = IdleReader]
  /\ UNCHANGED <<archive, entries, temporaries, answers, unnoticed, reads>>

CacheNext ==
  \/ \E r \in Readers :
       \/ StartRead(r) \/ LookUp(r) \/ Quarantine(r) \/ ReadArchive(r) \/ Populate(r)
       \/ Promote(r) \/ LoadEntry(r) \/ ReaderDies(r)
  \/ EntryRots \/ ArchiveReplaced

CacheSpec == CacheInit /\ [][CacheNext]_cacheVars

-----------------------------------------------------------------------------
(***************************************************************************)
(* Correctness.                                                            *)
(***************************************************************************)

\* Members that are returned are whole, whatever readers race, die, or find
\* rotten; and they are the members of the digest asked for, as long as no call
\* read an archive that had been replaced since its caller hashed it.  Only
\* their names may be others, once a manifest's paths were damaged.
\* (read_archive_members_cached, _load_entry)
MembersWhole ==
  \A a \in answers :
    /\ a.members \in Archives \/ (a.members = "renamed" /\ "renamed" \in unnoticed)
    /\ "replaced" \notin unnoticed => a.members \in {a.digest, "renamed"}

\* Whatever builders and readers race over, what they hand out is what was asked
\* for: PAKs of the declared inputs, nothing after a failure that could be cleared
\* up, whole members of the archive.  (guarded_operations.py, archive_member_cache.py)
BuildsTrue ==
  /\ ReceiptTrue
  /\ FailureLeavesNothing
  /\ MembersWhole
=============================================================================
