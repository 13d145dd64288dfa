---------------------------- MODULE ResponsePages ----------------------------
(***************************************************************************)
(* Detail artifacts and their pages (kcd2_index_adapter/                   *)
(* response_normalizer.py).  Writers spill the records of a response to a  *)
(* file named by its digest, a compact summary is trimmed to a byte limit, *)
(* and a reader pages through the file by cursors while the file may be    *)
(* damaged or lost between two calls.  Sizes are record sizes.             *)
(***************************************************************************)
EXTENDS Integers, Sequences, FiniteSets, SequencesExt

CONSTANTS
  DetailSets,     \* sequences of record sizes: the details of the responses
  PageLimits,     \* values of max_response_bytes
  Envelope,       \* size of a page or a summary without entries
  MaxRecordBytes, MaxArtifactRecords, MaxArtifactBytes,  \* limits of the store
  MaxPageFaults,  \* bound on damage to the file
  MaxPages        \* bound on pages read

ASSUME PageConstants ==
  /\ \A d \in DetailSets : d \in Seq(Nat \ {0})
  /\ {Envelope, MaxRecordBytes, MaxArtifactRecords, MaxArtifactBytes, MaxPageFaults, MaxPages} \subseteq Nat

VARIABLES
  detail,     \* the details whose artifact the reader holds a reference to
  artifact,   \* the artifact's file: "absent", "whole" or "damaged"
  cursor,     \* the reader's cursor: a record number (offset), or -1 at the end
  pages,      \* history: the records that the reader was given
  pageFaults, pagesRead

pageVars == <<detail, artifact, cursor, pages, pageFaults, pagesRead>>

Total(sizes) == FoldLeft(LAMBDA sum, size : sum + size, 0, sizes)

\* A detail that write_records accepts.
Writable(d) ==
  /\ Len(d) <= MaxArtifactRecords
  /\ \A i \in 1..Len(d) : d[i] <= MaxRecordBytes
  /\ Total(d) <= MaxArtifactBytes

PagesInit ==
  /\ detail \in {d \in DetailSets : Writable(d)}
  /\ artifact = "absent"
  /\ cursor = 0
  /\ pages = <<>>
  /\ pageFaults = 0 /\ pagesRead = 0

\* write_records writes a temporary file and renames it; a file of that name is
\* hashed and kept, and one that does not match its name is an error.
WriteRecords ==
  /\ artifact = "absent"
  /\ artifact' = "whole"
  /\ UNCHANGED <<detail, cursor, pages, pageFaults, pagesRead>>

\* Mutant: the artifact is not hashed again.
OpensUnverified == artifact # "absent"

\* _verify_open hashes the whole file before a page is cut from it.
Opens == artifact = "whole"

\* What reading yields: the records, or something else.
Stored(i) == IF artifact = "damaged" THEN <<0, 0>> ELSE <<i, detail[i]>>

\* The size of a page of records i to k, with a next cursor unless it is the last.
PageSize(i, k) ==
  Envelope + Total(SubSeq(detail, i, k)) + (IF k < Len(detail) THEN 1 ELSE 0)

\* The last record of the page from record i on: records are taken while the
\* page with them fits; one that does not fit alone is an error.
PageEnd(i, limit) ==
  {k \in i..Len(detail) : (\A n \in i..k : PageSize(i, n) <= limit)
                           /\ (k < Len(detail) => PageSize(i, k + 1) > limit)}

\* read_page from the cursor of the last page; after an error the reader asks again.
ReadPage(limit) ==
  /\ pagesRead < MaxPages /\ cursor >= 0
  /\ Opens
  /\ pagesRead' = pagesRead + 1
  /\ IF cursor = Len(detail)
     THEN cursor' = -1 /\ UNCHANGED pages
     ELSE \E k \in PageEnd(cursor + 1, limit) :
            /\ pages' = pages \o [n \in 1..(k - cursor) |-> Stored(cursor + n)]
            /\ cursor' = IF k = Len(detail) THEN -1 ELSE k
  /\ UNCHANGED <<detail, artifact, pageFaults>>

PageFault == pageFaults < MaxPageFaults /\ pageFaults' = pageFaults + 1

ArtifactDamaged ==
  /\ PageFault
  /\ artifact = "whole"
  /\ artifact' = "damaged"
  /\ UNCHANGED <<detail, cursor, pages, pagesRead>>

\* The user deletes the artifacts directory; the details are spilled anew.
ArtifactDeleted ==
  /\ PageFault
  /\ artifact # "absent"
  /\ artifact' = "absent"
  /\ UNCHANGED <<detail, cursor, pages, pagesRead>>

PagesNext == WriteRecords \/ (\E limit \in PageLimits : ReadPage(limit)) \/ ArtifactDamaged \/ ArtifactDeleted

PagesSpec == PagesInit /\ [][PagesNext]_pageVars

-----------------------------------------------------------------------------
(***************************************************************************)
(* Correctness.                                                            *)
(***************************************************************************)

\* What the pages gave the reader is the beginning of the details, in order and
\* without a gap, and all of them once it is told that they are complete, for
\* any sequence of limits and whatever happens to the file between two pages.
\* (read_page, _verify_open)
PagesWhole ==
  /\ \A i \in 1..Len(pages) : pages[i] = <<i, detail[i]>>
  /\ cursor = -1 => Len(pages) = Len(detail)
=============================================================================
