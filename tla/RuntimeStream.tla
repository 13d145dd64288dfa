--------------------------- MODULE RuntimeStream ---------------------------
(***************************************************************************)
(* The runtime evidence of one session (kcd2_native_probes/runtime_jsonl.py)*)
(* A writer appends events within its bounds and ends the stream with what *)
(* it wrote and dropped; a converter feeds it the lines of a legacy log; a *)
(* summary is made of the file, of which lines may be lost, repeated or    *)
(* moved on the way.  A record's bytes are its size, given by the event.   *)
(***************************************************************************)
EXTENDS Integers, Sequences, SequencesExt, FiniteSetsExt

CONSTANTS
  Families,      \* declared event families
  Sizes,         \* sizes of encoded events
  EndSize,       \* size of a session_end record
  MaxRecords, MaxLineBytes, MaxTotalBytes,  \* the limits of the manifest
  ReaderRecords, \* max_records of the summary
  MaxLines,      \* bound on the events offered
  MaxDamage      \* bound on the damage done to the file

ASSUME StreamConstants ==
  /\ Sizes \subseteq Nat /\ EndSize \in Nat
  /\ {MaxRecords, MaxLineBytes, MaxTotalBytes, ReaderRecords, MaxLines, MaxDamage} \subseteq Nat

VARIABLES
  file,     \* the lines of the JSONL file
  writer,   \* the RuntimeJsonlWriter
  offered,  \* history: the events offered, in order
  damage    \* how much of the file was damaged

streamVars == <<file, writer, offered, damage>>

StartRecord == [type |-> "session_start", sequence |-> 0]
EventRecord(event, n) == [type |-> "event", sequence |-> n, event |-> event]
Events == [family : Families, size : Sizes]

\* How many events of each family some lines hold.
CountIn(lines) ==
  [f \in Families |-> Cardinality({i \in 1..Len(lines) : lines[i].type = "event" /\ lines[i].event.family = f})]

StreamInit ==
  /\ file = <<StartRecord>>
  /\ writer = [open |-> TRUE, sequence |-> 0, bytes |-> 1, counts |-> [f \in Families |-> 0], dropped |-> 0, skipped |-> 0]
  /\ offered = <<>>
  /\ damage = 0

\* An output bound is reached: the record number, the line or the file.
Drops(event) ==
  \/ writer.sequence >= MaxRecords
  \/ event.size > MaxLineBytes
  \/ writer.bytes + event.size > MaxTotalBytes

\* write_event: the event is written with the next number, or dropped and counted.
WriteEvent(event) ==
  /\ writer.open
  /\ Len(offered) < MaxLines
  /\ offered' = Append(offered, event)
  /\ IF Drops(event)
     THEN /\ writer' = [writer EXCEPT !.dropped = @ + 1]
          /\ UNCHANGED file
     ELSE /\ file' = Append(file, EventRecord(event, writer.sequence + 1))
          /\ writer' = [writer EXCEPT !.sequence = @ + 1, !.bytes = @ + event.size,
                                      !.counts[event.family] = @ + 1]
  /\ UNCHANGED damage

\* convert_legacy_kcse skips a line that is too long, cannot be parsed or is of
\* an undeclared family; a parsed line it gives to write_event.
SkipLine(event) ==
  /\ writer.open
  /\ Len(offered) < MaxLines
  /\ offered' = Append(offered, event)
  /\ writer' = [writer EXCEPT !.skipped = @ + 1]
  /\ UNCHANGED <<file, damage>>

\* Mutant: what the caller reports replaces what the writer dropped.
EndRecordReplaced ==
  LET dropped == IF writer.skipped > 0 THEN writer.skipped ELSE writer.dropped
  IN  [type |-> "session_end", sequence |-> writer.sequence + 1, counts |-> writer.counts,
       dropped |-> dropped, truncated |-> writer.dropped > 0, complete |-> dropped = 0]

EndRecord ==
  LET dropped == writer.dropped + writer.skipped
  IN  [type |-> "session_end", sequence |-> writer.sequence + 1, counts |-> writer.counts,
       dropped |-> dropped, truncated |-> writer.dropped > 0, complete |-> dropped = 0]

\* close: the session_end must fit in what is left, else the call raises and the
\* stream stays open.
CloseStream ==
  /\ writer.open
  /\ EndSize <= MaxLineBytes
  /\ writer.bytes + EndSize <= MaxTotalBytes
  /\ file' = Append(file, EndRecord)
  /\ writer' = [writer EXCEPT !.open = FALSE, !.bytes = @ + EndSize]
  /\ UNCHANGED <<offered, damage>>

\* The writer dies and leaves what it wrote.
Abandon ==
  /\ writer.open
  /\ writer' = [writer EXCEPT !.open = FALSE]
  /\ UNCHANGED <<file, offered, damage>>

\* On its way to the summary a line is lost, repeated, or moved.
Damage ==
  /\ ~writer.open
  /\ damage < MaxDamage
  /\ damage' = damage + 1
  /\ \E i, k \in 1..Len(file) :
       file' \in {RemoveAt(file, i), InsertAt(file, k, file[i]), InsertAt(RemoveAt(file, i), k, file[i])}
  /\ UNCHANGED <<writer, offered>>

StreamNext ==
  \/ \E event \in Events : WriteEvent(event) \/ SkipLine(event)
  \/ CloseStream \/ Abandon \/ Damage

StreamSpec == StreamInit /\ [][StreamNext]_streamVars

-----------------------------------------------------------------------------
(***************************************************************************)
(* summarize_runtime_jsonl.                                                *)
(***************************************************************************)

\* read_bounded_jsonl stops at its limit.
Read == SubSeq(file, 1, IF Len(file) > ReaderRecords THEN ReaderRecords ELSE Len(file))

\* A summary is refused unless the first record starts the session.
Summarizes == file # <<>> /\ Read # <<>> /\ Read[1].type = "session_start"

EndsRead == Read[Len(Read)].type = "session_end"

\* sequence_monotonic
Monotonic == \A i \in 2..Len(Read) : Read[i].sequence > Read[i - 1].sequence

\* A start or an end in the middle, numbers out of order, or an end that counts
\* other events than are there.
StructuralErrors ==
  \/ \E i \in 2..Len(Read) : Read[i].type = "session_start"
  \/ \E i \in 1..(Len(Read) - 1) : Read[i].type = "session_end"
  \/ ~Monotonic
  \/ EndsRead /\ Read[Len(Read)].counts # CountIn(Read)

\* session_complete
SessionComplete ==
  /\ EndsRead
  /\ Len(file) <= ReaderRecords
  /\ ~StructuralErrors
  /\ LET end == Read[Len(Read)] IN end.complete /\ end.dropped = 0 /\ ~end.truncated

-----------------------------------------------------------------------------
(***************************************************************************)
(* Correctness.                                                            *)
(***************************************************************************)

\* A summary calls a session complete only if the file still holds, between its
\* start and its end, every event that was offered, in order and nothing else,
\* whatever was dropped by a bound, skipped by the converter, or lost, repeated
\* and moved in the file.  (write_event, convert_legacy_kcse, close,
\* summarize_runtime_jsonl)
CompleteIsWhole ==
  Summarizes /\ SessionComplete =>
    /\ Len(Read) = Len(offered) + 2
    /\ \A i \in 1..Len(offered) : Read[i + 1].type = "event" /\ Read[i + 1].event = offered[i]

\* The sum of some numbers, each under a name of its own: the size of the union
\* of as many things as each of them says.
Units(numbers) == UNION {{x} \X (1..numbers[x]) : x \in DOMAIN numbers}
Total(numbers) == Cardinality(Units(numbers))

\* The end of a stream accounts for every line offered: what it counts and what
\* it says was dropped, by a bound or by the converter, make up all of them.
EveryLineCounted ==
  \A i \in 1..Len(file) :
    file[i].type = "session_end" =>
      file[i].dropped + Total(file[i].counts) = Len(offered)

-----------------------------------------------------------------------------
(***************************************************************************)
(* The aggregate limits of a capture (kcd2_native_probes/limits.py): a     *)
(* tracker counts events and captures against reviewed limits; once a      *)
(* limit is reached, nothing may be concluded from what was not seen.      *)
(***************************************************************************)

CONSTANTS
  Limit,      \* the reviewed limit of each aggregate
  IntegerMax, \* the largest counter value
  EventNames, \* event families
  Measures,   \* sizes of an observation
  MaxCalls    \* bound on calls

Aggregates == {"max_events", "max_captures", "max_event_families", "max_total_bytes", "max_fields"}

ASSUME LimitConstants ==
  /\ Limit \in [Aggregates -> Nat \ {0}] /\ IntegerMax \in Nat /\ MaxCalls \in Nat
  /\ Measures \subseteq Nat

VARIABLES
  usage,      \* the largest value seen of each aggregate
  families,   \* the event families seen
  diagnosed,  \* diagnosed[a]: "none", "LIMIT_SATURATED" or "LIMIT_EXCEEDED"
  consumed    \* history: the observations that did not raise

limitVars == <<usage, families, diagnosed, consumed>>

LimitsInit ==
  /\ usage = [a \in Aggregates |-> 0]
  /\ families = {}
  /\ diagnosed = [a \in Aggregates |-> "none"]
  /\ consumed = <<>>

\* An observation that is counted; bytes and number are added, the others are
\* the largest of their kind.  Strings and memory regions go like fields.
Observation == [kind : {"event", "capture"}, family : EventNames, bytes : Measures, fields : Measures]

CounterOf(kind) == IF kind = "event" THEN "max_events" ELSE "max_captures"

\* The value that an observation gives each aggregate it touches.
Observed(o) ==
  LET counter == CounterOf(o.kind)
      seen == IF o.kind = "event" THEN families \cup {o.family} ELSE families
  IN  [a \in {counter, "max_total_bytes", "max_fields"} \cup (IF o.kind = "event" THEN {"max_event_families"} ELSE {})
        |-> CASE a = counter -> usage[counter] + 1
              [] a = "max_total_bytes" -> usage["max_total_bytes"] + o.bytes
              [] a = "max_fields" -> o.fields
              [] a = "max_event_families" -> Cardinality(seen)]

\* _set_usage
Diagnosis(a, value) ==
  IF value >= Limit[a] THEN IF value = Limit[a] THEN "LIMIT_SATURATED" ELSE "LIMIT_EXCEEDED"
  ELSE diagnosed[a]

\* The call raises, and has changed nothing, when a counter would overflow.
Overflows(o) ==
  \/ usage[CounterOf(o.kind)] + 1 > IntegerMax
  \/ usage["max_total_bytes"] + o.bytes > IntegerMax

\* consume_event, consume_capture
Consume(o) ==
  /\ Len(consumed) < MaxCalls
  /\ ~Overflows(o)
  /\ LET value == Observed(o)
     IN  /\ usage' = [a \in Aggregates |->
                       IF a \in DOMAIN value /\ value[a] > usage[a] THEN value[a] ELSE usage[a]]
         /\ diagnosed' = [a \in Aggregates |-> IF a \in DOMAIN value THEN Diagnosis(a, value[a]) ELSE diagnosed[a]]
  /\ families' = IF o.kind = "event" THEN families \cup {o.family} ELSE families
  /\ consumed' = Append(consumed, o)

LimitsNext == \E o \in Observation : Consume(o)

LimitsSpec == LimitsInit /\ [][LimitsNext]_limitVars

\* state(): the diagnostics are kept for good.
AbsenceClaimAllowed == \A a \in Aggregates : diagnosed[a] = "none"

\* A tracker that observes each aggregate once, as evaluate_probe_bundle_limits does.
AllowedAtOnce(measured) == \A a \in Aggregates : measured[a] < Limit[a]

-----------------------------------------------------------------------------
\* The totals of what was consumed.
Calls(kind) == {i \in 1..Len(consumed) : consumed[i].kind = kind}
Measured ==
  [max_events |-> Cardinality(Calls("event")), max_captures |-> Cardinality(Calls("capture")),
   max_event_families |-> Cardinality({consumed[i].family : i \in Calls("event")}),
   max_total_bytes |-> Total([i \in 1..Len(consumed) |-> consumed[i].bytes]),
   max_fields |-> Max({0} \cup {consumed[i].fields : i \in 1..Len(consumed)})]

\* Absence may be claimed only if everything that was counted, taken together,
\* stayed below every limit: counting one by one decides as one observation of
\* the totals would.  (_set_usage, _increment, state, evaluate_probe_bundle_limits)
AbsenceEarned == AbsenceClaimAllowed <=> AllowedAtOnce(Measured)

\* What was dropped, lost or cut off is accounted for: nothing incomplete is called
\* complete, and absence is claimed only below every limit.
\* (runtime_jsonl.py, limits.py)
StreamAccounted ==
  /\ CompleteIsWhole
  /\ EveryLineCounted
  /\ AbsenceEarned
=============================================================================
