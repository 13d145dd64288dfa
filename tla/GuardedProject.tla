--------------------------- MODULE GuardedProject ---------------------------
(***************************************************************************)
(* The project of a native probe (guarded_kcse.py): the bytes it overwrites*)
(* are compared with the module's file, the instructions among them are    *)
(* decoded, the project is generated, built twice in clean directories,    *)
(* and planned for installation, while others edit what it is made of.     *)
(***************************************************************************)
EXTENDS ProbeDocuments

CONSTANTS
  CodeLength,     \* length of a piece of code, in bytes
  LastBytes,      \* what its last two bytes may be: an operand, or code that is cut
  SectionBytes,   \* raw bytes of a section, in the model's small file
  Locks,          \* byte strings that a manifest may lock
  Sourcecodes,    \* versions of the project's sources
  ModuleVersions, \* versions of the game's module
  MaxProjectEdits \* bound on the edits of others

ASSUME ProjectAssumption == SectionBytes \in Nat /\ CodeLength \in Nat /\ Locks \subseteq Seq({"P", "x", "y"})

(***************************************************************************)
(* RawPEImageMapper and entry_lock_preflight.  A byte is "P", a prefix of  *)
(* an instruction, or another; a section has a start, a span, and raw      *)
(* bytes that may be fewer than its span.                                  *)
(***************************************************************************)
\* rva_to_file_offset: the first section that holds the range, if its raw
\* bytes hold it, else it raises ("none").
SectionOf(sections, rva, size) ==
  LET holds == {i \in 1..Len(sections) : sections[i].start <= rva /\ rva + size <= sections[i].start + sections[i].span}
  IN  IF holds = {} THEN 0 ELSE CHOOSE i \in holds : \A j \in holds : i <= j

Mapped(sections, rva, size) ==
  LET i == SectionOf(sections, rva, size) IN i # 0 /\ rva - sections[i].start + size <= Len(sections[i].raw)

ReadRva(sections, rva, size) ==
  LET s == sections[SectionOf(sections, rva, size)] IN SubSeq(s.raw, rva - s.start + 1, rva - s.start + size)

\* hidden_prefix_before_rva
HiddenPrefix(sections, rva) ==
  LET near == {i \in 1..Len(sections) : 0 < rva - sections[i].start /\ rva - sections[i].start <= Len(sections[i].raw)}
      first == CHOOSE i \in near : \A j \in near : i <= j
  IN  near # {} /\ sections[first].raw[rva - sections[first].start] = "P"

\* entry_lock_preflight for one enabled hook; an omitted prefix is a mismatch.
LockHolds(sections, rva, lock) ==
  /\ Mapped(sections, rva, Len(lock))
  /\ ReadRva(sections, rva, Len(lock)) = lock
  /\ ~HiddenPrefix(sections, rva)

(***************************************************************************)
(* _inspect_stolen_instructions, over a small alphabet: the operand-size   *)
(* prefix (66), REX.W, another prefix; the opcode of an instruction with   *)
(* no operand, of a move whose immediate is wide after REX.W (B8), of one  *)
(* with an immediate of 32 bits (68; 81 and C7 have an operand byte too),  *)
(* of one with an operand byte (FF among them, whose jumps are indirect),  *)
(* and of a relative jump.  An operand byte is any byte; "ripModrm" (05)   *)
(* is one that is relative and brings a displacement, and as an opcode it  *)
(* is not known.                                                           *)
(***************************************************************************)
PrefixBytes == {"short", "prefix", "rexw"}
Bytes == PrefixBytes \cup {"plain", "move", "fixed", "modrm", "jump", "ripModrm"}

\* The first byte at or after i that is no prefix.
OpcodeAt(code, i) ==
  LET ops == {j \in i..Len(code) : code[j] \notin PrefixBytes}
  IN  IF ops = {} THEN Len(code) + 1 ELSE CHOOSE j \in ops : \A k \in ops : j <= k

\* The bytes after the opcode.  Immediates of 16, 32 and 64 bits have 1, 2 and 3
\* bytes here, a displacement 1.
Operand(code, i) ==
  LET at == OpcodeAt(code, i)
      wide == \E j \in i..(at - 1) : code[j] = "rexw"
  IN  CASE code[at] = "move" -> IF wide THEN 3 ELSE 2
        [] code[at] \in {"fixed", "jump"} -> 2
        [] code[at] = "modrm" -> IF at < Len(code) /\ code[at + 1] = "ripModrm" THEN 2 ELSE 1
        [] OTHER -> 0

\* One instruction that starts at i: its last byte and its hazards.
Instruction(code, i) ==
  LET at == OpcodeAt(code, i)
      whole == at <= Len(code) /\ at + Operand(code, i) <= Len(code)
  IN  [end |-> IF whole THEN at + Operand(code, i) ELSE Len(code),
       hazards |-> IF ~whole THEN {"truncated_instruction"}
                   ELSE CASE code[at] = "jump" -> {"relative_control_flow"}
                          [] code[at] = "ripModrm" -> {"unsupported_instruction"}
                          [] code[at] = "modrm" /\ code[at + 1] = "ripModrm" -> {"rip_relative_operand"}
                          [] OTHER -> {}]

\* The instructions of a code, from the byte i on, one step at a time.
DecodeStep ==
  /\ About("decode") /\ facts.at <= Len(facts.code)
  /\ LET one == Instruction(facts.code, facts.at)
     IN  facts' = [facts EXCEPT !.at = one.end + 1, !.hazards = @ \cup one.hazards, !.starts = @ \cup {facts.at}]

(***************************************************************************)
(* The project on the disk.  Its files are a manifest (with the generated  *)
(* header), which the guard report binds, and other sources.               *)
(***************************************************************************)
NotBuilt == [header |-> "none", code |-> "none", noise |-> 0]

\* _recheck_project_entry_locks
Rechecked(f) == f.header = f.guard.header /\ f.module = f.guard.module

\* generate_guarded_project
Generate ==
  /\ About("project") /\ facts.step = "start"
  /\ facts' = [facts EXCEPT !.step = "generated", !.guard = [header |-> facts.header, module |-> facts.module]]

StartDoubleBuild ==
  /\ About("project") /\ facts.step = "generated"
  /\ facts' = [facts EXCEPT !.step = IF Rechecked(facts) THEN "first" ELSE "raised"]

\* What the compiler makes of the sources; it may put in noise.
Compiled(noise) == [header |-> facts.header, code |-> facts.code, noise |-> noise]

\* validate_double_build: clean-a, then clean-b; a failing compiler raises.
BuildOnce(step, next, lane) ==
  /\ About("project") /\ facts.step = step
  /\ \/ \E noise \in {0, 1} : facts' = [facts EXCEPT !.step = next, ![lane] = Compiled(noise)]
     \/ facts' = [facts EXCEPT !.step = "raised"]

Matched(a, b) == a = b

\* stage_install_and_rollback: the DLL is one that lies in a build directory.
StageInstall ==
  /\ About("project") /\ facts.step = "built"
  /\ \E dll \in {facts.cleanA, facts.cleanB} :
       facts' = [facts EXCEPT
         !.step = IF Rechecked(facts) /\ Matched(facts.cleanA, facts.cleanB) /\ dll = facts.cleanA THEN "planned" ELSE "raised",
         !.plan = dll]

\* Others edit a source or the manifest, or the game is updated.
ProjectEdited ==
  /\ About("project") /\ facts.edits < MaxProjectEdits /\ facts.step \notin {"planned", "raised"}
  /\ \/ \E s \in Sourcecodes : facts' = [facts EXCEPT !.code = s, !.edits = @ + 1]
     \/ \E s \in Sourcecodes : facts' = [facts EXCEPT !.header = s, !.edits = @ + 1]
     \/ \E v \in ModuleVersions : facts' = [facts EXCEPT !.module = v, !.edits = @ + 1]

-----------------------------------------------------------------------------
Raws == [1..SectionBytes -> {"P", "x", "y"}]
Codes == {code \in [1..CodeLength -> Bytes] : \A i \in 1..CodeLength : i > CodeLength - 2 => code[i] \in LastBytes}

ProjectInit ==
  \/ \E raw \in Raws, start \in 0..1, lock \in Locks, rva \in 0..(SectionBytes + 1), span \in {SectionBytes, SectionBytes + 1} :
       facts = [topic |-> "lock", rva |-> rva, lock |-> lock,
                sections |-> <<[start |-> start, span |-> span, raw |-> raw],
                               [start |-> start + span, span |-> SectionBytes, raw |-> raw]>>]
  \/ \E code \in Codes : facts = [topic |-> "decode", code |-> code, at |-> 1, hazards |-> {}, starts |-> {}]
  \/ \E s \in Sourcecodes, v \in ModuleVersions :
       facts = [topic |-> "project", step |-> "start", header |-> s, code |-> s, module |-> v, edits |-> 0,
                guard |-> [header |-> s, module |-> v], cleanA |-> NotBuilt, cleanB |-> NotBuilt, plan |-> NotBuilt]

ProjectNext ==
  \/ DecodeStep
  \/ Generate
  \/ StartDoubleBuild
  \/ BuildOnce("first", "second", "cleanA")
  \/ BuildOnce("second", "built", "cleanB")
  \/ StageInstall
  \/ ProjectEdited

-----------------------------------------------------------------------------
\* A lock that holds is at the start of an instruction as far as the file
\* shows: its bytes lie in one section, and no prefix stands before them in
\* that section.  (rva_to_file_offset, entry_lock_preflight)
LockAtInstruction ==
  About("lock") =>
    (LockHolds(facts.sections, facts.rva, facts.lock) =>
       \E i \in 1..Len(facts.sections) :
         LET s == facts.sections[i]
             at == facts.rva - s.start
         IN  /\ at >= 0 /\ at + Len(facts.lock) <= Len(s.raw)
             /\ \A k \in 1..Len(facts.lock) : s.raw[at + k] = facts.lock[k]
             /\ at > 0 => s.raw[at] # "P")

\* The processor ends at "end" an instruction that starts at i and has its opcode
\* at "at".  REX.W counts only right before the opcode, and without it the
\* operand-size prefix halves an immediate.
EndsAt(code, i, at, end) ==
  \/ code[at] = "plain" /\ end = at
  \/ code[at] \in {"move", "fixed"} /\
       IF at > i /\ code[at - 1] = "rexw" THEN end = at + (IF code[at] = "move" THEN 3 ELSE 2)
       ELSE end = at + (IF \E j \in i..(at - 1) : code[j] = "short" THEN 1 ELSE 2)
  \/ code[at] = "modrm" /\ at < end /\ end = at + (IF code[at + 1] = "ripModrm" THEN 2 ELSE 1)
  \/ code[at] = "jump" /\ end = at + 2

\* An immediate whose width the decoder does not tell, for it looks at no
\* operand-size prefix, and at REX.W wherever it stands.
Misread(code, i, at) ==
  /\ code[at] \in {"move", "fixed"} /\ at > i /\ code[at - 1] # "rexw"
  /\ \E j \in i..(at - 1) : code[j] = "short" \/ code[j] = "rexw"

\* The instruction from i on, with its opcode at "at", may stand elsewhere, and
\* the next one starts where it ends.
MovesWhole(code, starts, i, at) ==
  /\ \A j \in i..(at - 1) : code[j] \in PrefixBytes
  /\ \/ Misread(code, i, at)
     \/ \E end \in at..Len(code) :
          /\ EndsAt(code, i, at, end)
          /\ code[at] # "jump" /\ (code[at] = "modrm" => code[at + 1] # "ripModrm")
          /\ end < Len(code) => end + 1 \in starts

\* Bytes that may be moved into a trampoline are whole instructions as the
\* processor reads them, one after the other, and none of them is relative to
\* where it stands: so it is once the code is decoded without a hazard, but for
\* the immediates behind prefixes that the decoder does not heed.
\* (_inspect_stolen_instructions)
TrampolineWhole ==
  About("decode") =>
    (facts.at > Len(facts.code) /\ facts.hazards = {} =>
       \A i \in facts.starts : \E at \in i..Len(facts.code) : MovesWhole(facts.code, facts.starts, i, at))

\* A plan installs what two builds made, and unless somebody edited the manifest
\* and edited it back, they were made of the manifest that the guard report
\* describes, whatever was edited while the project was built.  (The adapter's
\* sources are not described in it.)
\* (validate_double_build, stage_install_and_rollback)
PlanReproduced ==
  About("project") =>
    (facts.step = "planned" =>
       /\ facts.plan = facts.cleanA /\ facts.plan = facts.cleanB
       /\ facts.edits <= 1 => facts.plan.header = facts.guard.header)

-----------------------------------------------------------------------------
\* A probe from its documents to the plan of its installation.
DeclaredInit == DocumentsInit \/ ProjectInit
DeclaredNext == DocumentsNext \/ ProjectNext
DeclaredSpec == DeclaredInit /\ [][DeclaredNext]_facts

\* A probe that is accepted is the one that its documents declare, from the layout
\* of a record and the hooks of a carrier to the bundle that is imported, and the
\* code that is installed: the bytes it is locked to, those it moves, and two equal
\* builds.  (record_layout_lint, probe_source_manifest_check, validate_probe_bundle,
\* audit_legacy_probe, entry_lock_preflight, validate_double_build)
ProbesAsDeclared ==
  /\ FilterProven
  /\ HooksAsDeclared
  /\ ImportEarned
  /\ StartupOnlyTrue
  /\ LockAtInstruction
  /\ TrampolineWhole
  /\ PlanReproduced
=============================================================================
