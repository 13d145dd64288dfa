--------------------------- MODULE SessionRecords ---------------------------
(***************************************************************************)
(* What ties a capture together: the identity records that a probe emits   *)
(* when it is installed and when it closes (runtime_identity.py), the      *)
(* pages in which one session is inspected (runtime_session_inspection.py),*)
(* and the bounded envelope of any paged answer (core results.py).         *)
(***************************************************************************)
EXTENDS Evidence, Sequences

CONSTANTS
  Deployments,   \* what may be installed in the game, each with its snapshot
  SessionIds,    \* identifiers of sessions
  Contents,      \* contents of a session or an answer: sequences of item sizes
  ResponseBytes, \* the bound on an answer, in units of its items
  MaxAnswerPages \* the bound on the pages of an answer

ASSUME ContentsAssumption == Contents \subseteq Seq(Nat)

(***************************************************************************)
(* runtime_identity.py.  The binding names a deployment and its snapshot;  *)
(* `flaw` stands for its state, freshness, fingerprints and components.    *)
(***************************************************************************)
ProbeBindings == [deployment : Deployments, flaw : BOOLEAN]

\* validate_deployment_binding raises unless the binding is exact, fresh, and
\* its start and close fingerprints are one.
BindingValid(b) == ~b.flaw

GateMatches(gate, b) == gate.authorizes /\ gate.deployment = b.deployment

\* build_runtime_identity_record; the contract's module, revision and game
\* version are those of its deployment.
Buildable(b, gate) == BindingValid(b) /\ GateMatches(gate, b)

IdentityRecord(type, session, base, b) ==
  [type |-> type, session |-> session, base |-> base, runtime |-> b.deployment, binding |-> b, digest |-> b]

\* verify_capture_identity; the runtime projection holds the base of the module.
IdentityReasons(i, c) ==
  (IF i.type # "INSTALL_OK" THEN {"INSTALL_OK_RECORD_MISSING"} ELSE {})
    \cup (IF c.type # "CAPTURE_CLOSE" THEN {"CAPTURE_CLOSE_RECORD_MISSING"} ELSE {})
    \cup (IF i.session # c.session THEN {"SESSION_ID_CHANGED"} ELSE {})
    \cup (IF 0 \in {i.base, c.base} THEN {"MODULE_BASE_MISSING"} ELSE {})
    \cup (IF \E r \in {i, c} : ~BindingValid(r.binding) THEN {"DEPLOYMENT_BINDING_INVALID"} ELSE {})
    \cup (IF \E r \in {i, c} : r.digest # r.binding THEN {"DEPLOYMENT_FINGERPRINT_INVALID"} ELSE {})
    \cup (IF i.binding # c.binding THEN {"DEPLOYMENT_IDENTITY_CHANGED"} ELSE {})
    \cup (IF <<i.base, i.runtime, i.digest>> # <<c.base, c.runtime, c.digest>> THEN {"RUNTIME_IDENTITY_CHANGED"} ELSE {})

PromotionAllowed(i, c) == IdentityReasons(i, c) = {}

NotEmitted == [type |-> "none"]

\* The probe emits a record from the binding it was given and the gate that the
\* deployment registry decides on now.
Emit(field, type) ==
  /\ About("identity") /\ facts[field] = NotEmitted
  /\ \E b \in ProbeBindings, base \in 0..2, s \in SessionIds, ok \in BOOLEAN :
       /\ base # 0 /\ Buildable(b, [authorizes |-> ok, deployment |-> facts.world])
       /\ facts' = [facts EXCEPT ![field] = IdentityRecord(type, s, base, b), !.at[field] = facts.world]

Redeploy == About("identity") /\ \E d \in Deployments \ {facts.world} : facts' = [facts EXCEPT !.world = d]

\* A record is damaged on its way to the verification.
RecordDamaged ==
  /\ About("identity") /\ facts.close # NotEmitted
  /\ \/ \E b \in ProbeBindings : facts' = [facts EXCEPT !.close.binding = b]
     \/ \E s \in SessionIds : facts' = [facts EXCEPT !.close.session = s]
     \/ facts' = [facts EXCEPT !.close.base = 0]

(***************************************************************************)
(* runtime_session_inspection.py.  A record is an identity and its         *)
(* observations; a continuation names both.                                *)
(***************************************************************************)
RecordsOf == [identity : Deployments, observations : Contents]
NoToken == [offset |-> 0]

\* Mutant: the token is bound to the session only.
DecodesScopeOnly(token, r) == token # NoToken => token.scope = r.identity /\ token.offset <= Len(r.observations)

\* decode_continuation_handle
Decodes(token, r) ==
  token # NoToken => token.scope = r.identity /\ token.items = r.observations /\ token.offset <= Len(r.observations)

PageOf(r, from, size) == SubSeq(r.observations, from + 1, IF from + size < Len(r.observations) THEN from + size ELSE Len(r.observations))

\* RuntimeSessionInspector.inspect; a call that raises changes nothing.
InspectSession(size) ==
  /\ About("inspection") /\ ~facts.finished
  /\ Decodes(facts.token, facts.record)
  /\ LET page == PageOf(facts.record, facts.token.offset, size)
         next == facts.token.offset + Len(page)
         more == next < Len(facts.record.observations)
     IN  facts' = [facts EXCEPT
           !.joined = (IF facts.token = NoToken THEN <<>> ELSE @) \o page,
           !.exact = (IF facts.token = NoToken THEN TRUE ELSE @) /\ facts.record.identity = facts.expected,
           !.token = IF more THEN [offset |-> next, scope |-> facts.record.identity, items |-> facts.record.observations] ELSE NoToken,
           !.finished = ~more,
           !.read = facts.record]

\* A session that is still recorded, or recorded again.
RecordReplaced == About("inspection") /\ ~facts.finished /\ \E r \in RecordsOf : facts' = [facts EXCEPT !.record = r]

(***************************************************************************)
(* results.py.  The answer holds items of given sizes, diagnostics that    *)
(* may be trimmed one detail at a time, and a token of size 1.             *)
(***************************************************************************)
SizeOf(items) == LET f[n \in 0..Len(items)] == IF n = 0 THEN 0 ELSE f[n - 1] + items[n] IN f[Len(items)]

Continues(a, count) == a.offset + count < Len(a.items) /\ a.page < MaxAnswerPages

Fits(a, count, details) ==
  SizeOf(SubSeq(a.items, a.offset + 1, a.offset + count)) + details + (IF Continues(a, count) THEN 1 ELSE 0) <= ResponseBytes

\* The pages that are tried: at least one item while there is one.
Counts(a) ==
  LET rest == Len(a.items) - a.offset
  IN  {c \in 0..a.size : c <= rest /\ (rest > 0 => c > 0)}

Cut(a, count, details) == a.offset + count < Len(a.items) \/ details < a.details

\* build_bounded_envelope: the diagnostics are trimmed only when no page fits,
\* and the page is the largest that fits; a call that raises changes nothing.
AnswerPage ==
  /\ About("answer") /\ ~facts.finished
  /\ \E details \in 0..facts.details, count \in Counts(facts) :
       /\ Fits(facts, count, details)
       /\ \A c \in Counts(facts) : c > count => ~Fits(facts, c, details)
       /\ \A d \in 0..facts.details : d > details => \A c \in Counts(facts) : ~Fits(facts, c, d)
       /\ facts' = [facts EXCEPT !.joined = @ \o SubSeq(facts.items, facts.offset + 1, facts.offset + count),
                                 !.offset = @ + count, !.page = @ + 1,
                                 !.finished = ~Continues(facts, count),
                                 !.cut = Cut(facts, count, details)]

-----------------------------------------------------------------------------
SessionInit ==
  \/ \E d \in Deployments :
       facts = [topic |-> "identity", world |-> d, install |-> NotEmitted, close |-> NotEmitted, at |-> [install |-> d, close |-> d]]
  \/ \E r \in RecordsOf, d \in Deployments :
       facts = [topic |-> "inspection", record |-> r, expected |-> d, token |-> NoToken, joined |-> <<>>, exact |-> FALSE,
                finished |-> FALSE, read |-> r]
  \/ \E c \in Contents, size \in 1..3, d \in 0..2 :
       facts = [topic |-> "answer", items |-> c, size |-> size, details |-> d, offset |-> 0, page |-> 1, joined |-> <<>>,
                finished |-> FALSE, cut |-> FALSE]

SessionNext ==
  \/ Emit("install", "INSTALL_OK")
  \/ Emit("close", "CAPTURE_CLOSE")
  \/ Redeploy
  \/ RecordDamaged
  \/ \E size \in 1..2 : InspectSession(size)
  \/ RecordReplaced
  \/ AnswerPage

SessionSpec == SessionInit /\ [][SessionNext]_facts

-----------------------------------------------------------------------------
\* If a capture may be used to promote a candidate, the deployment that was
\* installed when the probe started is the one that was installed when it
\* closed, and it is the one both records name.
\* (build_runtime_identity_record, verify_capture_identity)
OneDeployment ==
  About("identity") =>
    (facts.install # NotEmitted /\ facts.close # NotEmitted /\ PromotionAllowed(facts.install, facts.close) =>
       /\ facts.at.install = facts.at.close
       /\ facts.install.binding.deployment = facts.at.install /\ facts.install.session = facts.close.session)

\* Pages that were read one after the other are the beginning of one record,
\* the last one read, and end with it; called exact, they are the expected one's.
\* (RuntimeSessionInspector.inspect, decode_continuation_handle)
PagesOfOneRecord ==
  About("inspection") =>
    /\ facts.joined = SubSeq(facts.read.observations, 1, Len(facts.joined))
    /\ facts.finished => facts.joined = facts.read.observations
    /\ facts.finished /\ facts.exact => facts.read.identity = facts.expected

\* An answer that ends and does not call itself truncated is whole: every item
\* was on a page.  (build_bounded_envelope)
AnswerWhole ==
  About("answer") =>
    /\ facts.joined = SubSeq(facts.items, 1, facts.offset)
    /\ facts.finished /\ ~facts.cut => facts.joined = facts.items

\* What is joined from several looks is of one moment: the deployment of a capture,
\* the pages of a record and of an answer.  (build_runtime_identity_record,
\* RuntimeSessionInspector.inspect, build_bounded_envelope)
RecordsOfOneMoment ==
  /\ OneDeployment
  /\ PagesOfOneRecord
  /\ AnswerWhole
=============================================================================
