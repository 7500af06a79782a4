------------------------------ MODULE GatesProofs ------------------------------
(***************************************************************************)
(* What PackGates promises for every pack: the gates force a pack that may *)
(* keep no specification onto the pages it names; the budget holds and     *)
(* drops the least important pages; the audit blames the budget for no     *)
(* value it had room for; and a cleared docs pack asks for nothing the     *)
(* budget removed.                                                         *)
(***************************************************************************)
EXTENDS PackGates, FiniteFacts

-----------------------------------------------------------------------------
(***************************************************************************)
(* The gates: what lies behind a gate holds of the pack.                   *)
(***************************************************************************)

Reached ==
  /\ gate # "recon" => ReconOk
  /\ gate \notin {"recon", "validate"} => ValidateOk
  /\ gate \notin {"recon", "validate", "prompts", "roundtrip", "anchoring"} => AnchoringOk
  /\ verdict = "cleared" => gate = "grid"

\* The gates read only the pack, which no step changes.
LEMMA GatesReadThePack ==
  ASSUME UNCHANGED pack
  PROVE  /\ ReconOk' = ReconOk
         /\ ValidateOk' = ValidateOk
         /\ AnchoringOk' = AnchoringOk
BY DEF ReconOk, ValidateOk, AnchoringOk, RefusedHosts, EntryPages, Entry, Tasks, Lists,
       DocsCohort, ValidTask, Anchored, SpecBranch, DocBranch, Consistent, GroupsPartition,
       ManifestUrls, Endpoints, Resolves, Follows, Vendored, AnchorPaths

LEMMA PackIsFixed == GateNext => UNCHANGED pack
BY DEF GateNext, CheckRecon, CheckValidate, CheckPrompts, CheckRoundTrip, CheckAnchoring,
       CheckSubstitution, AuditTask, CheckTruncation, CheckDisclosure, AskModel,
       AssembleContext, FileGate, gateVars

LEMMA StepReaches == Reached /\ [GateNext]_<<gateVars, contextVars>> => Reached'
<1> SUFFICES ASSUME Reached, [GateNext]_<<gateVars, contextVars>> PROVE Reached'
  OBVIOUS
<1>1. UNCHANGED pack
  BY PackIsFixed DEF gateVars
<1>2. ReconOk' = ReconOk /\ ValidateOk' = ValidateOk /\ AnchoringOk' = AnchoringOk
  BY <1>1, GatesReadThePack
<1> HIDE DEF ReconOk, ValidateOk, AnchoringOk
<1>3. CASE CheckRecon
  BY <1>2, <1>3 DEF Reached, CheckRecon, FileGate, Pass, Block
<1>4. CASE CheckValidate
  BY <1>2, <1>4 DEF Reached, CheckValidate, FileGate, Pass, Block
<1>5. CASE CheckPrompts \/ CheckRoundTrip
  BY <1>2, <1>5 DEF Reached, CheckPrompts, CheckRoundTrip, FileGate, Pass, Block
<1>6. CASE CheckAnchoring
  BY <1>2, <1>6 DEF Reached, CheckAnchoring, FileGate, Pass, Block
<1>7. CASE CheckSubstitution
  BY <1>2, <1>7 DEF Reached, CheckSubstitution, Pass, Block
<1>8. CASE CheckTruncation \/ CheckDisclosure
  BY <1>2, <1>8 DEF Reached, CheckTruncation, CheckDisclosure, Pass, Block
<1>9. CASE AuditTask \/ AssembleContext \/ \E t \in Tasks, list \in Lists : AskModel(t, list)
  BY <1>2, <1>9 DEF Reached, AuditTask, AssembleContext, AskModel, gateVars
<1>10. CASE UNCHANGED <<gateVars, contextVars>>
  BY <1>2, <1>10 DEF Reached, gateVars
<1> QED BY <1>3, <1>4, <1>5, <1>6, <1>7, <1>8, <1>9, <1>10 DEF GateNext

THEOREM GatesReached == GateSpec => []Reached
<1>1. GateInit => Reached
  BY DEF GateInit, Reached
<1> QED BY <1>1, StepReaches, PTL DEF GateSpec

\* The three gates together.
LEMMA GatesForce ==
  ASSUME ReconOk, ValidateOk, AnchoringOk, pack.cohort = "api", pack.permits = "no",
         NEW e \in Endpoints
  PROVE  ~Follows(e) /\ e.docOnly /\ e.doc \in ManifestUrls
<1>1. Vendored = {}
  BY DEF ReconOk, Vendored
<1>2. Resolves(e)
  BY DEF AnchoringOk, DocsCohort
<1>3. ~Follows(e)
  BY <1>1, <1>2 DEF Resolves
<1>4. ~SpecBranch(e)
  BY <1>3 DEF SpecBranch, Follows
<1>5. Anchored(e)
  <2>1. PICK t \in Tasks : e \in ToSet(pack.tasks[t].endpoints)
    BY DEF Endpoints
  <2>2. PICK i \in DOMAIN pack.tasks[t].endpoints : e = pack.tasks[t].endpoints[i]
    BY <2>1 DEF ToSet
  <2>3. ValidTask(pack.tasks[t])
    BY DEF ValidateOk
  <2> QED BY <2>2, <2>3 DEF ValidTask, DocsCohort
<1>6. DocBranch(e)
  BY <1>4, <1>5 DEF Anchored, SpecBranch, DocBranch
<1> QED BY <1>2, <1>3, <1>6 DEF DocBranch, Resolves

\* A cleared pack that may keep no specification rests on none, whatever it
\* writes, whatever its manifest holds.
THEOREM NoCopyIsForced == GateSpec => []NoForcedCopy
<1>1. Reached => NoForcedCopy
  <2> SUFFICES ASSUME Reached, verdict = "cleared", pack.cohort = "api", pack.permits = "no",
                      NEW e \in Endpoints
               PROVE  ~Follows(e) /\ e.docOnly /\ e.doc \in ManifestUrls
    BY DEF NoForcedCopy
  <2>1. ReconOk /\ ValidateOk /\ AnchoringOk
    BY DEF Reached
  <2> QED BY <2>1, GatesForce
<1> QED BY <1>1, GatesReached, PTL

-----------------------------------------------------------------------------
(***************************************************************************)
(* The audit: each request is audited once.                                *)
(***************************************************************************)

FileGates == {"recon", "validate", "prompts", "roundtrip", "anchoring", "substitution"}

Asked == {RequestOf(t, list) : t \in Tasks, list \in Lists}

\* Who is still to be audited: nobody twice, and nobody who was.
AuditsAreNew ==
  /\ pack \in Packs
  /\ audits \in Seq(Asked)
  /\ \A i, j \in DOMAIN audits : audits[i] = audits[j] => i = j
  /\ \A i \in DOMAIN audits, r \in records : r.request # audits[i]
  /\ purpose = "audit" => \A i \in DOMAIN audits : request # audits[i]
  /\ (purpose = "audit" /\ phase # "idle") => \A r \in records : r.request # request

\* What each gate has audited.
AuditsByGate ==
  /\ gate \in FileGates => records = {} /\ purpose = "prompt" /\ audits = <<>>
  /\ gate = "truncation" =>
       /\ \A r \in records : r.request.list = "pages"
       /\ \A i \in DOMAIN audits : audits[i].list = "pages"
       /\ purpose = "audit" => request.list = "pages"
  /\ verdict = "cleared" => gate = "grid"

AuditInv == AuditsAreNew /\ AuditsByGate

LEMMA RequestsAreSequences ==
  ASSUME pack \in Packs, NEW list \in Lists
  PROVE  /\ RequestsOf(list) \in Seq(Asked)
         /\ \A i \in DOMAIN RequestsOf(list) : RequestsOf(list)[i].list = list
         /\ \A i, j \in DOMAIN RequestsOf(list) : RequestsOf(list)[i] = RequestsOf(list)[j] => i = j
<1>1. PICK n \in Nat : Tasks = 1 .. n
  BY PacksAssumption DEF Tasks
<1>2. \A t \in Tasks : RequestOf(t, list) \in Asked
  BY DEF Asked
<1>3. RequestsOf(list) \in [1 .. n -> Asked]
  BY <1>1, <1>2 DEF RequestsOf
<1>4. RequestsOf(list) \in Seq(Asked)
  BY <1>3
<1>5. \A t \in Tasks : RequestsOf(list)[t].list = list /\ RequestsOf(list)[t].task = t
  BY DEF RequestsOf, RequestOf
<1>6. DOMAIN RequestsOf(list) = Tasks
  BY DEF RequestsOf
<1> QED BY <1>4, <1>5, <1>6

LEMMA ColumnsAreSequences ==
  ASSUME pack \in Packs, NEW column \in {"spec_documents", "gated_pages"}
  PROVE  /\ ColumnRequests(column) \in Seq(Asked)
         /\ \A i \in DOMAIN ColumnRequests(column) : ColumnRequests(column)[i].list = column
         /\ \A i, j \in DOMAIN ColumnRequests(column) :
              ColumnRequests(column)[i] = ColumnRequests(column)[j] => i = j
BY RequestsAreSequences DEF ColumnRequests, Lists

\* Both columns, one after the other.
LEMMA ColumnsTogether ==
  ASSUME pack \in Packs
  PROVE  LET both == ColumnRequests("spec_documents") \o ColumnRequests("gated_pages")
         IN /\ both \in Seq(Asked)
            /\ \A i \in DOMAIN both : both[i].list # "pages"
            /\ \A i, j \in DOMAIN both : both[i] = both[j] => i = j
<1> DEFINE s == ColumnRequests("spec_documents")
           g == ColumnRequests("gated_pages")
<1>1. s \in Seq(Asked) /\ g \in Seq(Asked)
  BY ColumnsAreSequences
<1>2. /\ \A i \in DOMAIN s : s[i].list = "spec_documents"
      /\ \A i \in DOMAIN g : g[i].list = "gated_pages"
  BY ColumnsAreSequences
<1>3. /\ \A i, j \in DOMAIN s : s[i] = s[j] => i = j
      /\ \A i, j \in DOMAIN g : g[i] = g[j] => i = j
  BY ColumnsAreSequences
<1> HIDE DEF s, g
<1>4. s \o g \in Seq(Asked)
  BY <1>1
<1>5. \A i \in DOMAIN (s \o g) :
        \/ i \in DOMAIN s /\ (s \o g)[i] = s[i]
        \/ i \notin DOMAIN s /\ i - Len(s) \in DOMAIN g /\ (s \o g)[i] = g[i - Len(s)]
  BY <1>1
<1>6. \A i \in DOMAIN (s \o g) : (s \o g)[i].list # "pages"
  BY <1>2, <1>5
<1>7. ASSUME NEW i \in DOMAIN (s \o g), NEW j \in DOMAIN (s \o g), (s \o g)[i] = (s \o g)[j]
      PROVE  i = j
  <2>1. i \in Int /\ j \in Int /\ Len(s) \in Nat
    BY <1>1
  <2>2. i \in DOMAIN s <=> j \in DOMAIN s
    BY <1>2, <1>5, <1>7
  <2>3. CASE i \in DOMAIN s
    BY <1>3, <1>5, <1>7, <2>2, <2>3
  <2>4. CASE i \notin DOMAIN s
    <3>1. i - Len(s) = j - Len(s)
      BY <1>3, <1>5, <1>7, <2>2, <2>4
    <3> QED BY <2>1, <3>1
  <2> QED BY <2>3, <2>4
<1> QED BY <1>4, <1>6, <1>7 DEF s, g

\* The pack is fixed, so the requests it may be asked are.
LEMMA AskedIsFixed == ASSUME UNCHANGED pack PROVE Asked' = Asked
BY DEF Asked, RequestOf, Tasks, Lists

\* A step of a gate that looks at no context and asks for no audit.
LEMMA QuietStep ==
  ASSUME AuditInv, UNCHANGED <<pack, audits, contextVars>>,
         \/ UNCHANGED gate
         \/ gate \in FileGates /\ gate' \in FileGates
         \/ gate' \notin FileGates \cup {"truncation"},
         verdict' = "cleared" => gate' = "grid"
  PROVE  AuditInv'
<1>1. Asked' = Asked
  BY AskedIsFixed
<1>2. AuditsAreNew'
  BY <1>1 DEF AuditInv, AuditsAreNew, contextVars
<1>3. AuditsByGate'
  BY DEF AuditInv, AuditsByGate, contextVars
<1> QED BY <1>2, <1>3 DEF AuditInv

LEMMA AuditFileGates ==
  ASSUME AuditInv, CheckRecon \/ CheckValidate \/ CheckPrompts \/ CheckRoundTrip \/ CheckAnchoring
  PROVE  AuditInv'
<1>1. UNCHANGED <<pack, audits, contextVars>>
  BY DEF CheckRecon, CheckValidate, CheckPrompts, CheckRoundTrip, CheckAnchoring, FileGate
<1>2. UNCHANGED gate \/ (gate \in FileGates /\ gate' \in FileGates)
  BY DEF CheckRecon, CheckValidate, CheckPrompts, CheckRoundTrip, CheckAnchoring, FileGate,
         Pass, Block, FileGates
<1>3. verdict' # "cleared"
  BY DEF CheckRecon, CheckValidate, CheckPrompts, CheckRoundTrip, CheckAnchoring, FileGate,
         Pass, Block
<1> QED BY <1>1, <1>2, <1>3, QuietStep

\* The truncation gate opens: no record stands, and each task is asked once.
LEMMA AuditSubstitution ==
  ASSUME AuditInv, CheckSubstitution
  PROVE  AuditInv'
<1>1. /\ gate = "substitution" /\ verdict = "running"
      /\ UNCHANGED pack /\ UNCHANGED contextVars
  BY DEF CheckSubstitution
<1>2. CASE ~SubstitutionOk
  <2>1. UNCHANGED gate /\ UNCHANGED audits /\ verdict' = "blocked"
    BY <1>2 DEF CheckSubstitution, Block
  <2> QED BY <1>1, <2>1, QuietStep
<1>3. CASE SubstitutionOk
  <2>1. gate' = "truncation" /\ UNCHANGED verdict /\ audits' = RequestsOf("pages")
    BY <1>3 DEF CheckSubstitution, Pass
  <2>2. records' = {} /\ purpose' = "prompt"
    BY <1>1 DEF AuditInv, AuditsByGate, FileGates, contextVars
  <2>3. pack \in Packs /\ pack' = pack /\ Asked' = Asked
    BY <1>1, AskedIsFixed DEF AuditInv, AuditsAreNew
  <2>4. /\ audits' \in Seq(Asked)
        /\ \A i \in DOMAIN audits' : audits'[i].list = "pages"
        /\ \A i, j \in DOMAIN audits' : audits'[i] = audits'[j] => i = j
    BY <2>1, <2>3, RequestsAreSequences DEF Lists
  <2>5. AuditsAreNew'
    BY <2>2, <2>3, <2>4 DEF AuditsAreNew
  <2>6. AuditsByGate'
    BY <1>1, <2>1, <2>2, <2>4 DEF AuditsByGate, FileGates
  <2> QED BY <2>5, <2>6 DEF AuditInv
<1> QED BY <1>2, <1>3

\* The disclosure gate opens: the columns are other requests than the pages.
LEMMA AuditTruncation ==
  ASSUME AuditInv, CheckTruncation
  PROVE  AuditInv'
<1>1. /\ gate = "truncation" /\ verdict = "running"
      /\ UNCHANGED pack /\ UNCHANGED contextVars /\ phase = "idle"
  BY DEF CheckTruncation, Audited
<1>2. CASE ~TruncationOk
  <2>1. UNCHANGED gate /\ UNCHANGED audits /\ verdict' = "blocked"
    BY <1>2 DEF CheckTruncation, Block
  <2> QED BY <1>1, <2>1, QuietStep
<1>3. CASE TruncationOk
  <2>1. /\ gate' = "disclosure" /\ UNCHANGED verdict
        /\ audits' = ColumnRequests("spec_documents") \o ColumnRequests("gated_pages")
    BY <1>3 DEF CheckTruncation, Pass
  <2>2. pack \in Packs /\ pack' = pack /\ Asked' = Asked
    BY <1>1, AskedIsFixed DEF AuditInv, AuditsAreNew
  <2>3. /\ audits' \in Seq(Asked)
        /\ \A i \in DOMAIN audits' : audits'[i].list # "pages"
        /\ \A i, j \in DOMAIN audits' : audits'[i] = audits'[j] => i = j
    BY <2>1, <2>2, ColumnsTogether
  <2>4. /\ \A r \in records' : r.request.list = "pages"
        /\ purpose' = "audit" => request'.list = "pages"
        /\ phase' = "idle"
    BY <1>1 DEF AuditInv, AuditsByGate, contextVars
  <2>5. AuditsAreNew'
    BY <2>2, <2>3, <2>4 DEF AuditsAreNew
  <2>6. AuditsByGate'
    BY <1>1, <2>1 DEF AuditsByGate, FileGates
  <2> QED BY <2>5, <2>6 DEF AuditInv
<1> QED BY <1>2, <1>3

LEMMA AuditDisclosure ==
  ASSUME AuditInv, CheckDisclosure
  PROVE  AuditInv'
<1>1. UNCHANGED <<pack, audits, contextVars>> /\ gate = "disclosure" /\ verdict = "running"
  BY DEF CheckDisclosure, Audited
<1>2. UNCHANGED gate \/ gate' \notin FileGates \cup {"truncation"}
  BY DEF CheckDisclosure, Block, FileGates
<1>3. verdict' = "cleared" => gate' = "grid"
  BY <1>1 DEF CheckDisclosure, Block
<1> QED BY <1>1, <1>2, <1>3, QuietStep

\* A context is begun: it leaves the idle phase, and the records as they are.
LEMMA BeginIsBusy ==
  ASSUME NEW r, NEW why, Begin(r, why)
  PROVE  /\ request' = r /\ purpose' = why /\ records' = records
         /\ phase' # "idle"
BY DEF Begin

\* An audit turns to a request that no record is of.
LEMMA AuditNextTask ==
  ASSUME AuditInv, AuditTask
  PROVE  AuditInv'
<1>1. /\ verdict = "running" /\ audits # <<>> /\ audits' = Tail(audits)
      /\ UNCHANGED <<pack, gate, verdict>>
  BY DEF AuditTask
<1>2. /\ request' = Head(audits) /\ purpose' = "audit" /\ records' = records
      /\ phase' # "idle"
  BY BeginIsBusy DEF AuditTask
<1>3. audits \in Seq(Asked) /\ Asked' = Asked
  BY <1>1, AskedIsFixed DEF AuditInv, AuditsAreNew
<1>4. /\ audits' \in Seq(Asked)
      /\ 1 \in DOMAIN audits /\ Head(audits) = audits[1]
      /\ \A i \in DOMAIN audits' : i \in Nat /\ i # 0 /\ i + 1 \in DOMAIN audits
                                  /\ audits'[i] = audits[i + 1]
  BY <1>1, <1>3
<1>5. \A i, j \in DOMAIN audits' : audits'[i] = audits'[j] => i = j
  BY <1>4 DEF AuditInv, AuditsAreNew
<1>6. \A i \in DOMAIN audits', r \in records' : r.request # audits'[i]
  BY <1>2, <1>4 DEF AuditInv, AuditsAreNew
<1>7. \A i \in DOMAIN audits' : request' # audits'[i]
  BY <1>2, <1>4 DEF AuditInv, AuditsAreNew
<1>8. \A r \in records' : r.request # request'
  BY <1>2, <1>4 DEF AuditInv, AuditsAreNew
<1>9. AuditsAreNew'
  BY <1>1, <1>3, <1>4, <1>5, <1>6, <1>7, <1>8 DEF AuditInv, AuditsAreNew
<1>10. AuditsByGate'
  <2>1. gate \notin FileGates
    BY <1>1 DEF AuditInv, AuditsByGate
  <2> QED BY <1>1, <1>2, <1>4, <2>1 DEF AuditInv, AuditsByGate
<1> QED BY <1>9, <1>10 DEF AuditInv

LEMMA AuditAskModel ==
  ASSUME AuditInv, NEW t \in Tasks, NEW list \in Lists, AskModel(t, list)
  PROVE  AuditInv'
<1>1. /\ UNCHANGED <<pack, gate, verdict, audits>>
      /\ verdict = "cleared"
  BY DEF AskModel, gateVars
<1>2. purpose' = "prompt" /\ records' = records
  BY BeginIsBusy DEF AskModel
<1>3. Asked' = Asked
  BY <1>1, AskedIsFixed
<1>4. AuditsAreNew'
  BY <1>1, <1>2, <1>3 DEF AuditInv, AuditsAreNew
<1>5. AuditsByGate'
  BY <1>1, <1>2 DEF AuditInv, AuditsByGate, FileGates
<1> QED BY <1>4, <1>5 DEF AuditInv

\* While a context is assembled nothing is recorded.
LEMMA AuditAssembling ==
  ASSUME AuditInv, UNCHANGED gateVars, NextPage \/ Assembled
  PROVE  AuditInv'
<1>1. /\ UNCHANGED <<pack, gate, verdict, audits>>
      /\ UNCHANGED <<request, purpose, records>>
      /\ phase = "assembling" /\ phase' # "idle"
  BY DEF gateVars, NextPage, Assembled
<1>2. Asked' = Asked
  BY <1>1, AskedIsFixed
<1>3. AuditsAreNew'
  BY <1>1, <1>2 DEF AuditInv, AuditsAreNew
<1>4. AuditsByGate'
  BY <1>1 DEF AuditInv, AuditsByGate
<1> QED BY <1>3, <1>4 DEF AuditInv

\* The audit of a request ends: its records are the only ones of it.
LEMMA AuditCompares ==
  ASSUME AuditInv, UNCHANGED gateVars, AuditRequest
  PROVE  AuditInv'
<1>1. /\ UNCHANGED <<pack, gate, verdict, audits>>
      /\ UNCHANGED <<request, purpose, blocks>>
      /\ purpose = "audit" /\ phase \in {"assembled", "raised"} /\ phase' = "idle"
  BY DEF gateVars, AuditRequest
<1>2. Asked' = Asked
  BY <1>1, AskedIsFixed
<1>3. \A r \in records' : \/ r \in records /\ r.request # request
                          \/ r = ErrorRecord /\ r.request = request /\ r.error
                          \/ \E t \in request.terms : r = Record(t) /\ r.term = t
                                                       /\ r.request = request
  <2>1. \A r \in records : r.request # request
    BY <1>1 DEF AuditInv, AuditsAreNew
  <2>2. \A t : Record(t).term = t /\ Record(t).request = request
    BY DEF Record
  <2>3. ErrorRecord.request = request /\ ErrorRecord.error
    BY DEF ErrorRecord
  <2> QED BY <2>1, <2>2, <2>3 DEF AuditRequest
<1>4. AuditsAreNew'
  BY <1>1, <1>2, <1>3 DEF AuditInv, AuditsAreNew
<1>5. AuditsByGate'
  <2>1. gate \notin FileGates
    BY <1>1 DEF AuditInv, AuditsByGate
  <2> QED BY <1>1, <1>3, <2>1 DEF AuditInv, AuditsByGate
<1> QED BY <1>4, <1>5 DEF AuditInv

LEMMA StepAudits == AuditInv /\ [GateNext]_<<gateVars, contextVars>> => AuditInv'
<1> SUFFICES ASSUME AuditInv, [GateNext]_<<gateVars, contextVars>> PROVE AuditInv'
  OBVIOUS
<1>1. CASE CheckRecon \/ CheckValidate \/ CheckPrompts \/ CheckRoundTrip \/ CheckAnchoring
  BY <1>1, AuditFileGates
<1>2. CASE CheckSubstitution
  BY <1>2, AuditSubstitution
<1>3. CASE AuditTask
  BY <1>3, AuditNextTask
<1>4. CASE CheckTruncation
  BY <1>4, AuditTruncation
<1>5. CASE CheckDisclosure
  BY <1>5, AuditDisclosure
<1>6. CASE \E t \in Tasks, list \in Lists : AskModel(t, list)
  BY <1>6, AuditAskModel
<1>7. CASE AssembleContext
  BY <1>7, AuditAssembling, AuditCompares DEF AssembleContext
<1>8. CASE UNCHANGED <<gateVars, contextVars>>
  <2>1. UNCHANGED <<pack, gate, verdict, audits>>
    BY <1>8 DEF gateVars
  <2>2. verdict = "cleared" => gate = "grid"
    BY DEF AuditInv, AuditsByGate
  <2> QED BY <1>8, <2>1, <2>2, QuietStep
<1> QED BY <1>1, <1>2, <1>3, <1>4, <1>5, <1>6, <1>7, <1>8 DEF GateNext

-----------------------------------------------------------------------------
(***************************************************************************)
(* The order of the pages.                                                 *)
(***************************************************************************)

LEMMA RankIsNumber == ASSUME NEW role PROVE Rank(role) \in Nat
<1>1. DOMAIN RolePriority \subseteq Nat /\ Len(RolePriority) \in Nat
  BY ContextAssumption
<1>2. role \in ToSet(RolePriority) => \E i \in DOMAIN RolePriority : RolePriority[i] = role
  BY DEF ToSet
<1> QED BY <1>1, <1>2 DEF Rank

\* What Place counts for the i-th page.
UpTo(pages, i) ==
  {j \in DOMAIN pages : \/ Rank(pages[j].role) < Rank(pages[i].role)
                        \/ Rank(pages[j].role) = Rank(pages[i].role) /\ j <= i}

LEMMA PlacesCount ==
  ASSUME NEW S, NEW pages \in Seq(S)
  PROVE  \A i \in DOMAIN pages :
           /\ Place(pages, i) = Cardinality(UpTo(pages, i))
           /\ IsFiniteSet(UpTo(pages, i))
           /\ Place(pages, i) \in DOMAIN pages
<1>1. PICK n \in Nat : DOMAIN pages = 1 .. n
  OBVIOUS
<1>2. IsFiniteSet(1 .. n) /\ Cardinality(1 .. n) = n
  BY FS_Interval
<1> TAKE i \in DOMAIN pages
<1>3. Place(pages, i) = Cardinality(UpTo(pages, i))
  BY DEF Place, UpTo
<1>4. UpTo(pages, i) \subseteq 1 .. n /\ i \in UpTo(pages, i)
  BY <1>1 DEF UpTo
<1>5. IsFiniteSet(UpTo(pages, i)) /\ Cardinality(UpTo(pages, i)) <= n
  BY <1>2, <1>4, FS_Subset
<1>6. Cardinality(UpTo(pages, i)) \in Nat /\ Cardinality(UpTo(pages, i)) # 0
  BY <1>4, <1>5, FS_CardinalityType, FS_EmptySet
<1> QED BY <1>1, <1>3, <1>5, <1>6

\* A page sorted before another one has a smaller place.
LEMMA PlacesGrow ==
  ASSUME NEW S, NEW pages \in Seq(S), NEW i \in DOMAIN pages, NEW j \in DOMAIN pages,
         i # j, i \in UpTo(pages, j)
  PROVE  Place(pages, i) < Place(pages, j)
<1>1. \A k \in DOMAIN pages : k \in Nat /\ Rank(pages[k].role) \in Nat
  BY RankIsNumber
<1>2. UpTo(pages, i) \subseteq UpTo(pages, j)
  BY <1>1 DEF UpTo
<1>3. j \in UpTo(pages, j) /\ j \notin UpTo(pages, i)
  BY <1>1 DEF UpTo
<1>4. Cardinality(UpTo(pages, i)) < Cardinality(UpTo(pages, j))
  <2>1. IsFiniteSet(UpTo(pages, i)) /\ IsFiniteSet(UpTo(pages, j))
    BY PlacesCount
  <2>2. /\ Cardinality(UpTo(pages, i)) <= Cardinality(UpTo(pages, j))
        /\ Cardinality(UpTo(pages, i)) # Cardinality(UpTo(pages, j))
    BY <1>2, <1>3, <2>1, FS_Subset
  <2>3. Cardinality(UpTo(pages, i)) \in Nat /\ Cardinality(UpTo(pages, j)) \in Nat
    BY <2>1, FS_CardinalityType
  <2> QED BY <2>2, <2>3
<1> QED BY <1>4, PlacesCount

\* No two pages share a place.
LEMMA PlacesDiffer ==
  ASSUME NEW S, NEW pages \in Seq(S), NEW i \in DOMAIN pages, NEW j \in DOMAIN pages, i # j
  PROVE  Place(pages, i) # Place(pages, j)
<1>1. DOMAIN pages \subseteq Nat
  OBVIOUS
<1>2. i \in UpTo(pages, j) \/ j \in UpTo(pages, i)
  BY <1>1, RankIsNumber DEF UpTo
<1>3. Place(pages, i) \in Nat /\ Place(pages, j) \in Nat
  BY PlacesCount
<1> QED BY <1>2, <1>3, PlacesGrow

\* The sorted pages are the pages, and their roles are in order.
LEMMA PagesAreSorted ==
  ASSUME NEW S, NEW pages \in Seq(S)
  PROVE  /\ PagesFor(pages) \in Seq(S) /\ DOMAIN PagesFor(pages) = DOMAIN pages
         /\ \A i \in DOMAIN pages : PagesFor(pages)[Place(pages, i)] = pages[i]
         /\ \A k \in DOMAIN pages : \E i \in DOMAIN pages :
              Place(pages, i) = k /\ PagesFor(pages)[k] = pages[i]
<1>1. PICK n \in Nat : DOMAIN pages = 1 .. n
  OBVIOUS
<1> DEFINE place == [i \in DOMAIN pages |-> Place(pages, i)]
<1>2. place \in [DOMAIN pages -> DOMAIN pages]
  BY PlacesCount
<1>3. ASSUME NEW i \in DOMAIN pages, NEW j \in DOMAIN pages, i # j
      PROVE  Place(pages, i) # Place(pages, j)
  BY <1>3, PlacesDiffer
<1>4. place \in Injection(DOMAIN pages, DOMAIN pages)
  BY <1>2, <1>3 DEF Injection, IsInjective
<1>5. IsFiniteSet(DOMAIN pages)
  BY <1>1, FS_Interval
<1>6. place \in Surjection(DOMAIN pages, DOMAIN pages)
  BY <1>4, <1>5, FS_Injection
<1>7. \A k \in DOMAIN pages : \E i \in DOMAIN pages : Place(pages, i) = k
  BY <1>6 DEF Surjection
<1>8. \A k \in DOMAIN pages, i \in DOMAIN pages :
        Place(pages, i) = k => PagesFor(pages)[k] = pages[i]
  BY <1>3 DEF PagesFor
<1>9. PagesFor(pages) = [k \in 1 .. n |-> PagesFor(pages)[k]]
  BY <1>1 DEF PagesFor
<1>10. \A k \in 1 .. n : PagesFor(pages)[k] \in S
  <2>1. \A i \in DOMAIN pages : pages[i] \in S
    OBVIOUS
  <2> QED BY <1>1, <1>7, <1>8, <2>1
<1> HIDE DEF place
<1>11. PagesFor(pages) \in [1 .. n -> S]
  BY <1>9, <1>10
<1>12. PagesFor(pages) \in Seq(S) /\ DOMAIN PagesFor(pages) = DOMAIN pages
  BY <1>1, <1>11
<1> QED BY <1>7, <1>8, <1>12, PlacesCount

LEMMA RolesAreSorted ==
  ASSUME NEW S, NEW pages \in Seq(S), NEW i \in DOMAIN pages, NEW j \in DOMAIN pages,
         Rank(pages[i].role) < Rank(pages[j].role)
  PROVE  Place(pages, i) < Place(pages, j)
<1>1. i # j /\ i \in UpTo(pages, j)
  BY RankIsNumber DEF UpTo
<1> QED BY <1>1, PlacesGrow

-----------------------------------------------------------------------------
(***************************************************************************)
(* How long a text is.                                                     *)
(***************************************************************************)

LEMMA TextIsSequence == ASSUME NEW text \in Text PROVE text \in Seq(Units) /\ Len(text) \in Nat
BY DEF Text

LEMMA SolidHasEnds ==
  ASSUME NEW text \in Text, Solid(text) # {}
  PROVE  /\ Min(Solid(text)) \in 1 .. Len(text) /\ Max(Solid(text)) \in 1 .. Len(text)
         /\ Min(Solid(text)) <= Max(Solid(text))
<1>1. Len(text) \in Nat /\ Solid(text) \subseteq 1 .. Len(text)
  BY DEF Text, Solid
<1>2. /\ Solid(text) \in SUBSET Nat
      /\ \A y \in Solid(text) : y <= Len(text)
  BY <1>1
<1>3. \E x \in Solid(text) : \A y \in Solid(text) : x <= y
  BY <1>2, LeastNat
<1>4. \E x \in Solid(text) : \A y \in Solid(text) : y <= x
  BY <1>1, <1>2, GreatestNat
<1>5. \E x \in Solid(text) : \A y \in Solid(text) : x >= y
  BY <1>2, <1>4
<1> HIDE DEF Solid
<1>6. Min(Solid(text)) \in Solid(text) /\ \A y \in Solid(text) : Min(Solid(text)) <= y
  BY <1>3 DEF Min
<1>7. Max(Solid(text)) \in Solid(text)
  BY <1>5 DEF Max
<1> QED BY <1>1, <1>6, <1>7

LEMMA StripIsText ==
  ASSUME NEW text \in Text
  PROVE  /\ Strip(text) \in Text /\ RStrip(text) \in Text
         /\ Len(RStrip(text)) <= Len(text)
<1>1. <<>> \in Text /\ Len(<<>>) = 0 /\ Len(text) \in Nat /\ text \in Seq(Units)
  BY DEF Text
<1>2. CASE Solid(text) = {}
  BY <1>1, <1>2 DEF Strip, RStrip
<1>3. CASE Solid(text) # {}
  <2> DEFINE a == Min(Solid(text))
             b == Max(Solid(text))
  <2>1. a \in 1 .. Len(text) /\ b \in 1 .. Len(text) /\ a <= b
    BY <1>3, SolidHasEnds
  <2> HIDE DEF a, b
  <2>2. SubSeq(text, a, b) \in Text /\ SubSeq(text, 1, b) \in Text
    BY <1>1, <2>1 DEF Text
  <2>3. Len(SubSeq(text, 1, b)) = b
    BY <1>1, <2>1
  <2> QED BY <1>1, <1>3, <2>1, <2>2, <2>3 DEF Strip, RStrip, a, b
<1> QED BY <1>2, <1>3

\* A page whose heading and text are texts.
PageOk(page) == page.heading \in Text /\ page.text \in Text

LEMMA LoadedIsText == ASSUME NEW page, PageOk(page) PROVE LoadText(page) \in Text
BY DEF PageOk, LoadText, Text

\* Body, of the number of characters counted before it.
BodyAt(page, count) ==
  LET text == Strip(LoadText(page))
      left == Budget - count - Len(page.heading)
  IN IF Len(text) > left THEN RStrip(SubSeq(text, 1, left)) \o Marker ELSE text

\* A text that ends in the notice does, whatever it was.
LEMMA NoticeIsSeen ==
  ASSUME NEW text \in Text, NEW b, b.body = text \o Marker
  PROVE  Cropped(b)
<1>1. text \in Seq(Units) /\ Marker \in Seq(Units) /\ Len(text) \in Nat /\ Len(Marker) \in Nat
  BY ContextAssumption, TextIsSequence
<1> DEFINE whole == text \o Marker
           kept == SubSeq(whole, 1, Len(text))
<1>2. whole \in Seq(Units) /\ Len(whole) = Len(text) + Len(Marker)
      /\ \A i \in 1 .. Len(text) : whole[i] = text[i]
  BY <1>1
<1>3. kept = text
  <2> HIDE DEF whole
  <2>1. Len(text) \in 0 .. Len(whole)
    BY <1>1, <1>2
  <2>2. kept \in Seq(Units) /\ Len(kept) = Len(text)
        /\ \A i \in 1 .. Len(text) : kept[i] = whole[i]
    BY <1>1, <1>2, <2>1
  <2> HIDE DEF kept
  <2>3. \A i \in 1 .. Len(text) : kept[i] = text[i]
    BY <1>2, <2>2
  <2>4. /\ kept = [i \in 1 .. Len(text) |-> kept[i]]
        /\ text = [i \in 1 .. Len(text) |-> text[i]]
    BY <1>1, <2>2
  <2> QED BY <2>3, <2>4
<1>4. Len(text) \in 0 .. Len(whole)
  BY <1>1, <1>2
<1> HIDE DEF kept
<1> QED BY <1>3, <1>4 DEF Cropped, kept

\* A body has room, or ends in the notice and exceeds what is left by no more.
LEMMA BodyFits ==
  ASSUME NEW page, PageOk(page), NEW count \in Nat, Budget - count - Len(page.heading) > 0
  PROVE  /\ BodyAt(page, count) \in Text
         /\ count + Len(page.heading) + Len(BodyAt(page, count)) <= Budget + Len(Marker)
         /\ \/ count + Len(page.heading) + Len(BodyAt(page, count)) <= Budget
            \/ \E kept \in Text : BodyAt(page, count) = kept \o Marker
<1> DEFINE text == Strip(LoadText(page))
           left == Budget - count - Len(page.heading)
           cut == SubSeq(text, 1, left)
<1>1. text \in Seq(Units) /\ Len(text) \in Nat
  BY LoadedIsText, StripIsText, TextIsSequence
<1>2. Len(page.heading) \in Nat /\ Marker \in Seq(Units) /\ Len(Marker) \in Nat /\ Budget \in Nat
  BY ContextAssumption, TextIsSequence DEF PageOk
<1>3. left \in Nat /\ left > 0 /\ count + Len(page.heading) + left = Budget
  <2>1. \A h \in Nat : Budget - count - h > 0 =>
          /\ Budget - count - h \in Nat
          /\ count + h + (Budget - count - h) = Budget
    BY <1>2
  <2> QED BY <1>2, <2>1
<1>4. BodyAt(page, count) = IF Len(text) > left THEN RStrip(cut) \o Marker ELSE text
  BY DEF BodyAt
<1> HIDE DEF text, left
<1>5. CASE Len(text) > left
  <2>1. cut \in Seq(Units) /\ Len(cut) = left
    BY <1>1, <1>3, <1>5
  <2> HIDE DEF cut
  <2>2. RStrip(cut) \in Seq(Units) /\ Len(RStrip(cut)) \in Nat /\ Len(RStrip(cut)) <= left
    BY <2>1, StripIsText, TextIsSequence DEF Text
  <2>3. /\ RStrip(cut) \o Marker \in Seq(Units)
        /\ Len(RStrip(cut) \o Marker) = Len(RStrip(cut)) + Len(Marker)
    BY <1>2, <2>2
  <2>4. BodyAt(page, count) = RStrip(cut) \o Marker
    BY <1>4, <1>5
  <2>5. count + Len(page.heading) + (Len(RStrip(cut)) + Len(Marker)) <= Budget + Len(Marker)
    <3>1. \A h, m, x \in Nat : count + h + left = Budget /\ x <= left =>
            count + h + (x + m) <= Budget + m
      BY <1>3
    <3> QED BY <1>2, <1>3, <2>2, <3>1
  <2>6. RStrip(cut) \in Text
    BY <2>2 DEF Text
  <2> QED BY <2>3, <2>4, <2>5, <2>6 DEF Text
<1>6. CASE ~(Len(text) > left)
  <2>1. BodyAt(page, count) = text
    BY <1>4, <1>6
  <2> QED BY <1>1, <1>2, <1>3, <1>6, <2>1 DEF Text
<1> QED BY <1>5, <1>6

-----------------------------------------------------------------------------
(***************************************************************************)
(* How long the blocks are together: the fold over them is a sum.          *)
(***************************************************************************)

Width(b) == Len(b.page.heading) + Len(b.body)
Total(bs) == FoldSeq(LAMBDA b, n : n + Width(b), 0, bs)
Widths(bs) == [i \in DOMAIN bs |-> Width(bs[i])]

BlockOk(b) == PageOk(b.page) /\ b.body \in Text

\* What is counted of these blocks, and may be.
BlocksOk(bs, count) ==
  /\ bs \in Seq(ToSet(bs)) /\ \A i \in DOMAIN bs : BlockOk(bs[i])
  /\ count = Total(bs) /\ count \in Nat /\ count <= Budget + Len(Marker)
  /\ (\A i \in DOMAIN bs : ~Cropped(bs[i])) => count <= Budget

LEMMA WidthsAreNumbers ==
  ASSUME NEW bs, \A i \in DOMAIN bs : BlockOk(bs[i])
  PROVE  Widths(bs) \in [DOMAIN bs -> Nat]
<1>1. \A i \in DOMAIN bs : Width(bs[i]) \in Nat
  <2> TAKE i \in DOMAIN bs
  <2>1. Len(bs[i].page.heading) \in Nat /\ Len(bs[i].body) \in Nat
    BY TextIsSequence DEF BlockOk, PageOk
  <2>2. \A x, y \in Nat : x + y \in Nat
    OBVIOUS
  <2> QED BY <2>1, <2>2, Zenon DEF Width
<1> QED BY <1>1 DEF Widths

LEMMA TotalIsSum ==
  ASSUME NEW bs, IsFiniteSet(DOMAIN bs), \A i \in DOMAIN bs : BlockOk(bs[i])
  PROVE  Total(bs) = SumOf(Widths(bs), DOMAIN bs)
<1> DEFINE D == DOMAIN bs
           w == Widths(bs)
<1>1. w \in [D -> Nat]
  BY WidthsAreNumbers
<1>2. PICK iter : /\ Total(bs) = iter[D]
                  /\ (\E g : g = [s \in SUBSET D |->
                                    IF s = {} THEN 0
                                    ELSE g[s \ {CHOOSE y \in s : TRUE}]
                                         + Width(bs[CHOOSE y \in s : TRUE])])
                     => iter = [s \in SUBSET D |->
                                  IF s = {} THEN 0
                                  ELSE iter[s \ {CHOOSE y \in s : TRUE}]
                                       + Width(bs[CHOOSE y \in s : TRUE])]
  BY DEF Total, FoldSeq, FoldFunction, MapThenFoldSet, FoldFunctionOnSet
<1>3. ASSUME NEW f
      PROVE  Adds(f, w, D) <=> f = [s \in SUBSET D |->
                                      IF s = {} THEN 0
                                      ELSE f[s \ {CHOOSE y \in s : TRUE}]
                                           + Width(bs[CHOOSE y \in s : TRUE])]
  <2>1. \A s \in SUBSET D : s # {} => w[Picked(s)] = Width(bs[CHOOSE y \in s : TRUE])
    BY DEF Picked, Widths
  <2> HIDE DEF w, D
  <2> QED BY <2>1 DEF Adds, Picked
<1>4. \E g : Adds(g, w, D)
  BY <1>1, FoldExists
<1>5. Adds(iter, w, D)
  <2> HIDE DEF w, D
  <2>1. PICK g : Adds(g, w, D)
    BY <1>4
  <2> QED BY <1>2, <1>3, <2>1
<1> QED BY <1>1, <1>2, <1>5, FoldCounts

LEMMA TotalOfNothing == Total(<<>>) = 0
<1>1. DOMAIN <<>> = {} /\ IsFiniteSet({})
  BY FS_EmptySet
<1>2. Total(<<>>) = SumOf(Widths(<<>>), {})
  BY <1>1, TotalIsSum
<1> QED BY <1>2, SumOfNothing

LEMMA TotalOfMore ==
  ASSUME NEW bs, bs \in Seq(ToSet(bs)), \A i \in DOMAIN bs : BlockOk(bs[i]),
         NEW b, BlockOk(b)
  PROVE  Total(Append(bs, b)) = Total(bs) + Width(b)
<1> DEFINE more == Append(bs, b)
           n == Len(bs) + 1
           v == Widths(bs)
           w == Widths(more)
<1>1. /\ Len(bs) \in Nat /\ DOMAIN bs = 1 .. Len(bs) /\ DOMAIN more = 1 .. n
      /\ \A i \in DOMAIN bs : more[i] = bs[i]
      /\ more[n] = b
  BY DEF ToSet
<1> HIDE DEF more
<1>2. IsFiniteSet(DOMAIN bs) /\ IsFiniteSet(DOMAIN more)
  BY <1>1, FS_Interval
<1>3. \A i \in DOMAIN more : BlockOk(more[i])
  BY <1>1
<1>4. /\ Total(bs) = SumOf(v, DOMAIN bs) /\ Total(more) = SumOf(w, DOMAIN more)
      /\ w \in [DOMAIN more -> Nat]
  BY <1>2, <1>3, TotalIsSum, WidthsAreNumbers
<1>5. n \in DOMAIN more /\ DOMAIN more \ {n} = DOMAIN bs /\ w[n] = Width(b)
  BY <1>1 DEF Widths
<1>6. \A i \in DOMAIN bs : w[i] = v[i]
  BY <1>1 DEF Widths
<1> HIDE DEF v, w, n
<1>7. SumOf(w, DOMAIN more) = SumOf(w, DOMAIN bs) + Width(b)
  BY <1>2, <1>4, <1>5, SumWithout
<1>8. Piles(w, DOMAIN bs) = Piles(v, DOMAIN bs)
  BY <1>6 DEF Piles
<1> QED BY <1>4, <1>7, <1>8 DEF SumOf, more

-----------------------------------------------------------------------------
(***************************************************************************)
(* What the first pages cost together when none of them is cut.            *)
(***************************************************************************)

\* The pages of a request, where it has any.
PagesOk(pages) == pages \in Seq(ToSet(pages)) /\ \A page \in ToSet(pages) : PageOk(page)

Costs(pages) == [i \in DOMAIN pages |-> Cost(pages[i])]
First(pages, k) == {j \in DOMAIN pages : Place(pages, j) <= k}
CostTo(pages, k) == SumOf(Costs(pages), First(pages, k))

LEMMA CostIsNumber ==
  ASSUME NEW page, PageOk(page)
  PROVE  /\ Cost(page) \in Nat
         /\ Strip(LoadText(page)) # <<>> => Cost(page) > Len(page.heading)
<1> DEFINE text == Strip(LoadText(page))
<1>1. text \in Seq(Units) /\ Len(text) \in Nat /\ Len(page.heading) \in Nat
  BY LoadedIsText, StripIsText, TextIsSequence DEF PageOk
<1>2. Cost(page) = IF text = <<>> THEN 0 ELSE Len(page.heading) + Len(text)
  BY DEF Cost
<1> HIDE DEF text
<1>3. text # <<>> => Len(text) > 0
  BY <1>1
<1>4. \A h, x \in Nat : h + x \in Nat /\ (x > 0 => h + x > h)
  OBVIOUS
<1> QED BY <1>1, <1>2, <1>3, <1>4 DEF text

LEMMA CostsAreNumbers ==
  ASSUME NEW pages, PagesOk(pages)
  PROVE  /\ IsFiniteSet(DOMAIN pages) /\ Costs(pages) \in [DOMAIN pages -> Nat]
         /\ \A k : CostTo(pages, k) \in Nat
<1>1. IsFiniteSet(DOMAIN pages)
  BY FS_Interval DEF PagesOk
<1>2. \A i \in DOMAIN pages : Cost(pages[i]) \in Nat
  <2>1. \A i \in DOMAIN pages : PageOk(pages[i])
    BY DEF PagesOk, ToSet
  <2> QED BY <2>1, CostIsNumber
<1>3. Costs(pages) \in [DOMAIN pages -> Nat]
  BY <1>2 DEF Costs
<1>4. \A k : First(pages, k) \in SUBSET DOMAIN pages
  BY DEF First
<1> HIDE DEF Costs
<1>5. \A k : CostTo(pages, k) \in Nat
  BY <1>1, <1>3, <1>4, PilesAreFinite DEF CostTo
<1> QED BY <1>1, <1>3, <1>5

LEMMA CostOfNone == ASSUME NEW pages, PagesOk(pages) PROVE CostTo(pages, 0) = 0
<1>1. \A j \in DOMAIN pages : Place(pages, j) \in DOMAIN pages
  BY PlacesCount DEF PagesOk
<1>2. \A k \in DOMAIN pages : k \in Nat /\ ~(k <= 0)
  BY DEF PagesOk
<1>3. First(pages, 0) = {}
  BY <1>1, <1>2 DEF First
<1> QED BY <1>3, SumOfNothing DEF CostTo

\* One page more.
LEMMA CostOfNext ==
  ASSUME NEW pages, PagesOk(pages), NEW n \in Nat, n + 1 \in DOMAIN pages
  PROVE  CostTo(pages, n + 1) = CostTo(pages, n) + Cost(PagesFor(pages)[n + 1])
<1>1. PICK h \in DOMAIN pages : Place(pages, h) = n + 1 /\ PagesFor(pages)[n + 1] = pages[h]
  BY PagesAreSorted DEF PagesOk
<1>2. \A j \in DOMAIN pages : Place(pages, j) \in Nat /\ (j # h => Place(pages, j) # n + 1)
  <2>1. \A j \in DOMAIN pages : Place(pages, j) \in DOMAIN pages
    BY PlacesCount DEF PagesOk
  <2>2. DOMAIN pages \subseteq Nat
    BY DEF PagesOk
  <2> QED BY <1>1, <2>1, <2>2, PlacesDiffer DEF PagesOk
<1>3. /\ h \in First(pages, n + 1) /\ First(pages, n + 1) \in SUBSET DOMAIN pages
      /\ First(pages, n + 1) \ {h} = First(pages, n)
  BY <1>1, <1>2 DEF First
<1>4. Costs(pages)[h] = Cost(PagesFor(pages)[n + 1])
  BY <1>1 DEF Costs
<1> QED BY <1>3, <1>4, CostsAreNumbers, SumWithout DEF CostTo

LEMMA CostsGrow ==
  ASSUME NEW pages, PagesOk(pages), NEW m \in Int, NEW n \in Int, m <= n
  PROVE  CostTo(pages, m) <= CostTo(pages, n)
<1>1. \A j \in DOMAIN pages : Place(pages, j) \in Int
  <2>1. \A j \in DOMAIN pages : Place(pages, j) \in DOMAIN pages
    BY PlacesCount DEF PagesOk
  <2>2. DOMAIN pages \subseteq Int
    BY DEF PagesOk
  <2> QED BY <2>1, <2>2
<1>2. /\ First(pages, m) \subseteq First(pages, n)
      /\ First(pages, n) \in SUBSET DOMAIN pages
  BY <1>1 DEF First
<1>3. Piles(Costs(pages), First(pages, m)) \subseteq Piles(Costs(pages), First(pages, n))
  BY <1>2 DEF Piles
<1>4. IsFiniteSet(Piles(Costs(pages), First(pages, n)))
  BY <1>2, CostsAreNumbers, PilesAreFinite
<1> QED BY <1>3, <1>4, FS_Subset DEF CostTo, SumOf

\* FitsWhole adds the same numbers.
LEMMA FitsIsCost ==
  ASSUME NEW pages, PagesOk(pages), NEW i \in DOMAIN pages
  PROVE  FitsWhole(pages, i) <=> CostTo(pages, Place(pages, i)) <= Budget
<1> DEFINE D == First(pages, Place(pages, i))
           w == [j \in D |-> Cost(pages[j])]
           sum == Together(w)
<1>1. FitsWhole(pages, i) <=> sum <= Budget
  BY DEF FitsWhole, First
<1>2. D \in SUBSET DOMAIN pages /\ IsFiniteSet(D)
  <2>1. D \in SUBSET DOMAIN pages
    BY DEF First
  <2> QED BY <2>1, CostsAreNumbers, FS_Subset
<1>3. w \in [D -> Nat] /\ \A j \in D : w[j] = Costs(pages)[j]
  <2>1. \A j \in D : Cost(pages[j]) = Costs(pages)[j] /\ Costs(pages)[j] \in Nat
    BY <1>2, CostsAreNumbers DEF Costs
  <2> HIDE DEF D
  <2> QED BY <2>1
<1>4. PICK iter : /\ sum = iter[D]
                  /\ (\E g : g = [s \in SUBSET D |->
                                    IF s = {} THEN 0
                                    ELSE g[s \ {CHOOSE y \in s : TRUE}]
                                         + w[CHOOSE y \in s : TRUE]])
                     => iter = [s \in SUBSET D |->
                                  IF s = {} THEN 0
                                  ELSE iter[s \ {CHOOSE y \in s : TRUE}]
                                       + w[CHOOSE y \in s : TRUE]]
  <2>1. DOMAIN w = D
    OBVIOUS
  <2> HIDE DEF w, D
  <2> QED BY <2>1 DEF Together, FoldFunction, FoldFunctionOnSet, MapThenFoldSet
<1> HIDE DEF w, D, sum
<1>5. ASSUME NEW f
      PROVE  Adds(f, w, D) <=> f = [s \in SUBSET D |->
                                      IF s = {} THEN 0
                                      ELSE f[s \ {CHOOSE y \in s : TRUE}]
                                           + w[CHOOSE y \in s : TRUE]]
  BY DEF Adds, Picked
<1>6. \E g : Adds(g, w, D)
  BY <1>2, <1>3, FoldExists
<1>7. Adds(iter, w, D)
  <2>1. PICK g : Adds(g, w, D)
    BY <1>6
  <2> QED BY <1>4, <1>5, <2>1
<1>8. sum = SumOf(w, D)
  BY <1>2, <1>3, <1>4, <1>7, FoldCounts
<1>9. Piles(w, D) = Piles(Costs(pages), D)
  BY <1>3 DEF Piles
<1> QED BY <1>1, <1>8, <1>9 DEF CostTo, SumOf, D

-----------------------------------------------------------------------------
(***************************************************************************)
(* How a context stands after each turn of the loop.  A turn depends on    *)
(* nothing but the pages, so that a request is assembled the same way      *)
(* whenever it is.                                                         *)
(***************************************************************************)

Start(pages) == [waiting |-> PagesFor(pages), used |-> 0, blocks |-> <<>>]

Turn(c) ==
  LET page == Head(c.waiting)
      body == BodyAt(page, c.used)
  IN IF Strip(LoadText(page)) = <<>>
     THEN [waiting |-> Tail(c.waiting), used |-> c.used, blocks |-> c.blocks]
     ELSE IF Budget - c.used - Len(page.heading) <= 0
     THEN [waiting |-> <<>>, used |-> c.used, blocks |-> c.blocks]
     ELSE [waiting |-> Tail(c.waiting),
           used |-> c.used + Len(page.heading) + Len(body),
           blocks |-> Append(c.blocks, [page |-> page, body |-> body])]

\* Each turn of the way, from the start to the n-th one.
Walk(pages, n, way) ==
  /\ way[0] = Start(pages)
  /\ \A i \in Nat : i < n => way[i].waiting # <<>> /\ way[i + 1] = Turn(way[i])

Comes(pages, c) == \E n \in Nat : \E way : Walk(pages, n, way) /\ way[n] = c

Standing == [waiting |-> waiting, used |-> used, blocks |-> blocks]

LEMMA ComesAtFirst == ASSUME NEW pages PROVE Comes(pages, Start(pages))
<1> DEFINE way == [i \in {0} |-> Start(pages)]
<1>1. Walk(pages, 0, way) /\ way[0] = Start(pages)
  BY DEF Walk
<1> HIDE DEF way
<1> QED BY <1>1 DEF Comes

LEMMA ComesNext ==
  ASSUME NEW pages, NEW c, Comes(pages, c), c.waiting # <<>>
  PROVE  Comes(pages, Turn(c))
<1>1. PICK n \in Nat : \E way : Walk(pages, n, way) /\ way[n] = c
  BY DEF Comes
<1>2. PICK way : Walk(pages, n, way) /\ way[n] = c
  BY <1>1
<1> DEFINE on == [i \in 0 .. n + 1 |-> IF i <= n THEN way[i] ELSE Turn(c)]
<1>3. /\ on[0] = way[0] /\ on[n + 1] = Turn(c)
      /\ \A i \in Nat : i <= n => on[i] = way[i]
  OBVIOUS
<1> HIDE DEF on
<1>4. ASSUME NEW i \in Nat, i < n + 1
      PROVE  on[i].waiting # <<>> /\ on[i + 1] = Turn(on[i])
  <2>1. CASE i < n
    <3>1. on[i] = way[i] /\ on[i + 1] = way[i + 1]
      BY <1>3, <2>1
    <3> QED BY <1>2, <2>1, <3>1 DEF Walk
  <2>2. CASE i = n
    BY <1>2, <1>3, <2>2
  <2> QED BY <1>4, <2>1, <2>2
<1>5. Walk(pages, n + 1, on)
  BY <1>2, <1>3, <1>4 DEF Walk
<1> QED BY <1>3, <1>5 DEF Comes

LEMMA ComesToOneEnd ==
  ASSUME NEW pages, NEW c, Comes(pages, c), c.waiting = <<>>,
         NEW d, Comes(pages, d), d.waiting = <<>>
  PROVE  c = d
<1>1. PICK m \in Nat : \E way : Walk(pages, m, way) /\ way[m] = c
  BY DEF Comes
<1>2. PICK n \in Nat : \E way : Walk(pages, n, way) /\ way[n] = d
  BY DEF Comes
<1>3. PICK way : Walk(pages, m, way) /\ way[m] = c
  BY <1>1
<1>4. PICK other : Walk(pages, n, other) /\ other[n] = d
  BY <1>2
<1> DEFINE Bad == {i \in Nat : i <= m /\ i <= n /\ way[i] # other[i]}
<1>5. Bad = {}
  <2> SUFFICES ASSUME Bad # {} PROVE FALSE
    OBVIOUS
  <2>1. PICK x \in Bad : \A y \in Bad : x <= y
    <3>1. Bad \in SUBSET Nat
      OBVIOUS
    <3> HIDE DEF Bad
    <3> QED BY <3>1, LeastNat
  <2>2. x # 0
    BY <1>3, <1>4 DEF Walk
  <2>3. x - 1 \in Nat /\ x - 1 < m /\ x - 1 < n /\ ~(x <= x - 1) /\ (x - 1) + 1 = x
    BY <2>2
  <2>4. x - 1 \notin Bad
    BY <2>1, <2>3
  <2>5. way[x - 1] = other[x - 1]
    BY <2>3, <2>4
  <2>6. way[x] = Turn(way[x - 1]) /\ other[x] = Turn(other[x - 1])
    BY <1>3, <1>4, <2>3 DEF Walk
  <2> QED BY <2>5, <2>6
<1>6. ~(m < n)
  <2> SUFFICES ASSUME m < n PROVE FALSE
    OBVIOUS
  <2>1. way[m] = other[m] /\ other[m].waiting # <<>>
    BY <1>4, <1>5 DEF Walk
  <2> QED BY <1>3, <2>1
<1>7. ~(n < m)
  <2> SUFFICES ASSUME n < m PROVE FALSE
    OBVIOUS
  <2>1. way[n] = other[n] /\ way[n].waiting # <<>>
    BY <1>3, <1>5 DEF Walk
  <2> QED BY <1>4, <2>1
<1>8. m = n
  BY <1>6, <1>7
<1> QED BY <1>3, <1>4, <1>5, <1>8

\* What a turn leaves: the pages that were injected are the first ones with a
\* text, in the order of their roles.
InOrder(pages, c) ==
  LET sorted == PagesFor(pages)
  IN \E n \in 0 .. Len(sorted) :
       /\ c.waiting \in {SubSeq(sorted, n + 1, Len(sorted)), <<>>}
       /\ \A m \in 1 .. n : Strip(LoadText(sorted[m])) # <<>> =>
            \E i \in DOMAIN c.blocks : c.blocks[i].page = sorted[m]
       /\ \A i \in DOMAIN c.blocks : \E m \in 1 .. n : c.blocks[i].page = sorted[m]

Sound(pages, c) == BlocksOk(c.blocks, c.used) /\ InOrder(pages, c)

LEMMA SortedIsSequence ==
  ASSUME NEW pages, PagesOk(pages)
  PROVE  /\ PagesFor(pages) \in Seq(ToSet(pages))
         /\ \A k \in DOMAIN PagesFor(pages) : PageOk(PagesFor(pages)[k])
<1>1. PagesFor(pages) \in Seq(ToSet(pages))
  BY PagesAreSorted DEF PagesOk
<1>2. \A k \in DOMAIN PagesFor(pages) : PagesFor(pages)[k] \in ToSet(pages)
  BY <1>1
<1> QED BY <1>1, <1>2 DEF PagesOk

LEMMA NothingIsOk == BlocksOk(<<>>, 0)
<1>1. Budget \in Nat /\ Len(Marker) \in Nat /\ Budget + Len(Marker) \in Nat /\ 0 <= Budget
  BY ContextAssumption, TextIsSequence
<1> QED BY <1>1, TotalOfNothing DEF BlocksOk

LEMMA StartIsSound ==
  ASSUME NEW pages, PagesOk(pages)
  PROVE  Sound(pages, Start(pages))
<1> DEFINE sorted == PagesFor(pages)
<1>1. sorted \in Seq(ToSet(pages))
  BY SortedIsSequence
<1> HIDE DEF sorted
<1>2. sorted = SubSeq(sorted, 0 + 1, Len(sorted)) /\ 0 \in 0 .. Len(sorted)
  BY <1>1
<1>3. InOrder(pages, Start(pages))
  <2>1. /\ Start(pages).waiting \in {SubSeq(sorted, 0 + 1, Len(sorted)), <<>>}
        /\ DOMAIN Start(pages).blocks = {} /\ 1 .. 0 = {}
    BY <1>2 DEF Start, sorted
  <2> QED BY <1>2, <2>1 DEF InOrder, sorted
<1> QED BY <1>3, NothingIsOk DEF Sound, Start

\* The rest of a sequence is taken away page by page.
LEMMA RestOfSequence ==
  ASSUME NEW S, NEW s \in Seq(S), NEW n \in 0 .. Len(s), SubSeq(s, n + 1, Len(s)) # <<>>
  PROVE  /\ n + 1 \in 0 .. Len(s) /\ n + 1 \in DOMAIN s
         /\ Head(SubSeq(s, n + 1, Len(s))) = s[n + 1]
         /\ Tail(SubSeq(s, n + 1, Len(s))) = SubSeq(s, n + 2, Len(s))
<1> DEFINE rest == SubSeq(s, n + 1, Len(s))
<1>1. Len(s) \in Nat /\ rest \in Seq(S) /\ Len(rest) = Len(s) - n
  OBVIOUS
<1>2. Len(rest) # 0
  BY <1>1
<1>3. n + 1 \in 1 .. Len(s)
  BY <1>1, <1>2
<1>4. Head(rest) = s[n + 1]
  BY <1>3
<1>5. Tail(rest) = SubSeq(s, n + 2, Len(s))
  <2>1. Tail(rest) \in Seq(S) /\ Len(Tail(rest)) = Len(s) - (n + 1)
    BY <1>1, <1>2
  <2>2. SubSeq(s, n + 2, Len(s)) \in Seq(S) /\ Len(SubSeq(s, n + 2, Len(s))) = Len(s) - (n + 1)
    BY <1>1, <1>3
  <2>3. \A i \in 1 .. Len(s) - (n + 1) : Tail(rest)[i] = SubSeq(s, n + 2, Len(s))[i]
    BY <1>1, <1>3
  <2> QED BY <2>1, <2>2, <2>3
<1> QED BY <1>3, <1>4, <1>5

LEMMA NextIsPage ==
  ASSUME NEW pages, PagesOk(pages), NEW c, InOrder(pages, c), c.waiting # <<>>
  PROVE  PageOk(Head(c.waiting))
<1> DEFINE sorted == PagesFor(pages)
<1>1. sorted \in Seq(ToSet(pages)) /\ \A k \in DOMAIN sorted : PageOk(sorted[k])
  BY SortedIsSequence
<1>2. PICK n \in 0 .. Len(sorted) : c.waiting = SubSeq(sorted, n + 1, Len(sorted))
  BY DEF InOrder
<1> HIDE DEF sorted
<1>3. n + 1 \in DOMAIN sorted /\ Head(c.waiting) = sorted[n + 1]
  BY <1>1, <1>2, RestOfSequence
<1> QED BY <1>1, <1>3

LEMMA TurnIsSound ==
  ASSUME NEW pages, PagesOk(pages), NEW c, Sound(pages, c), c.waiting # <<>>
  PROVE  Sound(pages, Turn(c))
<1> DEFINE sorted == PagesFor(pages)
           page == Head(c.waiting)
           body == BodyAt(page, c.used)
           block == [page |-> page, body |-> body]
           d == Turn(c)
<1>1. /\ sorted \in Seq(ToSet(pages)) /\ Len(sorted) \in Nat
      /\ \A k \in DOMAIN sorted : PageOk(sorted[k])
  BY SortedIsSequence
<1>2. PICK n \in 0 .. Len(sorted) :
        /\ c.waiting \in {SubSeq(sorted, n + 1, Len(sorted)), <<>>}
        /\ \A m \in 1 .. n : Strip(LoadText(sorted[m])) # <<>> =>
             \E i \in DOMAIN c.blocks : c.blocks[i].page = sorted[m]
        /\ \A i \in DOMAIN c.blocks : \E m \in 1 .. n : c.blocks[i].page = sorted[m]
  BY DEF Sound, InOrder
<1>3. /\ n + 1 \in 0 .. Len(sorted) /\ n + 1 \in DOMAIN sorted /\ page = sorted[n + 1]
      /\ Tail(c.waiting) = SubSeq(sorted, (n + 1) + 1, Len(sorted))
  <2>1. c.waiting = SubSeq(sorted, n + 1, Len(sorted)) /\ (n + 1) + 1 = n + 2
    BY <1>2
  <2> HIDE DEF sorted
  <2> QED BY <1>1, <2>1, RestOfSequence
<1>4. PageOk(page)
  BY <1>1, <1>3
<1>5. BlocksOk(c.blocks, c.used)
  BY DEF Sound
<1>6. InOrder(pages, d) <=>
        \E k \in 0 .. Len(sorted) :
          /\ d.waiting \in {SubSeq(sorted, k + 1, Len(sorted)), <<>>}
          /\ \A m \in 1 .. k : Strip(LoadText(sorted[m])) # <<>> =>
               \E i \in DOMAIN d.blocks : d.blocks[i].page = sorted[m]
          /\ \A i \in DOMAIN d.blocks : \E m \in 1 .. k : d.blocks[i].page = sorted[m]
  BY DEF InOrder
<1>7. \A m \in 1 .. n + 1 : m \in 1 .. n \/ m = n + 1
  BY <1>2
<1>8. \A m \in 1 .. n : m \in 1 .. n + 1
  BY <1>2
<1>9. n + 1 \in 1 .. n + 1
  BY <1>2
<1>10. CASE Strip(LoadText(page)) = <<>>
  <2>1. d.waiting = Tail(c.waiting) /\ d.used = c.used /\ d.blocks = c.blocks
    BY <1>10 DEF Turn
  <2> HIDE DEF d, sorted, page
  <2>2. d.waiting \in {SubSeq(sorted, (n + 1) + 1, Len(sorted)), <<>>}
    BY <1>3, <2>1
  <2>3. \A m \in 1 .. n + 1 : Strip(LoadText(sorted[m])) # <<>> =>
           \E i \in DOMAIN d.blocks : d.blocks[i].page = sorted[m]
    BY <1>2, <1>3, <1>7, <1>10, <2>1
  <2>4. \A i \in DOMAIN d.blocks : \E m \in 1 .. n + 1 : d.blocks[i].page = sorted[m]
    <3> TAKE i \in DOMAIN d.blocks
    <3>1. PICK m \in 1 .. n : c.blocks[i].page = sorted[m]
      BY <1>2, <2>1
    <3> QED BY <1>8, <2>1, <3>1
  <2>5. InOrder(pages, d)
    BY <1>3, <1>6, <2>2, <2>3, <2>4
  <2> QED BY <1>5, <2>1, <2>5 DEF Sound, d
<1>11. CASE Strip(LoadText(page)) # <<>> /\ Budget - c.used - Len(page.heading) <= 0
  <2>1. d.waiting = <<>> /\ d.used = c.used /\ d.blocks = c.blocks
    BY <1>11 DEF Turn
  <2> HIDE DEF d, sorted, page
  <2>2. /\ d.waiting \in {SubSeq(sorted, n + 1, Len(sorted)), <<>>}
        /\ \A m \in 1 .. n : Strip(LoadText(sorted[m])) # <<>> =>
             \E i \in DOMAIN d.blocks : d.blocks[i].page = sorted[m]
        /\ \A i \in DOMAIN d.blocks : \E m \in 1 .. n : d.blocks[i].page = sorted[m]
    BY <1>2, <2>1
  <2>3. InOrder(pages, d)
    BY <1>2, <1>6, <2>2
  <2> QED BY <1>5, <2>1, <2>3 DEF Sound, d
<1>12. CASE Strip(LoadText(page)) # <<>> /\ ~(Budget - c.used - Len(page.heading) <= 0)
  <2>1. /\ d.waiting = Tail(c.waiting)
        /\ d.used = c.used + Len(page.heading) + Len(body)
        /\ d.blocks = Append(c.blocks, block)
    BY <1>12 DEF Turn
  <2>2. /\ c.used \in Nat /\ Len(page.heading) \in Nat /\ Budget \in Nat
        /\ c.blocks \in Seq(ToSet(c.blocks)) /\ Len(c.blocks) \in Nat
    BY <1>4, <1>5, ContextAssumption, TextIsSequence DEF BlocksOk, PageOk
  <2>3. body \in Text /\ c.used + Len(page.heading) + Len(body) <= Budget + Len(Marker)
    <3>1. Budget - c.used - Len(page.heading) > 0
      BY <1>12, <2>2
    <3> QED BY <1>4, <2>2, <3>1, BodyFits
  <2>13. c.used + Len(page.heading) + Len(body) <= Budget \/ Cropped(block)
    <3>1. Budget - c.used - Len(page.heading) > 0
      BY <1>12, <2>2
    <3>2. ~(c.used + Len(page.heading) + Len(body) <= Budget) =>
            \E kept \in Text : body = kept \o Marker
      BY <1>4, <2>2, <3>1, BodyFits
    <3>3. block.body = body
      OBVIOUS
    <3> HIDE DEF block, body
    <3> QED BY <3>2, <3>3, NoticeIsSeen
  <2>4. BlockOk(block)
    BY <1>4, <2>3 DEF BlockOk
  <2>5. /\ DOMAIN d.blocks = 1 .. Len(c.blocks) + 1
        /\ \A i \in DOMAIN c.blocks : i \in DOMAIN d.blocks /\ d.blocks[i] = c.blocks[i]
        /\ Len(c.blocks) + 1 \in DOMAIN d.blocks
        /\ d.blocks[Len(c.blocks) + 1] = block
        /\ \A i \in DOMAIN d.blocks : i \in DOMAIN c.blocks \/ i = Len(c.blocks) + 1
    BY <2>1, <2>2
  <2>6. block.page = page
    OBVIOUS
  <2>7. d.used = Total(d.blocks) /\ d.used \in Nat
    <3>1. Total(Append(c.blocks, block)) = c.used + Width(block)
      BY <1>5, <2>4, TotalOfMore DEF BlocksOk
    <3>2. Width(block) = Len(page.heading) + Len(body)
      BY DEF Width
    <3>3. Len(body) \in Nat
      BY <2>3, TextIsSequence
    <3>4. \A u, h, b \in Nat : u + (h + b) = u + h + b /\ u + h + b \in Nat
      OBVIOUS
    <3> HIDE DEF block, body, page, d
    <3> QED BY <2>1, <2>2, <3>1, <3>2, <3>3, <3>4
  <2> HIDE DEF d, sorted, page, body, block
  <2>8. /\ d.blocks \in Seq(ToSet(d.blocks))
        /\ \A i \in DOMAIN d.blocks : BlockOk(d.blocks[i])
    <3>1. \A i \in DOMAIN d.blocks : d.blocks[i] \in ToSet(d.blocks)
      BY DEF ToSet
    <3>2. d.blocks = [i \in 1 .. Len(c.blocks) + 1 |-> d.blocks[i]]
      BY <2>1, <2>2
    <3>3. d.blocks \in [1 .. Len(c.blocks) + 1 -> ToSet(d.blocks)]
      BY <2>5, <3>1, <3>2
    <3>4. d.blocks \in Seq(ToSet(d.blocks))
      BY <2>2, <3>3
    <3> QED BY <1>5, <2>4, <2>5, <3>4 DEF BlocksOk
  <2>9. BlocksOk(d.blocks, d.used)
    <3>1. (\A i \in DOMAIN d.blocks : ~Cropped(d.blocks[i])) => d.used <= Budget
      BY <2>1, <2>5, <2>13
    <3> QED BY <2>1, <2>3, <2>7, <2>8, <3>1 DEF BlocksOk
  <2>10. \A m \in 1 .. n + 1 : Strip(LoadText(sorted[m])) # <<>> =>
            \E i \in DOMAIN d.blocks : d.blocks[i].page = sorted[m]
    BY <1>2, <1>3, <1>7, <2>5, <2>6
  <2>11. \A i \in DOMAIN d.blocks : \E m \in 1 .. n + 1 : d.blocks[i].page = sorted[m]
    <3> TAKE i \in DOMAIN d.blocks
    <3>1. CASE i \in DOMAIN c.blocks
      <4>1. PICK m \in 1 .. n : c.blocks[i].page = sorted[m]
        BY <1>2, <3>1
      <4> QED BY <1>8, <2>5, <3>1, <4>1
    <3>2. CASE i = Len(c.blocks) + 1
      BY <1>3, <1>9, <2>5, <2>6, <3>2
    <3> QED BY <2>5, <3>1, <3>2
  <2>12. InOrder(pages, d)
    BY <1>3, <1>6, <2>1, <2>10, <2>11
  <2> QED BY <2>9, <2>12 DEF Sound, d
<1> QED BY <1>10, <1>11, <1>12

\* At the end of the way no page with a text is left out for one of a lower role.
LEMMA EndKeepsTheOrder ==
  ASSUME NEW pages, PagesOk(pages), NEW c, InOrder(pages, c),
         NEW i \in DOMAIN pages, NEW j \in DOMAIN pages,
         Rank(pages[i].role) < Rank(pages[j].role), Strip(LoadText(pages[i])) # <<>>,
         \E b \in DOMAIN c.blocks : c.blocks[b].page = pages[j]
  PROVE  \E b \in DOMAIN c.blocks : c.blocks[b].page = pages[i]
<1> DEFINE sorted == PagesFor(pages)
           k == Place(pages, i)
<1>1. /\ pages \in Seq(ToSet(pages)) /\ sorted \in Seq(ToSet(pages))
      /\ DOMAIN sorted = DOMAIN pages
      /\ k \in DOMAIN pages /\ sorted[k] = pages[i]
  BY PagesAreSorted, PlacesCount DEF PagesOk
<1>2. PICK n \in 0 .. Len(sorted) :
        /\ \A m \in 1 .. n : Strip(LoadText(sorted[m])) # <<>> =>
             \E b \in DOMAIN c.blocks : c.blocks[b].page = sorted[m]
        /\ \A b \in DOMAIN c.blocks : \E m \in 1 .. n : c.blocks[b].page = sorted[m]
  BY DEF InOrder
<1>3. PICK m \in 1 .. n : pages[j] = sorted[m]
  BY <1>2
<1>4. m \in DOMAIN pages
  BY <1>1, <1>2
<1>5. PICK h \in DOMAIN pages : Place(pages, h) = m /\ sorted[m] = pages[h]
  BY <1>1, <1>4, PagesAreSorted
<1>6. k < m
  BY <1>1, <1>3, <1>5, RolesAreSorted
<1>7. k \in 1 .. n
  BY <1>1, <1>2, <1>3, <1>6
<1> QED BY <1>1, <1>2, <1>7

\* And of the first pages those that fit together are injected whole: as long as
\* they do, what is counted is what they cost.
Whole(page) == [page |-> page, body |-> Strip(LoadText(page))]

WholeTo(pages, c, n) ==
  LET sorted == PagesFor(pages)
  IN /\ \/ c.waiting = SubSeq(sorted, n + 1, Len(sorted))
        \/ c.waiting = <<>> /\ n < Len(sorted) /\ CostTo(pages, n + 1) > Budget
     /\ Len(c.blocks) <= n
     /\ CostTo(pages, n) <= Budget => c.used = CostTo(pages, n)
     /\ \A m \in 1 .. n :
          CostTo(pages, m) <= Budget /\ Strip(LoadText(sorted[m])) # <<>> =>
            \E i \in DOMAIN c.blocks : c.blocks[i] = Whole(sorted[m])

WholeFirst(pages, c) == \E n \in 0 .. Len(PagesFor(pages)) : WholeTo(pages, c, n)

LEMMA StartIsWhole ==
  ASSUME NEW pages, PagesOk(pages)
  PROVE  WholeFirst(pages, Start(pages))
<1> DEFINE sorted == PagesFor(pages)
<1>1. sorted \in Seq(ToSet(pages)) /\ CostTo(pages, 0) = 0
  BY SortedIsSequence, CostOfNone
<1>2. /\ Start(pages).waiting = sorted /\ Start(pages).used = 0
      /\ Start(pages).blocks = <<>> /\ Len(<<>>) = 0
  BY DEF Start
<1> HIDE DEF sorted
<1>3. sorted = SubSeq(sorted, 0 + 1, Len(sorted)) /\ 0 \in 0 .. Len(sorted) /\ 1 .. 0 = {}
  BY <1>1
<1>4. WholeTo(pages, Start(pages), 0)
  BY <1>1, <1>2, <1>3 DEF WholeTo, sorted
<1> QED BY <1>3, <1>4 DEF WholeFirst, sorted

LEMMA TurnIsWhole ==
  ASSUME NEW pages, PagesOk(pages), NEW c, BlocksOk(c.blocks, c.used), WholeFirst(pages, c),
         c.waiting # <<>>
  PROVE  WholeFirst(pages, Turn(c))
<1> DEFINE sorted == PagesFor(pages)
           page == Head(c.waiting)
           text == Strip(LoadText(page))
           body == BodyAt(page, c.used)
           d == Turn(c)
<1>1. /\ sorted \in Seq(ToSet(pages)) /\ Len(sorted) \in Nat
      /\ \A k \in DOMAIN sorted : PageOk(sorted[k])
      /\ DOMAIN sorted = DOMAIN pages
  BY SortedIsSequence, PagesAreSorted DEF PagesOk
<1>2. PICK n \in 0 .. Len(sorted) : WholeTo(pages, c, n)
  BY DEF WholeFirst
<1>3. c.waiting = SubSeq(sorted, n + 1, Len(sorted))
  BY <1>2 DEF WholeTo
<1>4. /\ n + 1 \in 0 .. Len(sorted) /\ n + 1 \in DOMAIN sorted /\ page = sorted[n + 1]
      /\ Tail(c.waiting) = SubSeq(sorted, (n + 1) + 1, Len(sorted)) /\ n < Len(sorted)
  <2>1. (n + 1) + 1 = n + 2
    OBVIOUS
  <2> HIDE DEF sorted
  <2> QED BY <1>1, <1>3, <2>1, RestOfSequence
<1>5. /\ Len(c.blocks) <= n
      /\ CostTo(pages, n) <= Budget => c.used = CostTo(pages, n)
      /\ \A m \in 1 .. n :
           CostTo(pages, m) <= Budget /\ Strip(LoadText(sorted[m])) # <<>> =>
             \E i \in DOMAIN c.blocks : c.blocks[i] = Whole(sorted[m])
  BY <1>2 DEF WholeTo
<1>6. /\ PageOk(page) /\ Len(page.heading) \in Nat /\ Len(text) \in Nat /\ text \in Seq(Units)
      /\ Budget \in Nat /\ c.used \in Nat
      /\ c.blocks \in Seq(ToSet(c.blocks)) /\ Len(c.blocks) \in Nat
  <2>1. PageOk(page)
    BY <1>1, <1>4
  <2>2. text \in Seq(Units) /\ Len(text) \in Nat /\ Len(page.heading) \in Nat
    BY <2>1, LoadedIsText, StripIsText, TextIsSequence DEF PageOk
  <2> QED BY <2>1, <2>2, ContextAssumption DEF BlocksOk
<1>7. /\ CostTo(pages, n) \in Nat /\ CostTo(pages, n + 1) \in Nat
      /\ CostTo(pages, n + 1) = CostTo(pages, n) + Cost(page)
      /\ Cost(page) \in Nat
      /\ Cost(page) = IF text = <<>> THEN 0 ELSE Len(page.heading) + Len(text)
      /\ text # <<>> => Cost(page) > Len(page.heading)
  <2>1. CostTo(pages, n + 1) = CostTo(pages, n) + Cost(page)
    BY <1>1, <1>4, CostOfNext
  <2>2. CostTo(pages, n) \in Nat /\ CostTo(pages, n + 1) \in Nat
    BY CostsAreNumbers
  <2>3. Cost(page) \in Nat /\ (text # <<>> => Cost(page) > Len(page.heading))
    BY <1>6, CostIsNumber
  <2> QED BY <2>1, <2>2, <2>3 DEF Cost
<1>8. \A m \in 1 .. n + 1 : m \in 1 .. n \/ m = n + 1
  OBVIOUS
<1>9. WholeTo(pages, d, n + 1) <=>
        /\ \/ d.waiting = SubSeq(sorted, (n + 1) + 1, Len(sorted))
           \/ d.waiting = <<>> /\ n + 1 < Len(sorted) /\ CostTo(pages, (n + 1) + 1) > Budget
        /\ Len(d.blocks) <= n + 1
        /\ CostTo(pages, n + 1) <= Budget => d.used = CostTo(pages, n + 1)
        /\ \A m \in 1 .. n + 1 :
             CostTo(pages, m) <= Budget /\ Strip(LoadText(sorted[m])) # <<>> =>
               \E i \in DOMAIN d.blocks : d.blocks[i] = Whole(sorted[m])
  BY DEF WholeTo
<1>10. WholeTo(pages, d, n) <=>
        /\ \/ d.waiting = SubSeq(sorted, n + 1, Len(sorted))
           \/ d.waiting = <<>> /\ n < Len(sorted) /\ CostTo(pages, n + 1) > Budget
        /\ Len(d.blocks) <= n
        /\ CostTo(pages, n) <= Budget => d.used = CostTo(pages, n)
        /\ \A m \in 1 .. n :
             CostTo(pages, m) <= Budget /\ Strip(LoadText(sorted[m])) # <<>> =>
               \E i \in DOMAIN d.blocks : d.blocks[i] = Whole(sorted[m])
  BY DEF WholeTo
<1>14. ASSUME CostTo(pages, n + 1) <= Budget
       PROVE  /\ c.used = CostTo(pages, n) /\ c.used + Cost(page) <= Budget
              /\ Budget - c.used - Len(page.heading) >= Cost(page) - Len(page.heading)
  <2>1. \A b, x, y, h \in Nat : x + y <= b => x <= b /\ b - x - h >= y - h
    OBVIOUS
  <2>2. CostTo(pages, n) + Cost(page) <= Budget
    BY <1>7, <1>14
  <2>3. CostTo(pages, n) <= Budget
    BY <1>6, <1>7, <2>1, <2>2
  <2>4. c.used = CostTo(pages, n)
    BY <1>5, <2>3
  <2> HIDE DEF page
  <2> QED BY <1>6, <1>7, <2>1, <2>2, <2>4
<1>11. CASE text = <<>>
  <2>1. d.waiting = Tail(c.waiting) /\ d.used = c.used /\ d.blocks = c.blocks
    BY <1>11 DEF Turn
  <2> HIDE DEF d, sorted
  <2>2. CostTo(pages, n + 1) = CostTo(pages, n)
    BY <1>7, <1>11
  <2>3. Len(d.blocks) <= n + 1
    BY <1>5, <1>6, <2>1
  <2>4. \A m \in 1 .. n + 1 :
          CostTo(pages, m) <= Budget /\ Strip(LoadText(sorted[m])) # <<>> =>
            \E i \in DOMAIN d.blocks : d.blocks[i] = Whole(sorted[m])
    BY <1>4, <1>5, <1>8, <1>11, <2>1
  <2>5. WholeTo(pages, d, n + 1)
    BY <1>4, <1>5, <1>9, <2>1, <2>2, <2>3, <2>4
  <2> QED BY <1>4, <2>5 DEF WholeFirst, d, sorted
<1>12. CASE text # <<>> /\ Budget - c.used - Len(page.heading) <= 0
  <2>1. d.waiting = <<>> /\ d.used = c.used /\ d.blocks = c.blocks
    BY <1>12 DEF Turn
  <2> HIDE DEF d, sorted, page, text
  <2>2. CostTo(pages, n + 1) > Budget
    <3> SUFFICES ASSUME CostTo(pages, n + 1) <= Budget PROVE FALSE
      BY <1>6, <1>7
    <3>1. Budget - c.used - Len(page.heading) >= Cost(page) - Len(page.heading)
      BY <1>14
    <3>2. \A l, y, h \in Int : l <= 0 /\ y > h => ~(l >= y - h)
      OBVIOUS
    <3>3. Budget - c.used - Len(page.heading) \in Int
      BY <1>6
    <3> QED BY <1>6, <1>7, <1>12, <3>1, <3>2, <3>3
  <2>3. WholeTo(pages, d, n)
    BY <1>4, <1>5, <1>10, <2>1, <2>2
  <2> QED BY <2>3 DEF WholeFirst, d, sorted
<1>13. CASE text # <<>> /\ ~(Budget - c.used - Len(page.heading) <= 0)
  <2> DEFINE block == [page |-> page, body |-> body]
  <2>1. /\ d.waiting = Tail(c.waiting)
        /\ d.used = c.used + Len(page.heading) + Len(body)
        /\ d.blocks = Append(c.blocks, block)
    BY <1>13 DEF Turn
  <2>2. /\ Len(d.blocks) = Len(c.blocks) + 1
        /\ \A i \in DOMAIN c.blocks : i \in DOMAIN d.blocks /\ d.blocks[i] = c.blocks[i]
        /\ Len(c.blocks) + 1 \in DOMAIN d.blocks
        /\ d.blocks[Len(c.blocks) + 1] = block
    <3>1. c.blocks \in Seq(ToSet(c.blocks)) /\ Len(c.blocks) \in Nat
      BY <1>6
    <3> HIDE DEF d, block, body, page, text, sorted
    <3> QED BY <2>1, <3>1
  <2>3. body = IF Len(text) > Budget - c.used - Len(page.heading)
               THEN RStrip(SubSeq(text, 1, Budget - c.used - Len(page.heading))) \o Marker
               ELSE text
    BY DEF BodyAt
  <2>4. block = Whole(page) <=> body = text
    BY DEF Whole
  <2> HIDE DEF d, sorted, page, text, body, block
  <2>5. ASSUME CostTo(pages, n + 1) <= Budget
        PROVE  d.used = CostTo(pages, n + 1) /\ body = text
    <3>1. c.used = CostTo(pages, n) /\ Cost(page) = Len(page.heading) + Len(text)
      BY <1>7, <1>13, <1>14, <2>5
    <3>2. ~(Len(text) > Budget - c.used - Len(page.heading))
      <4>1. Budget - c.used - Len(page.heading) >= Cost(page) - Len(page.heading)
        BY <1>14, <2>5
      <4>2. \A l \in Int, h, x \in Nat : l >= (h + x) - h => ~(x > l)
        OBVIOUS
      <4>3. Budget - c.used - Len(page.heading) \in Int
        BY <1>6
      <4> QED BY <1>6, <3>1, <4>1, <4>2, <4>3
    <3>3. body = text
      BY <2>3, <3>2
    <3>4. \A u, h, x \in Nat : u + h + x = u + (h + x)
      OBVIOUS
    <3>5. d.used = c.used + Cost(page)
      BY <1>6, <2>1, <3>1, <3>3, <3>4
    <3> QED BY <1>7, <3>1, <3>3, <3>5
  <2>6. \A m \in 1 .. n + 1 :
          CostTo(pages, m) <= Budget /\ Strip(LoadText(sorted[m])) # <<>> =>
            \E i \in DOMAIN d.blocks : d.blocks[i] = Whole(sorted[m])
    <3> SUFFICES ASSUME NEW m \in 1 .. n + 1, CostTo(pages, m) <= Budget,
                        Strip(LoadText(sorted[m])) # <<>>
                 PROVE  \E i \in DOMAIN d.blocks : d.blocks[i] = Whole(sorted[m])
      OBVIOUS
    <3>1. CASE m \in 1 .. n
      BY <1>5, <2>2, <3>1
    <3>2. CASE m = n + 1
      BY <1>4, <2>2, <2>4, <2>5, <3>2
    <3> QED BY <1>8, <3>1, <3>2
  <2>7. Len(d.blocks) <= n + 1
    BY <1>5, <1>6, <2>2
  <2>8. WholeTo(pages, d, n + 1)
    BY <1>4, <1>9, <2>1, <2>5, <2>6, <2>7
  <2> QED BY <1>4, <2>8 DEF WholeFirst, d, sorted
<1> QED BY <1>11, <1>12, <1>13

\* So a page that fits whole is there at the end of the way.
LEMMA EndIsWhole ==
  ASSUME NEW pages, PagesOk(pages), NEW c, WholeFirst(pages, c), c.waiting = <<>>,
         NEW i \in DOMAIN pages, FitsWhole(pages, i), Strip(LoadText(pages[i])) # <<>>
  PROVE  \E b \in DOMAIN c.blocks : c.blocks[b] = Whole(pages[i])
<1> DEFINE sorted == PagesFor(pages)
           k == Place(pages, i)
<1>1. /\ pages \in Seq(ToSet(pages)) /\ sorted \in Seq(ToSet(pages)) /\ Len(sorted) \in Nat
      /\ DOMAIN sorted = DOMAIN pages
      /\ k \in DOMAIN pages /\ sorted[k] = pages[i]
  BY PagesAreSorted, PlacesCount DEF PagesOk
<1>2. k \in 1 .. Len(sorted) /\ CostTo(pages, k) <= Budget
  BY <1>1, FitsIsCost
<1>3. PICK n \in 0 .. Len(sorted) : WholeTo(pages, c, n)
  BY DEF WholeFirst
<1>4. /\ \/ c.waiting = SubSeq(sorted, n + 1, Len(sorted))
         \/ n < Len(sorted) /\ CostTo(pages, n + 1) > Budget
      /\ \A m \in 1 .. n :
           CostTo(pages, m) <= Budget /\ Strip(LoadText(sorted[m])) # <<>> =>
             \E b \in DOMAIN c.blocks : c.blocks[b] = Whole(sorted[m])
  BY <1>3 DEF WholeTo
<1> HIDE DEF sorted, k
<1>5. k <= n
  <2>1. CASE c.waiting = SubSeq(sorted, n + 1, Len(sorted))
    <3>1. Len(SubSeq(sorted, n + 1, Len(sorted))) = Len(sorted) - n
      BY <1>1
    <3>2. Len(sorted) - n = 0
      BY <2>1, <3>1
    <3> QED BY <1>1, <1>2, <3>2
  <2>2. CASE CostTo(pages, n + 1) > Budget
    <3> SUFFICES ASSUME n + 1 <= k PROVE FALSE
      BY <1>1, <1>2
    <3>1. CostTo(pages, n + 1) <= CostTo(pages, k)
      BY <1>2, CostsGrow
    <3>2. CostTo(pages, n + 1) \in Nat /\ CostTo(pages, k) \in Nat /\ Budget \in Nat
      BY CostsAreNumbers, ContextAssumption
    <3> QED BY <1>2, <2>2, <3>1, <3>2
  <2> QED BY <1>4, <2>1, <2>2
<1>6. k \in 1 .. n
  BY <1>1, <1>2, <1>5
<1> QED BY <1>1, <1>2, <1>4, <1>6

-----------------------------------------------------------------------------
(***************************************************************************)
(* The contexts of the gates and of the grid.                              *)
(***************************************************************************)

\* Every context is the way of its request, as far as it has come.
ContextOk ==
  /\ BlocksOk(blocks, used)
  /\ phase \in {"assembling", "assembled"} =>
       /\ request \in Asked /\ request.pages # NoEntry
       /\ InOrder(request.pages, Standing) /\ WholeFirst(request.pages, Standing)
       /\ Comes(request.pages, Standing)
  /\ phase = "assembled" => waiting = <<>>

\* What is asked of a pack has pages, and they are texts.
LEMMA AskedPagesAreTexts ==
  ASSUME pack \in Packs, NEW r \in Asked, r.pages # NoEntry
  PROVE  PagesOk(r.pages)
<1>1. PICK t \in Tasks, list \in Lists : r = RequestOf(t, list)
  BY DEF Asked
<1>2. /\ pack.tasks[t].entry # NoEntry /\ r.pages = pack.tasks[t].entry[list]
  BY <1>1 DEF RequestOf
<1>3. pack.tasks[t] \in ToSet(pack.tasks)
  BY DEF Tasks, ToSet
<1>4. /\ r.pages \in Seq(ToSet(r.pages))
      /\ \A page \in ToSet(r.pages) : {page.heading, page.text} \subseteq Text
  BY <1>2, <1>3, PagesAssumption
<1> QED BY <1>4 DEF PagesOk, PageOk

\* A context that is begun has come nowhere.
LEMMA ContextBegins ==
  ASSUME pack \in Packs, UNCHANGED pack, NEW r \in Asked, NEW why, Begin(r, why)
  PROVE  ContextOk'
<1>1. Asked' = Asked
  BY AskedIsFixed
<1>2. /\ request' = r /\ used' = 0 /\ blocks' = <<>>
      /\ phase' \in {"raised", "assembling"}
      /\ phase' = "assembling" => r.pages # NoEntry /\ waiting' = PagesFor(r.pages)
  BY DEF Begin
<1>3. BlocksOk(blocks', used')
  BY <1>2, NothingIsOk
<1>4. ASSUME phase' = "assembling"
      PROVE  /\ InOrder(r.pages, Standing') /\ WholeFirst(r.pages, Standing')
             /\ Comes(r.pages, Standing')
  <2>1. Standing' = Start(r.pages)
    BY <1>2, <1>4 DEF Standing, Start
  <2>2. PagesOk(r.pages)
    BY <1>2, <1>4, AskedPagesAreTexts
  <2> QED BY <2>1, <2>2, StartIsSound, StartIsWhole, ComesAtFirst DEF Sound
<1> QED BY <1>1, <1>2, <1>3, <1>4 DEF ContextOk

\* A page that does not raise is a turn of the way.
LEMMA NextPageIsTurn ==
  ASSUME NextPage, Remaining(Head(waiting)) \in Int
  PROVE  \/ phase' = "raised" /\ UNCHANGED <<waiting, used, blocks>>
         \/ phase' = "assembling" /\ Standing' = Turn(Standing)
<1> DEFINE page == Head(waiting)
<1>1. Body(page) = BodyAt(page, used) /\ Remaining(page) = Budget - used - Len(page.heading)
  BY DEF Body, BodyAt, Remaining
<1>2. Turn(Standing) =
        IF Strip(LoadText(page)) = <<>>
        THEN [waiting |-> Tail(waiting), used |-> used, blocks |-> blocks]
        ELSE IF Remaining(page) <= 0
        THEN [waiting |-> <<>>, used |-> used, blocks |-> blocks]
        ELSE [waiting |-> Tail(waiting),
              used |-> used + Len(page.heading) + Len(Body(page)),
              blocks |-> Append(blocks, [page |-> page, body |-> Body(page)])]
  BY <1>1 DEF Turn, Standing
<1>3. CASE NotFetched(page) /\ phase' = "raised" /\ UNCHANGED <<waiting, used, blocks>>
  BY <1>3
<1>4. CASE /\ Strip(LoadText(page)) = <<>>
           /\ waiting' = Tail(waiting) /\ UNCHANGED <<phase, used, blocks>>
  BY <1>2, <1>4 DEF NextPage, Standing
<1>5. CASE /\ Strip(LoadText(page)) # <<>> /\ Remaining(page) <= 0
           /\ waiting' = <<>> /\ UNCHANGED <<phase, used, blocks>>
  BY <1>2, <1>5 DEF NextPage, Standing
<1>6. CASE /\ Strip(LoadText(page)) # <<>> /\ Remaining(page) > 0
           /\ blocks' = Append(blocks, [page |-> page, body |-> Body(page)])
           /\ used' = used + Len(page.heading) + Len(Body(page))
           /\ waiting' = Tail(waiting) /\ UNCHANGED phase
  <2>1. ~(Remaining(page) <= 0)
    BY <1>6
  <2> QED BY <1>2, <1>6, <2>1 DEF NextPage, Standing
<1> QED BY <1>3, <1>4, <1>5, <1>6 DEF NextPage

LEMMA ContextTurns ==
  ASSUME pack \in Packs, UNCHANGED pack, ContextOk, NextPage
  PROVE  ContextOk'
<1>1. /\ Asked' = Asked /\ UNCHANGED request
      /\ phase = "assembling" /\ Standing.waiting # <<>>
  BY AskedIsFixed DEF NextPage, Standing
<1>2. CASE phase' = "raised" /\ UNCHANGED <<waiting, used, blocks>>
  BY <1>2 DEF ContextOk
<1>3. /\ request \in Asked /\ request.pages # NoEntry
      /\ Sound(request.pages, Standing) /\ WholeFirst(request.pages, Standing)
      /\ Comes(request.pages, Standing)
  BY <1>1 DEF ContextOk, Sound, Standing
<1>4. PagesOk(request.pages)
  BY <1>3, AskedPagesAreTexts
<1>5. Remaining(Head(waiting)) \in Int
  <2>1. PageOk(Head(Standing.waiting))
    BY <1>1, <1>3, <1>4, NextIsPage DEF Sound
  <2>2. Len(Head(waiting).heading) \in Nat /\ used \in Nat /\ Budget \in Nat
    BY <2>1, TextIsSequence, ContextAssumption DEF PageOk, Standing, ContextOk, BlocksOk
  <2>3. \A b, u, h \in Nat : b - u - h \in Int
    OBVIOUS
  <2> QED BY <2>2, <2>3, Zenon DEF Remaining
<1>6. CASE phase' = "assembling" /\ Standing' = Turn(Standing)
  <2>1. /\ Sound(request.pages, Standing') /\ WholeFirst(request.pages, Standing')
        /\ Comes(request.pages, Standing')
    BY <1>1, <1>3, <1>4, <1>6, TurnIsSound, TurnIsWhole, ComesNext DEF Sound
  <2>2. BlocksOk(blocks', used')
    BY <2>1 DEF Sound, Standing
  <2> QED BY <1>1, <1>3, <1>6, <2>1, <2>2 DEF ContextOk, Sound
<1> QED BY <1>2, <1>5, <1>6, NextPageIsTurn

LEMMA ContextRests ==
  ASSUME UNCHANGED pack, ContextOk,
         \/ UNCHANGED contextVars
         \/ Assembled
         \/ AuditRequest
  PROVE  ContextOk'
<1>1. Asked' = Asked /\ UNCHANGED <<request, waiting, used, blocks>>
  BY AskedIsFixed DEF contextVars, Assembled, AuditRequest
<1>2. Standing' = Standing
  BY <1>1 DEF Standing
<1>3. phase' \in {"assembling", "assembled"} => phase \in {"assembling", "assembled"}
  BY DEF contextVars, Assembled, AuditRequest
<1>4. phase' = "assembled" => waiting' = <<>>
  BY DEF contextVars, Assembled, AuditRequest, ContextOk
<1> QED BY <1>1, <1>2, <1>3, <1>4 DEF ContextOk

LEMMA StepContext == AuditInv /\ ContextOk /\ [GateNext]_<<gateVars, contextVars>> => ContextOk'
<1> SUFFICES ASSUME AuditInv, ContextOk, [GateNext]_<<gateVars, contextVars>>
             PROVE  ContextOk'
  OBVIOUS
<1>1. pack \in Packs /\ UNCHANGED pack
  BY PackIsFixed DEF AuditInv, AuditsAreNew, gateVars
<1>2. CASE \/ CheckRecon \/ CheckValidate \/ CheckPrompts \/ CheckRoundTrip \/ CheckAnchoring
           \/ CheckSubstitution \/ CheckTruncation \/ CheckDisclosure
  <2>1. UNCHANGED contextVars
    BY <1>2 DEF CheckRecon, CheckValidate, CheckPrompts, CheckRoundTrip, CheckAnchoring,
                CheckSubstitution, CheckTruncation, CheckDisclosure, FileGate
  <2> QED BY <1>1, <2>1, ContextRests
<1>3. CASE AuditTask
  <2>1. audits \in Seq(Asked) /\ audits # <<>> /\ Begin(Head(audits), "audit")
    BY <1>3 DEF AuditTask, AuditInv, AuditsAreNew
  <2>2. Head(audits) \in Asked
    BY <2>1
  <2> QED BY <1>1, <2>1, <2>2, ContextBegins
<1>4. ASSUME NEW t \in Tasks, NEW list \in Lists, AskModel(t, list) PROVE ContextOk'
  <2>1. RequestOf(t, list) \in Asked /\ Begin(RequestOf(t, list), "prompt")
    BY <1>4 DEF AskModel, Asked
  <2> QED BY <1>1, <2>1, ContextBegins
<1>5. CASE AssembleContext
  BY <1>1, <1>5, ContextTurns, ContextRests DEF AssembleContext
<1>6. CASE UNCHANGED <<gateVars, contextVars>>
  BY <1>1, <1>6, ContextRests
<1> QED BY <1>2, <1>3, <1>4, <1>5, <1>6 DEF GateNext

LEMMA InitIsSound == GateInit => AuditInv /\ ContextOk
<1> SUFFICES ASSUME GateInit PROVE AuditInv /\ ContextOk
  OBVIOUS
<1>1. AuditInv
  BY DEF GateInit, ContextInit, AuditInv, AuditsAreNew, AuditsByGate, FileGates
<1>2. phase = "idle" /\ used = 0 /\ blocks = <<>>
  BY DEF GateInit, ContextInit
<1> QED BY <1>1, <1>2, NothingIsOk DEF ContextOk

THEOREM ContextsAreSound == GateSpec => [](AuditInv /\ ContextOk)
<1>1. AuditInv /\ ContextOk /\ [GateNext]_<<gateVars, contextVars>> => (AuditInv /\ ContextOk)'
  BY StepAudits, StepContext
<1> QED BY <1>1, InitIsSound, PTL DEF GateSpec

LEMMA MaxOfTwo == ASSUME NEW x \in Int PROVE Max({0, x}) = IF x > 0 THEN x ELSE 0
<1> DEFINE larger == IF x > 0 THEN x ELSE 0
<1>1. larger \in {0, x} /\ \A y \in {0, x} : larger >= y
  OBVIOUS
<1>2. \A z \in {0, x} : (\A y \in {0, x} : z >= y) => z = larger
  OBVIOUS
<1> HIDE DEF larger
<1>3. Max({0, x}) \in {0, x} /\ \A y \in {0, x} : Max({0, x}) >= y
  BY <1>1 DEF Max
<1> QED BY <1>2, <1>3 DEF larger

\* What the loop counts and what it does not.
LEMMA LengthIsCounted ==
  ASSUME AuditInv, ContextOk, phase \in {"assembling", "assembled"}
  PROVE  BudgetHeld
<1> DEFINE preamble == Len(request.preamble)
           notice == IF \E i \in DOMAIN blocks : Cropped(blocks[i]) THEN Len(Marker) ELSE 0
<1>1. /\ request \in Asked /\ request.pages # NoEntry
      /\ WholeFirst(request.pages, Standing) /\ BlocksOk(blocks, used)
      /\ pack \in Packs
  BY DEF ContextOk, AuditInv, AuditsAreNew
<1>2. preamble \in Nat
  <2>1. PICK t \in Tasks, list \in Lists : request = RequestOf(t, list)
    BY <1>1 DEF Asked
  <2>2. request.preamble = ContextPreamble[pack.cohort]
    BY <2>1 DEF RequestOf
  <2> QED BY <1>1, <2>2, PreambleAssumption, TextIsSequence
<1>3. Len(blocks) \in Nat /\ Len(request.pages) \in Nat /\ Len(blocks) <= Len(request.pages)
  <2>1. PagesOk(request.pages)
    BY <1>1, AskedPagesAreTexts
  <2>2. /\ Len(request.pages) \in Nat /\ request.pages \in Seq(ToSet(request.pages))
        /\ Len(PagesFor(request.pages)) = Len(request.pages)
    <3>1. /\ request.pages \in Seq(ToSet(request.pages))
          /\ PagesFor(request.pages) \in Seq(ToSet(request.pages))
          /\ DOMAIN PagesFor(request.pages) = DOMAIN request.pages
      BY <2>1, PagesAreSorted DEF PagesOk
    <3> QED BY <3>1
  <2>3. PICK n \in 0 .. Len(PagesFor(request.pages)) : Len(Standing.blocks) <= n
    BY <1>1 DEF WholeFirst, WholeTo
  <2>4. Len(blocks) \in Nat /\ Len(blocks) <= n
    BY <1>1, <2>3 DEF BlocksOk, Standing
  <2> QED BY <2>2, <2>3, <2>4
<1>4. Max({0, Len(blocks) - 1}) \in Nat
      /\ Max({0, Len(request.pages) - 1}) \in Nat
      /\ Max({0, Len(blocks) - 1}) <= Max({0, Len(request.pages) - 1})
  <2>1. /\ Len(blocks) - 1 \in Int /\ Len(request.pages) - 1 \in Int
        /\ Len(blocks) - 1 <= Len(request.pages) - 1
    BY <1>3
  <2>2. \A x, y \in Int : x <= y =>
          /\ (IF x > 0 THEN x ELSE 0) \in Nat
          /\ (IF x > 0 THEN x ELSE 0) <= (IF y > 0 THEN y ELSE 0)
    OBVIOUS
  <2>3. /\ Max({0, Len(blocks) - 1}) = IF Len(blocks) - 1 > 0 THEN Len(blocks) - 1 ELSE 0
        /\ Max({0, Len(request.pages) - 1})
             = IF Len(request.pages) - 1 > 0 THEN Len(request.pages) - 1 ELSE 0
    BY <2>1, MaxOfTwo
  <2> QED BY <2>1, <2>2, <2>3
<1>5. used \in Nat /\ used <= Budget + notice /\ used = Total(blocks)
  <2>1. /\ used \in Nat /\ used <= Budget + Len(Marker) /\ used = Total(blocks)
        /\ (\A i \in DOMAIN blocks : ~Cropped(blocks[i])) => used <= Budget
    BY <1>1 DEF BlocksOk
  <2>2. Budget \in Nat
    BY ContextAssumption
  <2> QED BY <2>1, <2>2
<1>6. ContextLength = preamble + Max({0, Len(blocks) - 1}) + Total(blocks)
  BY DEF ContextLength, Total, Width
<1>7. BudgetHeld <=>
        ContextLength <= preamble + Max({0, Len(request.pages) - 1}) + Budget + notice
  BY DEF BudgetHeld
<1>8. Budget \in Nat /\ notice \in Nat
  BY ContextAssumption, TextIsSequence
<1> HIDE DEF preamble, notice
<1>9. \A p, x, y, u, b, o \in Nat : x <= y /\ u <= b + o => p + x + u <= p + y + b + o
  OBVIOUS
<1> QED BY <1>2, <1>4, <1>5, <1>6, <1>7, <1>8, <1>9

\* Whatever the pages, their order and headings, and the budget: what the model
\* is given exceeds the budget by what the loop does not count, and by no more.
THEOREM BudgetIsHeld == GateSpec => []BudgetHeld
<1>1. AuditInv /\ ContextOk => BudgetHeld
  <2>1. phase \notin {"assembling", "assembled"} => BudgetHeld
    BY DEF BudgetHeld
  <2> QED BY <2>1, LengthIsCounted
<1> QED BY <1>1, ContextsAreSound, PTL

\* A value the audit reports as truncated had no room: of a page that fits whole
\* the context shows every unit.
LEMMA AuditCompared ==
  ASSUME AuditInv, ContextOk, AuditRequest
  PROVE  AuditBlamesBudget'
<1>1. /\ UNCHANGED <<request, purpose, blocks>> /\ purpose = "audit"
      /\ phase \in {"assembled", "raised"}
      /\ records' = records \cup (IF phase = "raised" THEN {ErrorRecord}
                                  ELSE {Record(t) : t \in {s \in request.terms : s # {}}})
  BY DEF AuditRequest
<1> SUFFICES ASSUME NEW r \in records', r.request = request, ~r.error, r.truncated,
                    NEW i \in DOMAIN request.pages,
                    r.term \cap ToSet(Strip(LoadText(request.pages[i]))) # {},
                    FitsWhole(request.pages, i)
             PROVE  FALSE
  BY <1>1 DEF AuditBlamesBudget, Fresh
<1>2. r \notin records
  BY <1>1 DEF AuditInv, AuditsAreNew
<1>3. phase = "assembled" /\ r.term \cap Shown = {}
  <2>1. ErrorRecord.error
    BY DEF ErrorRecord
  <2>2. phase = "assembled" /\ \E t : r = Record(t)
    BY <1>1, <1>2, <2>1
  <2>3. \A t : Record(t).term = t /\ (Record(t).truncated => t \cap Shown = {})
    BY DEF Record
  <2> QED BY <2>2, <2>3
<1>4. /\ request \in Asked /\ request.pages # NoEntry
      /\ WholeFirst(request.pages, Standing) /\ Standing.waiting = <<>>
      /\ Standing.blocks = blocks /\ pack \in Packs
  BY <1>3 DEF ContextOk, Standing, AuditInv, AuditsAreNew
<1>5. PagesOk(request.pages)
  BY <1>4, AskedPagesAreTexts
<1>6. Strip(LoadText(request.pages[i])) # <<>>
  <2>1. ToSet(<<>>) = {}
    BY DEF ToSet
  <2> QED BY <2>1
<1>7. PICK b \in DOMAIN blocks : blocks[b] = Whole(request.pages[i])
  BY <1>4, <1>5, <1>6, EndIsWhole
<1>8. blocks[b].body = Strip(LoadText(request.pages[i]))
  BY <1>7 DEF Whole
<1>9. ToSet(blocks[b].body) \subseteq Shown
  BY DEF Shown
<1> QED BY <1>3, <1>8, <1>9

\* And it is reported of the context that stands.
LEMMA AuditElsewhere ==
  ASSUME AuditBlamesBudget, UNCHANGED contextVars \/ phase' # "idle"
  PROVE  AuditBlamesBudget'
BY DEF AuditBlamesBudget, Fresh, contextVars

LEMMA StepBlames ==
  AuditInv /\ ContextOk /\ AuditBlamesBudget /\ [GateNext]_<<gateVars, contextVars>>
    => AuditBlamesBudget'
<1> SUFFICES ASSUME AuditInv, ContextOk, AuditBlamesBudget,
                    [GateNext]_<<gateVars, contextVars>>
             PROVE  AuditBlamesBudget'
  OBVIOUS
<1>1. CASE \/ CheckRecon \/ CheckValidate \/ CheckPrompts \/ CheckRoundTrip \/ CheckAnchoring
           \/ CheckSubstitution \/ CheckTruncation \/ CheckDisclosure
           \/ UNCHANGED <<gateVars, contextVars>>
  <2>1. UNCHANGED contextVars
    BY <1>1 DEF CheckRecon, CheckValidate, CheckPrompts, CheckRoundTrip, CheckAnchoring,
                CheckSubstitution, CheckTruncation, CheckDisclosure, FileGate
  <2> QED BY <2>1, AuditElsewhere
<1>2. CASE AuditTask \/ \E t \in Tasks, list \in Lists : AskModel(t, list)
  <2>1. phase' # "idle"
    BY <1>2, BeginIsBusy DEF AuditTask, AskModel
  <2> QED BY <2>1, AuditElsewhere
<1>3. CASE NextPage \/ Assembled
  <2>1. phase' # "idle"
    BY <1>3 DEF NextPage, Assembled
  <2> QED BY <2>1, AuditElsewhere
<1>4. CASE AuditRequest
  BY <1>4, AuditCompared
<1> QED BY <1>1, <1>2, <1>3, <1>4 DEF GateNext, AssembleContext

\* Whatever the pages, their order and headings, and the budget: the audit
\* reports no value that stood in a page the budget had room for.
THEOREM AuditTellsTheTruth == GateSpec => []AuditBlamesBudget
<1>1. GateInit => AuditBlamesBudget
  BY DEF GateInit, ContextInit, AuditBlamesBudget, Fresh
<1>2. AuditInv /\ ContextOk /\ AuditBlamesBudget /\ [GateNext]_<<gateVars, contextVars>>
        => (AuditInv /\ ContextOk /\ AuditBlamesBudget)'
  BY StepAudits, StepContext, StepBlames
<1> QED BY <1>1, <1>2, InitIsSound, PTL DEF GateSpec

\* And no page is left out for one of a less important role.
THEOREM LowestRoleIsDropped == GateSpec => []LowestRoleDropped
<1>1. AuditInv /\ ContextOk => LowestRoleDropped
  <2> SUFFICES ASSUME AuditInv, ContextOk, phase = "assembled",
                      NEW i \in DOMAIN request.pages, NEW j \in DOMAIN request.pages,
                      Rank(request.pages[i].role) < Rank(request.pages[j].role),
                      Strip(LoadText(request.pages[i])) # <<>>,
                      Injected(request.pages[j])
               PROVE  Injected(request.pages[i])
    BY DEF LowestRoleDropped
  <2>1. request \in Asked /\ request.pages # NoEntry /\ InOrder(request.pages, Standing)
    BY DEF ContextOk
  <2>2. PagesOk(request.pages)
    BY <2>1, AskedPagesAreTexts DEF AuditInv, AuditsAreNew
  <2>3. Standing.blocks = blocks
    BY DEF Standing
  <2> QED BY <2>1, <2>2, <2>3, EndKeepsTheOrder DEF Injected
<1> QED BY <1>1, ContextsAreSound, PTL

-----------------------------------------------------------------------------
(***************************************************************************)
(* The audit and the grid: what is recorded of a request is true of it     *)
(* whenever it is asked, and of a docs grid no task was left out.          *)
(***************************************************************************)

ShownBy(r, bs) ==
  ToSet(r.preamble) \cup UNION {ToSet(bs[i].page.heading) \cup ToSet(bs[i].body) : i \in DOMAIN bs}

\* A record that is no error speaks of the end its request comes to.
TrueOf(r, c) ==
  /\ Comes(r.request.pages, c) /\ c.waiting = <<>>
  /\ r.documented <=> r.term \cap FullText(r.request.pages) # {}
  /\ r.injected <=> r.term \cap ShownBy(r.request, c.blocks) # {}
  /\ r.truncated <=> r.documented /\ ~r.injected

RecordsAreTrue == \A r \in records : ~r.error => \E c : TrueOf(r, c)

\* A request has been audited: it could not be, or each of its values was.
Audit(q) ==
  \/ \E r \in records : r.request = q /\ r.error
  \/ \A term \in q.terms : term # {} =>
       \E r \in records : r.request = q /\ r.term = term /\ ~r.error

Awaits(q) ==
  \/ \E i \in DOMAIN audits : audits[i] = q
  \/ purpose = "audit" /\ phase # "idle" /\ request = q

NobodyLeftOut ==
  /\ gate = "truncation" =>
       \A t \in Tasks : Awaits(RequestOf(t, "pages")) \/ Audit(RequestOf(t, "pages"))
  /\ gate \in {"disclosure", "grid"} =>
       /\ \A t \in Tasks : Audit(RequestOf(t, "pages"))
       /\ DocsCohort => \A r \in RecordsOf("pages") : ~r.truncated
       /\ \A i \in DOMAIN audits : audits[i].list # "pages"
       /\ (purpose = "audit" /\ phase # "idle") => request.list # "pages"

WindowInv == RecordsAreTrue /\ NobodyLeftOut

LEMMA RequestsAreFixed ==
  ASSUME UNCHANGED pack
  PROVE  /\ Tasks' = Tasks /\ DocsCohort' = DocsCohort
         /\ \A t, list : RequestOf(t, list)' = RequestOf(t, list)
BY DEF Tasks, DocsCohort, RequestOf

\* Records are never taken back, so an audit stays done.
LEMMA AuditsStay ==
  ASSUME NEW q, Audit(q), records \subseteq records'
  PROVE  Audit(q)'
<1>1. CASE \E r \in records : r.request = q /\ r.error
  BY <1>1 DEF Audit
<1>2. CASE \A term \in q.terms : term # {} =>
             \E r \in records : r.request = q /\ r.term = term /\ ~r.error
  BY <1>2 DEF Audit
<1> QED BY <1>1, <1>2 DEF Audit

\* What speaks of its request goes on to.
LEMMA TruthStays ==
  ASSUME RecordsAreTrue, UNCHANGED records
  PROVE  RecordsAreTrue'
BY DEF RecordsAreTrue

\* A step that asks for no audit and leaves the contexts alone.
LEMMA WindowQuiet ==
  ASSUME WindowInv, UNCHANGED <<pack, audits, contextVars>>,
         \/ UNCHANGED gate
         \/ gate' \in FileGates
         \/ gate = "disclosure" /\ gate' = "grid"
  PROVE  WindowInv'
<1>1. /\ UNCHANGED pack /\ UNCHANGED <<audits, records, request, purpose, phase>>
      /\ records \subseteq records'
  BY DEF contextVars
<1>2. RecordsAreTrue'
  BY <1>1, TruthStays DEF WindowInv
<1>3. \A q : Audit(q) => Audit(q)'
  BY <1>1, AuditsStay
<1>4. \A q : Awaits(q) => Awaits(q)'
  BY <1>1 DEF Awaits
<1>5. RecordsOf("pages")' = RecordsOf("pages")
  BY <1>1 DEF RecordsOf
<1>6. NobodyLeftOut'
  <2>1. CASE UNCHANGED gate
    BY <1>1, <1>3, <1>4, <1>5, <2>1, RequestsAreFixed DEF WindowInv, NobodyLeftOut
  <2>2. CASE gate' \in FileGates
    BY <2>2 DEF NobodyLeftOut, FileGates
  <2>3. CASE gate = "disclosure" /\ gate' = "grid"
    BY <1>1, <1>3, <1>5, <2>3, RequestsAreFixed DEF WindowInv, NobodyLeftOut
  <2> QED BY <2>1, <2>2, <2>3
<1> QED BY <1>2, <1>6 DEF WindowInv

LEMMA WindowSubstitution ==
  ASSUME AuditInv, WindowInv, CheckSubstitution
  PROVE  WindowInv'
<1>1. UNCHANGED pack /\ UNCHANGED contextVars /\ UNCHANGED records
  BY DEF CheckSubstitution, contextVars
<1>2. CASE ~SubstitutionOk
  BY <1>1, <1>2, WindowQuiet DEF CheckSubstitution, Block
<1>3. CASE SubstitutionOk
  <2>1. gate' = "truncation" /\ audits' = RequestsOf("pages")
    BY <1>3 DEF CheckSubstitution, Pass
  <2>2. \A t \in Tasks : Awaits(RequestOf(t, "pages"))'
    <3> TAKE t \in Tasks
    <3>1. t \in DOMAIN audits' /\ audits'[t] = RequestOf(t, "pages")
      BY <2>1 DEF RequestsOf
    <3> QED BY <1>1, <3>1, RequestsAreFixed DEF Awaits
  <2>3. NobodyLeftOut'
    BY <1>1, <2>1, <2>2, RequestsAreFixed DEF NobodyLeftOut
  <2> QED BY <1>1, <2>3, TruthStays DEF WindowInv
<1> QED BY <1>2, <1>3

\* An audit turns to a request: it is still awaited.
LEMMA WindowNextTask ==
  ASSUME AuditInv, WindowInv, AuditTask
  PROVE  WindowInv'
<1>1. /\ audits # <<>> /\ audits' = Tail(audits) /\ UNCHANGED <<pack, gate>>
      /\ request' = Head(audits) /\ purpose' = "audit" /\ UNCHANGED records /\ phase' # "idle"
  BY BeginIsBusy DEF AuditTask
<1>2. /\ audits \in Seq(Asked) /\ Head(audits) = audits[1] /\ 1 \in DOMAIN audits
      /\ \A i \in DOMAIN audits : i = 1 \/ (i - 1 \in DOMAIN audits' /\ audits'[i - 1] = audits[i])
      /\ \A i \in DOMAIN audits' : i + 1 \in DOMAIN audits /\ audits'[i] = audits[i + 1]
  BY <1>1 DEF AuditInv, AuditsAreNew
<1>3. phase = "idle" \/ purpose = "prompt"
  BY DEF AuditTask, Begin
<1>4. ASSUME NEW q, Awaits(q) PROVE Awaits(q)'
  <2>1. PICK i \in DOMAIN audits : audits[i] = q
    BY <1>3, <1>4 DEF Awaits
  <2>2. CASE i = 1
    BY <1>1, <1>2, <2>1, <2>2 DEF Awaits
  <2>3. CASE i # 1
    BY <1>2, <2>1, <2>3 DEF Awaits
  <2> QED BY <2>2, <2>3
<1>5. \A q : Audit(q) => Audit(q)'
  BY <1>1, AuditsStay
<1>6. RecordsOf("pages")' = RecordsOf("pages")
  BY <1>1 DEF RecordsOf
<1>7. CASE gate = "truncation"
  <2>1. NobodyLeftOut'
    BY <1>1, <1>4, <1>5, <1>7, RequestsAreFixed DEF WindowInv, NobodyLeftOut
  <2> QED BY <1>1, <2>1, TruthStays DEF WindowInv
<1>8. CASE gate # "truncation"
  <2>1. gate \in {"disclosure", "grid"} =>
          request'.list # "pages" /\ \A i \in DOMAIN audits' : audits'[i].list # "pages"
    BY <1>1, <1>2 DEF WindowInv, NobodyLeftOut
  <2>2. NobodyLeftOut'
    BY <1>1, <1>5, <1>6, <1>8, <2>1, RequestsAreFixed DEF WindowInv, NobodyLeftOut
  <2> QED BY <1>1, <2>2, TruthStays DEF WindowInv
<1> QED BY <1>7, <1>8

\* The truncation gate is passed when nobody is awaited any more.
LEMMA WindowTruncation ==
  ASSUME AuditInv, WindowInv, CheckTruncation
  PROVE  WindowInv'
<1>1. /\ gate = "truncation" /\ audits = <<>> /\ phase = "idle"
      /\ UNCHANGED pack /\ UNCHANGED contextVars /\ UNCHANGED <<records, phase>>
  BY DEF CheckTruncation, Audited, contextVars
<1>2. CASE ~TruncationOk
  BY <1>1, <1>2, WindowQuiet DEF CheckTruncation, Block
<1>3. CASE TruncationOk
  <2>1. /\ gate' = "disclosure"
        /\ audits' = ColumnRequests("spec_documents") \o ColumnRequests("gated_pages")
    BY <1>3 DEF CheckTruncation, Pass
  <2>2. \A i \in DOMAIN audits' : audits'[i].list # "pages"
    BY <2>1, ColumnsTogether DEF AuditInv, AuditsAreNew
  <2>3. \A q : ~Awaits(q)
    BY <1>1 DEF Awaits
  <2>4. \A t \in Tasks : Audit(RequestOf(t, "pages"))'
    <3> TAKE t \in Tasks
    <3>1. Audit(RequestOf(t, "pages"))
      BY <1>1, <2>3 DEF WindowInv, NobodyLeftOut
    <3>2. RequestOf(t, "pages")' = RequestOf(t, "pages") /\ records \subseteq records'
      BY <1>1, RequestsAreFixed
    <3> QED BY <3>1, <3>2, AuditsStay
  <2>5. DocsCohort => \A r \in RecordsOf("pages") : ~r.truncated
    BY <1>3 DEF TruncationOk
  <2>6. RecordsOf("pages")' = RecordsOf("pages")
    BY <1>1 DEF RecordsOf
  <2>7. NobodyLeftOut'
    BY <1>1, <2>1, <2>2, <2>4, <2>5, <2>6, RequestsAreFixed DEF NobodyLeftOut
  <2> QED BY <1>1, <2>7, TruthStays DEF WindowInv
<1> QED BY <1>2, <1>3

\* A prompt: the grid audits nobody.
LEMMA WindowAskModel ==
  ASSUME AuditInv, WindowInv, NEW t \in Tasks, NEW list \in Lists, AskModel(t, list)
  PROVE  WindowInv'
<1>1. /\ UNCHANGED <<pack, gate, audits, records>> /\ gate = "grid" /\ purpose' = "prompt"
      /\ UNCHANGED pack
  BY BeginIsBusy DEF AskModel, gateVars, AuditInv, AuditsByGate
<1>2. \A q : Audit(q) => Audit(q)'
  BY <1>1, AuditsStay
<1>3. RecordsOf("pages")' = RecordsOf("pages")
  BY <1>1 DEF RecordsOf
<1>4. NobodyLeftOut'
  BY <1>1, <1>2, <1>3, RequestsAreFixed DEF WindowInv, NobodyLeftOut
<1> QED BY <1>1, <1>4, TruthStays DEF WindowInv

LEMMA WindowAssembling ==
  ASSUME WindowInv, UNCHANGED gateVars, NextPage \/ Assembled
  PROVE  WindowInv'
<1>1. /\ UNCHANGED <<pack, gate, audits>> /\ UNCHANGED <<request, purpose, records>>
      /\ UNCHANGED pack /\ phase # "idle" /\ phase' # "idle"
  BY DEF gateVars, NextPage, Assembled
<1>2. \A q : Audit(q) => Audit(q)'
  BY <1>1, AuditsStay
<1>3. \A q : Awaits(q) => Awaits(q)'
  BY <1>1 DEF Awaits
<1>4. RecordsOf("pages")' = RecordsOf("pages")
  BY <1>1 DEF RecordsOf
<1>5. NobodyLeftOut'
  BY <1>1, <1>2, <1>3, <1>4, RequestsAreFixed DEF WindowInv, NobodyLeftOut
<1> QED BY <1>1, <1>5, TruthStays DEF WindowInv

\* The audit of a request ends.
LEMMA WindowCompares ==
  ASSUME WindowInv, ContextOk, UNCHANGED gateVars, AuditRequest
  PROVE  WindowInv'
<1>1. /\ UNCHANGED <<pack, gate, audits>> /\ UNCHANGED <<request, purpose, waiting, used, blocks>>
      /\ UNCHANGED pack
      /\ purpose = "audit" /\ phase \in {"assembled", "raised"} /\ phase' = "idle"
      /\ records' = records \cup (IF phase = "raised" THEN {ErrorRecord}
                                  ELSE {Record(t) : t \in {s \in request.terms : s # {}}})
      /\ records \subseteq records'
  BY DEF gateVars, AuditRequest
<1>2. ErrorRecord.error /\ ErrorRecord.request = request
  BY DEF ErrorRecord
<1>3. \A t : ~Record(t).error /\ Record(t).request = request /\ Record(t).term = t
  BY DEF Record
<1>4. \A q : Audit(q) => Audit(q)'
  BY <1>1, AuditsStay
<1>5. Audit(request)'
  <2>1. CASE phase = "raised"
    BY <1>1, <1>2, <2>1 DEF Audit
  <2>2. CASE phase # "raised"
    <3>1. \A t \in request.terms : t # {} => Record(t) \in records'
      BY <1>1, <2>2
    <3> QED BY <1>1, <1>3, <3>1 DEF Audit
  <2> QED BY <2>1, <2>2
<1>6. ASSUME phase = "assembled", NEW t PROVE TrueOf(Record(t), Standing)
  <2>1. Comes(request.pages, Standing) /\ Standing.waiting = <<>> /\ Standing.blocks = blocks
    BY <1>6 DEF ContextOk, Standing
  <2>2. Shown = ShownBy(request, blocks)
    BY DEF Shown, ShownBy
  <2>3. /\ Record(t).request = request /\ Record(t).term = t
        /\ Record(t).documented <=> t \cap FullText(request.pages) # {}
        /\ Record(t).injected <=> t \cap Shown # {}
        /\ Record(t).truncated <=> Record(t).documented /\ ~Record(t).injected
    BY DEF Record
  <2> QED BY <2>1, <2>2, <2>3 DEF TrueOf
<1>7. RecordsAreTrue'
  <2> SUFFICES ASSUME NEW r \in records', ~r.error PROVE \E c : TrueOf(r, c)
    BY DEF RecordsAreTrue
  <2>1. CASE r \in records
    BY <2>1 DEF WindowInv, RecordsAreTrue
  <2>2. CASE r \notin records
    <3>1. phase = "assembled" /\ \E t : r = Record(t)
      BY <1>1, <1>2, <2>2
    <3> QED BY <1>6, <3>1
  <2> QED BY <2>1, <2>2
<1>8. NobodyLeftOut'
  <2>1. \A q : Awaits(q) => Awaits(q)' \/ Audit(q)'
    BY <1>1, <1>5 DEF Awaits
  <2>2. CASE gate \notin {"disclosure", "grid"}
    BY <1>1, <1>4, <2>1, <2>2, RequestsAreFixed DEF WindowInv, NobodyLeftOut
  <2>3. CASE gate \in {"disclosure", "grid"}
    <3>1. request.list # "pages"
      BY <1>1, <2>3 DEF WindowInv, NobodyLeftOut
    <3>2. RecordsOf("pages")' = RecordsOf("pages")
      <4>1. \A r \in records' : r \in records \/ r.request = request
        BY <1>1, <1>2, <1>3
      <4> QED BY <1>1, <3>1, <4>1 DEF RecordsOf
    <3> QED BY <1>1, <1>4, <2>3, <3>2, RequestsAreFixed DEF WindowInv, NobodyLeftOut
  <2> QED BY <2>2, <2>3
<1> QED BY <1>7, <1>8 DEF WindowInv

LEMMA StepWindow ==
  AuditInv /\ ContextOk /\ WindowInv /\ [GateNext]_<<gateVars, contextVars>> => WindowInv'
<1> SUFFICES ASSUME AuditInv, ContextOk, WindowInv, [GateNext]_<<gateVars, contextVars>>
             PROVE  WindowInv'
  OBVIOUS
<1>1. CASE CheckRecon \/ CheckValidate \/ CheckPrompts \/ CheckRoundTrip \/ CheckAnchoring
  <2>1. UNCHANGED <<pack, audits, contextVars>>
    BY <1>1 DEF CheckRecon, CheckValidate, CheckPrompts, CheckRoundTrip, CheckAnchoring, FileGate
  <2>2. UNCHANGED gate \/ gate' \in FileGates
    BY <1>1 DEF CheckRecon, CheckValidate, CheckPrompts, CheckRoundTrip, CheckAnchoring, FileGate,
                Pass, Block, FileGates
  <2> QED BY <2>1, <2>2, WindowQuiet
<1>2. CASE CheckSubstitution
  BY <1>2, WindowSubstitution
<1>3. CASE AuditTask
  BY <1>3, WindowNextTask
<1>4. CASE CheckTruncation
  BY <1>4, WindowTruncation
<1>5. CASE CheckDisclosure
  <2>1. UNCHANGED <<pack, audits, contextVars>> /\ gate = "disclosure"
    BY <1>5 DEF CheckDisclosure, Audited
  <2>2. UNCHANGED gate \/ gate' = "grid"
    BY <1>5 DEF CheckDisclosure, Block
  <2> QED BY <2>1, <2>2, WindowQuiet
<1>6. CASE \E t \in Tasks, list \in Lists : AskModel(t, list)
  BY <1>6, WindowAskModel
<1>7. CASE AssembleContext
  BY <1>7, WindowAssembling, WindowCompares DEF AssembleContext
<1>8. CASE UNCHANGED <<gateVars, contextVars>>
  <2>1. UNCHANGED <<pack, audits, contextVars>> /\ UNCHANGED gate
    BY <1>8 DEF gateVars
  <2> QED BY <2>1, WindowQuiet
<1> QED BY <1>1, <1>2, <1>3, <1>4, <1>5, <1>6, <1>7, <1>8 DEF GateNext

\* In a cleared docs pack every value was audited, none was truncated, and the
\* prompt comes to the end that was audited.
LEMMA AuditCoversPrompt == AuditInv /\ ContextOk /\ WindowInv => AnswerInWindow
<1> SUFFICES ASSUME AuditInv, ContextOk, WindowInv,
                    verdict = "cleared", DocsCohort,
                    phase = "assembled", request.list = "pages",
                    \A r \in RecordsOf("pages") : r.request.task = request.task => ~r.error,
                    NEW term \in request.terms, term \cap FullText(request.pages) # {}
             PROVE  term \cap Shown # {}
  BY DEF AnswerInWindow
<1>1. gate = "grid"
  BY DEF AuditInv, AuditsByGate
<1>2. PICK t \in Tasks : request = RequestOf(t, "pages")
  <2>1. PICK t \in Tasks, list \in Lists : request = RequestOf(t, list)
    BY DEF ContextOk, Asked
  <2>2. list = "pages"
    BY <2>1 DEF RequestOf
  <2> QED BY <2>1, <2>2
<1>3. Audit(request)
  BY <1>1, <1>2 DEF WindowInv, NobodyLeftOut
<1>4. \A r \in records : r.request = request => r \in RecordsOf("pages") /\ ~r.error
  BY DEF RecordsOf
<1>5. PICK r \in records : r.request = request /\ r.term = term /\ ~r.error
  BY <1>3, <1>4 DEF Audit
<1>6. PICK c : TrueOf(r, c)
  BY <1>5 DEF WindowInv, RecordsAreTrue
<1>7. r.injected
  <2>1. ~r.truncated
    BY <1>1, <1>4, <1>5 DEF WindowInv, NobodyLeftOut
  <2> QED BY <1>5, <1>6, <2>1 DEF TrueOf
<1>8. c = Standing
  <2>1. Comes(request.pages, Standing) /\ Standing.waiting = <<>>
    BY DEF ContextOk, Standing
  <2> QED BY <1>5, <1>6, <2>1, ComesToOneEnd DEF TrueOf
<1>9. ShownBy(r.request, c.blocks) = Shown
  BY <1>5, <1>8 DEF ShownBy, Shown, Standing
<1> QED BY <1>5, <1>6, <1>7, <1>9 DEF TrueOf

\* Whatever the pages and the budget: what a cleared docs pack is asked, and a
\* page of the task says, the prompt says.
THEOREM AnswersAreInWindow == GateSpec => []AnswerInWindow
<1>1. GateInit => WindowInv
  BY DEF GateInit, ContextInit, WindowInv, RecordsAreTrue, NobodyLeftOut
<1>2. AuditInv /\ ContextOk /\ WindowInv /\ [GateNext]_<<gateVars, contextVars>>
        => (AuditInv /\ ContextOk /\ WindowInv)'
  BY StepAudits, StepContext, StepWindow
<1> QED BY <1>1, <1>2, InitIsSound, AuditCoversPrompt, PTL DEF GateSpec
=============================================================================
