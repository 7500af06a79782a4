------------------------------- MODULE PackGates -------------------------------
(***************************************************************************)
(* The gates of the factory (core/factory.py, GATES), which a pack passes  *)
(* in order before any money is spent, with the checks of the pack's files *)
(* they call (core/validate.py, prompt_gate.py, roundtrip.py); and the     *)
(* prompts of the grid behind them.  The audits of the last two gates, and *)
(* the prompts, assemble the contexts of PromptContext step by step.       *)
(*                                                                         *)
(* A pack is what its files say.  Whether a task scores itself, whether    *)
(* the base prefixes are cited, the surfaces are told apart and the key is *)
(* recognised among them is the business of Scoring, and a Boolean here.   *)
(***************************************************************************)
EXTENDS PromptContext

CONSTANTS
  Packs,
  HostOf,              \* of a URL
  MinText,             \* MIN_TEXT_BYTES
  ContractDimensions,  \* of a cohort
  Categories,          \* of a cohort
  ContextPreamble,     \* context_preamble of the contract of a cohort
  NotDeclared,
  Unreadable           \* a vendored specification that does not parse

\* The tasks of a pack are listed in the order of their files.
ASSUME PacksAssumption == \A p \in Packs : p.tasks \in Seq(ToSet(p.tasks))

ASSUME PreambleAssumption == \A p \in Packs : ContextPreamble[p.cohort] \in Text

\* The four lists of a manifest entry are lists of pages.
Lists == {"pages", "anchors", "spec_documents", "gated_pages"}

ASSUME PagesAssumption ==
  \A p \in Packs : \A task \in ToSet(p.tasks) : task.entry # NoEntry =>
    \A list \in Lists :
      /\ task.entry[list] \in Seq(ToSet(task.entry[list]))
      /\ \A page \in ToSet(task.entry[list]) : {page.heading, page.text} \subseteq Text

VARIABLES
  pack,
  gate,     \* the gate reached, "grid" behind the last one
  verdict,  \* "running", "blocked", "raised", "cleared"
  audits    \* requests the gate reached has yet to audit

gateVars == <<pack, gate, verdict, audits>>

Tasks == DOMAIN pack.tasks
DocsCohort == pack.cohort = "docs"  \* truncation_blocks, coverage_blocks

Entry(t, list) ==
  IF pack.tasks[t].entry = NoEntry THEN <<>> ELSE pack.tasks[t].entry[list]
EntryPages == UNION {ToSet(Entry(t, list)) : t \in Tasks, list \in Lists}
ManifestUrls == {p.url : p \in EntryPages}

-----------------------------------------------------------------------------
\* recon

RefusedHosts == {HostOf[p.url] : p \in {q \in EntryPages : q.refused}}

\* Mutant: a pack may keep the specification it may not keep.
ReconOkLax ==
  /\ pack.refusalsNamed = RefusedHosts
  /\ pack.available \in {"yes", "partial", "no"}
  /\ pack.license
  /\ pack.permits \in {"yes", "no"}
  /\ pack.available # "no" =>
       IF pack.permits = "yes" THEN pack.spec # NotDeclared /\ pack.specLicense
       ELSE pack.where

ReconOk ==
  /\ pack.refusalsNamed = RefusedHosts
  /\ pack.available \in {"yes", "partial", "no"}
  /\ pack.license
  /\ pack.permits \in {"yes", "no"}
  /\ pack.permits = "no" => pack.spec = NotDeclared
  /\ pack.available # "no" =>
       IF pack.permits = "yes" THEN pack.spec # NotDeclared /\ pack.specLicense
       ELSE pack.where

-----------------------------------------------------------------------------
\* validate

SpecBranch(e) ==
  /\ e.ref # NotDeclared
  /\ e.ref.op # NotDeclared
  /\ e.ref.file = "prefixed" \/ (e.ref.file = "other" /\ ~pack.specPrefix)

DocBranch(e) == e.docOnly /\ e.doc # NotDeclared

\* oneOf
Anchored(e) == SpecBranch(e) # DocBranch(e)

\* validate_docs_manifest, of one page.
Consistent(page) ==
  /\ ~(page.error /\ (page.hashed \/ page.size = "bytes" \/ page.named))
  /\ page.named => page.hashed
  /\ page.attempted <=> page.dated

\* validate_task_groups: the groups partition the tasks.
GroupsPartition ==
  LET ids == {pack.tasks[t].id : t \in Tasks}
      Places == UNION {{g} \X DOMAIN pack.groups[g].tasks : g \in DOMAIN pack.groups}
      Listed(id) == {p \in Places : pack.groups[p[1]].tasks[p[2]] = id}
  IN pack.groups # <<>> =>
       /\ \A g \in DOMAIN pack.groups :
            /\ pack.groups[g].tasks # <<>> /\ pack.groups[g].reasoned
            /\ ToSet(pack.groups[g].tasks) \subseteq ids
       /\ \A id \in ids : Cardinality(Listed(id)) = 1

ValidTask(task) ==
  /\ task.shape  \* what the schema says besides
  /\ task.category \in Categories[pack.cohort] \ pack.notApplicable
  /\ DocsCohort \/ (task.endpoints # <<>> /\ \A i \in DOMAIN task.endpoints :
                                               Anchored(task.endpoints[i]))

ValidateOk ==
  /\ pack.tasks # <<>>
  /\ \A t \in Tasks : ValidTask(pack.tasks[t])
  /\ \A s, t \in Tasks : pack.tasks[s].id = pack.tasks[t].id => s = t
  /\ pack.notApplicable \subseteq Categories[pack.cohort]
  /\ pack.expected # {} => pack.expected = {pack.tasks[t].id : t \in Tasks}
  /\ GroupsPartition
  /\ pack.surfacesValid
  /\ \A p \in EntryPages : Consistent(p)

-----------------------------------------------------------------------------
\* prompts and roundtrip

BlankName == "blank"

PromptsOk ==
  /\ \A names \in {pack.vendorNames, pack.productNames} :
       names # {} /\ BlankName \notin names
  /\ pack.tasks # <<>>
  /\ \A t \in Tasks : /\ pack.tasks[t].naming \cap pack.vendorNames # {}
                      /\ pack.tasks[t].naming \cap pack.productNames # {}

Exercised == {d \in ContractDimensions[pack.cohort] : \E t \in Tasks : d \notin pack.tasks[t].na}

\* dimension_coverage; pack.unexercised maps what is declared to whether a
\* reason is given.
DimensionCoverage ==
  /\ DOMAIN pack.unexercised \subseteq ContractDimensions[pack.cohort] \ Exercised
  /\ pack.tasks # <<>>
  /\ \A d \in DOMAIN pack.unexercised : pack.unexercised[d]
  /\ DocsCohort =>
       ContractDimensions[pack.cohort] \subseteq Exercised \cup DOMAIN pack.unexercised

RoundTripOk ==
  /\ \A t \in Tasks : pack.tasks[t].selfScores
  /\ DimensionCoverage
  /\ pack.prefixesCited /\ pack.surfacesOwnKey

-----------------------------------------------------------------------------
\* anchoring and substitution

Vendored == IF pack.spec \in {NotDeclared, Unreadable} THEN {} ELSE pack.spec

\* _anchor_paths: the path alone, or behind any suffix of the server's prefix.
AnchorPaths(operation) ==
  {operation.path}
  \cup {SubSeq(operation.prefix, i, Len(operation.prefix)) \o operation.path :
          i \in DOMAIN operation.prefix}

\* A reference the check follows: any but an empty one.
Follows(e) == e.ref # NotDeclared /\ ~(e.ref.file = "none" /\ e.ref.op = NotDeclared)

Resolves(e) ==
  IF Follows(e)
  THEN \E o \in Vendored : /\ o.op = e.ref.op /\ o.method = e.method
                           /\ e.path \in AnchorPaths(o)
  ELSE e.doc # NotDeclared => e.doc \in ManifestUrls

Endpoints == UNION {ToSet(pack.tasks[t].endpoints) : t \in Tasks}

AnchoringOk ==
  IF DocsCohort
  THEN \A t \in Tasks : pack.tasks[t].publication \in ManifestUrls
  ELSE /\ \A e \in Endpoints : Resolves(e)
       /\ pack.specPrefix => \E e \in Endpoints : Follows(e)

\* A file that does not parse, or a reference without an operation.
AnchoringRaises ==
  /\ ~DocsCohort
  /\ \/ pack.spec = Unreadable
     \/ \E e \in Endpoints : Follows(e) /\ e.ref.op = NotDeclared

\* content_hash is taken of the text.
SubstitutionOk ==
  LET compared == {p \in EntryPages : p.hashed /\ p.size = "bytes" /\ Len(p.text) >= MinText}
  IN \A p, q \in compared : p.text = q.text => p.url = q.url

-----------------------------------------------------------------------------
\* truncation and disclosure

\* The optional columns a pack may declare.
Columns == {"spec_documents", "gated_pages"} \cap pack.columns

RequestOf(t, list) ==
  [pages |-> IF pack.tasks[t].entry = NoEntry THEN NoEntry ELSE pack.tasks[t].entry[list],
   terms |-> pack.tasks[t].terms, preamble |-> ContextPreamble[pack.cohort],
   task |-> t, list |-> list]

RequestsOf(list) == [t \in Tasks |-> RequestOf(t, list)]
ColumnRequests(column) == IF column \in Columns THEN RequestsOf(column) ELSE <<>>

RecordsOf(list) == {r \in records : r.request.list = list}
Searched(list) == \E r \in RecordsOf(list) : r.searchable

\* Mutant: a loss is a warning in every cohort.
TruncationOkLax == DocsCohort => Searched("pages")

TruncationOk ==
  DocsCohort => Searched("pages") /\ \A r \in RecordsOf("pages") : ~r.truncated

UrlsOf(t, list) == {p.url : p \in ToSet(Entry(t, list))}

DisclosureOk ==
  \A c \in Columns :
    /\ \A t \in Tasks :
         UrlsOf(t, c) \cap UrlsOf(t, "anchors") # {} <=> c \in pack.tasks[t].ownSource
    /\ \E t \in Tasks : UrlsOf(t, c) # {}
    /\ Searched(c)

-----------------------------------------------------------------------------

GateInit ==
  /\ ContextInit
  /\ pack \in Packs
  /\ gate = "recon" /\ verdict = "running" /\ audits = <<>>

Pass(next) == gate' = next /\ UNCHANGED verdict
Block == verdict' = "blocked" /\ UNCHANGED gate

\* A gate that looks at the pack's files only.
FileGate(name, next, ok) ==
  /\ gate = name /\ verdict = "running"
  /\ IF ok THEN Pass(next) ELSE Block
  /\ UNCHANGED <<pack, audits, contextVars>>

CheckRecon == FileGate("recon", "validate", ReconOk)
CheckValidate == FileGate("validate", "prompts", ValidateOk)
CheckPrompts == FileGate("prompts", "roundtrip", PromptsOk)
CheckRoundTrip == FileGate("roundtrip", "anchoring", RoundTripOk)

CheckAnchoring ==
  \/ ~AnchoringRaises /\ FileGate("anchoring", "substitution", AnchoringOk)
  \/ /\ gate = "anchoring" /\ verdict = "running" /\ AnchoringRaises
     /\ verdict' = "raised"
     /\ UNCHANGED <<pack, gate, audits, contextVars>>

CheckSubstitution ==
  /\ gate = "substitution" /\ verdict = "running"
  /\ IF SubstitutionOk
     THEN Pass("truncation") /\ audits' = RequestsOf("pages")
     ELSE Block /\ UNCHANGED audits
  /\ UNCHANGED <<pack, contextVars>>

\* The audit of a gate turns to its next task.
AuditTask ==
  /\ verdict = "running" /\ audits # <<>>
  /\ Begin(Head(audits), "audit")
  /\ audits' = Tail(audits)
  /\ UNCHANGED <<pack, gate, verdict>>

Audited == verdict = "running" /\ audits = <<>> /\ phase = "idle"

CheckTruncation ==
  /\ gate = "truncation" /\ Audited
  /\ IF TruncationOk
     THEN /\ Pass("disclosure")
          /\ audits' = ColumnRequests("spec_documents") \o ColumnRequests("gated_pages")
     ELSE Block /\ UNCHANGED audits
  /\ UNCHANGED <<pack, contextVars>>

\* Both columns have been audited, the second one although the first may block.
CheckDisclosure ==
  /\ gate = "disclosure" /\ Audited
  /\ IF DisclosureOk THEN gate' = "grid" /\ verdict' = "cleared" ELSE Block
  /\ UNCHANGED <<pack, audits, contextVars>>

\* A cell of the grid: build_messages of a condition that injects.
AskModel(t, list) ==
  /\ verdict = "cleared"
  /\ list \in {"pages"} \cup Columns
  /\ Begin(RequestOf(t, list), "prompt")
  /\ UNCHANGED gateVars

AssembleContext ==
  /\ NextPage \/ Assembled \/ AuditRequest
  /\ UNCHANGED gateVars

GateNext ==
  \/ CheckRecon \/ CheckValidate \/ CheckPrompts \/ CheckRoundTrip \/ CheckAnchoring
  \/ CheckSubstitution
  \/ AuditTask \/ CheckTruncation \/ CheckDisclosure
  \/ \E t \in Tasks, list \in Lists : AskModel(t, list)
  \/ AssembleContext

GateSpec == GateInit /\ [][GateNext]_<<gateVars, contextVars>>

-----------------------------------------------------------------------------
(***************************************************************************)
(* Properties.                                                             *)
(***************************************************************************)

\* A pack that says it may not keep a copy of the specification rests on none
\* (core/factory.py:441): three gates that do not know each other
\* force every call of its key onto a page the manifest names.
NoForcedCopy ==
  (verdict = "cleared" /\ pack.cohort = "api" /\ pack.permits = "no") =>
    \A e \in Endpoints : ~Follows(e) /\ e.docOnly /\ e.doc \in ManifestUrls

\* No cell of a docs grid whose context was audited asks for a value the budget
\* took out of the window: what a page of the task says, the prompt says ("a
\* truncated-away value BLOCKS", core/factory.py:742).
AnswerInWindow ==
  LET audited == \A r \in RecordsOf("pages") : r.request.task = request.task => ~r.error
      asked == purpose = "prompt" /\ phase = "assembled" /\ request.list = "pages"
  IN (verdict = "cleared" /\ DocsCohort /\ asked /\ audited) =>
       \A term \in request.terms :
         term \cap FullText(request.pages) # {} => term \cap Shown # {}
=============================================================================
