----------------------------- MODULE PromptContext -----------------------------
(***************************************************************************)
(* The documentation put in front of a model (core/conditions.py): the     *)
(* pages of one manifest list, the most important role first, under a      *)
(* budget; and the audit that asks, for each value an answer is scored on, *)
(* whether the budget cropped it away.                                     *)
(*                                                                         *)
(* A text is a sequence of units, each of length one: a unit is one        *)
(* spelling of a value, a blank, or anything else.  A page carries its     *)
(* heading, whose units spell its URL, what the cache holds of it, and     *)
(* what the manifest records.                                              *)
(***************************************************************************)
EXTENDS Integers, SequencesExt

CONSTANTS
  Units,
  Blank,
  RolePriority,  \* ROLE_PRIORITY
  Marker,        \* "[... truncated to fit context budget ...]"
  Budget,        \* budget_tokens * _CHARS_PER_TOKEN
  Requests,      \* [pages, terms, preamble]: the pages of a task in one list, or
                 \* NoEntry; of each value it is scored on the set of its
                 \* spellings; and context_preamble of its contract
  NoEntry        \* the manifest says nothing of the task

Text == Seq(Units)

ASSUME ContextAssumption ==
  /\ Blank \in Units
  /\ Marker \in Text /\ \A r \in Requests : r.preamble \in Text
  /\ Budget \in Nat
  /\ RolePriority \in Seq(STRING)

VARIABLES
  request,  \* what is being assembled
  purpose,  \* "audit" or "prompt"
  phase,    \* "idle", "assembling", "assembled", "raised"
  waiting,  \* pages build_context has not come to yet
  used,     \* characters it counts as used
  blocks,   \* [page, body]: what it injects
  records   \* audit_docs_truncation, as a set

contextVars == <<request, purpose, phase, waiting, used, blocks, records>>

-----------------------------------------------------------------------------

\* Lines up the pages by role; pages of one role stay in the manifest's order.
Rank(role) ==
  IF role \in ToSet(RolePriority)
  THEN CHOOSE i \in DOMAIN RolePriority : RolePriority[i] = role
  ELSE Len(RolePriority) + 1

\* How many pages sorted() puts up to the i-th one: it is stable.
Place(pages, i) ==
  LET rank(j) == Rank(pages[j].role)
  IN Cardinality({j \in DOMAIN pages : rank(j) < rank(i) \/ (rank(j) = rank(i) /\ j <= i)})

\* Mutant: the manifest's order.
PagesForUnsorted(pages) == pages

PagesFor(pages) ==
  [k \in DOMAIN pages |-> pages[CHOOSE i \in DOMAIN pages : Place(pages, i) = k]]

\* _load_text: the manifest decides whether a page has text, before the cache.
Withheld(page) == page.disallowed \/ page.error \/ page.size = "zero"
NotFetched(page) == ~Withheld(page) /\ ~page.cached
LoadText(page) == IF Withheld(page) THEN <<>> ELSE page.text

\* str.strip, str.rstrip
Solid(text) == {i \in DOMAIN text : text[i] # Blank}
RStrip(text) == IF Solid(text) = {} THEN <<>> ELSE SubSeq(text, 1, Max(Solid(text)))
Strip(text) ==
  IF Solid(text) = {} THEN <<>> ELSE SubSeq(text, Min(Solid(text)), Max(Solid(text)))

\* What is left for the text of a page once its heading is counted.
\* Mutant: the heading is not counted.
RemainingBody(page) == Budget - used
Remaining(page) == Budget - used - Len(page.heading)

Body(page) ==
  LET text == Strip(LoadText(page))
  IN IF Len(text) > Remaining(page)
     THEN RStrip(SubSeq(text, 1, Remaining(page))) \o Marker ELSE text

\* The context, as a set of the units in it: substring tests see no more.
Shown ==
  ToSet(request.preamble)
  \cup UNION {ToSet(blocks[i].page.heading) \cup ToSet(blocks[i].body) : i \in DOMAIN blocks}

\* And its length, injected_len of a record: line breaks join the blocks.
ContextLength ==
  LET Length(b) == Len(b.page.heading) + Len(b.body)
  IN Len(request.preamble) + Max({0, Len(blocks) - 1})
       + FoldSeq(LAMBDA b, n : n + Length(b), 0, blocks)

\* full_text, of which the audit knows what it says and how long it is.  The
\* pages are joined by line breaks.
FullText(pages) == UNION {ToSet(LoadText(pages[i])) : i \in DOMAIN pages}
FullLength(pages) ==
  FoldSeq(LAMBDA p, n : n + Len(LoadText(p)), Max({0, Len(pages) - 1}), pages)

\* One record per value that can be looked for at all.
Record(term) ==
  LET documented == term \cap FullText(request.pages) # {}
      injected == term \cap Shown # {}
  IN [request |-> request, term |-> term, error |-> FALSE, documented |-> documented,
      injected |-> injected, truncated |-> documented /\ ~injected,
      searchable |-> FullLength(request.pages) >= 1]

ErrorRecord ==
  [request |-> request, term |-> {}, error |-> TRUE, documented |-> FALSE,
   injected |-> FALSE, truncated |-> FALSE, searchable |-> FALSE]

-----------------------------------------------------------------------------

ContextInit ==
  /\ request = NoEntry /\ purpose = "prompt" /\ phase = "idle"
  /\ waiting = <<>> /\ used = 0 /\ blocks = <<>> /\ records = {}

\* build_context is called for a request; the audit has read every page first.
Begin(r, why) ==
  LET raises == \/ r.pages = NoEntry
                \/ why = "audit" /\ \E i \in DOMAIN r.pages : NotFetched(r.pages[i])
  IN /\ phase = "idle" \/ (purpose = "prompt" /\ phase # "assembling")
     /\ request' = r /\ purpose' = why
     /\ phase' = IF raises THEN "raised" ELSE "assembling"
     /\ waiting' = IF raises THEN <<>> ELSE PagesFor(r.pages)
     /\ used' = 0 /\ blocks' = <<>>
     /\ UNCHANGED records

\* One turn of its loop.
NextPage ==
  LET page == Head(waiting)
      body == Body(page)
  IN /\ phase = "assembling" /\ waiting # <<>>
     /\ UNCHANGED <<request, purpose, records>>
     /\ \/ /\ NotFetched(page)
           /\ phase' = "raised" /\ UNCHANGED <<waiting, used, blocks>>
        \/ /\ ~NotFetched(page) /\ Strip(LoadText(page)) = <<>>
           /\ waiting' = Tail(waiting) /\ UNCHANGED <<phase, used, blocks>>
        \/ /\ ~NotFetched(page) /\ Strip(LoadText(page)) # <<>>
           /\ Remaining(page) <= 0
           /\ waiting' = <<>> /\ UNCHANGED <<phase, used, blocks>>
        \/ /\ ~NotFetched(page) /\ Strip(LoadText(page)) # <<>>
           /\ Remaining(page) > 0
           /\ blocks' = Append(blocks, [page |-> page, body |-> body])
           /\ used' = used + Len(page.heading) + Len(body)
           /\ waiting' = Tail(waiting) /\ UNCHANGED phase

Assembled ==
  /\ phase = "assembling" /\ waiting = <<>>
  /\ phase' = "assembled"
  /\ UNCHANGED <<request, purpose, waiting, used, blocks, records>>

\* The audit compares, once the context stands or could not be built.
AuditRequest ==
  /\ purpose = "audit" /\ phase \in {"assembled", "raised"}
  /\ phase' = "idle"
  /\ records' = records \cup
       (IF phase = "raised" THEN {ErrorRecord}
        ELSE {Record(t) : t \in {s \in request.terms : s # {}}})
  /\ UNCHANGED <<request, purpose, waiting, used, blocks>>

ContextNext ==
  \/ \E r \in Requests, why \in {"audit", "prompt"} : Begin(r, why)
  \/ NextPage
  \/ Assembled
  \/ AuditRequest

ContextSpec == ContextInit /\ [][ContextNext]_contextVars

-----------------------------------------------------------------------------
(***************************************************************************)
(* Properties.                                                             *)
(***************************************************************************)

Injected(page) == \E i \in DOMAIN blocks : blocks[i].page = page

\* The budget drops the pages of the least important roles first
\* (core/conditions.py:215): no page with text is left out for one of a lower
\* role, whatever the manifest's order and however long the headings are.
LowestRoleDropped ==
  phase = "assembled" =>
    \A i, j \in DOMAIN request.pages :
      LET high == request.pages[i]
          low == request.pages[j]
          matters == Rank(high.role) < Rank(low.role) /\ Strip(LoadText(high)) # <<>>
      IN matters /\ Injected(low) => Injected(high)

\* A body that ends in the notice.
Cropped(block) ==
  \E n \in 0 .. Len(block.body) : block.body = SubSeq(block.body, 1, n) \o Marker

\* The loop counts headings and bodies, and counts them after the cut.  What it
\* does not count, or too late, is all that a context exceeds its budget by: the
\* preamble, a line break between pages, and the notice, once something was
\* cropped (core/conditions.py:183, 187, 193).
BudgetHeld ==
  phase \in {"assembling", "assembled"} =>
    LET notice == IF \E i \in DOMAIN blocks : Cropped(blocks[i]) THEN Len(Marker) ELSE 0
    IN ContextLength <=
         Len(request.preamble) + Max({0, Len(request.pages) - 1}) + Budget + notice

\* What a page takes of the budget when nothing of it is cut, and whether it and
\* all pages sorted before it can be injected whole.
Cost(page) ==
  IF Strip(LoadText(page)) = <<>> THEN 0
  ELSE Len(page.heading) + Len(Strip(LoadText(page)))
Together(costs) == FoldFunction(LAMBDA c, n : n + c, 0, costs)
FitsWhole(pages, i) ==
  Together([j \in {k \in DOMAIN pages : Place(pages, k) <= Place(pages, i)} |-> Cost(pages[j])])
    <= Budget

\* The records of the request just audited, whose context still stands.
Fresh ==
  {r \in records : purpose = "audit" /\ phase = "idle" /\ r.request = request /\ ~r.error}

\* The audit blames the budget for no value that the budget had room for: a
\* value reported as truncated stands in no page that fits whole after the
\* pages of more important roles (a false report "would send a cycle hunting a
\* budget bug that does not exist", core/conditions.py:419).
AuditBlamesBudget ==
  \A r \in Fresh : r.truncated =>
    \A i \in DOMAIN request.pages :
      r.term \cap ToSet(Strip(LoadText(request.pages[i]))) # {} =>
        ~FitsWhole(request.pages, i)
=============================================================================
