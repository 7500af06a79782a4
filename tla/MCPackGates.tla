------------------------------ MODULE MCPackGates ------------------------------
(***************************************************************************)
(* Instances of PackGates for TLC.                                         *)
(***************************************************************************)
EXTENDS PackGates

MCRolePriority == <<"api-reference", "topic-guide">>
MCMarker == <<"[...]">>
MCPreamble == [api |-> <<"...">>, docs |-> <<>>]
MCRequests == {}
MCHostOf == [u \in {"a", "b", "c", "d"} |-> IF u = "d" THEN "other" ELSE "vendor"]
MCDimensions == [api |-> {"endpoint", "auth"}, docs |-> {"catalog", "firmware"}]
MCCategories == [api |-> {"lifecycle"}, docs |-> {"install"}]

\* Pages: what the manifest records, and what the cache holds.
Page(url, role, heading, text) ==
  [url |-> url, role |-> role, heading |-> heading, text |-> text,
   disallowed |-> FALSE, refused |-> FALSE, cached |-> TRUE, error |-> FALSE, size |-> "bytes",
   hashed |-> TRUE, named |-> TRUE, attempted |-> TRUE, dated |-> TRUE]
Untried(page) ==
  [page EXCEPT !.cached = FALSE, !.size = "none", !.hashed = FALSE, !.named = FALSE,
               !.attempted = FALSE, !.dated = FALSE]
Failed(page) ==
  [page EXCEPT !.cached = FALSE, !.error = TRUE, !.size = "zero", !.hashed = FALSE,
               !.named = FALSE]
StaleError(page) == [page EXCEPT !.error = TRUE]
Forbidden(page) == [page EXCEPT !.disallowed = TRUE]
NotCached(page) == [page EXCEPT !.cached = FALSE]  \* a fresh clone: the cache is not committed
Refused(page) == [page EXCEPT !.refused = TRUE]

Guide == Page("a", "topic-guide", <<"u">>, <<"w", "w", "v">>)
Reference == Page("b", "api-reference", <<"u">>, <<"w", "w", "w", "w", "v">>)
Ragged == Page("c", "api-reference", <<"u">>, <<"w", " ", " ", " ", " ", "v">>)
Appendix == Page("d", "appendix", <<"u">>, <<"x">>)
SpellsValue == Page("d", "topic-guide", <<"v">>, <<"w">>)
Other == Page("d", "topic-guide", <<"u">>, <<"x", "w">>)

Pool == {Guide, Reference, Ragged, Appendix, SpellsValue, Forbidden(Reference),
         NotCached(Appendix), Failed(Guide), Untried(Guide)}
PageLists == UNION {{l \in [1 .. n -> Pool] : Cardinality(ToSet(l)) = n} : n \in 0 .. 3}

Entry4(pages, anchors, specs, gated) ==
  [pages |-> pages, anchors |-> anchors, spec_documents |-> specs, gated_pages |-> gated]

Task(id, entry, terms, category, dims) ==
  [id |-> id, entry |-> entry, terms |-> terms, na |-> dims, category |-> category,
   shape |-> TRUE, endpoints |-> <<>>, publication |-> "b", naming |-> {"Acme", "Hub"},
   selfScores |-> TRUE, ownSource |-> {}]

Pack(cohort, tasks) ==
  [cohort |-> cohort, tasks |-> tasks, refusalsNamed |-> {}, available |-> "no",
   license |-> TRUE, permits |-> "no", spec |-> NotDeclared, specLicense |-> TRUE,
   where |-> TRUE, specPrefix |-> FALSE, notApplicable |-> {}, expected |-> {},
   groups |-> <<>>, vendorNames |-> {"Acme"}, productNames |-> {"Hub"},
   unexercised |-> <<>>, prefixesCited |-> TRUE, surfacesValid |-> TRUE, surfacesOwnKey |-> TRUE, columns |-> {}]

\* Docs packs: any list of pages for the first task; a second one that is fine.
DocsTask(pages) == Task("t1", Entry4(pages, <<>>, <<>>, <<>>), {{"v"}}, "install", {})
SecondTask == [Task("t2", Entry4(<<Other>>, <<Reference>>, <<>>, <<>>), {{"x"}}, "install",
                    {"firmware"}) EXCEPT !.publication = "d"]
DocsPack(pages) == Pack("docs", <<DocsTask(pages), SecondTask>>)

\* Its files, well and badly written.
PlainDocs == DocsPack(<<Guide>>)
WithFirst(task) == [PlainDocs EXCEPT !.tasks = <<task, SecondTask>>]
FirstTask == PlainDocs.tasks[1]
AnchoredAt(anchor) == [FirstTask EXCEPT !.entry.anchors = <<anchor>>, !.publication = "c"]
Groups(first, second) == <<[tasks |-> first, reasoned |-> TRUE], [tasks |-> second, reasoned |-> TRUE]>>

DocsVariants ==
  {[PlainDocs EXCEPT !.vendorNames = v] : v \in {{}, {"Acme", BlankName}, {"Other"}}}
  \cup {[PlainDocs EXCEPT !.unexercised = d] :
          d \in {[x \in {"firmware"} |-> TRUE], [x \in {"endpoint"} |-> TRUE]}}
  \cup {[Pack("docs", <<SecondTask>>) EXCEPT !.unexercised = d] :
          d \in {<<>>, [x \in {"firmware"} |-> TRUE], [x \in {"firmware"} |-> FALSE]}}
  \cup {[PlainDocs EXCEPT !.groups = g] :
          g \in {Groups(<<"t1">>, <<"t2">>), Groups(<<"t1">>, <<"t1", "t2">>), Groups(<<"t1">>, <<>>)}}
  \cup {[PlainDocs EXCEPT !.expected = x, !.notApplicable = n] :
          x \in {{"t1", "t2"}, {"t1"}}, n \in {{}, {"install"}, {"lifecycle"}}}
  \cup {[WithFirst(AnchoredAt(Refused(Ragged))) EXCEPT !.refusalsNamed = h] :
          h \in {{}, {"vendor"}, {"vendor", "other"}}}
  \cup {WithFirst(AnchoredAt(p)) :
          p \in {Ragged, Failed(Ragged), Untried(Ragged), StaleError(Ragged),
                 [Ragged EXCEPT !.text = Other.text], [Ragged EXCEPT !.named = FALSE],
                 [Failed(Ragged) EXCEPT !.dated = FALSE]}}
  \cup {WithFirst([FirstTask EXCEPT !.entry = NoEntry]),
        WithFirst([FirstTask EXCEPT !.naming = {"Acme"}]),
        WithFirst([FirstTask EXCEPT !.selfScores = FALSE]),
        [PlainDocs EXCEPT !.surfacesValid = FALSE], [PlainDocs EXCEPT !.surfacesOwnKey = FALSE]}

\* Columns that inject the very document an answer is checked against.
ColumnPacks ==
  {[WithFirst([FirstTask EXCEPT !.entry.spec_documents = s, !.entry.gated_pages = g,
                                !.entry.anchors = <<Ragged>>, !.ownSource = own])
      EXCEPT !.columns = c] :
     s \in {<<>>, <<Ragged>>, <<NotCached(Ragged)>>}, g \in {<<>>, <<Guide, Ragged>>},
     own \in SUBSET {"spec_documents", "gated_pages"},
     c \in SUBSET {"spec_documents", "gated_pages"}}

\* API packs: how the key is anchored, and what the pack may keep.
Operation == [op |-> "op", method |-> "GET", path |-> <<"x">>, prefix |-> <<"vendor", "api">>]
Ref(file, op) == [file |-> file, op |-> op]
Anchorings ==
  {[method |-> m, path |-> p, ref |-> r, docOnly |-> d # NotDeclared, doc |-> d] :
     m \in {"GET", "POST"}, p \in {<<"x">>, <<"api", "x">>, <<"vendor", "x">>},
     r \in {NotDeclared, Ref("prefixed", "op"), Ref("other", "op"), Ref("none", NotDeclared),
            Ref("other", NotDeclared), Ref("prefixed", "gone")},
     d \in {NotDeclared, "a", "elsewhere"}}

ApiTask(calls) ==
  [Task("t1", Entry4(<<Guide>>, <<>>, <<>>, <<>>), {{"v", "/v"}}, "lifecycle", {"auth"})
     EXCEPT !.endpoints = calls]
ApiPack(calls, spec, permits, available) ==
  [Pack("api", <<ApiTask(calls)>>)
     EXCEPT !.spec = spec, !.permits = permits, !.available = available]
DocAnchored == [method |-> "GET", path |-> <<"x">>, ref |-> NotDeclared, docOnly |-> TRUE,
                doc |-> "a"]

\* The budget takes the value of the key; in this cohort that is a warning.
CroppedApi ==
  LET task == [ApiTask(<<DocAnchored>>) EXCEPT !.entry.pages = <<Guide, Ragged>>]
  IN [ApiPack(<<DocAnchored>>, NotDeclared, "no", "no") EXCEPT !.tasks = <<task>>]

ApiPacks ==
  {CroppedApi}
  \cup {ApiPack(<<e>>, s, permits, "yes") :
     e \in Anchorings, s \in {NotDeclared, {Operation}}, permits \in {"yes", "no"}}
  \cup {[ApiPack(<<DocAnchored>>, s, permits, available)
           EXCEPT !.where = w, !.specLicense = l, !.specPrefix = x, !.license = li] :
          s \in {NotDeclared, Unreadable, {Operation}}, permits \in {"yes", "no", "unreadable"},
          available \in {"yes", "partial", "no", "unreadable"}, w \in BOOLEAN, l \in BOOLEAN,
          x \in BOOLEAN, li \in BOOLEAN}

MCPacks ==
  {DocsPack(l) : l \in PageLists} \cup DocsVariants \cup ColumnPacks \cup ApiPacks
=============================================================================
