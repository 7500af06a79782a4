------------------------------ MODULE MCScoring ------------------------------
(***************************************************************************)
(* Instances of Scoring for TLC.                                           *)
(***************************************************************************)
EXTENDS Scoring

MCStyles == <<"oauth", "basic">>

MCFold == [s \in Segments |-> IF s = "{id}" THEN "{}" ELSE s]
MCVersions == {"v1", "1", "v2", "none", "omitted"}
MCCanon == [v \in MCVersions |->
              CASE v \in {"v1", "1"} -> "1" [] v = "v2" -> "2" [] OTHER -> "no version"]

\* Three spellings of one resource, and another resource.
MCPaths == {<<"v1", "x">>, <<"v2", "x">>, <<"host", "api", "x">>, <<"y">>, <<"v1", "v2", "x">>}

Call(method, path, version) == [method |-> method, path |-> path, version |-> version]

Says(endpoints, auth, scopes, parameters) ==
  [endpoints |-> endpoints, auth |-> auth, scopes |-> scopes, parameters |-> parameters]

\* Answers that differ in their calls, and answers that differ in the rest.
MCAnswers ==
  {Says(calls, {"oauth"}, {"read"}, {<<"amount", "total">>}) :
     calls \in UNION {[1 .. n -> {Call(m, p, v) : m \in {"GET"}, p \in MCPaths, v \in {"v2", "none"}}
                                   \cup {Call("POST", <<"v1", "x">>, "1")}] : n \in 0 .. 2}}
  \cup {Says(<<Call("GET", <<"x">>, v)>>, auth, scopes, parameters) :
          v \in {"1", "omitted"}, auth \in SUBSET {"oauth", "basic"}, scopes \in {{}, {"read"}},
          parameters \in {{}, {<<"amount">>}, {<<"amount", "total">>}}}
  \cup {Says(<<Call("GET", <<"v1", "x">>, "1"), Call("GET", <<"y">>, "v2"),
               Call("POST", <<"api", "x">>, "v2")>>, {}, {}, {})}

Block(yaml, shape, says) == [yaml |-> yaml, shape |-> shape, says |-> says]
Silent == Says(<<>>, {}, {}, {})

Parsed(cohort, says) == [cohort |-> cohort, blocks |-> <<Block("valid", "answer", says)>>]
Unparsed(cohort, says) ==
  [cohort: {cohort},
   blocks: {<<>>} \cup {<<Block("valid", "answer", says), Block(y, s, says)>> :
                          y \in {"valid", "flow list", "broken"}, s \in {"answer", "no-keys"}}]

MCTexts == {NotDeclared, <<>>, <<<<3, 1>>>>, <<<<3, 2>>>>, <<<<4>>, <<3, 1, 1>>>>, <<<<3>>, <<3, 1>>>>}
DocsSays(catalog, firmware, software) ==
  [catalog |-> catalog, firmware |-> firmware, software |-> software]
MCDocs == {DocsSays(c, f, s) : c \in {{}, {"A"}, {"A", "A-K"}}, f \in MCTexts,
                               s \in {NotDeclared, <<<<3, 1>>>>}}

\* Tolerances an author may declare, some of which a gate refuses.
Cited(form, evidence) == [form |-> form, evidence |-> evidence, noted |-> evidence # "none"]
Alternate(style, evidence) == [style |-> style] @@ Cited("mapping", evidence)
Version(version, form, evidence) == [version |-> version] @@ Cited(form, evidence)
Prefix(prefix, form, evidence) == [prefix |-> prefix, slash |-> TRUE] @@ Cited(form, evidence)

MCAuthAlternates ==
  {NotDeclared, <<Alternate("basic", "first-party")>>, <<Alternate("basic", "rehosted")>>}
MCVersionAlternates ==
  {NotDeclared, <<>>, <<Version("v2", "mapping", "first-party")>>,
   <<Version("none", "mapping", "first-party")>>, <<Version("v2", "bare", "none")>>,
   <<Version("omitted", "mapping", "none"), Version("1", "mapping", "first-party")>>}
MCPrefixes ==
  {<<>>, <<Prefix(<<"api">>, "mapping", "first-party")>>,
   <<Prefix(<<"v1">>, "bare", "none"), Prefix(<<"api">>, "bare", "none")>>}

MCRefusedPrefixes ==
  {<<Prefix(<<"api">>, "mapping", "first-party"), Prefix(<<"api">>, "mapping", "first-party")>>,
   <<[Prefix(<<"api">>, "mapping", "rehosted") EXCEPT !.slash = FALSE]>>,
   <<Prefix(<<>>, "other", "none"), Prefix(<<"x">>, "mapping", "none")>>}

Key(calls, auth, scopes, required, auths, versions) ==
  [endpoints |-> calls, auth |-> auth, scopes |-> scopes, required |-> required,
   optional |-> {<<"note">>}, authAlternates |-> auths, versionAlternates |-> versions,
   uncorroborated |-> FALSE, fence |-> NotDeclared]

MCCallLists ==
  {<<Call("GET", <<"v1", "x">>, "v1")>>,
   <<Call("GET", <<"api", "x">>, "v1"), Call("POST", <<"x">>, "v1")>>,
   <<Call("GET", <<"y">>, "omitted"), Call("GET", <<"v2", "x">>, "v2")>>}

MCKeys ==
  {Key(calls, {"oauth", "basic"}, {"read"}, {<<"amount">>}, NotDeclared, versions) :
     calls \in MCCallLists, versions \in MCVersionAlternates}
  \cup {[Key(<<Call("GET", <<"v1", "x">>, "v1")>>, auth, {"read"}, {<<"amount", "total">>},
             auths, NotDeclared) EXCEPT !.uncorroborated = open] :
          auth \in SUBSET {"oauth", "basic"}, auths \in MCAuthAlternates, open \in BOOLEAN}

\* Texts with a fence at the start of a line.
Fence(field, quoted, kept) == [field |-> field, quoted |-> quoted, kept |-> kept]
MCFences ==
  {Fence("endpoints", FALSE, <<Call("GET", <<"api">>, "omitted")>>), Fence("endpoints", TRUE, <<>>),
   Fence("auth", FALSE, {"oauth"}), Fence("auth", FALSE, {}), Fence("auth", TRUE, {}),
   Fence("parameters", FALSE, {<<"amount">>})}
MCDocsFences ==
  {Fence("catalog", FALSE, {"A"}), Fence("catalog", TRUE, {}),
   Fence("software", FALSE, <<<<3, 1>>>>), Fence("software", FALSE, NotDeclared)}

DocsKey(says, fence, observations) ==
  says @@ [fence |-> fence, observations |-> observations]
MCDocsKeys ==
  {DocsKey(d, NotDeclared, <<>>) : d \in MCDocs}
  \cup {DocsKey(DocsSays({"A", "A-K"}, <<<<3, 1>>>>, <<<<3, 1>>>>), fence, o) :
          fence \in MCDocsFences \cup {NotDeclared},
          o \in {<<>>, [firmware |-> <<<<3, 2>>>>], [firmware |-> <<<<3, 1, 1>>>>]}}

MCResponses ==
  {Parsed("api", a) : a \in MCAnswers} \cup {Parsed("docs", d) : d \in MCDocs}
  \cup {Parsed("api", ApiAnswerFromKey(k)) : k \in MCKeys}
  \cup Unparsed("api", Says(<<Call("GET", <<"x">>, "1")>>, {}, {}, {}))
  \cup Unparsed("docs", DocsSays({"A"}, NotDeclared, NotDeclared))

Surface(id, paths, markers) ==
  [id |-> id, measured |-> id = "current", reasoned |-> TRUE, paths |-> paths,
   markers |-> markers]

\* Surfaces that share x and are told apart by a version, or are not; a third
\* one shares nothing with them, or a version.
MCCurrent == Surface("current", {<<"x">>, <<"y">>}, {"2"})
MCSuperseded == Surface("superseded", {<<"x">>, <<"api", "x">>}, {"1"})
MCSurfaces ==
  {<<MCCurrent, MCSuperseded>>, <<MCCurrent>>, <<>>,
   <<MCSuperseded, MCCurrent, Surface("beta", {<<"z">>}, {"1"})>>,
   <<MCCurrent, Surface("beta", {<<"api", "x">>}, {}), Surface("superseded", {<<"x">>}, {"1"})>>,
   <<MCCurrent, [MCSuperseded EXCEPT !.markers = {}]>>,
   <<MCCurrent, [MCSuperseded EXCEPT !.markers = {"1", "2"}]>>,
   <<MCCurrent, [MCSuperseded EXCEPT !.reasoned = FALSE]>>}

ApiTask(k, p, s) == [cohort |-> "api", key |-> k, prefixes |-> p, surfaces |-> s]
MCTasks ==
  {ApiTask(k, p, <<MCCurrent, MCSuperseded>>) : k \in MCKeys, p \in MCPrefixes}
  \cup {ApiTask(Key(calls, {"oauth"}, {"read"}, {}, NotDeclared, NotDeclared), <<>>, s) :
          calls \in MCCallLists, s \in MCSurfaces}
  \cup {ApiTask(Key(calls, {"oauth"}, {"read"}, {}, NotDeclared, NotDeclared), p, <<>>) :
          calls \in MCCallLists \cup {<<>>}, p \in MCRefusedPrefixes}
  \cup {ApiTask([Key(calls, {"oauth", "basic"}, {"read"}, {<<"amount", "total">>}, NotDeclared,
                     NotDeclared) EXCEPT !.fence = fence], <<>>, <<>>) :
          calls \in MCCallLists, fence \in MCFences}
  \cup {[cohort |-> "docs", key |-> k, prefixes |-> <<>>, surfaces |-> <<>>] : k \in MCDocsKeys}
=============================================================================
