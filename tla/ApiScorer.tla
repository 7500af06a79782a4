------------------------------- MODULE ApiScorer -------------------------------
(***************************************************************************)
(* The scorer of the API cohort (core/scorer.py): how an answer's calls    *)
(* are paired with those of the key, and what each dimension gets.         *)
(*                                                                         *)
(* A path is a sequence of raw segments.  A text that states a login flow  *)
(* is the set of styles it mentions (_auth_concepts), a parameter name the *)
(* sequence of its dotted parts, a scope its bare token; evidence is where *)
(* a citation points.  A score is a fraction, n/a when it is out of none.  *)
(***************************************************************************)
EXTENDS Naturals, SequencesExt

CONSTANTS
  Segments,     \* path segments, as models and vendors write them
  Schemed,      \* segments that are a scheme and host
  Bare,         \* segments that are a host without a scheme
  Fold,         \* lower case, and one sentinel for each {placeholder}
  Versions,     \* version spellings, those of version segments included
  VersionSegs,  \* _VERSION_SEG_RE, _DOTTED_VERSION_RE
  Canon,        \* normalize_version
  NoVersion,    \* what every spelling of "there is none" collapses to
  Missing,      \* an omitted version
  Methods,      \* in upper case
  Styles,       \* _AUTH_STYLES, the most specific first
  Unknown,      \* UNKNOWN_AUTH
  NotDeclared   \* a key the author omitted

Path == Seq(Segments)
KnownStyles == ToSet(Styles)

ASSUME ScorerAssumption ==
  /\ Schemed \subseteq Segments /\ Bare \subseteq Segments
  /\ VersionSegs \subseteq Segments \cap Versions
  /\ Missing \in Versions
  /\ Segments \subseteq DOMAIN Fold
  /\ Versions \subseteq DOMAIN Canon
  /\ Canon[Missing] = NoVersion
  /\ Styles \in Seq(KnownStyles) /\ Unknown \notin KnownStyles

-----------------------------------------------------------------------------
\* Normalisation.

AddressToPath(address) ==
  IF /\ address # <<>>
     /\ address[1] \in Schemed \/ (address[1] \in Bare /\ Len(address) > 1)
  THEN Tail(address) ELSE address

VersionSegments(path) ==
  {Canon[s] : s \in ToSet(AddressToPath(path)) \cap VersionSegs}

NormalizePath(path) ==
  LET kept == SelectSeq(AddressToPath(path), LAMBDA s : s \notin VersionSegs)
  IN [i \in DOMAIN kept |-> Fold[kept[i]]]

\* The first declared prefix that matches, and at most once.
StripBasePrefix(segments, prefixes) ==
  LET hits == {i \in DOMAIN prefixes : IsPrefix(prefixes[i], segments)}
  IN IF hits = {} THEN segments
     ELSE SubSeq(segments, Len(prefixes[Min(hits)]) + 1, Len(segments))

Comparable(path, prefixes) == StripBasePrefix(NormalizePath(path), prefixes)

-----------------------------------------------------------------------------
\* Declared tolerances, and what the gates say of them.  An entry has the form
\* of a "mapping", of a "bare" string, or an "other" one; its evidence is "none",
\* "rehosted" or "first-party", and it is noted or not.

Flag(condition, rule) == IF condition THEN {rule} ELSE {}

CitationProblems(e) ==
  Flag(e.evidence = "none", "evidence") \cup Flag(e.evidence = "rehosted", "rehosted")
  \cup Flag(~e.noted, "note")

RequiredStyle(mentioned) ==
  IF mentioned = {} THEN Unknown
  ELSE Styles[Min({i \in DOMAIN Styles : Styles[i] \in mentioned})]

\* What the scorer reads of a declaration, well-formed or not.
Declared(entries) == IF entries = NotDeclared THEN <<>> ELSE entries

DeclaredAlternates(key) ==
  {e.style : e \in {x \in ToSet(Declared(key.authAlternates)) : x.form = "mapping"}}

DeclaredVersionAlternates(key) ==
  {e.version : e \in {x \in ToSet(Declared(key.versionAlternates)) :
                        x.form = "mapping" /\ x.version # Missing}}

AlternateEntryProblems(key, i) ==
  LET entries == key.authAlternates
      e == entries[i]
      Known(x) == x.form = "mapping" /\ x.style \in KnownStyles
  IN IF ~Known(e) THEN {"style"}
     ELSE Flag(e.style = RequiredStyle(key.auth), "redundant")
          \cup Flag(\E j \in 1 .. i - 1 : Known(entries[j]) /\ entries[j].style = e.style,
                    "duplicate")
          \cup Flag(e.style \notin key.auth, "prose")
          \cup CitationProblems(e)

AlternateProblems(key) ==
  LET entries == key.authAlternates
      accepted == {RequiredStyle(key.auth)} \cup (DeclaredAlternates(key) \cap KnownStyles)
  IN IF entries = NotDeclared THEN {}
     ELSE IF entries = <<>> THEN {"empty"}
     ELSE UNION {AlternateEntryProblems(key, i) : i \in DOMAIN entries}
          \cup Flag(RequiredStyle(key.auth) # Unknown /\ KnownStyles \subseteq accepted,
                    "unfalsifiable")

KeyVersions(key) == {Canon[key.endpoints[i].version] : i \in DOMAIN key.endpoints}

\* Mutant: a spelling of "no version" passes.
VersionEntryProblemsLax(key, i) ==
  LET e == key.versionAlternates[i]
  IN IF e.form # "mapping" THEN {e.form}
     ELSE Flag(e.version = Missing, "version") \cup CitationProblems(e)

VersionEntryProblems(key, i) ==
  LET entries == key.versionAlternates
      e == entries[i]
      normal == Canon[e.version]
  IN IF e.form # "mapping" THEN {e.form}
     ELSE Flag(e.version = Missing, "version")
          \cup Flag(e.version # Missing /\ normal = NoVersion, "sentinel")
          \cup Flag(normal # NoVersion /\ normal \in KeyVersions(key), "redundant")
          \cup Flag(/\ normal # NoVersion
                    /\ \E j \in 1 .. i - 1 : /\ entries[j].form = "mapping"
                                             /\ Canon[entries[j].version] = normal, "duplicate")
          \cup CitationProblems(e)

VersionAlternateProblems(key) ==
  LET entries == key.versionAlternates
  IN IF entries = NotDeclared THEN {}
     ELSE IF entries = <<>> THEN {"empty"}
     ELSE UNION {VersionEntryProblems(key, i) : i \in DOMAIN entries}

\* A declared base prefix: its path, and whether it was written with a slash.
PrefixEntryProblems(entries, i) ==
  LET e == entries[i]
      Stated(x) == x.form # "other" /\ x.prefix # <<>>
  IN IF ~Stated(e) THEN {"prefix"}
     ELSE Flag(~e.slash, "slash")
          \cup Flag(\E j \in 1 .. i - 1 : Stated(entries[j]) /\ entries[j].prefix = e.prefix,
                    "duplicate")
          \cup IF e.form = "bare" \/ (e.evidence = "none" /\ ~e.noted)
               THEN {"bare"} ELSE CitationProblems(e)

BasePrefixProblems(entries) ==
  UNION {PrefixEntryProblems(entries, i) : i \in DOMAIN entries}

\* Pack.base_prefix_segments: a gate may refuse a prefix, a score still uses it.
BasePrefixes(entries) ==
  LET stated == SelectSeq(entries, LAMBDA e : e.form # "other")
  IN SelectSeq([i \in DOMAIN stated |-> NormalizePath(stated[i].prefix)], LAMBDA p : p # <<>>)

-----------------------------------------------------------------------------
\* Pairing the calls of the key with those of the answer.

Endpoint == [method: Methods, path: Path, version: Versions]

\* Mutant: a call of the answer may be credited again.
CandidatesReused(key, answer, prefixes, i, used) ==
  {j \in DOMAIN answer.endpoints :
     Comparable(answer.endpoints[j].path, prefixes)
       = Comparable(key.endpoints[i].path, prefixes)}

\* Mutant: the prefix is stripped from the answer's side only.
CandidatesOneSided(key, answer, prefixes, i, used) ==
  {j \in DOMAIN answer.endpoints \ used :
     Comparable(answer.endpoints[j].path, prefixes)
       = NormalizePath(key.endpoints[i].path)}

\* The calls of the answer that the i-th call of the key may be paired with.
Candidates(key, answer, prefixes, i, used) ==
  {j \in DOMAIN answer.endpoints \ used :
     Comparable(answer.endpoints[j].path, prefixes)
       = Comparable(key.endpoints[i].path, prefixes)}

NoHit == 0

\* Mutant: the last candidate instead of the first.
HitLast(key, answer, prefixes, i, used) ==
  LET candidates == Candidates(key, answer, prefixes, i, used)
  IN IF candidates = {} THEN NoHit ELSE Max(candidates)

Hit(key, answer, prefixes, i, used) ==
  LET candidates == Candidates(key, answer, prefixes, i, used)
  IN IF candidates = {} THEN NoHit ELSE Min(candidates)

\* Mutant: the method of any call of the answer counts.
MatchRecordAnyMethod(key, answer, i, hit) ==
  LET wanted == key.endpoints[i]
      found == answer.endpoints[hit]
      alternates == {Canon[v] : v \in DeclaredVersionAlternates(key)}
      same == Canon[found.version] = Canon[wanted.version]
      credited == same \/ Canon[found.version] \in alternates
  IN IF hit = NoHit
     THEN [hit |-> NoHit, methodOk |-> FALSE, versionOk |-> FALSE, viaAlternate |-> FALSE]
     ELSE [hit |-> hit,
           methodOk |-> \E c \in ToSet(answer.endpoints) : c.method = wanted.method,
           versionOk |-> credited, viaAlternate |-> credited /\ ~same]

\* The record of the i-th call of the key, paired with call hit of the answer.
MatchRecord(key, answer, i, hit) ==
  LET wanted == key.endpoints[i]
      found == answer.endpoints[hit]
      same == Canon[found.version] = Canon[wanted.version]
      alternates == {Canon[v] : v \in DeclaredVersionAlternates(key)}
      credited == same \/ Canon[found.version] \in alternates
  IN IF hit = NoHit
     THEN [hit |-> NoHit, methodOk |-> FALSE, versionOk |-> FALSE, viaAlternate |-> FALSE]
     ELSE [hit |-> hit, methodOk |-> found.method = wanted.method,
           versionOk |-> credited, viaAlternate |-> credited /\ ~same]

-----------------------------------------------------------------------------
\* Dimensions.

Score == [got: Nat, of: Nat]
NotApplicable == [got |-> 0, of |-> 0]
Whole(condition) == [got |-> IF condition THEN 1 ELSE 0, of |-> 1]
Applicable(score) == score.of # 0

AuthFlowMatches(key, mentioned) ==
  LET required == RequiredStyle(key.auth)
  IN IF required = Unknown THEN RequiredStyle(mentioned) = Unknown
     ELSE ({required} \cup DeclaredAlternates(key)) \cap mentioned # {}

\* The requirement itself, or a field inside it.
NamesParameter(required, names) == \E name \in names : IsPrefix(required, name)

\* Of the calls of the key, those a dimension credits.
Share(records, credited) == [got |-> Cardinality(credited), of |-> Len(records)]

ApiDimensions == {"endpoint", "method", "api_version", "auth_flow", "required_scopes",
                  "key_parameters"}

\* score_task, after the matching.
ApiScores(key, answer, records) ==
  [endpoint |-> Share(records, {i \in DOMAIN records : records[i].hit # NoHit}),
   method |-> Share(records, {i \in DOMAIN records : records[i].methodOk}),
   api_version |-> Share(records, {i \in DOMAIN records : records[i].versionOk}),
   auth_flow |-> IF key.uncorroborated THEN NotApplicable
                 ELSE Whole(AuthFlowMatches(key, answer.auth)),
   required_scopes |-> IF key.scopes = {} THEN NotApplicable
                       ELSE Whole(key.scopes \cap answer.scopes # {}),
   key_parameters |-> IF key.required = {} THEN NotApplicable
                      ELSE Whole(\A p \in key.required :
                                   NamesParameter(p, answer.parameters))]

-----------------------------------------------------------------------------
\* The round trip of this cohort (core/roundtrip_api.py).

\* A key's parameters are those it requires and those it merely lists.
ApiAnswerFromKey(key) ==
  [endpoints |-> key.endpoints, auth |-> key.auth, scopes |-> key.scopes,
   parameters |-> key.required \cup key.optional]

\* The fields of a block, in the order in which it is rendered.
ApiFields == <<"endpoints", "auth", "scopes", "parameters">>

ApiRoundTripProblems(key) ==
  Flag(RequiredStyle(key.auth) = Unknown, "unnameable")
  \cup AlternateProblems(key) \cup VersionAlternateProblems(key)

=============================================================================
