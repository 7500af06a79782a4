-------------------------------- MODULE Scoring --------------------------------
(***************************************************************************)
(* One task, scored: a model's response under the contract of the pack's   *)
(* cohort (core/contract.py), or the task's own key, directly and through  *)
(* a rendered block, by the round-trip control (core/roundtrip.py); and    *)
(* the surface a scored run is labelled with (core/surfaces.py).           *)
(*                                                                         *)
(* A response is the sequence of its answer-summary blocks.  Of a block    *)
(* the model keeps whether its YAML is valid, invalid only by a list the   *)
(* repair can rewrite, or broken; whether it is a mapping with the keys of *)
(* its contract; and what it says.                                         *)
(***************************************************************************)
EXTENDS DocsScorer

CONSTANTS
  Tasks,      \* [cohort, key, prefixes, surfaces], the last two as the pack declares them
  Responses,  \* [cohort, blocks]
  Failure     \* FormatFailure

Calls == Seq(Endpoint)
VersionText == {NotDeclared} \cup Seq(Seq(Nat))

\* A field of an answer holds what a field of its name does.
IsField(field, says) ==
  /\ field = "endpoints" => says \in Calls
  /\ field \in {"firmware", "software"} => says \in VersionText

\* What a key states is well-formed (the task schema), what an answer states is
\* of its type, and an omitted field is none of these.
ASSUME TasksAssumption ==
  \A t \in Tasks :
    /\ t.cohort \in {"api", "docs"}
    /\ t.surfaces \in Seq(ToSet(t.surfaces))
    /\ t.cohort = "api" => /\ t.key.endpoints \in Calls
                          /\ t.key.auth \subseteq KnownStyles
                          /\ t.key.required \subseteq Seq(STRING)
    /\ t.cohort = "docs" =>
         /\ {t.key.firmware, t.key.software} \subseteq VersionText
         /\ DOMAIN t.key.observations \subseteq ToSet(DocsFields)
         /\ \A f \in DOMAIN t.key.observations : IsField(f, t.key.observations[f])
    /\ t.key.fence # NotDeclared => IsField(t.key.fence.field, t.key.fence.kept)

ASSUME ResponsesAssumption ==
  \A r \in Responses :
    /\ r.blocks \in Seq(ToSet(r.blocks))
    /\ \A b \in ToSet(r.blocks) :
         IF r.cohort = "api" THEN b.says.endpoints \in Calls
         ELSE {b.says.firmware, b.says.software} \subseteq VersionText

ASSUME OmissionAssumption == NotDeclared \notin Seq(Seq(Nat))

\* A failure is no answer.
ASSUME FailureAssumption ==
  \A t \in Tasks :
    Failure # IF t.cohort = "api" THEN ApiAnswerFromKey(t.key) ELSE DocsAnswerFromKey(t.key)

VARIABLES
  task,
  pc,        \* "idle", "matching", "rendered", "scored", "failed", "labelled", "controlled"
  asker,     \* "run", or the path of the control: "direct", "parsed"
  answer,    \* the parsed answer
  repaired,  \* ParseResult.repaired
  used,      \* of _match_endpoints
  records,   \* its match records
  score,     \* TaskScore.dimensions
  problems,  \* TaskControl.problems
  label      \* of classify_run

scoringVars == <<task, pc, asker, answer, repaired, used, records, score, problems, label>>

key == task.key
prefixes == BasePrefixes(task.prefixes)
Nothing == NotDeclared  \* not scored, parsed or labelled yet

-----------------------------------------------------------------------------
\* Contracts.

Dimensions == IF task.cohort = "api" THEN ApiDimensions ELSE DocsDimensions

\* The last block counts.  Only the API contract repairs.
Parse(cohort, blocks) ==
  LET block == Last(blocks)
      readable == block.yaml = "valid" \/ (block.yaml = "flow list" /\ cohort = "api")
  IN IF blocks = <<>> THEN Failure
     ELSE IF ~readable \/ block.shape # "answer" THEN Failure
     ELSE IF cohort = "api" /\ block.says.endpoints = <<>> THEN Failure
     ELSE block.says

AnswerFromKey == IF task.cohort = "api" THEN ApiAnswerFromKey(key) ELSE DocsAnswerFromKey(key)

\* What parsing reads of a field that a block does not hold.
Unsaid == [endpoints |-> <<>>, auth |-> {}, scopes |-> {}, parameters |-> {},
           catalog |-> {}, firmware |-> NotDeclared, software |-> NotDeclared]

\* The fence expression ends a block at the first line that starts with a fence.
UpTo(fence, fields, says) ==
  LET Place(f) == Min({i \in DOMAIN fields : fields[i] = f})
  IN [f \in DOMAIN says |-> IF f = fence.field THEN fence.kept
                            ELSE IF Place(f) < Place(fence.field) THEN says[f] ELSE Unsaid[f]]

\* Mutant: dumped in flow style, which only one of the contracts repairs.
RenderBlockFlow(says) == <<[yaml |-> "flow list", shape |-> "answer", says |-> says]>>

\* The block of an answer, as it is found in its own text: a quoted text is not
\* closed where a fence ends the block, a folded one is and is shorter.
RenderBlock(says) ==
  LET dumped == IF task.cohort = "api" THEN says ELSE DocsDumped(key, says)
      fields == IF task.cohort = "api" THEN ApiFields ELSE DocsFields
      fence == key.fence
  IN IF fence = NotDeclared
     THEN <<[yaml |-> "valid", shape |-> "answer", says |-> dumped]>>
     ELSE <<[yaml |-> IF fence.quoted THEN "broken" ELSE "valid", shape |-> "answer",
             says |-> UpTo(fence, fields, dumped)]>>

RoundTripProblems ==
  IF task.cohort = "api" THEN ApiRoundTripProblems(key) ELSE DocsRoundTripProblems(key)

\* What the control makes of one score, and what it adds at its end.
Collect(dims) == {d \in DOMAIN dims : Applicable(dims[d]) /\ dims[d].got # dims[d].of}
Closing(dims) ==
  RoundTripProblems \cup Flag(\A d \in DOMAIN dims : ~Applicable(dims[d]), "vacuous")

-----------------------------------------------------------------------------
\* Surfaces: a sequence of [id, measured, reasoned, paths, markers], the paths
\* and markers normalised.  Zero stands for no surface.

Stated(versions) == versions \ {NoVersion}
Marked(surface, versions) == surface.markers \cap versions # {}

\* Mutant: the first that is marked, although another one is as well.
SoleFirst(surfaces, candidates, versions) ==
  Min({0} \cup {i \in candidates : Marked(surfaces[i], Stated(versions))})

Sole(surfaces, candidates, versions) ==
  LET hits == {i \in candidates : Marked(surfaces[i], Stated(versions))}
  IN IF Cardinality(hits) = 1 THEN Min(hits) ELSE 0

Publishers(surfaces, endpoint) ==
  {i \in DOMAIN surfaces : NormalizePath(endpoint.path) \in surfaces[i].paths}

\* Published once: its version may still be that of another surface.
ClassifyByResource(surfaces, only, versions) ==
  LET others == {i \in DOMAIN surfaces : surfaces[i].id # surfaces[only].id}
  IN IF /\ surfaces[only].markers # {}
        /\ Sole(surfaces, others, versions) # 0
        /\ ~Marked(surfaces[only], versions)
     THEN "conflicted" ELSE surfaces[only].id

\* Published by several: the versions decide, if they agree.
ClassifyByVersion(surfaces, candidates, inPath, inField) ==
  LET byPath == Sole(surfaces, candidates, inPath)
      byField == Sole(surfaces, candidates, inField)
  IN IF byPath # 0 /\ byField # 0 /\ surfaces[byPath].id # surfaces[byField].id
     THEN "conflicted"
     ELSE IF byPath # 0 THEN surfaces[byPath].id
     ELSE IF byField # 0 THEN surfaces[byField].id
     ELSE "ambiguous"

ClassifyEndpoint(surfaces, endpoint) ==
  LET candidates == Publishers(surfaces, endpoint)
      inPath == VersionSegments(endpoint.path)
      inField == {Canon[endpoint.version]}
  IN IF candidates = {} THEN "unrecognized"
     ELSE IF Cardinality(candidates) = 1
     THEN ClassifyByResource(surfaces, Min(candidates), inPath \cup inField)
     ELSE ClassifyByVersion(surfaces, candidates, inPath, inField)

\* The calls of the answer that are written like one that matched.
WrittenLikeMatch ==
  LET Written(j) == NormalizePath(answer.endpoints[j].path)
      matched == {Written(records[i].hit) : i \in {k \in DOMAIN records : records[k].hit # NoHit}}
  IN {j \in DOMAIN answer.endpoints : Written(j) \in matched}

\* The first of them labels the run.
LabelledCall == answer.endpoints[Min(WrittenLikeMatch)]

LabelOf ==
  IF WrittenLikeMatch = {} THEN "no-match" ELSE ClassifyEndpoint(task.surfaces, LabelledCall)

Measured == {i \in DOMAIN task.surfaces : task.surfaces[i].measured}

\* The gates over a declaration, and over the key classified by it.
SurfacesOk ==
  LET surfaces == task.surfaces
      Shared(i, j) == i # j /\ surfaces[i].paths \cap surfaces[j].paths # {}
  IN /\ Len(surfaces) >= 2
     /\ Cardinality(Measured) = 1
     /\ \A i \in DOMAIN surfaces : surfaces[i].paths # {} /\ surfaces[i].reasoned
     /\ \A i, j \in DOMAIN surfaces :
          /\ surfaces[i].id = surfaces[j].id => i = j
          /\ Shared(i, j) => /\ surfaces[i].markers # {}
                             /\ surfaces[i].markers \cap surfaces[j].markers = {}

KeyIsMeasured ==
  \A i \in DOMAIN key.endpoints :
    ClassifyEndpoint(task.surfaces, key.endpoints[i]) = task.surfaces[Min(Measured)].id

\* check_pack, beside the tasks: the prefixes are cited, the key is measured.
PackProblems ==
  BasePrefixProblems(task.prefixes)
  \cup IF task.surfaces = <<>> THEN {}
       ELSE IF Measured = {} THEN {"unmeasured"}
       ELSE Flag(~KeyIsMeasured, "surface")

-----------------------------------------------------------------------------

Init ==
  /\ task \in Tasks
  /\ pc = "idle" /\ asker = "run" /\ answer = Nothing /\ repaired = FALSE
  /\ used = {} /\ records = <<>>
  /\ score = Nothing /\ problems = {} /\ label = Nothing

\* Score what was parsed, or stop: a format failure is no score.
Take(parsed) ==
  /\ pc' = IF parsed = Failure THEN "failed" ELSE "matching"
  /\ answer' = IF parsed = Failure THEN Nothing ELSE parsed
  /\ used' = {} /\ records' = <<>> /\ score' = Nothing

\* score_response: a model answered.
ScoreResponse(response) ==
  /\ pc = "idle"
  /\ response.cohort = task.cohort
  /\ Take(Parse(task.cohort, response.blocks))
  /\ repaired' = (/\ Parse(task.cohort, response.blocks) # Failure
                  /\ Last(response.blocks).yaml = "flow list")
  /\ UNCHANGED <<task, asker, problems, label>>

\* check_task, its first path: the key as an answer object.
ScoreKey ==
  /\ pc = "idle"
  /\ asker' = "direct"
  /\ Take(AnswerFromKey)
  /\ UNCHANGED <<task, repaired, problems, label>>

\* Its second path: the same answer, rendered and parsed.
ScoreRenderedKey ==
  /\ pc = "rendered"
  /\ asker' = "parsed"
  /\ LET parsed == Parse(task.cohort, RenderBlock(AnswerFromKey))
     IN /\ Take(parsed)
        /\ problems' = problems
             \cup IF parsed = Failure THEN {"unparseable"} \cup Closing(score) ELSE {}
  /\ UNCHANGED <<task, repaired, label>>

\* _match_endpoints, one call of the key.
MatchEndpoint ==
  LET i == Len(records) + 1
      hit == Hit(key, answer, prefixes, i, used)
  IN /\ pc = "matching" /\ task.cohort = "api"
     /\ i \in DOMAIN key.endpoints
     /\ records' = Append(records, MatchRecord(key, answer, i, hit))
     /\ used' = used \cup ({hit} \ {NoHit})
     /\ UNCHANGED <<task, pc, asker, answer, repaired, score, problems, label>>

Scored ==
  IF task.cohort = "api" THEN ApiScores(key, answer, records) ELSE DocsScores(key, answer)

\* score_task ends; the control collects, and adds its own checks at its end.
ScoreTask ==
  /\ pc = "matching"
  /\ task.cohort = "api" => Len(records) = Len(key.endpoints)
  /\ score' = Scored
  /\ pc' = IF asker = "direct" THEN "rendered" ELSE "scored"
  /\ problems' = IF asker = "run" THEN {}
                 ELSE problems \cup Collect(Scored)
                      \cup (IF asker = "direct" THEN {} ELSE Closing(Scored))
  /\ UNCHANGED <<task, asker, answer, repaired, used, records, label>>

\* classify_results_dir meets the archived run.
ClassifyRun ==
  /\ pc = "scored" /\ asker = "run" /\ task.cohort = "api"
  /\ task.surfaces # <<>>
  /\ pc' = "labelled"
  /\ label' = LabelOf
  /\ UNCHANGED <<task, asker, answer, repaired, used, records, score, problems>>

\* check_pack ends, for a pack of this task.
CheckPack ==
  /\ asker = "parsed" /\ pc \in {"scored", "failed"}
  /\ pc' = "controlled"
  /\ problems' = problems \cup PackProblems
  /\ UNCHANGED <<task, asker, answer, repaired, used, records, score, label>>

Next ==
  \/ \E response \in Responses : ScoreResponse(response)
  \/ ScoreKey
  \/ ScoreRenderedKey
  \/ MatchEndpoint
  \/ ScoreTask
  \/ ClassifyRun
  \/ CheckPack

Spec == Init /\ [][Next]_scoringVars

-----------------------------------------------------------------------------
(***************************************************************************)
(* Properties.                                                             *)
(***************************************************************************)

TypeOK ==
  /\ task \in Tasks
  /\ pc \in {"idle", "matching", "rendered", "scored", "failed", "labelled", "controlled"}
  /\ asker \in {"run", "direct", "parsed"}
  /\ repaired \in BOOLEAN
  /\ used \subseteq Nat \ {NoHit}
  /\ records \in Seq([hit: Nat, methodOk: BOOLEAN, versionOk: BOOLEAN, viaAlternate: BOOLEAN])
  /\ score = Nothing \/ score \in [Dimensions -> Score]

Complete == score # Nothing
CompleteApi == Complete /\ task.cohort = "api"

\* Under the declared prefixes, and as they are written.
Alike(i, j) ==
  Comparable(key.endpoints[i].path, prefixes) = Comparable(answer.endpoints[j].path, prefixes)
PlainlyAlike(i, j) ==
  NormalizePath(key.endpoints[i].path) = NormalizePath(answer.endpoints[j].path)

\* The pairings of the key's calls with the answer's that credit no call twice.
Matchings(MayPair(_, _)) ==
  {m \in SUBSET {p \in (DOMAIN key.endpoints) \X (DOMAIN answer.endpoints) : MayPair(p[1], p[2])} :
     \A p, q \in m : p[1] = q[1] <=> p[2] = q[2]}

\* The greedy pairing (core/scorer.py:772) finds as many calls of the key as
\* any pairing could, so the endpoint score does not depend on the order in
\* which an answer lists its calls, whatever prefixes are declared; and those
\* "can only move the endpoint dimension UP" (core/scorer.py:558).
MatchIsMaximum ==
  CompleteApi =>
    /\ score.endpoint.got = Max({Cardinality(m) : m \in Matchings(Alike)})
    /\ \A m \in Matchings(PlainlyAlike) : Cardinality(m) <= score.endpoint.got

\* A call of the answer that could earn a call of the key its method, or version.
SameMethod(i, j) ==
  Alike(i, j) /\ answer.endpoints[j].method = key.endpoints[i].method
AcceptedVersion(i, j) ==
  /\ Alike(i, j)
  /\ Canon[answer.endpoints[j].version]
       \in {Canon[key.endpoints[i].version]} \cup {Canon[v] : v \in DeclaredVersionAlternates(key)}

\* No list of calls has two of one path.
PathsDiffer ==
  LET Differ(calls) ==
        \A i, j \in DOMAIN calls :
          Comparable(calls[i].path, prefixes) = Comparable(calls[j].path, prefixes) => i = j
  IN Differ(key.endpoints) /\ Differ(answer.endpoints)

\* Some pairing earns as much, and none earns more where the paths differ.
Deserved(MayPair(_, _), got) ==
  /\ \E m \in Matchings(MayPair) : Cardinality(m) = got
  /\ PathsDiffer => \A m \in Matchings(MayPair) : Cardinality(m) <= got

\* Although calls are paired by path alone (core/scorer.py:798), methods and
\* versions are credited as some pairing deserves that looks at them, and never
\* twice for one call of the answer; where neither side lists two calls of one
\* path, they get all that any pairing could, in whatever order the calls are.
\* A docs answer may list versions, but one credited although the first that it
\* names does not satisfy shows as a hedge (core/docs_scorer.py:107).
CreditIsDeserved ==
  /\ CompleteApi => /\ Deserved(SameMethod, score.method.got)
                    /\ Deserved(AcceptedVersion, score.api_version.got)
  /\ Complete /\ task.cohort = "docs" =>
       LET exhibit == DocsExhibit(key, answer)
           Hedged(required, text) == ~VersionSatisfies(required, <<text[1]>>)
       IN /\ score.firmware_version.got = 1 =>
               (Hedged(key.firmware, answer.firmware) => exhibit.firmwareHedge > 1)
          /\ score.software_version.got = 1 =>
               (Hedged(key.software, answer.software) => exhibit.softwareHedge > 1)

\* Rendering loses nothing of the key.
Expressible ==
  key.fence = NotDeclared /\ (task.cohort = "docs" => DOMAIN key.observations = {})

\* Whatever tolerances it declares, a key scores full marks against itself, and
\* does so again through a block and the parser, unless a docs key requires a
\* version and names none or the block cannot say what the key says
\* (core/roundtrip.py:18): then the control reports it.
NamesNoVersion(text) == text # NotDeclared /\ Named(text) = <<>>
KeyScoresFull ==
  asker # "run" =>
    /\ Complete /\ Collect(score) # {} =>
         /\ problems # {}
         /\ \/ /\ task.cohort = "docs"
               /\ NamesNoVersion(key.firmware) \/ NamesNoVersion(key.software)
            \/ asker = "parsed" /\ ~Expressible
    /\ pc = "failed" =>
         /\ problems # {}
         /\ ~Expressible \/ (task.cohort = "api" /\ key.endpoints = <<>>)

\* Where the round-trip gate finds no problem, saying nothing earns nothing: no
\* login flow, scope, parameter or part is credited to an answer without one,
\* and no version to a call without one that needed it.
SilenceEarnsNothing ==
  Complete /\ RoundTripProblems = {} =>
    IF task.cohort = "api"
    THEN /\ answer.auth = {} => score.auth_flow.got = 0
         /\ answer.scopes = {} => score.required_scopes.got = 0
         /\ answer.parameters = {} => score.key_parameters.got = 0
         /\ \A i \in DOMAIN records :
              records[i].versionOk =>
                \/ Canon[answer.endpoints[records[i].hit].version] # NoVersion
                \/ Canon[key.endpoints[i].version] = NoVersion
    ELSE /\ answer.catalog = {} => score.catalog_number.got = 0
         /\ answer.firmware = NotDeclared => score.firmware_version.got = 0
         /\ answer.software = NotDeclared => score.software_version.got = 0

\* A run is labelled with the surface of a call that matched (core/surfaces.py,
\* classify_run), although the label is found by a call's path alone: of the
\* calls written alike, a matched one comes first.
LabelledByMatch ==
  pc = "labelled" =>
    IF used = {} THEN label = "no-match"
    ELSE \E j \in used : label = ClassifyEndpoint(task.surfaces, answer.endpoints[j])

Reordered(surfaces) ==
  {[i \in DOMAIN surfaces |-> surfaces[p[i]]] : p \in Bijection(DOMAIN surfaces, DOMAIN surfaces)}

\* What validate_answer_surfaces does not ask for: no surface is called like a
\* bucket, and no marker is a spelling of "there is none".
NamesApart(surfaces) ==
  \A i \in DOMAIN surfaces :
    /\ surfaces[i].id \notin {"ambiguous", "conflicted", "unrecognized"}
    /\ NoVersion \notin surfaces[i].markers

\* Under a declaration validate_answer_surfaces accepts, and whose names are
\* told apart from the buckets, the label is evidence: the order of declaration
\* does not decide it (core/surfaces.py:105); "ambiguous" means that the call
\* names no version of one publisher alone; and a surface that is named was
\* named by the path, never against the version.  Where the round trip accepts
\* the key, an answer of its calls is measured.
LabelIsEarned ==
  (pc = "labelled" /\ SurfacesOk /\ NamesApart(task.surfaces) /\ label # "no-match") =>
    LET surfaces == task.surfaces
        call == LabelledCall
        inField == {Canon[call.version]}
        versions == Stated(VersionSegments(call.path) \cup inField)
        Shows(i) == Marked(surfaces[i], versions)
        publishers == Publishers(surfaces, call)
    IN /\ \A order \in Reordered(surfaces) : ClassifyEndpoint(order, call) = label
       /\ label = "ambiguous" =>
            /\ \A i \in publishers : ~Marked(surfaces[i], Stated(inField))
            /\ Cardinality({i \in publishers : Shows(i)}) # 1
       /\ \A i \in DOMAIN surfaces : label = surfaces[i].id =>
            /\ i \in publishers
            /\ \/ Shows(i) \/ surfaces[i].markers = {}
               \/ Cardinality({j \in DOMAIN surfaces \ {i} : Shows(j)}) # 1
       /\ (PackProblems = {} /\ answer.endpoints = key.endpoints) =>
            \E i \in Measured : label = surfaces[i].id
=============================================================================
