----------------------------- MODULE ScoringProofs -----------------------------
(***************************************************************************)
(* What Scoring promises for every key, answer and declaration: a greedy   *)
(* pairing that is a largest one, credits that some pairing deserves, a    *)
(* key that scores full marks against itself and through a block, silence  *)
(* that earns nothing, and a label of a call that matched, and earned.     *)
(***************************************************************************)
EXTENDS Scoring, FiniteFacts

-----------------------------------------------------------------------------
(***************************************************************************)
(* Numbers and finite sets.                                                *)
(***************************************************************************)

LEMMA MinOfNat ==
  ASSUME NEW S \in SUBSET Nat, S # {}
  PROVE  Min(S) \in S /\ \A y \in S : Min(S) <= y
BY LeastNat DEF Min

LEMMA MaxOfNat ==
  ASSUME NEW S \in SUBSET Nat, NEW n \in S, \A y \in S : y <= n
  PROVE  Max(S) = n
<1>1. Max(S) \in S /\ Max(S) >= n
  BY DEF Max
<1>2. Max(S) <= n /\ Max(S) \in Nat /\ n \in Nat
  BY <1>1
<1> QED BY <1>1, <1>2

LEMMA TwoMembers ==
  ASSUME NEW S, IsFiniteSet(S), NEW x \in S, NEW y \in S, x # y
  PROVE  Cardinality(S) > 1
<1>1. Cardinality(S) \in Nat
  BY FS_CardinalityType
<1>2. Cardinality(S) # 0
  BY FS_EmptySet
<1>3. Cardinality(S) # 1
  BY FS_Singleton
<1> QED BY <1>1, <1>2, <1>3

\* Calls of a key paired with calls of an answer, none of them twice.
Pairing(M, n, a, wanted, offered) ==
  /\ M \in SUBSET ((1 .. n) \X (1 .. a))
  /\ \A p \in M : wanted[p[1]] = offered[p[2]]
  /\ \A p, q \in M : p[1] = q[1] <=> p[2] = q[2]

\* h[i] is the call that i was paired with, or zero where none was left.
Greedy(h, n, a, wanted, offered) ==
  /\ n \in Nat /\ a \in Nat /\ h \in [1 .. n -> 0 .. a]
  /\ \A i \in 1 .. n : h[i] # 0 => wanted[i] = offered[h[i]]
  /\ \A i, k \in 1 .. n : h[i] # 0 /\ h[i] = h[k] => i = k
  /\ \A i \in 1 .. n, j \in 1 .. a :
       h[i] = 0 /\ wanted[i] = offered[j] => \E k \in 1 .. n : h[k] = j

Served(h, n) == {i \in 1 .. n : h[i] # 0}

\* The pairs of calls of whose path one went unserved are mapped to those that
\* were served with the same call of the answer, the others to themselves.
LEMMA GreedyIsMaximum ==
  ASSUME NEW n, NEW a, NEW h, NEW wanted, NEW offered, NEW M,
         Greedy(h, n, a, wanted, offered), Pairing(M, n, a, wanted, offered)
  PROVE  /\ IsFiniteSet(Served(h, n)) /\ IsFiniteSet(M)
         /\ Cardinality(M) <= Cardinality(Served(h, n))
<1> USE DEF Greedy, Pairing
<1> DEFINE I == {i \in 1 .. n : h[i] # 0}
           Full(i) == \E k \in 1 .. n : h[k] = 0 /\ wanted[k] = wanted[i]
           f == [p \in M |-> IF Full(p[1]) THEN CHOOSE k \in 1 .. n : h[k] = p[2] ELSE p[1]]
<1>1. IsFiniteSet(I)
  <2>1. IsFiniteSet(1 .. n)
    BY FS_Interval
  <2> QED BY <2>1, FS_Subset
<1>2. \A p \in M : p[1] \in 1 .. n /\ p[2] \in 1 .. a /\ p = <<p[1], p[2]>>
  OBVIOUS
<1>3. ASSUME NEW p \in M, Full(p[1])
      PROVE  f[p] \in I /\ h[f[p]] = p[2] /\ wanted[f[p]] = wanted[p[1]]
  <2>1. \E k \in 1 .. n : h[k] = p[2]
    <3>1. PICK k \in 1 .. n : h[k] = 0 /\ wanted[k] = wanted[p[1]]
      BY <1>3
    <3>2. wanted[k] = offered[p[2]]
      BY <3>1
    <3> QED BY <1>2, <3>1, <3>2
  <2>2. f[p] = CHOOSE k \in 1 .. n : h[k] = p[2]
    BY <1>3
  <2>3. f[p] \in 1 .. n /\ h[f[p]] = p[2]
    BY <2>1, <2>2
  <2>4. h[f[p]] # 0
    BY <1>2, <2>3
  <2>5. wanted[f[p]] = offered[p[2]]
    BY <2>3, <2>4
  <2> QED BY <2>3, <2>4, <2>5
<1>4. ASSUME NEW p \in M, ~Full(p[1])
      PROVE  f[p] = p[1] /\ f[p] \in I
  BY <1>2, <1>4
<1>5. f \in [M -> I]
  BY <1>3, <1>4
<1>6. ASSUME NEW p \in M, NEW q \in M, f[p] = f[q]
      PROVE  p = q
  <2>1. wanted[f[p]] = wanted[p[1]] /\ wanted[f[q]] = wanted[q[1]]
    BY <1>3, <1>4
  <2>2. Full(p[1]) <=> Full(q[1])
    BY <1>6, <2>1
  <2> HIDE DEF f, Full
  <2>3. p[1] = q[1] \/ p[2] = q[2]
    BY <1>3, <1>4, <1>6, <2>2
  <2>4. p[1] = q[1] /\ p[2] = q[2]
    BY <2>3
  <2> QED BY <1>2, <2>4
<1>7. f \in Injection(M, I)
  <2> HIDE DEF f
  <2> QED BY <1>5, <1>6 DEF Injection, IsInjective
<1> HIDE DEF f, I
<1>8. IsFiniteSet(M) /\ Cardinality(M) <= Cardinality(I)
  BY <1>1, <1>7, FS_Injection
<1> QED BY <1>1, <1>8 DEF I, Served

\* The hits themselves are as many as their indices.
LEMMA HitsAreCounted ==
  ASSUME NEW n \in Nat, NEW a \in Nat, NEW h \in [1 .. n -> 0 .. a]
  PROVE  LET I == {i \in 1 .. n : h[i] # 0}
             H == {<<i, h[i]>> : i \in I}
         IN IsFiniteSet(H) /\ Cardinality(H) = Cardinality(I)
<1> DEFINE I == {i \in 1 .. n : h[i] # 0}
           H == {<<i, h[i]>> : i \in I}
           g == [i \in I |-> <<i, h[i]>>]
<1>1. IsFiniteSet(I)
  <2>1. IsFiniteSet(1 .. n)
    BY FS_Interval
  <2> QED BY <2>1, FS_Subset
<1>2. g \in [I -> H] /\ \A i, k \in I : g[i] = g[k] => i = k
  OBVIOUS
<1>3. \A p \in H : \E i \in I : g[i] = p
  OBVIOUS
<1> HIDE DEF g
<1>4. g \in Bijection(I, H)
  BY <1>2, <1>3 DEF Bijection, Injection, Surjection, IsInjective
<1>5. ExistsBijection(I, H)
  BY <1>4 DEF ExistsBijection
<1> HIDE DEF I, H
<1>6. IsFiniteSet(H) /\ Cardinality(H) = Cardinality(I)
  BY <1>1, <1>5, FS_Bijection
<1> QED BY <1>6 DEF I, H

-----------------------------------------------------------------------------
(***************************************************************************)
(* The invariant.                                                          *)
(***************************************************************************)

Record == [hit: Nat, methodOk: BOOLEAN, versionOk: BOOLEAN, viaAlternate: BOOLEAN]

\* A paired call is alike and paired once, and a call of the answer that was
\* passed over is paired with another call of the key.
PairedWell(i) ==
  LET hit == records[i].hit
  IN /\ records[i] = MatchRecord(key, answer, i, hit)
     /\ hit # NoHit => hit \in DOMAIN answer.endpoints /\ Alike(i, hit)
     /\ \A k \in DOMAIN records : hit # NoHit /\ records[k].hit = hit => k = i
     /\ \A j \in DOMAIN answer.endpoints :
          Alike(i, j) /\ (hit = NoHit \/ j < hit) => \E k \in DOMAIN records : records[k].hit = j

MatchInv ==
  /\ answer.endpoints \in Calls
  /\ records \in Seq(Record)
  /\ Len(records) <= Len(key.endpoints)
  /\ used = {records[i].hit : i \in DOMAIN records} \ {NoHit}
  /\ \A i \in DOMAIN records : PairedWell(i)

\* An answer is being scored, or was.
Answering == pc \in {"matching", "rendered", "scored", "labelled"} \/ score # Nothing

\* The control scores the key's own answer, whose calls are paired with themselves.
OwnAnswer ==
  /\ answer = AnswerFromKey
  /\ task.cohort = "api" => \A i \in DOMAIN records : records[i].hit = i

\* The answer scored is the key's own: given directly, or through a block that
\* can say it.
Owned == asker # "run" /\ (asker = "direct" \/ Expressible)

\* The control reports a key that no block brings back.
FailureIsReported ==
  /\ problems # {}
  /\ ~Expressible \/ (task.cohort = "api" /\ key.endpoints = <<>>)

ScoreInv ==
  /\ task \in Tasks
  /\ asker \in {"run", "direct", "parsed"}
  /\ Answering =>
       /\ task.cohort = "api" => MatchInv
       /\ task.cohort = "docs" => {answer.firmware, answer.software} \subseteq VersionText
       /\ Owned => OwnAnswer
  /\ pc = "failed" /\ asker # "run" => FailureIsReported
  /\ score # Nothing =>
       /\ score = Scored
       /\ task.cohort = "api" => Len(records) = Len(key.endpoints)
       /\ asker # "run" => Collect(score) \subseteq problems
  /\ pc = "idle" => asker = "run"
  /\ pc = "matching" => score = Nothing
  /\ pc = "labelled" => task.cohort = "api" /\ label = LabelOf

-----------------------------------------------------------------------------
(***************************************************************************)
(* What an answer is.                                                      *)
(***************************************************************************)

LEMMA ParsedIsTyped ==
  ASSUME NEW r \in Responses, Parse(r.cohort, r.blocks) # Failure
  PROVE  LET says == Parse(r.cohort, r.blocks)
         IN IF r.cohort = "api" THEN says.endpoints \in Calls
            ELSE {says.firmware, says.software} \subseteq VersionText
<1>1. r.blocks # <<>> /\ Parse(r.cohort, r.blocks) = Last(r.blocks).says
  BY DEF Parse
<1>2. Last(r.blocks) \in ToSet(r.blocks)
  <2>1. r.blocks \in Seq(ToSet(r.blocks))
    BY ResponsesAssumption
  <2>2. Last(r.blocks) = r.blocks[Len(r.blocks)] /\ Len(r.blocks) \in DOMAIN r.blocks
    BY <1>1, <2>1 DEF Last
  <2> QED BY <2>2 DEF ToSet
<1> QED BY <1>1, <1>2, ResponsesAssumption

LEMMA BlockIsParsed ==
  ASSUME NEW cohort, NEW b
  PROVE  /\ Parse(cohort, <<b>>) \in {Failure, b.says}
         /\ b.yaml = "valid" /\ b.shape = "answer" =>
              \/ Parse(cohort, <<b>>) = b.says
              \/ cohort = "api" /\ b.says.endpoints = <<>>
<1>1. Last(<<b>>) = b /\ <<b>> # <<>>
  BY DEF Last
<1> QED BY <1>1 DEF Parse

LEMMA KeyAnswerIsTyped ==
  ASSUME task \in Tasks
  PROVE  /\ task.cohort = "api" => AnswerFromKey.endpoints \in Calls
         /\ task.cohort = "docs" =>
              {AnswerFromKey.firmware, AnswerFromKey.software} \subseteq VersionText
BY TasksAssumption DEF AnswerFromKey, ApiAnswerFromKey, DocsAnswerFromKey, key

\* What the control parses of its own block has the type of an answer.
LEMMA RenderedIsTyped ==
  ASSUME task \in Tasks, NEW parsed, parsed # Failure,
         parsed = Parse(task.cohort, RenderBlock(AnswerFromKey))
  PROVE  /\ task.cohort = "api" => parsed.endpoints \in Calls
         /\ task.cohort = "docs" => {parsed.firmware, parsed.software} \subseteq VersionText
<1> DEFINE fence == key.fence
           dumped == IF task.cohort = "api" THEN AnswerFromKey
                     ELSE DocsDumped(key, AnswerFromKey)
           fields == IF task.cohort = "api" THEN ApiFields ELSE DocsFields
<1>1. parsed = dumped \/ (fence # NotDeclared /\ parsed = UpTo(fence, fields, dumped))
  <2>1. PICK b : /\ RenderBlock(AnswerFromKey) = <<b>>
                 /\ \/ b.says = dumped
                    \/ fence # NotDeclared /\ b.says = UpTo(fence, fields, dumped)
    BY DEF RenderBlock
  <2> HIDE DEF fence, dumped, fields
  <2> QED BY <2>1, BlockIsParsed
<1>2. \A f \in DOMAIN dumped : IsField(f, dumped[f])
  <2>1. CASE task.cohort = "api"
    <3>1. dumped = ApiAnswerFromKey(key) /\ key.endpoints \in Calls
      BY <2>1, TasksAssumption DEF AnswerFromKey, key
    <3> QED BY <3>1 DEF ApiAnswerFromKey, IsField
  <2>2. CASE task.cohort = "docs"
    <3>1. dumped = DocsDumped(key, DocsAnswerFromKey(key))
      BY <2>2 DEF AnswerFromKey
    <3>2. /\ {key.firmware, key.software} \subseteq VersionText
          /\ \A f \in DOMAIN key.observations : IsField(f, key.observations[f])
      BY <2>2, TasksAssumption DEF key
    <3>3. \A f \in DOMAIN DocsAnswerFromKey(key) : IsField(f, DocsAnswerFromKey(key)[f])
      BY <3>2 DEF DocsAnswerFromKey, IsField
    <3> QED BY <3>1, <3>2, <3>3 DEF DocsDumped
  <2> QED BY <2>1, <2>2, TasksAssumption
<1>3. \A f \in {"endpoints", "firmware", "software"} : IsField(f, Unsaid[f])
  <2>1. <<>> \in Calls /\ NotDeclared \in VersionText
    BY DEF Calls, VersionText
  <2> QED BY <2>1 DEF IsField, Unsaid
<1>4. fence # NotDeclared => IsField(fence.field, fence.kept)
  BY TasksAssumption DEF key
<1>5. /\ task.cohort = "api" => "endpoints" \in DOMAIN dumped
      /\ task.cohort = "docs" => {"firmware", "software"} \subseteq DOMAIN dumped
  BY DEF AnswerFromKey, ApiAnswerFromKey, DocsAnswerFromKey, DocsDumped
<1> HIDE DEF fence, dumped, fields
<1>6. \A f \in DOMAIN dumped \cap {"endpoints", "firmware", "software"} : IsField(f, parsed[f])
  BY <1>1, <1>2, <1>3, <1>4 DEF UpTo
<1> QED BY <1>5, <1>6 DEF IsField

\* Where rendering loses nothing, the key comes back, unless it lists no call.
LEMMA RenderedIsParsed ==
  ASSUME Expressible, task \in Tasks
  PROVE  LET parsed == Parse(task.cohort, RenderBlock(AnswerFromKey))
         IN \/ parsed = AnswerFromKey
            \/ parsed = Failure /\ task.cohort = "api" /\ key.endpoints = <<>>
<1> DEFINE b == [yaml |-> "valid", shape |-> "answer", says |-> AnswerFromKey]
<1>1. RenderBlock(AnswerFromKey) = <<b>>
  <2>1. task.cohort = "docs" => DocsDumped(key, AnswerFromKey) = AnswerFromKey
    <3>1. DOMAIN key.observations = {} =>
            DocsDumped(key, DocsAnswerFromKey(key)) = DocsAnswerFromKey(key)
      BY DEF DocsAnswerFromKey, DocsDumped
    <3> QED BY <3>1 DEF Expressible, AnswerFromKey
  <2>2. task.cohort \in {"api", "docs"}
    BY TasksAssumption
  <2> QED BY <2>1, <2>2 DEF Expressible, RenderBlock
<1>2. task.cohort = "api" => AnswerFromKey.endpoints = key.endpoints
  BY DEF AnswerFromKey, ApiAnswerFromKey
<1>3. b.yaml = "valid" /\ b.shape = "answer" /\ b.says = AnswerFromKey
  OBVIOUS
<1> HIDE DEF b
<1> QED BY <1>1, <1>2, <1>3, BlockIsParsed

LEMMA KeyIsTyped ==
  ASSUME task \in Tasks
  PROVE  /\ task.cohort \in {"api", "docs"}
         /\ task.cohort = "api" => key.endpoints \in Calls /\ Len(key.endpoints) \in Nat
BY TasksAssumption DEF key, Calls

LEMMA MatchRecordType ==
  ASSUME NEW i, NEW hit \in Nat
  PROVE  /\ MatchRecord(key, answer, i, hit) \in Record
         /\ MatchRecord(key, answer, i, hit).hit = hit
BY DEF MatchRecord, Record, NoHit

\* The call chosen is the first candidate.
LEMMA HitIsFirst ==
  ASSUME answer.endpoints \in Calls, NEW i,
         NEW hit, hit = Hit(key, answer, prefixes, i, used), used \subseteq Nat
  PROVE  /\ hit \in Nat
         /\ hit # NoHit => hit \in DOMAIN answer.endpoints /\ Alike(i, hit) /\ hit \notin used
         /\ \A j \in DOMAIN answer.endpoints :
              Alike(i, j) /\ j \notin used => hit # NoHit /\ hit <= j
<1> DEFINE candidates == Candidates(key, answer, prefixes, i, used)
<1>1. \A j : j \in candidates <=> j \in DOMAIN answer.endpoints /\ j \notin used /\ Alike(i, j)
  BY DEF Candidates, Alike
<1>2. candidates \subseteq Nat \ {NoHit}
  BY <1>1 DEF Calls, NoHit
<1>3. hit = IF candidates = {} THEN NoHit ELSE Min(candidates)
  BY DEF Hit
<1> HIDE DEF candidates
<1>4. CASE candidates = {}
  BY <1>1, <1>3, <1>4 DEF NoHit
<1>5. CASE candidates # {}
  <2>1. hit \in candidates /\ \A y \in candidates : hit <= y
    BY <1>2, <1>3, <1>5, MinOfNat
  <2> QED BY <1>1, <1>2, <2>1
<1> QED BY <1>4, <1>5

-----------------------------------------------------------------------------
(***************************************************************************)
(* The steps.                                                              *)
(***************************************************************************)

\* What was parsed is of the task's cohort, and the key's own on the control's paths.
LEMMA TakeStep ==
  ASSUME NEW parsed, ScoreInv, Take(parsed), UNCHANGED task,
         asker' \in {"run", "direct", "parsed"},
         parsed # Failure =>
           /\ task.cohort = "api" => parsed.endpoints \in Calls
           /\ task.cohort = "docs" => {parsed.firmware, parsed.software} \subseteq VersionText
           /\ Owned' => parsed = AnswerFromKey,
         parsed = Failure /\ asker' # "run" => FailureIsReported'
  PROVE  ScoreInv'
<1>1. /\ score' = Nothing /\ records' = <<>> /\ used' = {}
      /\ parsed # Failure => pc' = "matching" /\ answer' = parsed
      /\ parsed = Failure => pc' = "failed"
  BY DEF Take
<1>2. task' = task /\ key' = key /\ prefixes' = prefixes /\ AnswerFromKey' = AnswerFromKey
  BY DEF key, prefixes, AnswerFromKey
<1>3. Answering' => parsed # Failure /\ answer' = parsed
  BY <1>1 DEF Answering, Nothing
<1>4. ASSUME Answering', task.cohort = "api" PROVE MatchInv'
  <2>1. answer'.endpoints \in Calls
    BY <1>3, <1>4
  <2>2. Len(key.endpoints) \in Nat
    BY <1>4, KeyIsTyped DEF ScoreInv
  <2>3. records' \in Seq(Record) /\ Len(records') = 0 /\ DOMAIN records' = {}
    BY <1>1
  <2> QED BY <1>1, <1>2, <2>1, <2>2, <2>3 DEF MatchInv
<1>5. ASSUME Answering', Owned' PROVE OwnAnswer'
  <2>1. answer' = AnswerFromKey
    BY <1>3, <1>5
  <2>2. DOMAIN records' = {}
    BY <1>1
  <2> QED BY <1>2, <2>1, <2>2 DEF OwnAnswer
<1> QED BY <1>1, <1>2, <1>3, <1>4, <1>5 DEF ScoreInv, Nothing

LEMMA ScoreResponseStep ==
  ASSUME ScoreInv, NEW response \in Responses, ScoreResponse(response)
  PROVE  ScoreInv'
<1> DEFINE parsed == Parse(response.cohort, response.blocks)
<1>1. /\ task.cohort = response.cohort /\ Take(parsed)
      /\ UNCHANGED task /\ asker' = asker /\ pc = "idle"
  BY DEF ScoreResponse
<1>2. parsed # Failure =>
        /\ task.cohort = "api" => parsed.endpoints \in Calls
        /\ task.cohort = "docs" => {parsed.firmware, parsed.software} \subseteq VersionText
  BY <1>1, ParsedIsTyped
<1> HIDE DEF parsed
<1>3. asker = "run" /\ asker' = "run" /\ ~Owned'
  BY <1>1 DEF ScoreInv, Owned
<1> QED BY <1>1, <1>2, <1>3, TakeStep

LEMMA ScoreKeyStep ==
  ASSUME ScoreInv, ScoreKey
  PROVE  ScoreInv'
<1>1. Take(AnswerFromKey) /\ UNCHANGED task /\ asker' = "direct"
  BY DEF ScoreKey
<1>2. task \in Tasks
  BY DEF ScoreInv
<1>3. AnswerFromKey # Failure
  BY <1>2, FailureAssumption DEF AnswerFromKey, key
<1> QED BY <1>1, <1>2, <1>3, KeyAnswerIsTyped, TakeStep

LEMMA ScoreRenderedKeyStep ==
  ASSUME ScoreInv, ScoreRenderedKey
  PROVE  ScoreInv'
<1> DEFINE parsed == Parse(task.cohort, RenderBlock(AnswerFromKey))
<1>1. /\ Take(parsed) /\ UNCHANGED task /\ asker' = "parsed"
      /\ parsed = Failure => "unparseable" \in problems'
  BY DEF ScoreRenderedKey
<1>2. task \in Tasks
  BY DEF ScoreInv
<1>3. Expressible' <=> Expressible
  BY <1>1 DEF Expressible, key
<1>4. Owned' => Expressible
  BY <1>1, <1>3 DEF Owned
<1>5. parsed # Failure =>
        /\ task.cohort = "api" => parsed.endpoints \in Calls
        /\ task.cohort = "docs" => {parsed.firmware, parsed.software} \subseteq VersionText
        /\ Owned' => parsed = AnswerFromKey
  <2>1. parsed # Failure /\ Owned' => parsed = AnswerFromKey
    BY <1>2, <1>4, RenderedIsParsed
  <2> HIDE DEF parsed
  <2> QED BY <1>2, <2>1, RenderedIsTyped DEF parsed
<1>6. parsed = Failure => FailureIsReported'
  <2>1. AnswerFromKey # Failure
    BY <1>2, FailureAssumption DEF AnswerFromKey, key
  <2>2. parsed = Failure /\ Expressible => task.cohort = "api" /\ key.endpoints = <<>>
    BY <1>2, <2>1, RenderedIsParsed
  <2>3. key' = key
    BY <1>1 DEF key
  <2> HIDE DEF parsed
  <2> QED BY <1>1, <1>3, <2>2, <2>3 DEF FailureIsReported
<1> HIDE DEF parsed
<1> QED BY <1>1, <1>5, <1>6, TakeStep

\* One more call of the key is paired.
LEMMA MatchEndpointStep ==
  ASSUME ScoreInv, MatchEndpoint
  PROVE  ScoreInv'
<1>0. PICK i, hit, r : /\ i = Len(records) + 1
                       /\ hit = Hit(key, answer, prefixes, i, used)
                       /\ r = MatchRecord(key, answer, i, hit)
  OBVIOUS
<1>1. /\ pc = "matching" /\ task.cohort = "api" /\ i \in DOMAIN key.endpoints
      /\ records' = Append(records, r)
      /\ used' = used \cup ({hit} \ {NoHit})
      /\ UNCHANGED <<task, pc, asker, answer, score, problems, label>>
  BY <1>0 DEF MatchEndpoint
<1>2. key' = key /\ prefixes' = prefixes /\ AnswerFromKey' = AnswerFromKey /\ Owned' = Owned
  BY <1>1 DEF key, prefixes, AnswerFromKey, Owned, Expressible
<1>3. \A k, j : Alike(k, j)' <=> Alike(k, j)
  BY <1>1, <1>2 DEF Alike
<1>4. MatchInv /\ (Owned => OwnAnswer) /\ key.endpoints \in Calls
  BY <1>1, KeyIsTyped DEF ScoreInv, Answering
<1>5. used \subseteq Nat
  <2>1. \A k \in DOMAIN records : records[k].hit \in Nat
    <3>1. records \in Seq(Record)
      BY <1>4 DEF MatchInv
    <3>2. \A k \in DOMAIN records : records[k] \in Record
      BY <3>1
    <3> QED BY <3>2 DEF Record
  <2> QED BY <1>4, <2>1 DEF MatchInv
<1>6. /\ hit \in Nat
      /\ hit # NoHit => hit \in DOMAIN answer.endpoints /\ Alike(i, hit) /\ hit \notin used
      /\ \A j \in DOMAIN answer.endpoints :
           Alike(i, j) /\ j \notin used => hit # NoHit /\ hit <= j
  <2>1. answer.endpoints \in Calls
    BY <1>4 DEF MatchInv
  <2> QED BY <1>0, <1>5, <2>1, HitIsFirst
<1>7. r \in Record /\ r.hit = hit
  BY <1>0, <1>6, MatchRecordType
<1>8. /\ records' \in Seq(Record) /\ i \in Nat /\ i # 0
      /\ DOMAIN records = 1 .. i - 1
      /\ DOMAIN records' = DOMAIN records \cup {i} /\ i \notin DOMAIN records
      /\ \A k \in DOMAIN records : records'[k] = records[k]
      /\ records'[i] = r
      /\ Len(records') = i
  BY <1>0, <1>1, <1>4, <1>7 DEF MatchInv
<1>9. \A j : j \in used <=> j # NoHit /\ \E k \in DOMAIN records : records[k].hit = j
  BY <1>4 DEF MatchInv
<1>10. Len(records') <= Len(key.endpoints)
  BY <1>1, <1>4, <1>8 DEF Calls
<1>11. used' = {records'[k].hit : k \in DOMAIN records'} \ {NoHit}
  BY <1>1, <1>7, <1>8, <1>9
<1>12. ASSUME NEW k \in DOMAIN records PROVE PairedWell(k)'
  <2>1. PairedWell(k) /\ records'[k] = records[k]
    BY <1>4, <1>8 DEF MatchInv
  <2>2. \A m \in DOMAIN records' : records[k].hit # NoHit /\ records'[m].hit = records[k].hit => m = k
    <3>1. records[k].hit # NoHit => records[k].hit # hit
      BY <1>6, <1>9
    <3> QED BY <1>7, <1>8, <2>1, <3>1 DEF PairedWell
  <2>3. \A j \in DOMAIN answer.endpoints :
          Alike(k, j) /\ (records[k].hit = NoHit \/ j < records[k].hit) =>
            \E m \in DOMAIN records' : records'[m].hit = j
    BY <1>8, <2>1 DEF PairedWell
  <2> QED BY <1>1, <1>2, <1>3, <2>1, <2>2, <2>3 DEF PairedWell
<1>13. PairedWell(i)'
  <2>1. records'[i] = MatchRecord(key, answer, i, hit) /\ records'[i].hit = hit
    BY <1>0, <1>7, <1>8
  <2>2. \A m \in DOMAIN records' : hit # NoHit /\ records'[m].hit = hit => m = i
    BY <1>6, <1>8, <1>9
  <2>3. \A j \in DOMAIN answer.endpoints :
          Alike(i, j) /\ (hit = NoHit \/ j < hit) => \E m \in DOMAIN records' : records'[m].hit = j
    <3> SUFFICES ASSUME NEW j \in DOMAIN answer.endpoints, Alike(i, j), hit = NoHit \/ j < hit
                 PROVE  j \in used
      BY <1>8, <1>9
    <3>1. j \in Nat
      BY <1>4 DEF MatchInv, Calls
    <3> QED BY <1>6, <3>1
  <2> QED BY <1>1, <1>2, <1>3, <1>6, <2>1, <2>2, <2>3 DEF PairedWell
<1>14. MatchInv'
  BY <1>1, <1>2, <1>4, <1>8, <1>10, <1>11, <1>12, <1>13 DEF MatchInv
<1>15. ASSUME Owned PROVE OwnAnswer'
  <2>1. answer = AnswerFromKey /\ \A k \in DOMAIN records : records[k].hit = k
    BY <1>1, <1>4, <1>15 DEF OwnAnswer
  <2>2. answer.endpoints = key.endpoints
    BY <1>1, <2>1 DEF AnswerFromKey, ApiAnswerFromKey
  <2>3. i \in DOMAIN answer.endpoints /\ Alike(i, i) /\ i \notin used
    BY <1>1, <1>8, <1>9, <2>1, <2>2 DEF Alike
  <2>4. hit # NoHit /\ hit <= i /\ hit \notin used /\ hit \in Nat
    BY <1>6, <2>3
  <2>5. hit \notin DOMAIN records
    BY <1>9, <2>1, <2>4
  <2>6. hit = i
    BY <1>8, <2>4, <2>5 DEF NoHit
  <2> QED BY <1>1, <1>2, <1>7, <1>8, <2>1, <2>6 DEF OwnAnswer
<1> QED BY <1>1, <1>2, <1>14, <1>15 DEF ScoreInv, Nothing

\* Steps that leave the matching alone.
LEMMA FrameIsKept ==
  ASSUME ScoreInv, Answering, UNCHANGED <<task, asker, answer, used, records>>
  PROVE  /\ task.cohort = "api" => MatchInv'
         /\ task.cohort = "docs" => ({answer.firmware, answer.software} \subseteq VersionText)'
         /\ Owned' => OwnAnswer'
         /\ Scored' = Scored /\ key' = key /\ LabelOf' = LabelOf
<1>1. key' = key /\ prefixes' = prefixes /\ AnswerFromKey' = AnswerFromKey
  BY DEF key, prefixes, AnswerFromKey
<1>2. \A i, j : Alike(i, j)' <=> Alike(i, j)
  BY <1>1 DEF Alike
<1>3. \A i : PairedWell(i)' <=> PairedWell(i)
  BY <1>1, <1>2 DEF PairedWell
<1>4. MatchInv' <=> MatchInv
  BY <1>1, <1>3 DEF MatchInv
<1>5. (OwnAnswer' <=> OwnAnswer) /\ (Owned' <=> Owned)
  BY <1>1 DEF OwnAnswer, Owned, Expressible
<1>6. Scored' = Scored
  BY <1>1 DEF Scored
<1>7. LabelOf' = LabelOf
  BY DEF LabelOf, WrittenLikeMatch, LabelledCall
<1> QED BY <1>1, <1>4, <1>5, <1>6, <1>7 DEF ScoreInv, VersionText

LEMMA ScoreTaskStep ==
  ASSUME ScoreInv, ScoreTask
  PROVE  ScoreInv'
<1>1. /\ pc = "matching" /\ Answering
      /\ UNCHANGED <<task, asker, answer, used, records>>
      /\ score' = Scored /\ pc' \in {"rendered", "scored"}
      /\ task.cohort = "api" => Len(records) = Len(key.endpoints)
      /\ asker # "run" => Collect(Scored) \subseteq problems'
  BY DEF ScoreTask, Answering
<1>2. /\ task.cohort = "api" => MatchInv'
      /\ task.cohort = "docs" => ({answer.firmware, answer.software} \subseteq VersionText)'
      /\ Owned' => OwnAnswer'
      /\ Scored' = Scored /\ key' = key
  BY <1>1, FrameIsKept
<1>3. Collect(score') = Collect(Scored) /\ Collect(score)' = Collect(score')
  BY <1>1 DEF Collect
<1> QED BY <1>1, <1>2, <1>3 DEF ScoreInv

LEMMA ScoredIsKept ==
  ASSUME ScoreInv, UNCHANGED <<task, asker, answer, used, records, score>>,
         problems \subseteq problems',
         pc' \notin {"idle", "matching"}, pc' = "failed" => pc = "failed",
         Answering' => Answering,
         pc' = "labelled" => task.cohort = "api" /\ label' = LabelOf
  PROVE  ScoreInv'
<1>0. pc' = "failed" /\ asker # "run" => FailureIsReported'
  BY DEF ScoreInv, FailureIsReported, Expressible, key
<1>1. CASE ~Answering
  BY <1>0, <1>1 DEF ScoreInv, Answering
<1>2. CASE Answering
  <2>1. /\ task.cohort = "api" => MatchInv'
        /\ task.cohort = "docs" => ({answer.firmware, answer.software} \subseteq VersionText)'
        /\ Owned' => OwnAnswer'
        /\ Scored' = Scored /\ key' = key /\ LabelOf' = LabelOf
    BY <1>2, FrameIsKept
  <2>2. Collect(score)' = Collect(score)
    BY DEF Collect
  <2> QED BY <1>0, <2>1, <2>2 DEF ScoreInv, Nothing
<1> QED BY <1>1, <1>2

LEMMA StepScores == ScoreInv /\ [Next]_scoringVars => ScoreInv'
<1> SUFFICES ASSUME ScoreInv, [Next]_scoringVars PROVE ScoreInv'
  OBVIOUS
<1>1. CASE \E response \in Responses : ScoreResponse(response)
  BY <1>1, ScoreResponseStep
<1>2. CASE ScoreKey
  BY <1>2, ScoreKeyStep
<1>3. CASE ScoreRenderedKey
  BY <1>3, ScoreRenderedKeyStep
<1>4. CASE MatchEndpoint
  BY <1>4, MatchEndpointStep
<1>5. CASE ScoreTask
  BY <1>5, ScoreTaskStep
<1>6. CASE ClassifyRun
  BY <1>6, ScoredIsKept DEF ClassifyRun, Answering
<1>7. CASE CheckPack
  BY <1>7, ScoredIsKept DEF CheckPack, Answering
<1>8. CASE UNCHANGED scoringVars
  <2>1. UNCHANGED <<task, pc, asker, answer, used, records, score, problems, label>>
    BY <1>8 DEF scoringVars
  <2>2. CASE pc \in {"idle", "matching"}
    <3>1. CASE ~Answering
      BY <2>1, <2>2, <3>1 DEF ScoreInv, Answering
    <3>2. CASE Answering
      <4>1. /\ task.cohort = "api" => MatchInv'
            /\ task.cohort = "docs" => ({answer.firmware, answer.software} \subseteq VersionText)'
            /\ Owned' => OwnAnswer'
            /\ Scored' = Scored /\ key' = key /\ Collect(score)' = Collect(score)
        BY <2>1, <3>2, FrameIsKept DEF Collect
      <4> QED BY <2>1, <2>2, <4>1 DEF ScoreInv, Nothing
    <3> QED BY <3>1, <3>2
  <2>3. CASE pc \notin {"idle", "matching"}
    <3>1. Answering' => Answering
      BY <2>1 DEF Answering, Nothing
    <3>2. pc' = "labelled" => task.cohort = "api" /\ label' = LabelOf
      BY <2>1 DEF ScoreInv
    <3> QED BY <2>1, <2>3, <3>1, <3>2, ScoredIsKept
  <2> QED BY <2>2, <2>3
<1> QED BY <1>1, <1>2, <1>3, <1>4, <1>5, <1>6, <1>7, <1>8 DEF Next

THEOREM ScoresByTheBook == Spec => []ScoreInv
<1>1. Init => ScoreInv
  BY DEF Init, ScoreInv, Answering
<1> QED BY <1>1, StepScores, PTL DEF Spec

-----------------------------------------------------------------------------
(***************************************************************************)
(* The theorems.                                                           *)
(***************************************************************************)

\* Of the key's and the answer's calls as functions, for GreedyIsMaximum.
LEMMA FullScoreOfMatching ==
  ASSUME ScoreInv, CompleteApi
  PROVE  /\ MatchInv /\ Len(records) = Len(key.endpoints)
         /\ key.endpoints \in Calls /\ answer.endpoints \in Calls
         /\ score = ApiScores(key, answer, records)
BY KeyIsTyped DEF ScoreInv, CompleteApi, Complete, Answering, Scored, MatchInv

\* However the calls are ordered and whatever prefixes are declared, the
\* greedy pairing is a largest one.
THEOREM GreedyPairingIsMaximum == Spec => []MatchIsMaximum
<1>1. ScoreInv => MatchIsMaximum
  <2> SUFFICES ASSUME ScoreInv, CompleteApi
               PROVE  /\ score.endpoint.got = Max({Cardinality(m) : m \in Matchings(Alike)})
                      /\ \A m \in Matchings(PlainlyAlike) : Cardinality(m) <= score.endpoint.got
    BY DEF MatchIsMaximum
  <2>1. /\ MatchInv /\ Len(records) = Len(key.endpoints)
        /\ key.endpoints \in Calls /\ answer.endpoints \in Calls
        /\ score = ApiScores(key, answer, records)
    BY FullScoreOfMatching
  <2>2. PICK n, a, h, wanted, offered :
          /\ n = Len(key.endpoints) /\ a = Len(answer.endpoints)
          /\ h = [i \in 1 .. n |-> records[i].hit]
          /\ wanted = [i \in 1 .. n |-> Comparable(key.endpoints[i].path, prefixes)]
          /\ offered = [j \in 1 .. a |-> Comparable(answer.endpoints[j].path, prefixes)]
    OBVIOUS
  <2>3. /\ n \in Nat /\ a \in Nat
        /\ DOMAIN key.endpoints = 1 .. n /\ DOMAIN answer.endpoints = 1 .. a
        /\ DOMAIN records = 1 .. n
    BY <2>1, <2>2 DEF Calls, MatchInv
  <2>4. \A i \in 1 .. n, j \in 1 .. a : Alike(i, j) <=> wanted[i] = offered[j]
    BY <2>2 DEF Alike
  <2>5. \A i \in 1 .. n : PairedWell(i) /\ h[i] = records[i].hit
    BY <2>1, <2>2, <2>3 DEF MatchInv
  <2>6. h \in [1 .. n -> 0 .. a]
    <3>1. \A i \in 1 .. n : h[i] \in 0 .. a
      BY <2>3, <2>5 DEF PairedWell, NoHit
    <3> QED BY <2>2, <3>1
  <2>7. \A i \in 1 .. n : h[i] # 0 => wanted[i] = offered[h[i]]
    BY <2>3, <2>4, <2>5, <2>6 DEF PairedWell, NoHit
  <2>8. \A i, k \in 1 .. n : h[i] # 0 /\ h[i] = h[k] => i = k
    BY <2>3, <2>5 DEF PairedWell, NoHit
  <2>9. \A i \in 1 .. n, j \in 1 .. a :
          h[i] = 0 /\ wanted[i] = offered[j] => \E k \in 1 .. n : h[k] = j
    BY <2>3, <2>4, <2>5 DEF PairedWell, NoHit
  <2> DEFINE I == Served(h, n)
             S == {Cardinality(m) : m \in Matchings(Alike)}
  <2>10. Greedy(h, n, a, wanted, offered)
    BY <2>3, <2>6, <2>7, <2>8, <2>9 DEF Greedy
  <2>11. \A m \in Matchings(Alike) : Pairing(m, n, a, wanted, offered)
    BY <2>3, <2>4 DEF Matchings, Pairing
  <2>12. \A m \in Matchings(Alike) :
           IsFiniteSet(I) /\ IsFiniteSet(m) /\ Cardinality(m) <= Cardinality(I)
    BY <2>10, <2>11, GreedyIsMaximum
  <2>13. PICK H : H = {<<i, h[i]>> : i \in I}
    OBVIOUS
  <2>14. H \in Matchings(Alike) /\ Cardinality(H) = Cardinality(I)
    <3>1. H \in SUBSET ((1 .. n) \X (1 .. a))
      BY <2>6, <2>13 DEF Served
    <3>2. \A p \in H : Alike(p[1], p[2])
      BY <2>4, <2>6, <2>7, <2>13 DEF Served
    <3>3. \A p, q \in H : p[1] = q[1] <=> p[2] = q[2]
      BY <2>8, <2>13 DEF Served
    <3>4. Cardinality(H) = Cardinality(I)
      BY <2>3, <2>6, <2>13, HitsAreCounted DEF Served
    <3> QED BY <2>3, <3>1, <3>2, <3>3, <3>4 DEF Matchings
  <2>15. score.endpoint.got = Cardinality(I)
    <3>1. {i \in DOMAIN records : records[i].hit # NoHit} = I
      BY <2>3, <2>5 DEF NoHit, Served
    <3> QED BY <2>1, <3>1 DEF ApiScores, Share
  <2>16. /\ S \in SUBSET Nat /\ Cardinality(I) \in S
         /\ \A y \in S : y <= Cardinality(I)
    <3>1. \A m \in Matchings(Alike) : Cardinality(m) \in Nat /\ Cardinality(m) <= Cardinality(I)
      BY <2>12, FS_CardinalityType
    <3> QED BY <2>14, <3>1
  <2>17. score.endpoint.got = Max(S)
    BY <2>15, <2>16, MaxOfNat
  <2>18. \A m \in Matchings(PlainlyAlike) : m \in Matchings(Alike)
    <3>1. \A i, j : PlainlyAlike(i, j) => Alike(i, j)
      BY DEF PlainlyAlike, Alike, Comparable
    <3> QED BY <3>1 DEF Matchings
  <2> QED BY <2>12, <2>15, <2>17, <2>18
<1> QED BY <1>1, ScoresByTheBook, PTL

\* A version satisfied by a later mention than the first is a second version.
LEMMA HedgeIsCounted ==
  ASSUME NEW required \in VersionText, NEW text \in VersionText,
         VersionScore(required, text).got = 1, ~VersionSatisfies(required, <<text[1]>>)
  PROVE  HedgeCount(text) > 1
<1>1. VersionSatisfies(required, text)
  BY DEF VersionScore, NotApplicable, Whole
<1>2. text \in Seq(Seq(Nat)) /\ Named(text) = text
  BY <1>1 DEF VersionSatisfies, Named, VersionText
<1>3. PICK i \in DOMAIN text : IsPrefix(required[1], text[i])
  BY <1>1, <1>2 DEF VersionSatisfies
<1>4. 1 \in DOMAIN text
  BY <1>2, <1>3
<1>5. text[1] # text[i]
  <2>1. <<text[1]>> \in Seq(Seq(Nat))
    BY <1>2, <1>4
  <2>2. Named(<<text[1]>>) = <<text[1]>>
    BY <2>1, OmissionAssumption DEF Named
  <2>3. ~IsPrefix(required[1], text[1])
    <3>1. Named(required) # <<>>
      BY <1>1 DEF VersionSatisfies
    <3>2. ~\E k \in DOMAIN <<text[1]>> : IsPrefix(required[1], <<text[1]>>[k])
      BY <2>2, <3>1 DEF VersionSatisfies
    <3> QED BY <3>2
  <2> QED BY <1>3, <2>3
<1>6. IsFiniteSet(ToSet(text))
  <2> DEFINE n == Len(text)
             f == [k \in 1 .. n |-> text[k]]
  <2>1. n \in Nat /\ DOMAIN text = 1 .. n
    BY <1>2
  <2>2. f \in Surjection(1 .. n, ToSet(text))
    BY <2>1 DEF Surjection, ToSet
  <2>3. IsFiniteSet(1 .. n)
    BY <2>1, FS_Interval
  <2> HIDE DEF f, n
  <2> QED BY <2>2, <2>3, FS_Surjection
<1>7. text[1] \in ToSet(text) /\ text[i] \in ToSet(text)
  BY <1>3, <1>4 DEF ToSet
<1> QED BY <1>2, <1>5, <1>6, <1>7, TwoMembers DEF HedgeCount

\* The calls of C have a hit, and H pairs each with its own.
PairsOf(H, C, h, n, a) ==
  /\ n \in Nat /\ a \in Nat /\ h \in [1 .. n -> 0 .. a]
  /\ \A i, k \in 1 .. n : h[i] # 0 /\ h[i] = h[k] => i = k
  /\ C \in SUBSET (1 .. n) /\ \A i \in C : h[i] # 0
  /\ H = {<<i, h[i]>> : i \in C}

\* Calls credited with their hits are paired, and where every call that may be
\* paired is credited no pairing has more of them.
LEMMA CreditedArePaired ==
  ASSUME NEW n, NEW a, NEW h, NEW C, NEW H, PairsOf(H, C, h, n, a)
  PROVE  /\ H \in SUBSET (C \X (1 .. a))
         /\ \A p, q \in H : p[1] = q[1] <=> p[2] = q[2]
         /\ IsFiniteSet(C) /\ Cardinality(H) = Cardinality(C)
<1> USE DEF PairsOf
<1> DEFINE g == [i \in C |-> <<i, h[i]>>]
<1>1. IsFiniteSet(C)
  <2>1. IsFiniteSet(1 .. n)
    BY FS_Interval
  <2> QED BY <2>1, FS_Subset
<1>2. g \in [C -> H] /\ \A i, k \in C : g[i] = g[k] => i = k
  OBVIOUS
<1>3. \A p \in H : \E i \in C : g[i] = p
  OBVIOUS
<1>4. H \in SUBSET (C \X (1 .. a)) /\ \A p, q \in H : p[1] = q[1] <=> p[2] = q[2]
  OBVIOUS
<1> HIDE DEF g
<1>5. g \in Bijection(C, H)
  BY <1>2, <1>3 DEF Bijection, Injection, Surjection, IsInjective
<1>6. Cardinality(H) = Cardinality(C)
  BY <1>1, <1>5, FS_Bijection DEF ExistsBijection
<1> QED BY <1>1, <1>4, <1>6

LEMMA PairedAreCredited ==
  ASSUME NEW C, IsFiniteSet(C), NEW D, NEW m \in SUBSET (C \X D),
         \A p, q \in m : p[1] = q[1] <=> p[2] = q[2]
  PROVE  Cardinality(m) <= Cardinality(C)
<1> DEFINE f == [p \in m |-> p[1]]
<1>1. \A p \in m : p[1] \in C /\ p = <<p[1], p[2]>>
  OBVIOUS
<1>2. \A p, q \in m : p[1] = q[1] => p = q
  BY <1>1
<1>3. f \in [m -> C] /\ \A p, q \in m : f[p] = f[q] => p = q
  BY <1>1, <1>2
<1> HIDE DEF f
<1>4. f \in Injection(m, C)
  BY <1>3 DEF Injection, IsInjective
<1> QED BY <1>4, FS_Injection

\* What a record credits is what its call and the call of the key are.
LEMMA CreditOfRecord ==
  ASSUME NEW i, NEW hit
  PROVE  LET r == MatchRecord(key, answer, i, hit)
             may == Canon[answer.endpoints[hit].version]
                      \in {Canon[key.endpoints[i].version]}
                           \cup {Canon[v] : v \in DeclaredVersionAlternates(key)}
         IN /\ r.methodOk <=> /\ hit # NoHit
                              /\ answer.endpoints[hit].method = key.endpoints[i].method
            /\ r.versionOk <=> hit # NoHit /\ may
<1> DEFINE alternates == {Canon[v] : v \in DeclaredVersionAlternates(key)}
<1> HIDE DEF alternates
<1>1. CASE hit = NoHit
  BY <1>1 DEF MatchRecord
<1>2. CASE hit # NoHit
  <2> DEFINE same == Canon[answer.endpoints[hit].version] = Canon[key.endpoints[i].version]
             in == Canon[answer.endpoints[hit].version] \in alternates
             method == answer.endpoints[hit].method = key.endpoints[i].method
             r == MatchRecord(key, answer, i, hit)
  <2>1. r = [hit |-> hit, methodOk |-> method, versionOk |-> same \/ in,
             viaAlternate |-> (same \/ in) /\ ~same]
    BY <1>2 DEF MatchRecord, alternates
  <2> HIDE DEF same, in, method, r
  <2>2. (r.methodOk <=> method) /\ (r.versionOk <=> same \/ in)
    BY <2>1
  <2> QED BY <1>2, <2>2 DEF same, in, method, r, alternates
<1> QED BY <1>1, <1>2

\* The pairing as a function.  Where the paths differ, whatever is alike is paired.
LEMMA HitsAsFunction ==
  ASSUME ScoreInv, CompleteApi, NEW n, NEW a, NEW h,
         n = Len(key.endpoints), a = Len(answer.endpoints),
         h = [i \in 1 .. n |-> records[i].hit]
  PROVE  /\ n \in Nat /\ a \in Nat /\ h \in [1 .. n -> 0 .. a]
         /\ DOMAIN key.endpoints = 1 .. n /\ DOMAIN answer.endpoints = 1 .. a
         /\ DOMAIN records = 1 .. n
         /\ \A i \in 1 .. n : h[i] # 0 => Alike(i, h[i])
         /\ \A i, k \in 1 .. n : h[i] # 0 /\ h[i] = h[k] => i = k
         /\ \A i \in 1 .. n : records[i] = MatchRecord(key, answer, i, h[i])
         /\ PathsDiffer => \A i \in 1 .. n, j \in 1 .. a : Alike(i, j) => h[i] = j
<1>1. /\ MatchInv /\ Len(records) = Len(key.endpoints)
      /\ key.endpoints \in Calls /\ answer.endpoints \in Calls
  BY FullScoreOfMatching
<1>2. /\ n \in Nat /\ a \in Nat
      /\ DOMAIN key.endpoints = 1 .. n /\ DOMAIN answer.endpoints = 1 .. a
      /\ DOMAIN records = 1 .. n
  BY <1>1 DEF Calls, MatchInv
<1>3. \A i \in 1 .. n : PairedWell(i) /\ h[i] = records[i].hit
  BY <1>1, <1>2 DEF MatchInv
<1>4. ASSUME NEW i \in 1 .. n PROVE h[i] \in 0 .. a /\ (h[i] # 0 => h[i] \in 1 .. a)
  <2>1. h[i] # 0 => h[i] \in DOMAIN answer.endpoints
    BY <1>3 DEF PairedWell, NoHit
  <2> QED BY <1>2, <2>1
<1>5. /\ \A i \in 1 .. n : h[i] # 0 => Alike(i, h[i])
      /\ \A i, k \in 1 .. n : h[i] # 0 /\ h[i] = h[k] => i = k
      /\ \A i \in 1 .. n : records[i] = MatchRecord(key, answer, i, h[i])
  BY <1>2, <1>3 DEF PairedWell, NoHit
<1>6. ASSUME PathsDiffer, NEW i \in 1 .. n, NEW j \in 1 .. a, Alike(i, j)
      PROVE  h[i] = j
  <2>1. \A k \in 1 .. n : Alike(k, j) => k = i
    BY <1>2, <1>6 DEF PathsDiffer, Alike
  <2>2. \A k \in 1 .. a : Alike(i, k) => k = j
    BY <1>2, <1>6 DEF PathsDiffer, Alike
  <2>3. CASE h[i] = 0
    <3>1. PICK k \in 1 .. n : h[k] = j
      BY <1>2, <1>3, <1>6, <2>3 DEF PairedWell, NoHit
    <3>2. Alike(k, j)
      <4>1. j # 0
        BY <1>2, <1>6
      <4>2. Alike(k, h[k])
        BY <1>5, <3>1, <4>1
      <4> QED BY <3>1, <4>2
    <3>3. k = i
      BY <2>1, <3>1, <3>2
    <3> QED BY <3>1, <3>3
  <2>4. CASE h[i] # 0
    <3>1. h[i] \in 1 .. a
      BY <1>2, <1>4, <1>6, <2>4
    <3>2. Alike(i, h[i])
      BY <1>5, <2>4
    <3> QED BY <2>2, <3>1, <3>2
  <2> QED BY <2>3, <2>4
<1> QED BY <1>2, <1>4, <1>5, <1>6

\* Whether calls are paired for their method or for their version, what the
\* records credit is a pairing, and a largest one where the paths differ.
THEOREM CreditsAreDeserved == Spec => []CreditIsDeserved
<1>1. ASSUME ScoreInv, CompleteApi
      PROVE  /\ Deserved(SameMethod, score.method.got)
             /\ Deserved(AcceptedVersion, score.api_version.got)
  <2>1. PICK n, a, h : /\ n = Len(key.endpoints) /\ a = Len(answer.endpoints)
                       /\ h = [i \in 1 .. n |-> records[i].hit]
    OBVIOUS
  <2>2. /\ n \in Nat /\ a \in Nat /\ h \in [1 .. n -> 0 .. a]
        /\ DOMAIN key.endpoints = 1 .. n /\ DOMAIN answer.endpoints = 1 .. a
        /\ DOMAIN records = 1 .. n
        /\ \A i \in 1 .. n : h[i] # 0 => Alike(i, h[i])
        /\ \A i, k \in 1 .. n : h[i] # 0 /\ h[i] = h[k] => i = k
        /\ \A i \in 1 .. n : records[i] = MatchRecord(key, answer, i, h[i])
        /\ PathsDiffer => \A i \in 1 .. n, j \in 1 .. a : Alike(i, j) => h[i] = j
    BY <1>1, <2>1, HitsAsFunction
  <2>3. \A i \in 1 .. n :
          /\ records[i].methodOk <=> h[i] # 0 /\ SameMethod(i, h[i])
          /\ records[i].versionOk <=> h[i] # 0 /\ AcceptedVersion(i, h[i])
    BY <2>2, CreditOfRecord DEF NoHit, SameMethod, AcceptedVersion
  <2>4. score = ApiScores(key, answer, records)
    BY <1>1, FullScoreOfMatching
  <2> DEFINE M == {i \in DOMAIN records : records[i].methodOk}
             V == {i \in DOMAIN records : records[i].versionOk}
             Pairs(C) == {<<i, h[i]>> : i \in C}
  <2>5. score.method.got = Cardinality(M) /\ score.api_version.got = Cardinality(V)
    BY <2>4 DEF ApiScores, Share
  <2>6. /\ M \in SUBSET (1 .. n) /\ \A i \in M : h[i] # 0
        /\ V \in SUBSET (1 .. n) /\ \A i \in V : h[i] # 0
    BY <2>2, <2>3
  <2>7. ASSUME NEW C \in {M, V}
        PROVE  /\ Pairs(C) \in SUBSET (C \X (1 .. a))
               /\ \A p, q \in Pairs(C) : p[1] = q[1] <=> p[2] = q[2]
               /\ IsFiniteSet(C) /\ Cardinality(Pairs(C)) = Cardinality(C)
    <3>1. C \in SUBSET (1 .. n) /\ \A i \in C : h[i] # 0
      BY <2>6
    <3>2. \A i, k \in 1 .. n : h[i] # 0 /\ h[i] = h[k] => i = k
      BY <2>2
    <3> HIDE DEF M, V
    <3>3. PICK H : H = Pairs(C)
      OBVIOUS
    <3>4. PairsOf(H, C, h, n, a)
      BY <2>2, <3>1, <3>2, <3>3 DEF PairsOf
    <3> HIDE DEF Pairs
    <3> QED BY <3>3, <3>4, CreditedArePaired
  <2>8. Deserved(SameMethod, score.method.got)
    <3>1. \A p \in Pairs(M) : SameMethod(p[1], p[2]) /\ p \in (1 .. n) \X (1 .. a)
      BY <2>2, <2>3
    <3>2. Pairs(M) \in Matchings(SameMethod) /\ Cardinality(Pairs(M)) = score.method.got
      BY <2>2, <2>5, <2>7, <3>1 DEF Matchings
    <3>3. ASSUME PathsDiffer, NEW m \in Matchings(SameMethod)
          PROVE  Cardinality(m) <= score.method.got
      <4>1. \A p \in m : /\ p \in (1 .. n) \X (1 .. a) /\ SameMethod(p[1], p[2])
        BY <2>2, <3>3 DEF Matchings
      <4>2. ASSUME NEW p \in m PROVE p[1] \in M
        <5>1. p[1] \in 1 .. n /\ p[2] \in 1 .. a /\ SameMethod(p[1], p[2])
          BY <4>1
        <5>2. Alike(p[1], p[2])
          BY <5>1 DEF SameMethod
        <5>3. h[p[1]] = p[2] /\ p[2] # 0
          BY <2>2, <3>3, <5>1, <5>2
        <5> QED BY <2>2, <2>3, <5>1, <5>3
      <4>3. m \in SUBSET (M \X (1 .. a)) /\ \A p, q \in m : p[1] = q[1] <=> p[2] = q[2]
        BY <3>3, <4>1, <4>2 DEF Matchings
      <4> HIDE DEF M
      <4> QED BY <2>5, <2>7, <4>3, PairedAreCredited
    <3> QED BY <3>2, <3>3 DEF Deserved
  <2>9. Deserved(AcceptedVersion, score.api_version.got)
    <3>1. \A p \in Pairs(V) : AcceptedVersion(p[1], p[2]) /\ p \in (1 .. n) \X (1 .. a)
      BY <2>2, <2>3
    <3>2. /\ Pairs(V) \in Matchings(AcceptedVersion)
          /\ Cardinality(Pairs(V)) = score.api_version.got
      BY <2>2, <2>5, <2>7, <3>1 DEF Matchings
    <3>3. ASSUME PathsDiffer, NEW m \in Matchings(AcceptedVersion)
          PROVE  Cardinality(m) <= score.api_version.got
      <4>1. \A p \in m : /\ p \in (1 .. n) \X (1 .. a) /\ AcceptedVersion(p[1], p[2])
        BY <2>2, <3>3 DEF Matchings
      <4>2. ASSUME NEW p \in m PROVE p[1] \in V
        <5>1. p[1] \in 1 .. n /\ p[2] \in 1 .. a /\ AcceptedVersion(p[1], p[2])
          BY <4>1
        <5>2. Alike(p[1], p[2])
          BY <5>1 DEF AcceptedVersion
        <5>3. h[p[1]] = p[2] /\ p[2] # 0
          BY <2>2, <3>3, <5>1, <5>2
        <5> QED BY <2>2, <2>3, <5>1, <5>3
      <4>3. m \in SUBSET (V \X (1 .. a)) /\ \A p, q \in m : p[1] = q[1] <=> p[2] = q[2]
        BY <3>3, <4>1, <4>2 DEF Matchings
      <4> HIDE DEF V
      <4> QED BY <2>5, <2>7, <4>3, PairedAreCredited
    <3> QED BY <3>2, <3>3 DEF Deserved
  <2> QED BY <2>8, <2>9
<1>2. ASSUME ScoreInv, Complete, task.cohort = "docs"
      PROVE  LET exhibit == DocsExhibit(key, answer)
                 Hedged(required, text) == ~VersionSatisfies(required, <<text[1]>>)
             IN /\ score.firmware_version.got = 1 =>
                     (Hedged(key.firmware, answer.firmware) => exhibit.firmwareHedge > 1)
                /\ score.software_version.got = 1 =>
                     (Hedged(key.software, answer.software) => exhibit.softwareHedge > 1)
  <2>1. score = DocsScores(key, answer)
    BY <1>2 DEF ScoreInv, Complete, Scored
  <2>2. {answer.firmware, answer.software, key.firmware, key.software} \subseteq VersionText
    BY <1>2, TasksAssumption DEF ScoreInv, Complete, Answering, key
  <2>3. /\ score.firmware_version = VersionScore(key.firmware, answer.firmware)
        /\ score.software_version = VersionScore(key.software, answer.software)
    BY <2>1 DEF DocsScores
  <2>4. /\ DocsExhibit(key, answer).firmwareHedge = HedgeCount(answer.firmware)
        /\ DocsExhibit(key, answer).softwareHedge = HedgeCount(answer.software)
    BY DEF DocsExhibit
  <2> QED BY <2>2, <2>3, <2>4, HedgeIsCounted
<1>3. ScoreInv => CreditIsDeserved
  BY <1>1, <1>2 DEF CreditIsDeserved, CompleteApi
<1> QED BY <1>3, ScoresByTheBook, PTL

\* The first call written like a matched one was matched: had it been passed
\* over, it would have been paired with another call of the key.
THEOREM LabelComesFromMatch == Spec => []LabelledByMatch
<1>1. ScoreInv => LabelledByMatch
  <2> SUFFICES ASSUME ScoreInv, pc = "labelled"
               PROVE  IF used = {} THEN label = "no-match"
                      ELSE \E j \in used : label = ClassifyEndpoint(task.surfaces, answer.endpoints[j])
    BY DEF LabelledByMatch
  <2>1. MatchInv /\ label = LabelOf
    BY DEF ScoreInv, Answering
  <2> DEFINE Written(j) == NormalizePath(answer.endpoints[j].path)
             W == WrittenLikeMatch
  <2>2. \A j : j \in W <=> /\ j \in DOMAIN answer.endpoints
                           /\ \E i \in DOMAIN records :
                                records[i].hit # NoHit /\ Written(j) = Written(records[i].hit)
    BY DEF WrittenLikeMatch
  <2>3. \A j : j \in used <=> j # NoHit /\ \E i \in DOMAIN records : records[i].hit = j
    BY <2>1 DEF MatchInv
  <2>4. \A i \in DOMAIN records : PairedWell(i)
    BY <2>1 DEF MatchInv
  <2>5. \A j \in DOMAIN answer.endpoints : j \in Nat
    BY <2>1 DEF MatchInv, Calls
  <2> HIDE DEF W
  <2>6. CASE used = {}
    <3>1. W = {}
      BY <2>2, <2>3, <2>6
    <3> QED BY <2>1, <2>6, <3>1 DEF LabelOf, W
  <2>7. CASE used # {}
    <3>1. \A j \in used : j \in W
      BY <2>2, <2>3, <2>4 DEF PairedWell
    <3>2. W \in SUBSET Nat /\ W # {}
      BY <2>2, <2>5, <2>7, <3>1
    <3>3. PICK first : first = Min(W) /\ first \in W /\ \A j \in W : first <= j
      BY <3>2, MinOfNat
    <3>4. PICK i \in DOMAIN records : /\ records[i].hit # NoHit
                                      /\ Written(first) = Written(records[i].hit)
      BY <2>2, <3>3
    <3>5. first \in used
      <4>1. records[i].hit \in used /\ PairedWell(i)
        BY <2>3, <2>4, <3>4
      <4>2. first <= records[i].hit /\ records[i].hit \in Nat /\ first \in Nat
        BY <3>1, <3>2, <3>3, <4>1
      <4>3. CASE first = records[i].hit
        BY <4>1, <4>3
      <4>4. CASE first < records[i].hit
        <5>1. Alike(i, first)
          BY <3>4, <4>1 DEF PairedWell, Alike, Comparable
        <5>2. first \in DOMAIN answer.endpoints
          BY <2>2, <3>3
        <5>3. \E k \in DOMAIN records : records[k].hit = first
          BY <4>1, <4>4, <5>1, <5>2 DEF PairedWell
        <5>4. first # NoHit
          BY <2>1, <5>2 DEF MatchInv, Calls, NoHit
        <5> QED BY <2>3, <5>3, <5>4
      <4> QED BY <4>2, <4>3, <4>4
    <3>6. label = ClassifyEndpoint(task.surfaces, answer.endpoints[first])
      BY <2>1, <3>2, <3>3 DEF LabelOf, LabelledCall, W
    <3> QED BY <2>7, <3>5, <3>6
  <2> QED BY <2>6, <2>7
<1> QED BY <1>1, ScoresByTheBook, PTL

\* The sentinel rule of the gate is what keeps "no version" from being credited.
LEMMA NoVersionAlternate ==
  ASSUME VersionAlternateProblems(key) = {}
  PROVE  NoVersion \notin {Canon[v] : v \in DeclaredVersionAlternates(key)}
<1> SUFFICES ASSUME NEW v \in DeclaredVersionAlternates(key), Canon[v] = NoVersion
             PROVE  VersionAlternateProblems(key) # {}
  OBVIOUS
<1> DEFINE entries == key.versionAlternates
<1>1. PICK e \in ToSet(Declared(entries)) : e.form = "mapping" /\ e.version # Missing /\ e.version = v
  BY DEF DeclaredVersionAlternates
<1>2. entries # NotDeclared /\ Declared(entries) = entries
  <2>1. CASE entries = NotDeclared
    <3>1. ToSet(Declared(entries)) = {}
      BY <2>1 DEF Declared, ToSet
    <3> QED BY <1>1, <3>1
  <2>2. CASE entries # NotDeclared
    BY <2>2 DEF Declared
  <2> QED BY <2>1, <2>2
<1>3. PICK i \in DOMAIN entries : entries[i] = e
  BY <1>1, <1>2 DEF ToSet
<1>4. "sentinel" \in VersionEntryProblems(key, i)
  BY <1>1, <1>3 DEF VersionEntryProblems, Flag
<1>5. entries # <<>>
  BY <1>3
<1> HIDE DEF entries
<1>6. VersionAlternateProblems(key) = UNION {VersionEntryProblems(key, k) : k \in DOMAIN entries}
  BY <1>2, <1>5 DEF VersionAlternateProblems, entries
<1> QED BY <1>3, <1>4, <1>6

\* Whatever a key declares and an answer leaves out, the gate's rules suffice.
THEOREM SilenceIsNotCredited == Spec => []SilenceEarnsNothing
<1>1. ASSUME ScoreInv, CompleteApi, ApiRoundTripProblems(key) = {}
      PROVE  /\ answer.auth = {} => score.auth_flow.got = 0
             /\ answer.scopes = {} => score.required_scopes.got = 0
             /\ answer.parameters = {} => score.key_parameters.got = 0
             /\ \A i \in DOMAIN records :
                  records[i].versionOk =>
                    \/ Canon[answer.endpoints[records[i].hit].version] # NoVersion
                    \/ Canon[key.endpoints[i].version] = NoVersion
  <2>1. score = ApiScores(key, answer, records) /\ MatchInv
    BY <1>1, FullScoreOfMatching
  <2>2. RequiredStyle(key.auth) # Unknown /\ VersionAlternateProblems(key) = {}
    BY <1>1 DEF ApiRoundTripProblems, Flag
  <2>3. answer.auth = {} => score.auth_flow.got = 0
    <3>1. answer.auth = {} => ~AuthFlowMatches(key, answer.auth)
      BY <2>2 DEF AuthFlowMatches
    <3>2. score.auth_flow = IF key.uncorroborated THEN NotApplicable
                            ELSE Whole(AuthFlowMatches(key, answer.auth))
      BY <2>1 DEF ApiScores
    <3> QED BY <3>1, <3>2 DEF NotApplicable, Whole
  <2>4. answer.scopes = {} => score.required_scopes.got = 0
    <3>1. score.required_scopes = IF key.scopes = {} THEN NotApplicable
                                  ELSE Whole(key.scopes \cap answer.scopes # {})
      BY <2>1 DEF ApiScores
    <3> QED BY <3>1 DEF NotApplicable, Whole
  <2>5. answer.parameters = {} => score.key_parameters.got = 0
    <3>1. score.key_parameters = IF key.required = {} THEN NotApplicable
                                 ELSE Whole(\A p \in key.required : NamesParameter(p, answer.parameters))
      BY <2>1 DEF ApiScores
    <3>2. answer.parameters = {} => \A p : ~NamesParameter(p, answer.parameters)
      BY DEF NamesParameter
    <3> QED BY <3>1, <3>2 DEF NotApplicable, Whole
  <2>6. ASSUME NEW i \in DOMAIN records, records[i].versionOk,
               Canon[answer.endpoints[records[i].hit].version] = NoVersion
        PROVE  Canon[key.endpoints[i].version] = NoVersion
    <3>1. records[i] = MatchRecord(key, answer, i, records[i].hit)
      BY <2>1 DEF MatchInv, PairedWell
    <3>2. records[i].hit # NoHit
      BY <2>6, <3>1 DEF MatchRecord
    <3>3. NoVersion \notin {Canon[v] : v \in DeclaredVersionAlternates(key)}
      BY <2>2, NoVersionAlternate
    <3> QED BY <2>6, <3>1, <3>2, <3>3, CreditOfRecord
  <2> QED BY <2>3, <2>4, <2>5, <2>6
<1>2. ASSUME ScoreInv, Complete, task.cohort = "docs"
      PROVE  /\ answer.catalog = {} => score.catalog_number.got = 0
             /\ answer.firmware = NotDeclared => score.firmware_version.got = 0
             /\ answer.software = NotDeclared => score.software_version.got = 0
  <2>1. score = DocsScores(key, answer)
    BY <1>2 DEF ScoreInv, Complete, Scored
  <2>2. answer.catalog = {} => score.catalog_number.got = 0
    BY <2>1 DEF DocsScores, NotApplicable, Whole
  <2>3. \A required : ~VersionSatisfies(required, NotDeclared)
    <3>1. DOMAIN Named(NotDeclared) = {}
      BY DEF Named
    <3> QED BY <3>1 DEF VersionSatisfies
  <2>4. \A required : VersionScore(required, NotDeclared).got = 0
    BY <2>3 DEF VersionScore, NotApplicable, Whole
  <2>5. /\ score.firmware_version = VersionScore(key.firmware, answer.firmware)
        /\ score.software_version = VersionScore(key.software, answer.software)
    BY <2>1 DEF DocsScores
  <2> QED BY <2>2, <2>4, <2>5
<1>3. ScoreInv => SilenceEarnsNothing
  <2>1. ScoreInv => task.cohort \in {"api", "docs"}
    BY KeyIsTyped DEF ScoreInv
  <2> QED BY <1>1, <1>2, <2>1 DEF SilenceEarnsNothing, CompleteApi, RoundTripProblems
<1> QED BY <1>3, ScoresByTheBook, PTL

\* The style a text requires is one that it mentions.
LEMMA RequiredIsMentioned ==
  ASSUME NEW mentioned, mentioned \subseteq KnownStyles, RequiredStyle(mentioned) # Unknown
  PROVE  RequiredStyle(mentioned) \in mentioned
<1> DEFINE I == {i \in DOMAIN Styles : Styles[i] \in mentioned}
<1>1. mentioned # {} /\ RequiredStyle(mentioned) = Styles[Min(I)]
  BY DEF RequiredStyle
<1>2. I # {}
  BY <1>1 DEF KnownStyles, ToSet
<1>3. I \in SUBSET Nat
  BY ScorerAssumption
<1> HIDE DEF I
<1>4. Min(I) \in I
  BY <1>2, <1>3, MinOfNat
<1> QED BY <1>1, <1>4 DEF I

LEMMA AllServed ==
  ASSUME NEW s \in Seq(Record), NEW T, T = DOMAIN s
  PROVE  Share(s, T) = [got |-> Len(s), of |-> Len(s)]
<1>1. T = 1 .. Len(s) /\ Len(s) \in Nat
  OBVIOUS
<1>2. Cardinality(1 .. Len(s)) = Len(s)
  BY <1>1, FS_Interval
<1> QED BY <1>1, <1>2 DEF Share

\* The key's own calls, each paired with itself.
LEMMA OwnCallsServed ==
  ASSUME ScoreInv, CompleteApi, Owned
  PROVE  /\ score.endpoint.got = score.endpoint.of
         /\ score.method.got = score.method.of
         /\ score.api_version.got = score.api_version.of
<1>1. MatchInv /\ score = ApiScores(key, answer, records)
  BY FullScoreOfMatching
<1>2. answer = AnswerFromKey /\ \A i \in DOMAIN records : records[i].hit = i
  BY DEF ScoreInv, CompleteApi, Complete, Answering, OwnAnswer
<1>3. answer.endpoints = key.endpoints
  BY <1>2 DEF CompleteApi, AnswerFromKey, ApiAnswerFromKey
<1>4. records \in Seq(Record) /\ \A i \in DOMAIN records : i # NoHit
  BY <1>1 DEF MatchInv, NoHit
<1>5. ASSUME NEW i \in DOMAIN records
      PROVE  records[i].hit # NoHit /\ records[i].methodOk /\ records[i].versionOk
  <2>1. records[i] = MatchRecord(key, answer, i, i)
    BY <1>1, <1>2 DEF MatchInv, PairedWell
  <2>2. records[i].hit # NoHit
    BY <1>2, <1>4
  <2>3. records[i] = [hit |-> i, methodOk |-> TRUE, versionOk |-> TRUE, viaAlternate |-> FALSE]
    BY <1>3, <1>4, <2>1 DEF MatchRecord
  <2>4. records[i].methodOk /\ records[i].versionOk
    BY <2>3
  <2> QED BY <2>2, <2>4
<1>6. /\ {i \in DOMAIN records : records[i].hit # NoHit} = DOMAIN records
      /\ {i \in DOMAIN records : records[i].methodOk} = DOMAIN records
      /\ {i \in DOMAIN records : records[i].versionOk} = DOMAIN records
  BY <1>5
<1>7. Share(records, DOMAIN records) = [got |-> Len(records), of |-> Len(records)]
  BY <1>4, AllServed
<1> QED BY <1>1, <1>6, <1>7 DEF ApiScores

\* The key's own words.
LEMMA OwnWordsServed ==
  ASSUME ScoreInv, CompleteApi, Owned
  PROVE  \A d \in {"auth_flow", "required_scopes", "key_parameters"} :
           Applicable(score[d]) => score[d].got = score[d].of
<1>1. score = ApiScores(key, answer, records) /\ answer = ApiAnswerFromKey(key)
  BY FullScoreOfMatching
     DEF ScoreInv, CompleteApi, Complete, Answering, OwnAnswer, AnswerFromKey
<1>2. key.auth \subseteq KnownStyles /\ key.required \subseteq Seq(STRING)
  BY TasksAssumption DEF ScoreInv, CompleteApi, key
<1>3. /\ answer.auth = key.auth /\ answer.scopes = key.scopes
      /\ key.required \subseteq answer.parameters
  BY <1>1 DEF ApiAnswerFromKey
<1>4. AuthFlowMatches(key, answer.auth)
  BY <1>2, <1>3, RequiredIsMentioned DEF AuthFlowMatches
<1>5. key.scopes # {} => key.scopes \cap answer.scopes # {}
  BY <1>3
<1>6. \A p \in key.required : NamesParameter(p, answer.parameters)
  <2> SUFFICES ASSUME NEW p \in key.required PROVE IsPrefix(p, p)
    BY <1>3 DEF NamesParameter
  <2>1. p \in Seq(STRING)
    BY <1>2
  <2>2. Len(p) \in Nat
    BY <2>1
  <2> QED BY <2>2 DEF IsPrefix
<1>7. Applicable(score.auth_flow) => score.auth_flow = Whole(AuthFlowMatches(key, answer.auth))
  BY <1>1 DEF ApiScores, Applicable, NotApplicable
<1>8. Applicable(score.required_scopes) => score.required_scopes = Whole(TRUE)
  BY <1>1, <1>5 DEF ApiScores, Applicable, NotApplicable
<1>9. Applicable(score.key_parameters) => score.key_parameters = Whole(TRUE)
  BY <1>1, <1>6 DEF ApiScores, Applicable, NotApplicable
<1> QED BY <1>4, <1>7, <1>8, <1>9 DEF Whole

LEMMA OwnVersionServed ==
  ASSUME NEW text \in VersionText, Named(text) # <<>>
  PROVE  VersionScore(text, text).got = VersionScore(text, text).of
<1>1. text # NotDeclared /\ Named(text) = text /\ text \in Seq(Seq(Nat))
  BY DEF Named, VersionText
<1>2. 1 \in DOMAIN text /\ text[1] \in Seq(Nat)
  BY <1>1
<1>3. IsPrefix(text[1], text[1])
  <2>1. Len(text[1]) \in Nat
    BY <1>2
  <2> QED BY <2>1 DEF IsPrefix
<1>4. VersionSatisfies(text, text)
  BY <1>1, <1>2, <1>3 DEF VersionSatisfies
<1> QED BY <1>1, <1>4 DEF VersionScore, Whole

\* Both paths of the round-trip control, for every key: where the answer scored
\* is the key's own it gets all there is, and it is the key's own unless a block
\* cannot say the key.
THEOREM KeysScoreFull == Spec => []KeyScoresFull
<1>1. ASSUME ScoreInv, CompleteApi, Owned PROVE Collect(score) = {}
  <2>1. score = ApiScores(key, answer, records)
    BY <1>1, FullScoreOfMatching
  <2>2. DOMAIN score = {"endpoint", "method", "api_version", "auth_flow", "required_scopes",
                        "key_parameters"}
    BY <2>1 DEF ApiScores
  <2> QED BY <1>1, <2>2, OwnCallsServed, OwnWordsServed DEF Collect
<1>2. ASSUME ScoreInv, Complete, task.cohort = "docs", Owned, Collect(score) # {}
      PROVE  NamesNoVersion(key.firmware) \/ NamesNoVersion(key.software)
  <2>1. score = DocsScores(key, answer) /\ answer = DocsAnswerFromKey(key)
    BY <1>2 DEF ScoreInv, Complete, Scored, Answering, OwnAnswer, AnswerFromKey
  <2>2. {key.firmware, key.software} \subseteq VersionText
    BY <1>2, TasksAssumption DEF ScoreInv, key
  <2>3. /\ DOMAIN score = {"catalog_number", "firmware_version", "software_version"}
        /\ score.firmware_version = VersionScore(key.firmware, key.firmware)
        /\ score.software_version = VersionScore(key.software, key.software)
        /\ score.catalog_number = IF key.catalog = {} THEN NotApplicable
                                  ELSE Whole(key.catalog \cap key.catalog # {})
    BY <2>1 DEF DocsScores, DocsAnswerFromKey
  <2>4. PICK d \in DOMAIN score : Applicable(score[d]) /\ score[d].got # score[d].of
    BY <1>2 DEF Collect
  <2>5. d # "catalog_number"
    BY <2>3, <2>4 DEF Applicable, NotApplicable, Whole
  <2>6. PICK text \in {key.firmware, key.software} : score[d] = VersionScore(text, text)
    BY <2>3, <2>5
  <2>7. text # NotDeclared
    BY <2>4, <2>6 DEF VersionScore, Applicable, NotApplicable
  <2>8. Named(text) = <<>>
    BY <2>2, <2>4, <2>6, OwnVersionServed
  <2> QED BY <1>2, <2>6, <2>7, <2>8 DEF NamesNoVersion
<1>3. ScoreInv => KeyScoresFull
  <2> SUFFICES ASSUME ScoreInv, asker # "run" PROVE KeyScoresFull
    BY DEF KeyScoresFull
  <2>1. task.cohort \in {"api", "docs"}
    BY KeyIsTyped DEF ScoreInv
  <2>2. Complete => Collect(score) \subseteq problems
    BY DEF ScoreInv, Complete
  <2>3. Owned \/ (asker = "parsed" /\ ~Expressible)
    BY DEF ScoreInv, Owned
  <2>4. pc = "failed" => FailureIsReported
    BY DEF ScoreInv
  <2> QED BY <1>1, <1>2, <2>1, <2>2, <2>3, <2>4
        DEF KeyScoresFull, CompleteApi, FailureIsReported
<1> QED BY <1>3, ScoresByTheBook, PTL

-----------------------------------------------------------------------------
(***************************************************************************)
(* The label of a run: what names a surface, and in which order it was     *)
(* declared.                                                               *)
(***************************************************************************)

\* The numbers by which surfaces are listed, and another order of them.
Index(D) == IsFiniteSet(D) /\ D \in SUBSET (Nat \ {0})

Permutes(p, D) ==
  /\ p \in [D -> D]
  /\ \A i, j \in D : p[i] = p[j] => i = j
  /\ \A t \in D : \E i \in D : p[i] = t

\* A set with one member is that member.
LEMMA OneMember ==
  ASSUME NEW D, Index(D), NEW S \in SUBSET D, Cardinality(S) = 1
  PROVE  S = {Min(S)} /\ Min(S) \in D
<1>1. IsFiniteSet(S)
  BY FS_Subset DEF Index
<1>2. S # {}
  BY FS_EmptySet
<1>3. S \in SUBSET Nat
  BY DEF Index
<1>4. Min(S) \in S
  BY <1>2, <1>3, MinOfNat
<1>5. \A x \in S : x = Min(S)
  <2> SUFFICES ASSUME NEW x \in S, x # Min(S) PROVE FALSE
    OBVIOUS
  <2> QED BY <1>1, <1>4, TwoMembers
<1> QED BY <1>4, <1>5

Hits(surfaces, candidates, versions) ==
  {i \in candidates : Marked(surfaces[i], Stated(versions))}

\* What Sole finds is the one candidate that is marked.
LEMMA SoleIsOnlyHit ==
  ASSUME NEW D, Index(D), NEW candidates, candidates \in SUBSET D, NEW surfaces, NEW versions
  PROVE  /\ Sole(surfaces, candidates, versions) # 0 =>
              /\ Sole(surfaces, candidates, versions) \in candidates
              /\ Hits(surfaces, candidates, versions) = {Sole(surfaces, candidates, versions)}
         /\ Sole(surfaces, candidates, versions) = 0 =>
              Cardinality(Hits(surfaces, candidates, versions)) # 1
<1> DEFINE hits == Hits(surfaces, candidates, versions)
<1>1. Sole(surfaces, candidates, versions) = IF Cardinality(hits) = 1 THEN Min(hits) ELSE 0
  BY DEF Sole, Hits
<1>2. hits \in SUBSET D /\ hits \subseteq candidates
  BY DEF Hits
<1> HIDE DEF hits
<1>3. Cardinality(hits) = 1 => hits = {Min(hits)} /\ Min(hits) \in D
  BY <1>2, OneMember
<1>4. 0 \notin D
  BY DEF Index
<1> QED BY <1>1, <1>2, <1>3, <1>4 DEF hits

\* Where the declaration lists what p takes to a member of T.
Back(p, D, T) == {i \in D : p[i] \in T}

LEMMA BackCounts ==
  ASSUME NEW D, Index(D), NEW p, Permutes(p, D), NEW T, T \in SUBSET D
  PROVE  Cardinality(Back(p, D, T)) = Cardinality(T)
<1> DEFINE S == Back(p, D, T)
           f == [i \in S |-> p[i]]
<1>1. S \subseteq D /\ \A i \in S : p[i] \in T
  BY DEF Back
<1>2. f \in [S -> T]
  BY <1>1
<1>3. \A i, j \in S : f[i] = f[j] => i = j
  BY <1>1 DEF Permutes
<1>4. \A t \in T : \E i \in S : f[i] = t
  <2> TAKE t \in T
  <2>1. PICK i \in D : p[i] = t
    BY DEF Permutes
  <2>2. i \in S
    BY <2>1 DEF Back
  <2> QED BY <2>1, <2>2
<1>5. IsFiniteSet(S)
  BY <1>1, FS_Subset DEF Index
<1> HIDE DEF f, S
<1>6. f \in Bijection(S, T)
  BY <1>2, <1>3, <1>4 DEF Bijection, Injection, Surjection, IsInjective
<1>7. ExistsBijection(S, T)
  BY <1>6 DEF ExistsBijection
<1> QED BY <1>5, <1>7, FS_Bijection DEF S

\* A sole hit stays the sole hit, wherever it is declared.
LEMMA SoleIsReordered ==
  ASSUME NEW D, Index(D), NEW p, Permutes(p, D),
         NEW surfaces, NEW order, \A i \in D : order[i] = surfaces[p[i]],
         NEW candidates, candidates \in SUBSET D, NEW versions
  PROVE  /\ Sole(surfaces, candidates, versions) = 0 <=>
              Sole(order, Back(p, D, candidates), versions) = 0
         /\ Sole(surfaces, candidates, versions) # 0 =>
              /\ Sole(order, Back(p, D, candidates), versions) \in D
              /\ p[Sole(order, Back(p, D, candidates), versions)]
                   = Sole(surfaces, candidates, versions)
<1> DEFINE there == Back(p, D, candidates)
           hits == Hits(surfaces, candidates, versions)
           sole == Sole(surfaces, candidates, versions)
           moved == Sole(order, there, versions)
           found == Hits(order, there, versions)
<1>1. there \in SUBSET D
  BY DEF Back
<1>2. found = Back(p, D, hits)
  BY DEF Hits, Back, Permutes
<1>3. hits \in SUBSET D
  BY DEF Hits
<1>4. /\ sole # 0 => sole \in candidates /\ hits = {sole}
      /\ sole = 0 => Cardinality(hits) # 1
  BY SoleIsOnlyHit
<1> HIDE DEF there
<1>5. /\ moved # 0 => moved \in there /\ found = {moved}
      /\ moved = 0 => Cardinality(found) # 1
  BY <1>1, SoleIsOnlyHit
<1> HIDE DEF hits, sole, moved, found
<1>6. Cardinality(found) = Cardinality(hits)
  BY <1>2, <1>3, BackCounts
<1>7. \A x : Cardinality({x}) = 1
  BY FS_Singleton
<1>8. sole = 0 <=> moved = 0
  BY <1>4, <1>5, <1>6, <1>7
<1>9. sole # 0 => moved \in D /\ p[moved] \in hits
  BY <1>1, <1>2, <1>5, <1>8 DEF Back
<1> QED BY <1>4, <1>8, <1>9 DEF sole, moved, there

LEMMA PublishersAreReordered ==
  ASSUME NEW D, NEW p, Permutes(p, D),
         NEW surfaces, DOMAIN surfaces = D,
         NEW order, DOMAIN order = D, \A i \in D : order[i] = surfaces[p[i]],
         NEW endpoint
  PROVE  Publishers(order, endpoint) = Back(p, D, Publishers(surfaces, endpoint))
BY DEF Publishers, Back, Permutes

\* Another order of the same declaration.
Shuffles(order, surfaces, p, D) ==
  /\ Index(D) /\ Permutes(p, D)
  /\ DOMAIN surfaces = D /\ DOMAIN order = D
  /\ \A i \in D : order[i] = surfaces[p[i]]

LEMMA ResourceIsReordered ==
  ASSUME NEW surfaces, NEW order, NEW p, NEW D, Shuffles(order, surfaces, p, D),
         NEW c \in D, NEW m \in D, p[m] = c, NEW versions
  PROVE  ClassifyByResource(order, m, versions) = ClassifyByResource(surfaces, c, versions)
<1> DEFINE others == {i \in D : surfaces[i].id # surfaces[c].id}
           moved == {i \in D : order[i].id # order[m].id}
<1>1. order[m] = surfaces[c]
  BY DEF Shuffles
<1>2. moved = Back(p, D, others)
  BY <1>1 DEF Back, Shuffles, Permutes
<1>3. others \in SUBSET D
  OBVIOUS
<1>4. ClassifyByResource(surfaces, c, versions) =
        IF /\ surfaces[c].markers # {}
           /\ Sole(surfaces, others, versions) # 0
           /\ ~Marked(surfaces[c], versions)
        THEN "conflicted" ELSE surfaces[c].id
  BY DEF ClassifyByResource, Shuffles
<1>5. ClassifyByResource(order, m, versions) =
        IF /\ order[m].markers # {}
           /\ Sole(order, moved, versions) # 0
           /\ ~Marked(order[m], versions)
        THEN "conflicted" ELSE order[m].id
  BY DEF ClassifyByResource, Shuffles
<1> HIDE DEF others, moved
<1>6. Sole(order, moved, versions) = 0 <=> Sole(surfaces, others, versions) = 0
  BY <1>2, <1>3, SoleIsReordered DEF Shuffles
<1> QED BY <1>1, <1>4, <1>5, <1>6

LEMMA VersionIsReordered ==
  ASSUME NEW surfaces, NEW order, NEW p, NEW D, Shuffles(order, surfaces, p, D),
         NEW candidates, candidates \in SUBSET D, NEW inPath, NEW inField
  PROVE  ClassifyByVersion(order, Back(p, D, candidates), inPath, inField)
           = ClassifyByVersion(surfaces, candidates, inPath, inField)
<1> DEFINE there == Back(p, D, candidates)
           byPath == Sole(surfaces, candidates, inPath)
           byField == Sole(surfaces, candidates, inField)
           path == Sole(order, there, inPath)
           field == Sole(order, there, inField)
<1>1. /\ byPath = 0 <=> path = 0
      /\ byPath # 0 => path \in D /\ p[path] = byPath
  BY SoleIsReordered DEF Shuffles
<1>2. /\ byField = 0 <=> field = 0
      /\ byField # 0 => field \in D /\ p[field] = byField
  BY SoleIsReordered DEF Shuffles
<1>3. ClassifyByVersion(surfaces, candidates, inPath, inField) =
        IF byPath # 0 /\ byField # 0 /\ surfaces[byPath].id # surfaces[byField].id
        THEN "conflicted"
        ELSE IF byPath # 0 THEN surfaces[byPath].id
        ELSE IF byField # 0 THEN surfaces[byField].id ELSE "ambiguous"
  BY DEF ClassifyByVersion
<1>4. ClassifyByVersion(order, there, inPath, inField) =
        IF path # 0 /\ field # 0 /\ order[path].id # order[field].id
        THEN "conflicted"
        ELSE IF path # 0 THEN order[path].id
        ELSE IF field # 0 THEN order[field].id ELSE "ambiguous"
  BY DEF ClassifyByVersion
<1> HIDE DEF byPath, byField, path, field
<1>5. byPath # 0 => order[path] = surfaces[byPath]
  BY <1>1 DEF Shuffles
<1>6. byField # 0 => order[field] = surfaces[byField]
  BY <1>2 DEF Shuffles
<1> QED BY <1>1, <1>2, <1>3, <1>4, <1>5, <1>6

LEMMA DeclarationIsIndexed ==
  ASSUME NEW surfaces, surfaces \in Seq(ToSet(surfaces))
  PROVE  Index(DOMAIN surfaces)
<1> DEFINE D == DOMAIN surfaces
<1>1. PICK n \in Nat : D = 1 .. n
  OBVIOUS
<1>2. IsFiniteSet(1 .. n)
  BY FS_Interval
<1> HIDE DEF D
<1>3. Index(D)
  BY <1>1, <1>2 DEF Index
<1> QED BY <1>3 DEF D

\* Declaration order decides no classification (core/surfaces.py:93).
LEMMA OrderDecidesNothing ==
  ASSUME NEW surfaces, surfaces \in Seq(ToSet(surfaces)), NEW order, order \in Reordered(surfaces),
         NEW endpoint
  PROVE  ClassifyEndpoint(order, endpoint) = ClassifyEndpoint(surfaces, endpoint)
<1> DEFINE D == DOMAIN surfaces
           candidates == Publishers(surfaces, endpoint)
           there == Publishers(order, endpoint)
           inPath == VersionSegments(endpoint.path)
           inField == {Canon[endpoint.version]}
<1>1. Index(D)
  BY DeclarationIsIndexed
<1>2. PICK p : p \in Bijection(D, D) /\ order = [i \in D |-> surfaces[p[i]]]
  BY DEF Reordered
<1>3. Permutes(p, D)
  BY <1>2 DEF Bijection, Injection, Surjection, IsInjective, Permutes
<1>4. DOMAIN order = D /\ \A i \in D : order[i] = surfaces[p[i]]
  BY <1>2
<1>5. candidates \in SUBSET D
  BY DEF Publishers
<1> HIDE DEF D, candidates, there
<1>6. DOMAIN surfaces = D
  BY DEF D
<1>7. there = Back(p, D, candidates)
  BY <1>3, <1>4, <1>6, PublishersAreReordered DEF candidates, there
<1>8. Shuffles(order, surfaces, p, D)
  BY <1>1, <1>3, <1>4, <1>6 DEF Shuffles
<1>9. Cardinality(there) = Cardinality(candidates)
  BY <1>1, <1>3, <1>5, <1>7, BackCounts
<1>10. there \in SUBSET D
  BY <1>7 DEF Back
<1>11. there = {} <=> candidates = {}
  BY <1>3, <1>5, <1>7 DEF Back, Permutes
<1>12. ASSUME Cardinality(candidates) = 1
       PROVE  ClassifyByResource(order, Min(there), inPath \cup inField)
                = ClassifyByResource(surfaces, Min(candidates), inPath \cup inField)
  <2>1. candidates = {Min(candidates)} /\ Min(candidates) \in D
    BY <1>1, <1>5, <1>12, OneMember
  <2>2. there = {Min(there)} /\ Min(there) \in D
    BY <1>1, <1>9, <1>10, <1>12, OneMember
  <2>3. p[Min(there)] = Min(candidates)
    BY <1>7, <2>1, <2>2 DEF Back
  <2> QED BY <1>8, <2>1, <2>2, <2>3, ResourceIsReordered
<1>13. ClassifyByVersion(order, there, inPath, inField)
         = ClassifyByVersion(surfaces, candidates, inPath, inField)
  BY <1>5, <1>7, <1>8, VersionIsReordered
<1> QED BY <1>9, <1>11, <1>12, <1>13 DEF ClassifyEndpoint, candidates, there

-----------------------------------------------------------------------------
(***************************************************************************)
(* What a label is evidence of.                                            *)
(***************************************************************************)

\* What the gate on a declaration asks of any two of its surfaces.
ToldApart(surfaces) ==
  \A i, j \in DOMAIN surfaces :
    /\ surfaces[i].id = surfaces[j].id => i = j
    /\ i # j /\ surfaces[i].paths \cap surfaces[j].paths # {} =>
         surfaces[i].markers \cap surfaces[j].markers = {}

InPath(call) == VersionSegments(call.path)
InField(call) == {Canon[call.version]}

\* Surfaces that publish one path share no marker, so one version marks at most one.
LEMMA OneVersionMarksOne ==
  ASSUME NEW surfaces, ToldApart(surfaces), NEW call,
         NEW i \in Publishers(surfaces, call), NEW j \in Publishers(surfaces, call),
         Marked(surfaces[i], Stated(InField(call))), Marked(surfaces[j], Stated(InField(call)))
  PROVE  i = j
<1> DEFINE v == Canon[call.version]
<1>1. v \in surfaces[i].markers /\ v \in surfaces[j].markers
  BY DEF Marked, Stated, InField
<1>2. surfaces[i].paths \cap surfaces[j].paths # {} /\ i \in DOMAIN surfaces /\ j \in DOMAIN surfaces
  BY DEF Publishers
<1> QED BY <1>1, <1>2 DEF ToldApart

\* How a call is classified, case by case.
LEMMA Verdicts ==
  ASSUME NEW surfaces, NEW D, Index(D), DOMAIN surfaces = D, NEW call
  PROVE  LET publishers == Publishers(surfaces, call)
             verdict == ClassifyEndpoint(surfaces, call)
             sole == Min(publishers)
         IN /\ publishers \in SUBSET D
            /\ \/ publishers = {} /\ verdict = "unrecognized"
               \/ /\ publishers = {sole} /\ sole \in D
                  /\ verdict = ClassifyByResource(surfaces, sole, InPath(call) \cup InField(call))
               \/ /\ Cardinality(publishers) # 1
                  /\ verdict = ClassifyByVersion(surfaces, publishers, InPath(call), InField(call))
<1> DEFINE publishers == Publishers(surfaces, call)
<1>1. publishers \in SUBSET D
  BY DEF Publishers
<1>2. ClassifyEndpoint(surfaces, call) =
        IF publishers = {} THEN "unrecognized"
        ELSE IF Cardinality(publishers) = 1
        THEN ClassifyByResource(surfaces, Min(publishers), InPath(call) \cup InField(call))
        ELSE ClassifyByVersion(surfaces, publishers, InPath(call), InField(call))
  BY DEF ClassifyEndpoint, InPath, InField
<1> HIDE DEF publishers
<1>3. Cardinality(publishers) = 1 => publishers = {Min(publishers)} /\ Min(publishers) \in D
  BY <1>1, OneMember
<1> QED BY <1>1, <1>2, <1>3 DEF publishers

\* Ambiguity: of the publishers, the field names none and the call not one alone.
LEMMA AmbiguousIsUndecided ==
  ASSUME NEW surfaces, NEW D, Index(D), DOMAIN surfaces = D,
         ToldApart(surfaces), NamesApart(surfaces),
         NEW call, ClassifyEndpoint(surfaces, call) = "ambiguous"
  PROVE  LET publishers == Publishers(surfaces, call)
             versions == Stated(InPath(call) \cup InField(call))
         IN /\ \A i \in publishers : ~Marked(surfaces[i], Stated(InField(call)))
            /\ Cardinality({i \in publishers : Marked(surfaces[i], versions)}) # 1
<1> DEFINE publishers == Publishers(surfaces, call)
           byPath == Sole(surfaces, publishers, InPath(call))
           byField == Sole(surfaces, publishers, InField(call))
           inPath == Hits(surfaces, publishers, InPath(call))
           inField == Hits(surfaces, publishers, InField(call))
           shown == {i \in publishers : Marked(surfaces[i], Stated(InPath(call) \cup InField(call)))}
<1>1. \A i \in D : surfaces[i].id # "ambiguous"
  BY DEF NamesApart
<1>2. \A c \in D : \A versions : ClassifyByResource(surfaces, c, versions) # "ambiguous"
  BY <1>1 DEF ClassifyByResource
<1>3. /\ publishers \in SUBSET D
      /\ ClassifyByVersion(surfaces, publishers, InPath(call), InField(call)) = "ambiguous"
  BY <1>2, Verdicts
<1>4. /\ byPath # 0 => byPath \in publishers
      /\ byPath = 0 => Cardinality(inPath) # 1
  BY <1>3, SoleIsOnlyHit
<1>5. /\ byField # 0 => byField \in publishers
      /\ byField = 0 => Cardinality(inField) # 1
  BY <1>3, SoleIsOnlyHit
<1>6. byPath = 0 /\ byField = 0
  BY <1>1, <1>3, <1>4, <1>5 DEF ClassifyByVersion
<1>7. inField = {}
  <2> SUFFICES ASSUME NEW i \in inField PROVE FALSE
    OBVIOUS
  <2>1. inField = {i}
    BY OneVersionMarksOne DEF Hits
  <2> QED BY <1>5, <1>6, <2>1, FS_Singleton
<1>8. \A i \in publishers : ~Marked(surfaces[i], Stated(InField(call)))
  BY <1>7 DEF Hits
<1>9. shown = inPath
  BY <1>8 DEF Hits, Marked, Stated
<1> HIDE DEF shown, inPath
<1>10. Cardinality(shown) # 1
  BY <1>4, <1>6, <1>9
<1> QED BY <1>8, <1>10 DEF shown

\* A surface that is named publishes the path, and the version does not name
\* another one alone.
LEMMA NamedIsShown ==
  ASSUME NEW surfaces, NEW D, Index(D), DOMAIN surfaces = D,
         ToldApart(surfaces), NamesApart(surfaces),
         NEW call, NEW i \in D, ClassifyEndpoint(surfaces, call) = surfaces[i].id
  PROVE  LET versions == Stated(InPath(call) \cup InField(call))
             Shows(j) == Marked(surfaces[j], versions)
         IN /\ i \in Publishers(surfaces, call)
            /\ \/ Shows(i) \/ surfaces[i].markers = {}
               \/ Cardinality({j \in D \ {i} : Shows(j)}) # 1
<1> DEFINE publishers == Publishers(surfaces, call)
           all == InPath(call) \cup InField(call)
           versions == Stated(all)
           Shows(j) == Marked(surfaces[j], versions)
<1>1. surfaces[i].id \notin {"ambiguous", "conflicted", "unrecognized"}
  BY DEF NamesApart
<1>2. \A j \in D : surfaces[j].id = surfaces[i].id => j = i
  BY DEF ToldApart
<1>3. CASE /\ publishers = {Min(publishers)} /\ Min(publishers) \in D
           /\ ClassifyEndpoint(surfaces, call) = ClassifyByResource(surfaces, Min(publishers), all)
  <2>1. ClassifyByResource(surfaces, Min(publishers), all)
          \in {"conflicted", surfaces[Min(publishers)].id}
    BY DEF ClassifyByResource
  <2>2. i = Min(publishers)
    BY <1>1, <1>2, <1>3, <2>1
  <2>3. i \in publishers
    BY <1>3, <2>2
  <2> DEFINE others == {j \in D : surfaces[j].id # surfaces[i].id}
  <2>4. \/ surfaces[i].markers = {}
        \/ Sole(surfaces, others, all) = 0
        \/ Marked(surfaces[i], all)
    BY <1>1, <1>3, <2>2 DEF ClassifyByResource
  <2>5. Marked(surfaces[i], all) => Shows(i)
    BY DEF Marked, Stated, NamesApart
  <2>6. Hits(surfaces, others, all) = {j \in D \ {i} : Shows(j)}
    BY <1>2 DEF Hits
  <2>7. Sole(surfaces, others, all) = 0 => Cardinality(Hits(surfaces, others, all)) # 1
    <3>1. others \in SUBSET D
      OBVIOUS
    <3> HIDE DEF others
    <3> QED BY <3>1, SoleIsOnlyHit
  <2> QED BY <2>3, <2>4, <2>5, <2>6, <2>7
<1>4. CASE /\ publishers \in SUBSET D
           /\ ClassifyEndpoint(surfaces, call)
                = ClassifyByVersion(surfaces, publishers, InPath(call), InField(call))
  <2> DEFINE byPath == Sole(surfaces, publishers, InPath(call))
             byField == Sole(surfaces, publishers, InField(call))
  <2>1. \/ byPath # 0 /\ surfaces[byPath].id = surfaces[i].id
        \/ byField # 0 /\ surfaces[byField].id = surfaces[i].id
    BY <1>1, <1>4 DEF ClassifyByVersion
  <2>2. byPath # 0 => byPath \in publishers /\ Hits(surfaces, publishers, InPath(call)) = {byPath}
    BY <1>4, SoleIsOnlyHit
  <2>3. byField # 0 =>
          byField \in publishers /\ Hits(surfaces, publishers, InField(call)) = {byField}
    BY <1>4, SoleIsOnlyHit
  <2>4. \/ i \in publishers /\ Marked(surfaces[i], Stated(InPath(call)))
        \/ i \in publishers /\ Marked(surfaces[i], Stated(InField(call)))
    BY <1>2, <1>4, <2>1, <2>2, <2>3 DEF Hits
  <2>5. Shows(i)
    BY <2>4 DEF Marked, Stated
  <2> QED BY <2>4, <2>5
<1> QED BY <1>1, <1>3, <1>4, Verdicts

\* The gates hold the key to the one measured surface.
LEMMA KeyLabelIsMeasured ==
  ASSUME task \in Tasks, Cardinality(Measured) = 1, task.surfaces # <<>>, PackProblems = {},
         NEW i \in DOMAIN key.endpoints
  PROVE  \E m \in Measured :
           ClassifyEndpoint(task.surfaces, key.endpoints[i]) = task.surfaces[m].id
<1>1. Measured # {}
  BY FS_EmptySet
<1>2. KeyIsMeasured
  BY <1>1 DEF PackProblems, Flag
<1>3. Measured \in SUBSET Nat
  <2>1. task.surfaces \in Seq(ToSet(task.surfaces))
    BY TasksAssumption
  <2>2. DOMAIN task.surfaces \in SUBSET Nat
    BY <2>1
  <2> QED BY <2>2 DEF Measured
<1>4. Min(Measured) \in Measured
  BY <1>1, <1>3, MinOfNat
<1> QED BY <1>2, <1>4 DEF KeyIsMeasured

\* Under a declaration the gates accept, a label is evidence: the order of
\* declaration does not decide it, "ambiguous" is said only of a call that names
\* no version of one publisher alone, and a surface that is named publishes the
\* path, never against the version (core/surfaces.py, classify_endpoint).
THEOREM LabelsAreEarned == Spec => []LabelIsEarned
<1>1. ASSUME ScoreInv PROVE LabelIsEarned
  <2> SUFFICES ASSUME pc = "labelled", SurfacesOk, NamesApart(task.surfaces), label # "no-match"
               PROVE  /\ \A order \in Reordered(task.surfaces) :
                           ClassifyEndpoint(order, LabelledCall) = label
                      /\ label = "ambiguous" =>
                           LET publishers == Publishers(task.surfaces, LabelledCall)
                           IN /\ \A i \in publishers :
                                   ~Marked(task.surfaces[i], Stated(InField(LabelledCall)))
                              /\ Cardinality({i \in publishers :
                                   Marked(task.surfaces[i], Stated(InPath(LabelledCall)
                                                             \cup InField(LabelledCall)))}) # 1
                      /\ \A i \in DOMAIN task.surfaces : label = task.surfaces[i].id =>
                           LET versions == Stated(InPath(LabelledCall) \cup InField(LabelledCall))
                               Shows(j) == Marked(task.surfaces[j], versions)
                           IN /\ i \in Publishers(task.surfaces, LabelledCall)
                              /\ \/ Shows(i) \/ task.surfaces[i].markers = {}
                                 \/ Cardinality({j \in DOMAIN task.surfaces \ {i} : Shows(j)}) # 1
                      /\ PackProblems = {} /\ answer.endpoints = key.endpoints =>
                           \E i \in Measured : label = task.surfaces[i].id
    BY DEF LabelIsEarned, InPath, InField
  <2>1. /\ task \in Tasks /\ task.surfaces \in Seq(ToSet(task.surfaces))
        /\ WrittenLikeMatch # {}
        /\ label = ClassifyEndpoint(task.surfaces, LabelledCall)
    BY <1>1, TasksAssumption DEF ScoreInv, LabelOf
  <2>2. MatchInv
    BY <1>1 DEF ScoreInv, Answering
  <2>3. ToldApart(task.surfaces) /\ Cardinality(Measured) = 1 /\ Len(task.surfaces) >= 2
    BY DEF SurfacesOk, ToldApart
  <2>4. Index(DOMAIN task.surfaces)
    BY <2>1, DeclarationIsIndexed
  <2>5. \A order \in Reordered(task.surfaces) : ClassifyEndpoint(order, LabelledCall) = label
    BY <2>1, OrderDecidesNothing
  <2>6. ASSUME PackProblems = {}, answer.endpoints = key.endpoints
        PROVE  \E i \in Measured : label = task.surfaces[i].id
    <3>1. WrittenLikeMatch \in SUBSET (DOMAIN answer.endpoints)
      BY DEF WrittenLikeMatch
    <3>2. DOMAIN answer.endpoints \in SUBSET Nat
      BY <2>2 DEF MatchInv, Calls
    <3>3. Min(WrittenLikeMatch) \in DOMAIN key.endpoints
      BY <2>1, <2>6, <3>1, <3>2, MinOfNat
    <3>4. task.surfaces # <<>>
      BY <2>3
    <3>5. LabelledCall = key.endpoints[Min(WrittenLikeMatch)]
      BY <2>6 DEF LabelledCall
    <3> QED BY <2>1, <2>3, <2>6, <3>3, <3>4, <3>5, KeyLabelIsMeasured
  <2>7. label = "ambiguous" =>
          LET publishers == Publishers(task.surfaces, LabelledCall)
          IN /\ \A i \in publishers :
                  ~Marked(task.surfaces[i], Stated(InField(LabelledCall)))
             /\ Cardinality({i \in publishers :
                  Marked(task.surfaces[i], Stated(InPath(LabelledCall)
                                            \cup InField(LabelledCall)))}) # 1
    BY <2>1, <2>3, <2>4, AmbiguousIsUndecided
  <2>8. ASSUME NEW i \in DOMAIN task.surfaces, label = task.surfaces[i].id
        PROVE  LET versions == Stated(InPath(LabelledCall) \cup InField(LabelledCall))
                   Shows(j) == Marked(task.surfaces[j], versions)
               IN /\ i \in Publishers(task.surfaces, LabelledCall)
                  /\ \/ Shows(i) \/ task.surfaces[i].markers = {}
                     \/ Cardinality({j \in DOMAIN task.surfaces \ {i} : Shows(j)}) # 1
    BY <2>1, <2>3, <2>4, <2>8, NamedIsShown
  <2> QED BY <2>5, <2>6, <2>7, <2>8
<1> QED BY <1>1, ScoresByTheBook, PTL
=============================================================================
