---------------------------- MODULE DocsFetchProofs ----------------------------
(***************************************************************************)
(* What DocsFetch promises for every manifest, every robots.txt and every  *)
(* number of retries.                                                      *)
(***************************************************************************)
EXTENDS DocsFetch, TLAPS

\* A file holds a text retrieved for the list whose directory it is in.
FilesBelong == \A d \in Paths : cache[d] \in Text => cache[d].key = d[2]

\* The document in memory is the one of the entry reached.
DocumentBelongs == text \in Text => pc = "write" /\ text.key = KeyOf[at]

\* The rule of validate_docs_manifest, for one entry.
Coherent(e) ==
  /\ ~(e.failed /\ (e.text \in Text \/ e.cached))
  /\ e.cached => e.text \in Text
  /\ (e.text # NeverTried \/ e.cached \/ e.failed) <=> e.dated

AllCoherent ==
  \A p \in Pages : Coherent(entries[p]) /\ (manifest # Torn => Coherent(manifest[p]))

IInv ==
  /\ TypeOK
  /\ FilesBelong
  /\ DocumentBelongs
  /\ AllCoherent
  /\ OpenedOnlyIfPermitted

-----------------------------------------------------------------------------

\* Paths and policy keys are in range.
LEMMA Ranges ==
  ASSUME NEW p \in Pages
  PROVE  /\ Path(p) \in Paths
         /\ Path(p)[2] = KeyOf[p]
         /\ UrlOf[p] \in Urls
         /\ KeyOf[p] \in Keys
         /\ call \in Invocations => PolicyKey(p) \in Hosts \X Readers
         /\ call \in Invocations => AgentFor(p) \in Readers
  BY DocsFetchAssumption DEF DocsFetchAssumption, Path, Paths, Urls, Keys,
     PolicyKey, AgentFor, Hosts

\* The markers are none of the values they stand beside.
LEMMA Markers ==
  /\ NoFile \notin Text /\ Torn \notin Text /\ NoFile # Torn
  /\ NoText \notin Text /\ NeverTried \notin Text /\ NoText # NeverTried
  /\ Torn \notin [Pages -> Entry]
  /\ Unread \notin Policies
  BY DocsFetchAssumption DEF DocsFetchAssumption

\* An entry as authored, and one that failed, are coherent entries.
LEMMA FreshEntries ==
  /\ Authored \in [Pages -> Entry]
  /\ \A p \in Pages : Coherent(Authored[p])
  BY Markers DEF Authored, Entry, Coherent, Readers

LEMMA FailedEntry ==
  ASSUME NEW e \in Entry
  PROVE  Failed(e) \in Entry /\ Coherent(Failed(e))
  BY Markers DEF Failed, Entry, Coherent

\* Annotating an entry changes nothing that makes it coherent.
LEMMA AnnotatedEntry ==
  ASSUME NEW p \in Pages, entries \in [Pages -> Entry]
  PROVE  /\ Annotated(p) \in Entry
         /\ Coherent(entries[p]) => Coherent(Annotated(p))
         /\ Annotated(p).ruling = Verdict(p)
  BY DEF Annotated, Entry, Coherent, Verdict, Ruling

\* An entry whose content arrived is coherent.
LEMMA RetrievedEntry ==
  ASSUME NEW e \in Entry, text \in Text, at \in Pages, call \in Invocations
  PROVE  Retrieved(e) \in Entry /\ Coherent(Retrieved(e))
  <1>1. AgentFor(at) \in Readers
    BY Ranges
  <1> QED
    BY <1>1, Markers DEF Retrieved, Entry, Coherent, Readers

-----------------------------------------------------------------------------

LEMMA InitHolds == Init => IInv
  <1> SUFFICES ASSUME Init PROVE IInv
    OBVIOUS
  <1>1. TypeOK
    BY FreshEntries, Markers, DocsFetchAssumption
       DEF Init, TypeOK, NoPolicies, Running, DocsFetchAssumption, Pages
  <1>2. FilesBelong /\ DocumentBelongs
    BY Markers DEF Init, FilesBelong, DocumentBelongs
  <1>3. AllCoherent
    BY FreshEntries DEF Init, AllCoherent
  <1>4. OpenedOnlyIfPermitted
    BY DEF Init, OpenedOnlyIfPermitted
  <1> QED
    BY <1>1, <1>2, <1>3, <1>4 DEF IInv

\* A process that ends leaves nothing in memory.
LEMMA EndedHolds ==
  ASSUME IInv,
         manifest' \in [Pages -> Entry] \cup {Torn},
         manifest' # Torn => \A p \in Pages : Coherent(manifest'[p]),
         cache' = cache,
         NEW how \in {"none", "ok", "error", "blocked", "crashed"}, Ended(how)
  PROVE  IInv'
  <1>1. TypeOK'
    BY FreshEntries, DocsFetchAssumption
       DEF IInv, TypeOK, Ended, NoPolicies, Running, DocsFetchAssumption, Pages
  <1>2. FilesBelong' /\ DocumentBelongs'
    BY Markers DEF IInv, FilesBelong, DocumentBelongs, Ended
  <1>3. AllCoherent'
    BY FreshEntries DEF AllCoherent, Ended
  <1>4. OpenedOnlyIfPermitted'
    BY DEF OpenedOnlyIfPermitted, Ended
  <1> QED
    BY <1>1, <1>2, <1>3, <1>4 DEF IInv

LEMMA StartHolds ==
  ASSUME IInv, NEW c \in Invocations, Start(c)
  PROVE  IInv'
  <1>1. TypeOK'
    BY DEF IInv, TypeOK, Start, Running, memory, onDisk
  <1>2. FilesBelong' /\ DocumentBelongs'
    BY DEF IInv, FilesBelong, DocumentBelongs, Start, Running, onDisk
  <1>3. AllCoherent'
    BY DEF IInv, AllCoherent, Start, onDisk
  <1>4. OpenedOnlyIfPermitted'
    BY DEF OpenedOnlyIfPermitted, Start
  <1> QED
    BY <1>1, <1>2, <1>3, <1>4 DEF IInv

LEMMA ReadRobotsHolds ==
  ASSUME IInv, NEW policy \in Policies, ReadRobots(policy)
  PROVE  IInv'
  <1>1. TypeOK'
    BY Ranges DEF IInv, TypeOK, ReadRobots, Running, onDisk
  <1>2. FilesBelong' /\ DocumentBelongs' /\ AllCoherent'
    BY DEF IInv, FilesBelong, DocumentBelongs, AllCoherent, ReadRobots, onDisk
  <1>3. OpenedOnlyIfPermitted'
    BY DEF OpenedOnlyIfPermitted, ReadRobots
  <1> QED
    BY <1>1, <1>2, <1>3 DEF IInv

\* The three ways an entry can be judged.
LEMMA JudgeHolds ==
  ASSUME IInv, Annotate \/ Refuse \/ Permit
  PROVE  IInv'
  <1> USE DEF IInv
  <1>0. at \in Pages /\ Path(at) \in Paths /\ pc = "judge" /\ at + 1 \in 1 .. NumPages + 1
    BY Ranges, DocsFetchAssumption
       DEF Annotate, Refuse, Permit, Judged, DocsFetchAssumption, Pages
  <1>1. /\ Annotated(at) \in Entry /\ Coherent(Annotated(at))
        /\ Failed(Annotated(at)) \in Entry /\ Coherent(Failed(Annotated(at)))
    BY <1>0, AnnotatedEntry, FailedEntry DEF TypeOK, AllCoherent
  <1>2. entries' \in [Pages -> Entry]
    BY <1>0, <1>1 DEF TypeOK, Annotate, Refuse, Permit
  <1>3. cache' \in [Paths -> Text \cup {NoFile, Torn}]
    BY <1>0 DEF TypeOK, Annotate, Refuse, Permit, onDisk
  <1>4. TypeOK'
    <2>1. CASE Annotate
      BY <1>0, <1>2, <1>3, <2>1 DEF TypeOK, Annotate, Running, onDisk
    <2>2. CASE Refuse
      BY <1>0, <1>2, <1>3, <2>2 DEF TypeOK, Refuse, Running
    <2>3. CASE Permit
      BY <1>0, <1>2, <1>3, <2>3, DocsFetchAssumption
         DEF TypeOK, Permit, Running, onDisk, DocsFetchAssumption
    <2> QED
      BY <2>1, <2>2, <2>3
  <1>5. FilesBelong'
    BY <1>0, Markers DEF FilesBelong, TypeOK, Annotate, Refuse, Permit, onDisk
  <1>6. DocumentBelongs'
    BY <1>0 DEF DocumentBelongs, Annotate, Refuse, Permit
  <1>7. AllCoherent'
    BY <1>0, <1>1 DEF AllCoherent, TypeOK, Annotate, Refuse, Permit, onDisk
  <1>8. OpenedOnlyIfPermitted'
    <2>1. CASE Permit
      BY <1>0, <2>1 DEF OpenedOnlyIfPermitted, Permit, Judged, Verdict,
                        PolicyKey, AgentFor, Ruling
    <2>2. CASE Annotate \/ Refuse
      BY <1>0, <2>2 DEF OpenedOnlyIfPermitted, Annotate, Refuse
    <2> QED
      BY <2>1, <2>2
  <1> QED
    BY <1>4, <1>5, <1>6, <1>7, <1>8

LEMMA ThrottledHolds ==
  ASSUME IInv, Throttled
  PROVE  IInv'
  <1>1. TypeOK'
    BY DocsFetchAssumption
       DEF IInv, TypeOK, Throttled, Running, onDisk, DocsFetchAssumption
  <1>2. FilesBelong' /\ DocumentBelongs' /\ AllCoherent'
    BY DEF IInv, FilesBelong, DocumentBelongs, AllCoherent, Throttled, onDisk
  <1>3. OpenedOnlyIfPermitted'
    BY DEF IInv, OpenedOnlyIfPermitted, Throttled, AgentFor, Ruling
  <1> QED
    BY <1>1, <1>2, <1>3 DEF IInv

LEMMA ArriveHolds ==
  ASSUME IInv, NEW edition \in Editions, Arrive(edition)
  PROVE  IInv'
  <1> USE DEF IInv
  <1>0. at \in Pages /\ Path(at) \in Paths
    BY Ranges DEF TypeOK, Arrive
  <1>1. text' \in Text /\ text'.key = KeyOf[at]
    BY <1>0, Ranges DEF TypeOK, Arrive, Text, Running
  <1>2. TypeOK'
    BY <1>0, <1>1 DEF TypeOK, Arrive, Running
  <1>3. FilesBelong'
    BY <1>0, Markers DEF TypeOK, FilesBelong, Arrive
  <1>4. DocumentBelongs'
    BY <1>1 DEF DocumentBelongs, Arrive
  <1>5. AllCoherent'
    BY DEF AllCoherent, Arrive
  <1>6. OpenedOnlyIfPermitted'
    BY DEF OpenedOnlyIfPermitted, Arrive, AgentFor, Ruling
  <1> QED
    BY <1>2, <1>3, <1>4, <1>5, <1>6

\* An entry has its outcome: the document is written, or is not.
LEMMA OutcomeHolds ==
  ASSUME IInv, WriteCache \/ Fail
  PROVE  IInv'
  <1> USE DEF IInv
  <1>0. /\ at \in Pages /\ Path(at) \in Paths /\ Path(at)[2] = KeyOf[at]
        /\ at + 1 \in 1 .. NumPages + 1
    BY Ranges, DocsFetchAssumption
       DEF TypeOK, WriteCache, Fail, DocsFetchAssumption, Pages
  <1>1. /\ WriteCache => /\ Retrieved(entries[at]) \in Entry
                         /\ Coherent(Retrieved(entries[at]))
        /\ Failed(entries[at]) \in Entry /\ Coherent(Failed(entries[at]))
    BY <1>0, RetrievedEntry, FailedEntry DEF TypeOK, WriteCache, Running
  <1>2. entries' \in [Pages -> Entry]
    BY <1>0, <1>1 DEF TypeOK, WriteCache, Fail, Passed
  <1>3. cache' \in [Paths -> Text \cup {NoFile, Torn}]
    BY <1>0 DEF TypeOK, WriteCache, Fail, onDisk
  <1>4. TypeOK'
    BY <1>0, <1>2, <1>3, DocsFetchAssumption
       DEF TypeOK, WriteCache, Fail, Passed, Running, onDisk, DocsFetchAssumption
  <1>5. FilesBelong'
    BY <1>0 DEF TypeOK, FilesBelong, DocumentBelongs, WriteCache, Fail, onDisk
  <1>6. DocumentBelongs'
    BY Markers DEF DocumentBelongs, WriteCache, Fail, Passed
  <1>7. AllCoherent'
    BY <1>0, <1>1 DEF TypeOK, AllCoherent, WriteCache, Fail, Passed, onDisk
  <1>8. OpenedOnlyIfPermitted'
    BY DEF OpenedOnlyIfPermitted, WriteCache, Fail, Passed
  <1> QED
    BY <1>4, <1>5, <1>6, <1>7, <1>8

LEMMA OpenManifestHolds ==
  ASSUME IInv, OpenManifest
  PROVE  IInv'
  <1>1. TypeOK'
    BY DEF IInv, TypeOK, OpenManifest, Walked, Running, memory
  <1>2. FilesBelong' /\ DocumentBelongs' /\ AllCoherent'
    BY DEF IInv, FilesBelong, DocumentBelongs, AllCoherent, OpenManifest, Walked,
           memory
  <1>3. OpenedOnlyIfPermitted'
    BY DEF OpenedOnlyIfPermitted, OpenManifest
  <1> QED
    BY <1>1, <1>2, <1>3 DEF IInv

\* The steps that end a process.
LEMMA EndHolds ==
  ASSUME IInv, CheckDone \/ WriteManifest \/ Crash
  PROVE  IInv'
  <1>1. cache' = cache
    BY DEF CheckDone, WriteManifest, Crash, onDisk
  <1>2. /\ manifest' \in [Pages -> Entry] \cup {Torn}
        /\ manifest' # Torn => \A p \in Pages : Coherent(manifest'[p])
    BY DEF IInv, TypeOK, AllCoherent, CheckDone, WriteManifest, Crash, onDisk
  <1>3. \E how \in {"none", "ok", "error", "blocked", "crashed"} : Ended(how)
    <2>1. CASE CheckDone
      BY <2>1 DEF CheckDone
    <2>2. CASE WriteManifest
      <3>1. ExitCode \in {"none", "ok", "error", "blocked", "crashed"}
        BY DEF ExitCode
      <3> QED
        BY <2>2, <3>1 DEF WriteManifest
    <2>3. CASE Crash
      BY <2>3 DEF Crash
    <2> QED
      BY <2>1, <2>2, <2>3
  <1> QED
    BY <1>1, <1>2, <1>3, EndedHolds

\* What happens while no command runs.
LEMMA IdleHolds ==
  ASSUME IInv, ManifestUnreadable \/ Clone
  PROVE  IInv'
  <1>1. TypeOK'
    BY DEF IInv, TypeOK, ManifestUnreadable, Clone, Running, memory, onDisk
  <1>2. FilesBelong' /\ DocumentBelongs' /\ AllCoherent'
    BY Markers DEF IInv, FilesBelong, DocumentBelongs, AllCoherent,
                   ManifestUnreadable, Clone, memory, onDisk
  <1>3. OpenedOnlyIfPermitted'
    BY DEF OpenedOnlyIfPermitted, ManifestUnreadable, Clone, Running
  <1> QED
    BY <1>1, <1>2, <1>3 DEF IInv

LEMMA StutterHolds ==
  ASSUME IInv, UNCHANGED fetchVars
  PROVE  IInv'
  <1>1. TypeOK'
    BY DEF IInv, TypeOK, fetchVars, Running, memory, onDisk
  <1>2. FilesBelong' /\ DocumentBelongs' /\ AllCoherent'
    BY DEF IInv, FilesBelong, DocumentBelongs, AllCoherent, fetchVars, memory,
           onDisk
  <1>3. OpenedOnlyIfPermitted'
    BY DEF IInv, OpenedOnlyIfPermitted, fetchVars, memory, AgentFor, Ruling
  <1> QED
    BY <1>1, <1>2, <1>3 DEF IInv

\* The inductive invariant of the two commands: what is on disk is typed,
\* belongs to the list it is filed under and passes the manifest gate, and a
\* page is open only if it may be.
THEOREM FetchInvariance == Spec => []IInv
  <1>1. IInv /\ [Next]_fetchVars => IInv'
    <2> SUFFICES ASSUME IInv, [Next]_fetchVars PROVE IInv'
      OBVIOUS
    <2>1. CASE ManifestUnreadable \/ Clone
      BY <2>1, IdleHolds
    <2>2. CASE \E c \in Invocations : Start(c)
      BY <2>2, StartHolds
    <2>3. CASE \E policy \in Policies : ReadRobots(policy)
      BY <2>3, ReadRobotsHolds
    <2>4. CASE Annotate \/ Refuse \/ Permit
      BY <2>4, JudgeHolds
    <2>5. CASE Throttled
      BY <2>5, ThrottledHolds
    <2>6. CASE \E e \in Editions : Arrive(e)
      BY <2>6, ArriveHolds
    <2>7. CASE WriteCache \/ Fail
      BY <2>7, OutcomeHolds
    <2>8. CASE OpenManifest
      BY <2>8, OpenManifestHolds
    <2>9. CASE CheckDone \/ WriteManifest \/ Crash
      BY <2>9, EndHolds
    <2>10. CASE UNCHANGED fetchVars
      BY <2>10, StutterHolds
    <2> QED
      BY <2>1, <2>2, <2>3, <2>4, <2>5, <2>6, <2>7, <2>8, <2>9, <2>10
         DEF Next, Step
  <1> QED
    BY InitHolds, <1>1, PTL DEF Spec

\* The state of fetch-docs and annotate-robots is well typed.
THEOREM FetchTypeCorrect == Spec => []TypeOK
  <1>1. IInv => TypeOK
    BY DEF IInv
  <1> QED
    BY <1>1, FetchInvariance, PTL

\* No page ever injects bytes retrieved for another list, whatever was killed
\* and however slugs collide.
THEOREM ListsAreKeptApart == Spec => []ListsKeptApart
  <1>1. IInv => ListsKeptApart
    <2> SUFFICES ASSUME IInv, NEW p \in Pages, LoadText(p) \in Text
                 PROVE  LoadText(p).key = KeyOf[p]
      BY DEF ListsKeptApart
    <2>1. LoadText(p) = cache[Path(p)]
      BY Markers DEF LoadText, Injected
    <2> QED
      BY <2>1, Ranges DEF IInv, FilesBelong
  <1> QED
    BY <1>1, FetchInvariance, PTL

\* No page is requested that the robots.txt read as the requesting agent
\* forbids, for any policies.
THEOREM PermissionPrecedesRequest == Spec => []OpenedOnlyIfPermitted
  <1>1. IInv => OpenedOnlyIfPermitted
    BY DEF IInv
  <1> QED
    BY <1>1, FetchInvariance, PTL

\* The manifest gate accepts whatever the two commands leave on disk.
THEOREM GateAccepts == Spec => []ValidateAccepts
  <1>1. IInv => ValidateAccepts
    BY DEF IInv, AllCoherent, Coherent, ValidateAccepts
  <1> QED
    BY <1>1, FetchInvariance, PTL

-----------------------------------------------------------------------------
(***************************************************************************)
(* What a fetch that ends has achieved, when no two pages share a path     *)
(***************************************************************************)

DistinctPaths == \A p, q \in Pages : Path(p) = Path(q) => p = q

\* An entry this fetch has passed: it failed and attests nothing, or its text
\* is the one in its file; forbidden, it has no file.
Settled(p) ==
  /\ \/ entries[p].failed /\ entries[p].text = NoText
     \/ /\ ~entries[p].failed
        /\ entries[p].ruling = "allowed"
        /\ entries[p].text \in Text
        /\ cache[Path(p)] = entries[p].text
  /\ entries[p].ruling # "allowed" => cache[Path(p)] = NoFile

Walk ==
  /\ ~Running => at = 1
  /\ pc = "save" => at = NumPages + 1
  /\ pc \in {"fetch", "write"} =>
       call.command = "fetch" /\ entries[at].ruling = "allowed"
  /\ Running /\ call.command = "fetch" =>
       \A p \in Pages : p < at => Settled(p)

\* Passing entry `at` settles it and leaves the entries before it settled.
LEMMA Passing ==
  ASSUME IInv, Walk, DistinctPaths, at \in Pages, at' = at + 1,
         call.command = "fetch", Running,
         NEW e \in Entry, entries' = [entries EXCEPT ![at] = e],
         \A d \in Paths : d # Path(at) => cache'[d] = cache[d],
         \/ e.failed /\ e.text = NoText
         \/ ~e.failed /\ e.ruling = "allowed" /\ e.text \in Text
            /\ cache'[Path(at)] = e.text,
         e.ruling # "allowed" => cache'[Path(at)] = NoFile
  PROVE  \A p \in Pages : p < at' => Settled(p)'
  <1> SUFFICES ASSUME NEW p \in Pages, p < at' PROVE Settled(p)'
    OBVIOUS
  <1>1. entries \in [Pages -> Entry] /\ Path(p)' = Path(p)
    BY DEF IInv, TypeOK, Path
  <1>2. CASE p = at
    BY <1>1, <1>2 DEF Settled
  <1>3. CASE p # at
    <2>1. p < at
      BY <1>3, DocsFetchAssumption DEF Pages, DocsFetchAssumption
    <2>2. Settled(p)
      BY <2>1 DEF Walk
    <2>3. cache'[Path(p)] = cache[Path(p)]
      BY <1>3, Ranges DEF DistinctPaths
    <2> QED
      BY <1>1, <1>3, <2>2, <2>3 DEF Settled
  <1> QED
    BY <1>2, <1>3

LEMMA WalkStep == IInv /\ DistinctPaths /\ Walk /\ [Next]_fetchVars => Walk'
  <1> SUFFICES ASSUME IInv, DistinctPaths, Walk, [Next]_fetchVars
               PROVE  Walk'
    OBVIOUS
  <1> USE DEF Walk
  <1>0. TypeOK
    BY DEF IInv
  <1>1. CASE ManifestUnreadable \/ Clone
    BY <1>1 DEF ManifestUnreadable, Clone, Running, memory
  <1>2. CASE \E c \in Invocations : Start(c)
    <2>1. at' = 1 /\ pc' = "judge"
      BY <1>2 DEF Start
    <2>2. \A p \in Pages : ~(p < 1)
      BY DocsFetchAssumption DEF Pages, DocsFetchAssumption
    <2> QED
      BY <2>1, <2>2 DEF Running
  <1>3. CASE \E policy \in Policies : ReadRobots(policy)
    BY <1>3 DEF ReadRobots, onDisk, Running, Settled, Path
  <1>4. CASE Annotate
    BY <1>4 DEF Annotate, Judged, Running
  <1>5. CASE Refuse
    <2>1. at \in Pages /\ Path(at) \in Paths /\ Running
      BY <1>5, Ranges DEF Refuse, Judged, Running
    <2>2. /\ Annotated(at) \in Entry
          /\ Annotated(at).ruling # "allowed"
          /\ Failed(Annotated(at)) \in Entry
      BY <1>0, <1>5, <2>1, AnnotatedEntry, FailedEntry DEF Refuse, TypeOK
    <2>3. /\ Failed(Annotated(at)).failed
          /\ Failed(Annotated(at)).text = NoText
          /\ cache'[Path(at)] = NoFile
          /\ \A d \in Paths : d # Path(at) => cache'[d] = cache[d]
      BY <1>0, <1>5, <2>1, <2>2 DEF Refuse, TypeOK, Failed, Entry
    <2>4. \A p \in Pages : p < at' => Settled(p)'
      BY <1>5, <2>1, <2>2, <2>3, Passing DEF Refuse
    <2> QED
      BY <1>5, <2>4 DEF Refuse, Judged, Running
  <1>6. CASE Permit
    <2>1. at \in Pages /\ Running
      BY <1>6 DEF Permit, Judged, Running
    <2>2. entries'[at].ruling = "allowed"
      BY <1>0, <1>6, <2>1, AnnotatedEntry DEF Permit, TypeOK
    <2>3. \A p \in Pages : p < at => Settled(p)'
      BY <1>0, <1>6, <2>1, DocsFetchAssumption
         DEF Permit, TypeOK, Settled, Path, onDisk, Pages, DocsFetchAssumption
    <2> QED
      BY <1>6, <2>1, <2>2, <2>3 DEF Permit, Running
  <1>7. CASE Throttled
    BY <1>7 DEF Throttled, onDisk, Running, Settled, Path
  <1>8. CASE \E e \in Editions : Arrive(e)
    <2>1. at \in Pages /\ Running
      BY <1>0, <1>8 DEF TypeOK, Arrive, Running
    <2>2. \A p \in Pages : p < at => cache'[Path(p)] = cache[Path(p)]
      <3> SUFFICES ASSUME NEW p \in Pages, p < at
                   PROVE  cache'[Path(p)] = cache[Path(p)]
        OBVIOUS
      <3>1. Path(p) # Path(at)
        BY <2>1, DocsFetchAssumption
           DEF DistinctPaths, Pages, DocsFetchAssumption
      <3> QED
        BY <1>0, <1>8, <3>1, Ranges DEF TypeOK, Arrive
    <2> QED
      BY <1>8, <2>1, <2>2 DEF Arrive, Running, Settled, Path
  <1>9. CASE WriteCache \/ Fail
    <2>1. /\ at \in Pages /\ Path(at) \in Paths /\ Running
          /\ entries[at] \in Entry /\ entries[at].ruling = "allowed"
      BY <1>0, <1>9, Ranges DEF TypeOK, WriteCache, Fail, Running
    <2>2. CASE WriteCache
      <3>1. text \in Text /\ Retrieved(entries[at]) \in Entry
        BY <1>0, <2>1, <2>2, RetrievedEntry DEF TypeOK, WriteCache
      <3>2. /\ ~Retrieved(entries[at]).failed
            /\ Retrieved(entries[at]).ruling = "allowed"
            /\ Retrieved(entries[at]).text = text
        BY <2>1 DEF Retrieved, Entry
      <3>3. /\ cache'[Path(at)] = text
            /\ \A d \in Paths : d # Path(at) => cache'[d] = cache[d]
        BY <1>0, <2>1, <2>2 DEF WriteCache, TypeOK
      <3> QED
        BY <2>1, <2>2, <3>1, <3>2, <3>3, Passing
           DEF WriteCache, Passed, Running
    <2>3. CASE Fail
      <3>1. /\ Failed(entries[at]) \in Entry
            /\ Failed(entries[at]).failed
            /\ Failed(entries[at]).ruling = "allowed"
            /\ Failed(entries[at]).text = NoText
        BY <2>1, FailedEntry DEF Failed, Entry
      <3> QED
        BY <2>1, <2>3, <3>1, Passing DEF Fail, Passed, Running, onDisk
    <2> QED
      BY <1>9, <2>2, <2>3
  <1>10. CASE OpenManifest
    <2>1. at = NumPages + 1
      BY <1>0, <1>10, DocsFetchAssumption
         DEF TypeOK, OpenManifest, Walked, Pages, DocsFetchAssumption
    <2> QED
      BY <1>10, <2>1 DEF OpenManifest, Walked, memory, Running, Settled, Path
  <1>11. CASE CheckDone \/ WriteManifest \/ Crash
    BY <1>11 DEF CheckDone, WriteManifest, Crash, Ended, Running
  <1>12. CASE UNCHANGED fetchVars
    BY <1>12 DEF fetchVars, memory, onDisk, Running, Settled, Path
  <1> QED
    BY <1>1, <1>2, <1>3, <1>4, <1>5, <1>6, <1>7, <1>8, <1>9, <1>10, <1>11, <1>12
       DEF Next, Step

\* Without colliding slugs, every entry a fetch has passed is settled.
THEOREM FetchWalks == DistinctPaths => (Spec => []Walk)
  <1> SUFFICES ASSUME DistinctPaths PROVE Spec => []Walk
    OBVIOUS
  <1>1. Init => Walk
    BY DEF Init, Walk, Running
  <1>2. IInv /\ Walk /\ [Next]_fetchVars => Walk'
    BY WalkStep
  <1> QED
    BY <1>1, <1>2, FetchInvariance, PTL DEF Spec

LEMMA AllSettled ==
  ASSUME IInv, Walk, pc = "save", call.command = "fetch"
  PROVE  \A p \in Pages : Settled(p)
  BY DocsFetchAssumption DEF Walk, Running, Pages, DocsFetchAssumption

\* Only writing the manifest, or a kill, leaves a save.
LEMMA SavesWrite ==
  ASSUME Next, pc = "save", exit' # "crashed"
  PROVE  WriteManifest
  <1>1. Running
    BY DEF Running
  <1>2. ~Judged /\ ~Walked
    BY DEF Judged, Walked
  <1> QED
    BY <1>1, <1>2 DEF Next, Step, ManifestUnreadable, Start, ReadRobots,
       Annotate, Refuse, Permit, Throttled, Arrive, WriteCache, Fail, CheckDone,
       OpenManifest, Crash, Ended, Clone

\* When a fetch ends, and whatever was killed before it, each page injects what
\* its entry attests: for every manifest whose slugs do not collide.
THEOREM FetchesSettle == DistinctPaths => (Spec => FetchSettles)
  <1> SUFFICES ASSUME DistinctPaths PROVE Spec => FetchSettles
    OBVIOUS
  <1>1. ASSUME IInv, Walk, Next, pc = "save",
               call.command = "fetch", exit' # "crashed", NEW p \in Pages
        PROVE  LoadText(p)' = manifest'[p].text
    <2>1. WriteManifest
      BY <1>1, SavesWrite
    <2>2. Settled(p)
      BY <1>1, AllSettled
    <2> QED
      BY <2>1, <2>2, Markers DEF WriteManifest, Settled, LoadText, Injected,
                                 Suppressed, Path
  <1>2. IInv /\ Walk /\ [Next]_fetchVars =>
          [pc = "save" /\ call.command = "fetch" /\ exit' # "crashed" =>
             \A p \in Pages : LoadText(p)' = manifest'[p].text]_fetchVars
    BY <1>1
  <1>3. Spec => []Walk
    BY FetchWalks
  <1> QED
    BY <1>2, <1>3, FetchInvariance, PTL DEF Spec, FetchSettles

\* When a fetch ends, no file is left of a page the host forbade it.
THEOREM ForbiddenTextsAreGone == DistinctPaths => (Spec => ForbiddenIsGone)
  <1> SUFFICES ASSUME DistinctPaths PROVE Spec => ForbiddenIsGone
    OBVIOUS
  <1>1. ASSUME IInv, Walk, Next, pc = "save",
               call.command = "fetch", exit' # "crashed", NEW p \in Pages,
               manifest'[p].ruling # "allowed"
        PROVE  cache'[Path(p)] = NoFile
    <2>1. WriteManifest
      BY <1>1, SavesWrite
    <2>2. Settled(p)
      BY <1>1, AllSettled
    <2> QED
      BY <1>1, <2>1, <2>2 DEF WriteManifest, Settled
  <1>2. IInv /\ Walk /\ [Next]_fetchVars =>
          [pc = "save" /\ call.command = "fetch" /\ exit' # "crashed" =>
             \A p \in Pages :
               manifest'[p].ruling # "allowed" => cache'[Path(p)] = NoFile]_fetchVars
    BY <1>1
  <1>3. Spec => []Walk
    BY FetchWalks
  <1> QED
    BY <1>2, <1>3, FetchInvariance, PTL DEF Spec, ForbiddenIsGone

-----------------------------------------------------------------------------
(***************************************************************************)
(* Why a command ends.                                                     *)
(***************************************************************************)

\* The steps one entry takes at most, and those the command has left at its
\* place.
StepsOfEntry == Retries + 5
StepsHere ==
  CASE pc = "judge" /\ at \in Pages /\ ~Judged -> Retries + 4
    [] Judged       -> Retries + 3
    [] Walked       -> 1
    [] pc = "fetch" -> Retries - attempt + 2
    [] pc = "write" -> 1
    [] OTHER        -> 0
StepsLeft == (NumPages + 1 - at) * StepsOfEntry + StepsHere

LEMMA StepsHereBound ==
  ASSUME TypeOK
  PROVE  /\ StepsHere \in 0 .. Retries + 4
         /\ Judged \/ Walked \/ pc \in {"fetch", "write"} => StepsHere >= 1
  <1>1. Retries \in Nat /\ attempt \in 0 .. Retries
    BY DocsFetchAssumption DEF DocsFetchAssumption, TypeOK
  <1> QED
    BY <1>1 DEF StepsHere, Judged, Walked

\* Going on to the next entry leaves less to do, wherever in the entry that
\* happens.
LEMMA PassingAnEntry ==
  ASSUME TypeOK, TypeOK', at \in Pages, at' = at + 1,
         Judged \/ pc \in {"fetch", "write"}
  PROVE  StepsLeft' < StepsLeft
  <1> DEFINE n == NumPages - at
             here == StepsHere
             then == StepsHere'
  <1>1. Retries \in Nat /\ NumPages \in Nat /\ StepsOfEntry = Retries + 5
    BY DocsFetchAssumption DEF DocsFetchAssumption, StepsOfEntry
  <1>2. n \in Nat /\ NumPages + 1 - at = n + 1 /\ NumPages + 1 - at' = n
    BY <1>1 DEF Pages
  <1>3. here \in Nat /\ here >= 1 /\ then \in Nat /\ then < StepsOfEntry
    <2>1. here \in 0 .. Retries + 4 /\ here >= 1
      BY StepsHereBound
    <2>2. then \in 0 .. Retries + 4
      <3>1. attempt' \in 0 .. Retries
        BY DEF TypeOK
      <3> QED
        BY <1>1, <3>1 DEF StepsHere, Judged, Walked
    <2> HIDE DEF here, then
    <2> QED
      BY <1>1, <2>1, <2>2
  <1>4. StepsLeft = (n + 1) * StepsOfEntry + here
    BY <1>2 DEF StepsLeft
  <1>5. StepsLeft' = n * StepsOfEntry + then
    BY <1>2 DEF StepsLeft, StepsOfEntry
  <1> HIDE DEF n, here, then
  <1>6. (n + 1) * StepsOfEntry = n * StepsOfEntry + StepsOfEntry /\ n * StepsOfEntry \in Nat
    BY <1>1, <1>2
  <1> QED
    BY <1>1, <1>3, <1>4, <1>5, <1>6

\* A place further on in the same entry leaves less to do.
LEMMA WithinAnEntry ==
  ASSUME TypeOK, at' = at, StepsHere' \in Nat, StepsHere' < StepsHere
  PROVE  StepsLeft' < StepsLeft
  <1> DEFINE n == (NumPages + 1 - at) * StepsOfEntry
             here == StepsHere
             then == StepsHere'
  <1>1. Retries \in Nat /\ NumPages \in Nat /\ at \in 1 .. NumPages + 1
    BY DocsFetchAssumption DEF DocsFetchAssumption, TypeOK
  <1>2. NumPages + 1 - at \in Nat
    BY <1>1
  <1>3. n \in Nat
    BY <1>1, <1>2 DEF StepsOfEntry
  <1>4. StepsLeft = n + here /\ StepsLeft' = n + then
    BY DEF StepsLeft, StepsOfEntry
  <1>5. here \in Nat /\ then \in Nat /\ then < here
    BY StepsHereBound
  <1> HIDE DEF n, here, then
  <1> QED
    BY <1>3, <1>4, <1>5

\* Each step of a running command ends it or uses up a step.
LEMMA StepUsesAStep ==
  ASSUME IInv, IInv', Next, Running
  PROVE  ~Running' \/ StepsLeft' < StepsLeft
  <1> USE DEF IInv
  <1>1. Retries \in Nat \ {0} /\ attempt \in 0 .. Retries /\ attempt' \in 0 .. Retries
    BY DocsFetchAssumption DEF DocsFetchAssumption, TypeOK
  <1>2. ASSUME NEW policy \in Policies, ReadRobots(policy) PROVE StepsLeft' < StepsLeft
    <2>1. /\ at' = at /\ pc = "judge" /\ pc' = "judge" /\ at \in Pages
          /\ ~Judged
      BY <1>2 DEF ReadRobots, Judged
    <2>2. Judged'
      <3>1. PolicyKey(at) \in Hosts \X Readers /\ PolicyKey(at)' = PolicyKey(at)
        BY <1>2, <2>1, Ranges DEF TypeOK, ReadRobots, PolicyKey, AgentFor
      <3>2. policies'[PolicyKey(at)] = policy
        BY <1>2, <3>1 DEF ReadRobots, TypeOK
      <3> QED
        BY <2>1, <3>1, <3>2, Markers DEF Judged, Pages
    <2>3. StepsHere = Retries + 4
      BY <2>1 DEF StepsHere, Judged, Walked
    <2>4. StepsHere' = Retries + 3
      BY <2>2 DEF StepsHere, Judged, Walked
    <2> QED
      BY <1>1, <2>1, <2>3, <2>4, WithinAnEntry
  <1>3. ASSUME Annotate \/ Refuse \/ WriteCache \/ Fail PROVE StepsLeft' < StepsLeft
    <2>1. at' = at + 1 /\ (Judged \/ pc \in {"fetch", "write"})
      BY <1>3 DEF Annotate, Refuse, WriteCache, Fail, Passed
    <2>2. at \in Pages
      BY <2>1 DEF Judged, TypeOK
    <2> QED
      BY <2>1, <2>2, PassingAnEntry
  <1>4. ASSUME Permit PROVE StepsLeft' < StepsLeft
    <2>1. at' = at /\ Judged /\ pc' = "fetch" /\ attempt' = 1
      BY <1>4 DEF Permit
    <2>2. StepsHere = Retries + 3 /\ StepsHere' = Retries - 1 + 2
      BY <2>1 DEF StepsHere, Judged, Walked
    <2> QED
      BY <1>1, <2>1, <2>2, WithinAnEntry
  <1>5. ASSUME Throttled PROVE StepsLeft' < StepsLeft
    <2>1. at' = at /\ pc = "fetch" /\ pc' = "fetch" /\ attempt' = attempt + 1
      BY <1>5 DEF Throttled
    <2>2. StepsHere = Retries - attempt + 2 /\ StepsHere' = Retries - (attempt + 1) + 2
      BY <2>1 DEF StepsHere, Judged, Walked
    <2> QED
      BY <1>1, <2>1, <2>2, WithinAnEntry
  <1>6. ASSUME NEW e \in Editions, Arrive(e) PROVE StepsLeft' < StepsLeft
    <2>1. at' = at /\ pc = "fetch" /\ pc' = "write"
      BY <1>6 DEF Arrive
    <2>2. StepsHere = Retries - attempt + 2 /\ StepsHere' = 1
      BY <2>1 DEF StepsHere, Judged, Walked
    <2> QED
      BY <1>1, <2>1, <2>2, WithinAnEntry
  <1>7. ASSUME OpenManifest PROVE StepsLeft' < StepsLeft
    <2>1. at' = at /\ Walked /\ pc' = "save"
      BY <1>7 DEF OpenManifest, memory
    <2>2. StepsHere = 1 /\ StepsHere' = 0
      BY <2>1 DEF StepsHere, Judged, Walked
    <2> QED
      BY <2>1, <2>2, WithinAnEntry
  <1>8. CheckDone \/ WriteManifest \/ Crash => ~Running'
    BY DEF CheckDone, WriteManifest, Crash, Ended, Running
  <1>9. ~ManifestUnreadable /\ ~Clone /\ \A c \in Invocations : ~Start(c)
    BY DEF ManifestUnreadable, Clone, Start
  <1> QED
    BY <1>2, <1>3, <1>4, <1>5, <1>6, <1>7, <1>8, <1>9 DEF Next, Step

LEMMA StepsAreBounded ==
  ASSUME IInv
  PROVE  StepsLeft \in 0 .. NumPages * StepsOfEntry + Retries + 4
  <1> DEFINE n == NumPages + 1 - at
             here == StepsHere
  <1>1. /\ Retries \in Nat /\ NumPages \in Nat /\ n \in Nat /\ n <= NumPages
        /\ StepsOfEntry \in Nat
    BY DocsFetchAssumption DEF DocsFetchAssumption, IInv, TypeOK, StepsOfEntry
  <1>2. here \in 0 .. Retries + 4
    BY StepsHereBound DEF IInv
  <1>3. StepsLeft = n * StepsOfEntry + here
    BY DEF StepsLeft
  <1> HIDE DEF n, here
  <1>4. /\ n * StepsOfEntry \in Nat /\ NumPages * StepsOfEntry \in Nat
        /\ n * StepsOfEntry <= NumPages * StepsOfEntry
    BY <1>1
  <1> QED
    BY <1>1, <1>2, <1>3, <1>4

\* A fetch or an annotation cannot go on for ever: of a number of steps that
\* the entries of the manifest and DEFAULT_RETRIES bound in advance, each of its
\* steps uses up one or ends it (the loops of core/docs_fetch.py:452 and 296).
THEOREM FetchesAreFinite ==
  Spec => /\ [](Running => StepsLeft \in 0 .. NumPages * StepsOfEntry + Retries + 4)
          /\ [][Running => ~Running' \/ StepsLeft' < StepsLeft]_fetchVars
  <1>1. IInv => (Running => StepsLeft \in 0 .. NumPages * StepsOfEntry + Retries + 4)
    BY StepsAreBounded
  <1>2. IInv /\ IInv' /\ [Next]_fetchVars =>
          [Running => ~Running' \/ StepsLeft' < StepsLeft]_fetchVars
    BY StepUsesAStep
  <1> QED
    BY <1>1, <1>2, FetchInvariance, PTL DEF Spec
=============================================================================
