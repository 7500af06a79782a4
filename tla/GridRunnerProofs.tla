--------------------------- MODULE GridRunnerProofs ---------------------------
(***************************************************************************)
(* Proofs about GridRunner, for every grid, pack, model, threshold and     *)
(* number of attempts.                                                     *)
(***************************************************************************)
EXTENDS GridRunner, FiniteSetTheorems, TLAPS

-----------------------------------------------------------------------------
(***************************************************************************)
(* The shape of the state                                                  *)
(***************************************************************************)

\* What an invocation's fields range over.
LEMMA InvocationFields ==
  ASSUME NEW a \in Invocations
  PROVE  /\ a.only \in SUBSET Tasks
         /\ a.n \in 1 .. MaxN
         /\ a.mock \in BOOLEAN
         /\ a.model \in Models \cup {MockModel}
         /\ a.overwrite \in BOOLEAN
         /\ a.threshold \in 0 .. 100
         /\ a.mock <=> a.model = MockModel
BY GridRunnerAssumption, RunArchiveAssumption

\* The grid of an invocation consists of cells.
LEMMA GridInCells ==
  ASSUME NEW e \in Editions, NEW a \in Invocations
  PROVE  Grid(e, a) \subseteq Cells
<1>1. TasksOf[e] \subseteq Tasks
  BY RunArchiveAssumption
<1>2. a.n \in 1 .. MaxN
  BY InvocationFields
<1>3. 0 .. a.n - 1 \subseteq 0 .. MaxN - 1
  BY <1>2, RunArchiveAssumption
<1>. QED
  BY <1>1, <1>3 DEF Grid, Cells

\* _record makes a record.
LEMMA ScoredIsRecord ==
  ASSUME TypeOK, args \in Invocations, NEW raw \in Answers, NEW ok \in BOOLEAN
  PROVE  /\ Scored(raw, ok) \in Record
         /\ Scored(raw, ok).mock = args.mock
         /\ Scored(raw, ok).by = args.model
         /\ Scored(raw, ok).ok = ok
<1>1. Verdict[loaded, raw] \in Scores
  BY RunArchiveAssumption DEF TypeOK
<1>2. args.mock \in BOOLEAN /\ args.model \in Models \cup {MockModel}
  BY InvocationFields
<1>. QED
  BY <1>1, <1>2 DEF Scored, Record

\* A command that has ended leaves memory well typed.
LEMMA EndedTypeOK ==
  ASSUME TypeOK, NEW how \in {"ok", "blocked", "raised", "crashed"}, Ended(how),
         DiskTypeOK'
  PROVE  TypeOK'
<1>1. records' \in RecordTable
  BY DEF Ended, RecordTable, NoRecords
<1>2. attempt' \in 0 .. MaxAttempts
  BY GridRunnerAssumption DEF Ended
<1>3. pc' = "idle" /\ args' = NoFile /\ todo' = {} /\ fresh' = {} /\ skipped' = {}
      /\ stopped' = FALSE /\ loaded' = loaded
  BY DEF Ended
<1>4. exit' \in {"ok", "blocked", "raised", "crashed"}
  BY DEF Ended
<1>. QED
  BY <1>1, <1>2, <1>3, <1>4 DEF TypeOK, Running

-----------------------------------------------------------------------------
(***************************************************************************)
(* Type correctness                                                        *)
(***************************************************************************)

LEMMA TypeInit == Init => TypeOK
<1>. SUFFICES ASSUME Init PROVE TypeOK
  OBVIOUS
<1>1. DiskTypeOK
  BY DEF Init, DiskTypeOK, NoRecords
<1>2. records \in RecordTable
  BY DEF Init, RecordTable, NoRecords
<1>3. attempt \in 0 .. MaxAttempts
  BY GridRunnerAssumption DEF Init
<1>. QED
  BY <1>1, <1>2, <1>3 DEF Init, TypeOK, Running

LEMMA TypeStep == TypeOK /\ [Next]_vars => TypeOK'
<1>. SUFFICES ASSUME TypeOK, [Next]_vars PROVE TypeOK'
  OBVIOUS
<1>. USE DEF disk, memory
<1>1. ASSUME NEW a \in Invocations, Refuse(a) PROVE TypeOK'
  BY <1>1 DEF Refuse, TypeOK, DiskTypeOK, Running
<1>2. ASSUME NEW a \in Invocations, Begin(a) PROVE TypeOK'
  BY <1>2, GridInCells DEF Begin, TypeOK, DiskTypeOK, Running
<1>3. ASSUME NEW c \in Cells, Reuse(c) PROVE TypeOK'
  <2>1. files[c] \in Record
    BY <1>3 DEF Reuse, MayReuse
  <2>2. records' \in RecordTable
    BY <1>3, <2>1 DEF Reuse, TypeOK, RecordTable
  <2>3. stopped' \in BOOLEAN
    BY <1>3 DEF Reuse, Trips
  <2>. QED
    BY <1>3, <2>2, <2>3 DEF Reuse, TypeOK, DiskTypeOK, Running
<1>4. ASSUME NEW c \in Cells, ReadTorn(c) PROVE TypeOK'
  <2>1. DiskTypeOK'
    BY <1>4 DEF ReadTorn, TypeOK, DiskTypeOK
  <2>. QED
    BY <1>4, <2>1, EndedTypeOK DEF ReadTorn
<1>5. ASSUME NEW c \in Cells, Ask(c) PROVE TypeOK'
  <2>1. attempt' \in 0 .. MaxAttempts
    BY <1>5, GridRunnerAssumption DEF Ask
  <2>. QED
    BY <1>5, <2>1 DEF Ask, At, TypeOK, DiskTypeOK, Running
<1>6. ASSUME NEW c \in Cells, NEW raw \in Answers, NEW ok \in BOOLEAN,
             Answer(c, raw, ok)
      PROVE  TypeOK'
  <2>1. args \in Invocations
    BY <1>6 DEF Answer, TypeOK, Running
  <2>2. records' \in RecordTable
    BY <1>6, <2>1, ScoredIsRecord DEF Answer, TypeOK, RecordTable
  <2>3. files' \in [Cells -> Record \cup {NoFile, Torn}]
    BY <1>6 DEF Answer, TypeOK, DiskTypeOK
  <2>4. attempt' \in 0 .. MaxAttempts
    BY <1>6, GridRunnerAssumption DEF Answer
  <2>. QED
    BY <1>6, <2>1, <2>2, <2>3, <2>4 DEF Answer, TypeOK, DiskTypeOK, Running
<1>7. ASSUME NEW c \in Cells, WriteRunFile(c) PROVE TypeOK'
  <2>1. files' \in [Cells -> Record \cup {NoFile, Torn}]
    BY <1>7 DEF WriteRunFile, TypeOK, DiskTypeOK, RecordTable
  <2>2. stopped' \in BOOLEAN
    BY <1>7 DEF WriteRunFile, Trips
  <2>. QED
    BY <1>7, <2>1, <2>2 DEF WriteRunFile, TypeOK, DiskTypeOK, Running
<1>8. ASSUME NEW c \in Cells, TransportError(c) PROVE TypeOK'
  <2>1. attempt' \in 0 .. MaxAttempts
    BY <1>8, GridRunnerAssumption DEF TransportError
  <2>. QED
    BY <1>8, <2>1 DEF TransportError, TypeOK, DiskTypeOK, Running
<1>9. ASSUME Retry PROVE TypeOK'
  <2>1. attempt' \in 0 .. MaxAttempts
    BY <1>9, GridRunnerAssumption DEF Retry, TypeOK
  <2>. QED
    BY <1>9, <2>1 DEF Retry, TypeOK, DiskTypeOK, Running
<1>10. ASSUME OpenReport PROVE TypeOK'
  BY <1>10 DEF OpenReport, TypeOK, DiskTypeOK, Running
<1>11. ASSUME WriteReport PROVE TypeOK'
  <2>1. args \in Invocations
    BY <1>11 DEF WriteReport, TypeOK, Running
  <2>2. scores' \in Report
    BY <1>11, <2>1, InvocationFields
       DEF WriteReport, Reported, Report, TypeOK, RecordTable
  <2>3. DiskTypeOK'
    BY <1>11, <2>2 DEF WriteReport, TypeOK, DiskTypeOK
  <2>. QED
    BY <1>11, <2>3, EndedTypeOK DEF WriteReport
<1>12. ASSUME Crash PROVE TypeOK'
  <2>1. DiskTypeOK'
    BY <1>12 DEF Crash, TypeOK, DiskTypeOK
  <2>. QED
    BY <1>12, <2>1, EndedTypeOK DEF Crash
<1>13. ASSUME Edit PROVE TypeOK'
  BY <1>13 DEF Edit, TypeOK, DiskTypeOK, Running, runnerVars
<1>14. ASSUME UNCHANGED vars PROVE TypeOK'
  BY <1>14 DEF vars, runnerVars, TypeOK, DiskTypeOK, Running
<1>. QED
  BY <1>1, <1>2, <1>3, <1>4, <1>5, <1>6, <1>7, <1>8, <1>9, <1>10, <1>11,
     <1>12, <1>13, <1>14
     DEF Next, RunNext, Start, Step

\* The type invariant of cmd_run and its results directory.
THEOREM TypeCorrect == Spec => []TypeOK
BY TypeInit, TypeStep, PTL DEF Spec

-----------------------------------------------------------------------------
(***************************************************************************)
(* Facts about record tables and the order of the grid                     *)
(***************************************************************************)

LEMMA Numbers == Tasks \subseteq Nat /\ MaxN \in Nat
BY RunArchiveAssumption

LEMMA Markers ==
  /\ NoFile \notin Record /\ Torn \notin Record /\ NoFile # Torn
  /\ NoFile \notin Report /\ Torn \notin Report
BY RunArchiveAssumption

LEMMA HeldOfNoRecords == Held(NoRecords) = {}
BY Markers DEF Held, NoRecords

LEMMA HeldUpdate ==
  ASSUME NEW c \in Cells, NEW r \in Record, records \in RecordTable,
         records' = [records EXCEPT ![c] = r]
  PROVE  /\ Held(records') = Held(records) \cup {c}
         /\ records'[c] = r
         /\ \A d \in Cells \ {c} : records'[d] = records[d]
BY DEF Held, RecordTable

\* Only one cell is the first of what is left.
LEMMA FirstUnique ==
  ASSUME NEW todo0 \in SUBSET Cells, NEW c \in Cells, NEW d \in Cells,
         First(c, todo0), First(d, todo0)
  PROVE  c = d
<1>1. SUFFICES ASSUME c # d PROVE FALSE
  OBVIOUS
<1>2. Precedes(c, d) /\ Precedes(d, c)
  BY <1>1 DEF First
<1>3. /\ c[1] \in Tasks /\ c[2] \in 0 .. MaxN - 1
      /\ d[1] \in Tasks /\ d[2] \in 0 .. MaxN - 1
  BY DEF Cells
<1>4. c[1] \in Nat /\ d[1] \in Nat
  BY <1>3, Numbers
<1>5. c[2] \in Int /\ d[2] \in Int
  BY <1>3
<1>. QED
  BY <1>2, <1>4, <1>5 DEF Precedes

\* No breaker trips on an empty table, whatever the floor.
LEMMA NoRecordsNoTrip ==
  ASSUME NEW threshold \in 0 .. 100
  PROVE  ~Trips(NoRecords, threshold)
<1>1. FormatFailures(NoRecords) = {} /\ Held(NoRecords) = {}
  BY HeldOfNoRecords DEF FormatFailures
<1>2. Cardinality({}) = 0
  BY FS_EmptySet
<1>3. 100 * 0 = 0 /\ threshold * 0 = 0
  OBVIOUS
<1>. QED
  BY <1>1, <1>2, <1>3 DEF Trips

-----------------------------------------------------------------------------
(***************************************************************************)
(* The inductive invariant                                                 *)
(***************************************************************************)

\* Between commands nothing is in memory.
AtRest ==
  ~Running => /\ records = NoRecords /\ ~stopped /\ todo = {}
              /\ fresh = {} /\ skipped = {}

\* A record says who made it, and a command holds only records of its kind.
Honest(r) == r.mock <=> r.by = MockModel
Provenance ==
  /\ \A c \in Cells : files[c] \in Record => Honest(files[c])
  /\ \A c \in Held(records) : records[c].mock = args.mock /\ Honest(records[c])
  /\ ProvenancePure

\* The breaker has seen every record in memory, except one being written.
Breaker ==
  /\ pc \in {"cell", "call", "report"} =>
       (stopped <=> Trips(records, args.threshold))
  /\ pc = "call" => ~stopped

\* A cell is passed once its record is on file; the record being written is
\* that of the first cell not passed yet.
Archived ==
  /\ \A c \in Held(records) \ todo : files[c] = records[c]
  /\ pc # "write" => Held(records) \cap todo = {}
  /\ pc = "write" => \A c \in todo : First(c, todo) <=> c \in Held(records)

\* A model is asked, and a run file truncated, only for a cell with no run
\* to reuse.
Paid ==
  /\ pc = "call" /\ ~args.overwrite =>
       \A c \in todo : First(c, todo) => ~MayReuse(files[c], args.mock)
  /\ pc = "write" => \A c \in todo : First(c, todo) => files[c] = Torn

\* Every cell of the grid is recorded, skipped or still to do.
Accounted ==
  /\ Running => Held(records) \cup skipped \cup todo = Grid(loaded, args)
  /\ Held(records) \cap skipped = {}
  /\ skipped \cap todo = {}
  /\ pc = "report" => stopped \/ todo = {}

\* A running command has not ended yet.
Pending == Running => exit = "none"

IInv ==
  /\ TypeOK /\ Pending /\ AtRest /\ Provenance /\ UndisciplinedIsFresh
  /\ Breaker /\ Archived /\ Paid /\ Accounted

\* The invariant without its type part, which TypeStep preserves.
Core ==
  /\ AtRest /\ Provenance /\ UndisciplinedIsFresh
  /\ Breaker /\ Archived /\ Paid /\ Accounted

LEMMA CoreInit == Init => Core
<1>. SUFFICES ASSUME Init PROVE Core
  OBVIOUS
<1>1. Held(records) = {}
  BY HeldOfNoRecords DEF Init
<1>2. \A c \in Cells : files[c] \notin Record
  BY Markers DEF Init, NoRecords
<1>3. scores \notin Report
  BY Markers DEF Init
<1>4. Provenance /\ UndisciplinedIsFresh
  BY <1>1, <1>2, <1>3 DEF Provenance, ProvenancePure, UndisciplinedIsFresh
<1>. QED
  BY <1>1, <1>4 DEF Init, Core, AtRest, Breaker, Archived, Paid, Accounted, Running

\* The end of a command, however it ends, keeps the invariant.
LEMMA EndedCore ==
  ASSUME Core, NEW how, Ended(how), files' = files, ProvenancePure'
  PROVE  Core'
<1>1. Held(records') = {}
  BY HeldOfNoRecords DEF Ended
<1>2. Provenance'
  BY <1>1 DEF Core, Provenance, Honest, Held
<1>3. UndisciplinedIsFresh'
  BY <1>1 DEF UndisciplinedIsFresh, Held
<1>4. AtRest' /\ Breaker' /\ Paid'
  BY DEF Ended, AtRest, Breaker, Paid
<1>5. Archived' /\ Accounted'
  BY <1>1 DEF Ended, Archived, Accounted, Running, Held
<1>. QED
  BY <1>2, <1>3, <1>4, <1>5 DEF Core

LEMMA ReuseCore ==
  ASSUME TypeOK, Core, NEW c \in Cells, Reuse(c)
  PROVE  Core'
<1>1. files[c] \in Record /\ files[c].mock = args.mock /\ files[c].ok
  BY DEF Reuse, MayReuse, SameProvenance
<1>2. /\ Held(records') = Held(records) \cup {c}
      /\ records'[c] = files[c]
      /\ \A d \in Cells \ {c} : records'[d] = records[d]
  <2>1. records \in RecordTable
    BY DEF TypeOK
  <2>2. records' = [records EXCEPT ![c] = files[c]]
    BY DEF Reuse
  <2>. QED
    BY <1>1, <2>1, <2>2, HeldUpdate
<1>3. /\ pc = "cell" /\ pc' = pc /\ ~stopped /\ c \in todo /\ todo' = todo \ {c}
      /\ stopped' = Trips(records', args.threshold)
      /\ UNCHANGED <<files, scores, args, loaded, fresh, skipped>>
  BY DEF Reuse, At, First, disk
<1>4. Honest(files[c])
  BY <1>1 DEF Core, Provenance
<1>5. Provenance'
  <2>1. \A d \in Held(records') : records'[d].mock = args.mock /\ Honest(records'[d])
    BY <1>1, <1>2, <1>4 DEF Core, Provenance, Held
  <2>. QED
    BY <2>1, <1>3 DEF Core, Provenance, ProvenancePure, Honest
<1>6. UndisciplinedIsFresh'
  BY <1>1, <1>2, <1>3 DEF Core, UndisciplinedIsFresh, Held
<1>7. AtRest' /\ Breaker' /\ Paid'
  BY <1>3 DEF AtRest, Breaker, Paid, Running
<1>8. Archived'
  BY <1>2, <1>3 DEF Core, Archived, Held
<1>9. Accounted'
  BY <1>2, <1>3 DEF Core, Accounted, Running
<1>. QED
  BY <1>5, <1>6, <1>7, <1>8, <1>9 DEF Core

LEMMA AskCore ==
  ASSUME TypeOK, Core, NEW c \in Cells, Ask(c)
  PROVE  Core'
<1>1. /\ pc = "cell" /\ pc' = "call" /\ ~stopped /\ First(c, todo)
      /\ UNCHANGED <<files, scores, args, loaded, todo, records, stopped, fresh,
                     skipped>>
      /\ args.overwrite \/ ~MayReuse(files[c], args.mock)
  BY DEF Ask, At, disk
<1>2. \A d \in todo : First(d, todo) => d = c
  BY <1>1, FirstUnique DEF TypeOK
<1>3. Paid'
  BY <1>1, <1>2 DEF Paid
<1>4. Provenance' /\ UndisciplinedIsFresh'
  BY <1>1 DEF Core, Provenance, ProvenancePure, UndisciplinedIsFresh
<1>5. AtRest' /\ Breaker' /\ Archived' /\ Accounted'
  BY <1>1 DEF Core, AtRest, Breaker, Archived, Accounted, Running
<1>. QED
  BY <1>3, <1>4, <1>5 DEF Core

LEMMA AnswerCore ==
  ASSUME TypeOK, Core, NEW c \in Cells, NEW raw \in Answers, NEW ok \in BOOLEAN,
         Answer(c, raw, ok)
  PROVE  Core'
<1>1. args \in Invocations
  BY DEF Answer, TypeOK, Running
<1>2. /\ Scored(raw, ok) \in Record
      /\ Scored(raw, ok).mock = args.mock
      /\ Scored(raw, ok).by = args.model
  BY <1>1, ScoredIsRecord
<1>3. Honest(Scored(raw, ok))
  BY <1>1, <1>2, InvocationFields DEF Honest
<1>4. /\ Held(records') = Held(records) \cup {c}
      /\ records'[c] = Scored(raw, ok)
      /\ \A d \in Cells \ {c} : records'[d] = records[d]
  <2>1. records \in RecordTable
    BY DEF TypeOK
  <2>2. records' = [records EXCEPT ![c] = Scored(raw, ok)]
    BY DEF Answer
  <2>. QED
    BY <1>2, <2>1, <2>2, HeldUpdate
<1>5. /\ files'[c] = Torn
      /\ \A d \in Cells \ {c} : files'[d] = files[d]
  BY DEF Answer, TypeOK, DiskTypeOK
<1>6. /\ pc = "call" /\ pc' = "write" /\ First(c, todo) /\ fresh' = fresh \cup {c}
      /\ UNCHANGED <<scores, args, loaded, todo, stopped, skipped>>
  BY DEF Answer
<1>7. \A d \in todo : First(d, todo) => d = c
  BY <1>6, FirstUnique DEF TypeOK
<1>8. Provenance'
  <2>1. \A d \in Held(records') : records'[d].mock = args.mock /\ Honest(records'[d])
    BY <1>2, <1>3, <1>4 DEF Core, Provenance, Held
  <2>2. \A d \in Cells : files'[d] \in Record => Honest(files'[d])
    BY <1>5, Markers DEF Core, Provenance
  <2>. QED
    BY <2>1, <2>2, <1>6 DEF Core, Provenance, ProvenancePure, Honest
<1>9. UndisciplinedIsFresh'
  BY <1>4, <1>6 DEF Core, UndisciplinedIsFresh, Held
<1>10. AtRest' /\ Breaker' /\ Paid'
  BY <1>5, <1>6, <1>7 DEF AtRest, Breaker, Paid, Running
<1>11. Archived'
  <2>1. c \in todo /\ Held(records) \cap todo = {}
    BY <1>6 DEF First, Core, Archived
  <2>2. \A d \in Held(records') \ todo' : files'[d] = records'[d]
    BY <1>4, <1>5, <1>6, <2>1 DEF Core, Archived, Held
  <2>3. \A d \in todo : First(d, todo) <=> d \in Held(records')
    BY <1>4, <1>6, <1>7, <2>1
  <2>. QED
    BY <1>6, <2>2, <2>3 DEF Archived
<1>12. Accounted'
  BY <1>4, <1>6 DEF Core, Accounted, Running, First
<1>. QED
  BY <1>8, <1>9, <1>10, <1>11, <1>12 DEF Core

LEMMA WriteRunFileCore ==
  ASSUME TypeOK, Core, NEW c \in Cells, WriteRunFile(c)
  PROVE  Core'
<1>1. /\ pc = "write" /\ pc' = "cell" /\ First(c, todo) /\ todo' = todo \ {c}
      /\ stopped' = Trips(records, args.threshold)
      /\ UNCHANGED <<scores, args, loaded, records, fresh, skipped>>
  BY DEF WriteRunFile
<1>2. /\ files'[c] = records[c]
      /\ \A d \in Cells \ {c} : files'[d] = files[d]
  BY DEF WriteRunFile, TypeOK, DiskTypeOK
<1>3. \A d \in Held(records) \cap todo : d = c
  BY <1>1, FirstUnique DEF Core, Archived, TypeOK, Held
<1>4. Provenance'
  <2>1. \A d \in Cells : files'[d] \in Record => Honest(files'[d])
    BY <1>2 DEF Core, Provenance, Held
  <2>. QED
    BY <2>1, <1>1 DEF Core, Provenance, ProvenancePure, Honest
<1>5. UndisciplinedIsFresh' /\ AtRest' /\ Breaker' /\ Paid'
  BY <1>1 DEF Core, UndisciplinedIsFresh, AtRest, Breaker, Paid, Running
<1>6. Archived'
  BY <1>1, <1>2, <1>3 DEF Core, Archived, Held
<1>7. Accounted'
  <2>1. c \in todo /\ c \in Held(records)
    BY <1>1 DEF First, Core, Archived
  <2>. QED
    BY <1>1, <2>1 DEF Core, Accounted, Running
<1>. QED
  BY <1>4, <1>5, <1>6, <1>7 DEF Core

LEMMA BeginCore ==
  ASSUME TypeOK, Core, NEW a \in Invocations, Begin(a)
  PROVE  Core'
<1>1. /\ pc = "idle" /\ pc' = "cell" /\ args' = a /\ loaded' = edition
      /\ todo' = Grid(edition, a)
      /\ UNCHANGED <<files, scores, records, stopped, fresh, skipped>>
  BY DEF Begin, disk
<1>2. records = NoRecords /\ ~stopped /\ skipped = {}
  BY <1>1 DEF Core, AtRest, Running
<1>3. Held(records') = {}
  BY <1>1, <1>2, HeldOfNoRecords
<1>4. ~Trips(records', args'.threshold)
  BY <1>1, <1>2, NoRecordsNoTrip, InvocationFields
<1>5. Provenance' /\ UndisciplinedIsFresh'
  BY <1>1, <1>3
     DEF Core, Provenance, ProvenancePure, Honest, UndisciplinedIsFresh, Held
<1>6. AtRest' /\ Breaker' /\ Paid'
  BY <1>1, <1>2, <1>4 DEF AtRest, Breaker, Paid, Running
<1>7. Archived' /\ Accounted'
  BY <1>1, <1>2, <1>3 DEF Archived, Accounted, Running, Held
<1>. QED
  BY <1>5, <1>6, <1>7 DEF Core

LEMMA TransportErrorCore ==
  ASSUME TypeOK, Core, NEW c \in Cells, TransportError(c)
  PROVE  Core'
<1>1. /\ pc = "call" /\ pc' = "cell" /\ c \in todo /\ todo' = todo \ {c}
      /\ skipped' = skipped \cup {c}
      /\ UNCHANGED <<files, scores, args, loaded, records, stopped, fresh>>
  BY DEF TransportError, First, disk
<1>2. Provenance' /\ UndisciplinedIsFresh'
  BY <1>1 DEF Core, Provenance, ProvenancePure, UndisciplinedIsFresh
<1>3. AtRest' /\ Breaker' /\ Paid'
  BY <1>1 DEF Core, AtRest, Breaker, Paid, Running
<1>4. Archived' /\ Accounted'
  BY <1>1 DEF Core, Archived, Accounted, Running, Held
<1>. QED
  BY <1>2, <1>3, <1>4 DEF Core

LEMMA WriteReportCore ==
  ASSUME TypeOK, Core, WriteReport
  PROVE  Core'
<1>1. /\ files' = files /\ pc = "report"
      /\ scores' = Reported(records, args.mock, args.model, args.n, stopped, FALSE)
      /\ Ended(IF stopped THEN "blocked" ELSE "ok")
  BY DEF WriteReport
<1>2. scores'.runs = records /\ scores'.mock = args.mock
  BY <1>1 DEF Reported
<1>3. ProvenancePure'
  BY <1>2 DEF ProvenancePure, Core, Provenance, Honest
<1>. QED
  BY <1>1, <1>3, EndedCore

LEMMA CoreStep == TypeOK /\ Core /\ [Next]_vars => Core'
<1>. SUFFICES ASSUME TypeOK, Core, [Next]_vars PROVE Core'
  OBVIOUS
<1>1. ASSUME NEW a \in Invocations, Refuse(a) PROVE Core'
  <2>1. UNCHANGED <<files, scores, pc, memory>>
    BY <1>1 DEF Refuse, disk
  <2>. QED
    BY <2>1 DEF memory, Core, AtRest, Provenance, ProvenancePure,
                UndisciplinedIsFresh, Breaker, Archived, Paid, Accounted, Running
<1>2. ASSUME NEW a \in Invocations, Begin(a) PROVE Core'
  BY <1>2, BeginCore
<1>3. ASSUME NEW c \in Cells, Reuse(c) PROVE Core'
  BY <1>3, ReuseCore
<1>4. ASSUME NEW c \in Cells, ReadTorn(c) PROVE Core'
  <2>1. files' = files /\ scores' = scores /\ Ended("raised")
    BY <1>4 DEF ReadTorn, disk
  <2>2. ProvenancePure'
    BY <2>1 DEF Core, Provenance, ProvenancePure
  <2>. QED
    BY <2>1, <2>2, EndedCore
<1>5. ASSUME NEW c \in Cells, Ask(c) PROVE Core'
  BY <1>5, AskCore
<1>6. ASSUME NEW c \in Cells, NEW raw \in Answers, NEW ok \in BOOLEAN,
             Answer(c, raw, ok)
      PROVE  Core'
  BY <1>6, AnswerCore
<1>7. ASSUME NEW c \in Cells, WriteRunFile(c) PROVE Core'
  BY <1>7, WriteRunFileCore
<1>8. ASSUME NEW c \in Cells, TransportError(c) PROVE Core'
  BY <1>8, TransportErrorCore
<1>9. ASSUME Retry PROVE Core'
  <2>1. UNCHANGED <<files, scores, pc, args, loaded, todo, records, stopped,
                    fresh, skipped>>
    BY <1>9 DEF Retry, disk
  <2>. QED
    BY <2>1 DEF Core, AtRest, Provenance, ProvenancePure,
                UndisciplinedIsFresh, Breaker, Archived, Paid, Accounted, Running
<1>10. ASSUME OpenReport PROVE Core'
  <2>1. /\ pc = "cell" /\ pc' = "report"
        /\ stopped \/ todo = {}
        /\ scores' = Torn
        /\ UNCHANGED <<files, args, loaded, todo, records, stopped, fresh, skipped>>
    BY <1>10 DEF OpenReport, memory
  <2>2. Provenance'
    BY <2>1, Markers DEF Core, Provenance, ProvenancePure
  <2>3. AtRest' /\ UndisciplinedIsFresh' /\ Breaker' /\ Paid'
    BY <2>1 DEF Core, AtRest, UndisciplinedIsFresh, Breaker, Paid, Running
  <2>4. Archived' /\ Accounted'
    BY <2>1 DEF Core, Archived, Accounted, Running
  <2>. QED
    BY <2>2, <2>3, <2>4 DEF Core
<1>11. ASSUME WriteReport PROVE Core'
  BY <1>11, WriteReportCore
<1>12. ASSUME Crash PROVE Core'
  <2>1. files' = files /\ scores' = scores /\ Ended("crashed")
    BY <1>12 DEF Crash, disk
  <2>2. ProvenancePure'
    BY <2>1 DEF Core, Provenance, ProvenancePure
  <2>. QED
    BY <2>1, <2>2, EndedCore
<1>13. ASSUME Edit \/ UNCHANGED vars PROVE Core'
  <2>1. UNCHANGED <<files, scores, runnerVars>>
    BY <1>13 DEF Edit, vars, disk
  <2>. QED
    BY <2>1 DEF runnerVars, memory, Core, AtRest, Provenance, ProvenancePure,
                UndisciplinedIsFresh, Breaker, Archived, Paid, Accounted, Running
<1>. QED
  BY <1>1, <1>2, <1>3, <1>4, <1>5, <1>6, <1>7, <1>8, <1>9, <1>10, <1>11,
     <1>12, <1>13
     DEF Next, RunNext, Start, Step

LEMMA PendingStep == Pending /\ [Next]_vars => Pending'
BY DEF Pending, Running, Next, RunNext, Start, Step, Refuse, Begin, Reuse, ReadTorn,
   Ask, At, Answer, WriteRunFile, Retry, TransportError, OpenReport, WriteReport, Crash,
   Ended, Edit, vars, runnerVars

\* The inductive invariant behind every theorem below.
THEOREM Invariance == Spec => []IInv
<1>1. Init => IInv
  BY TypeInit, CoreInit DEF IInv, Core, Pending, Init
<1>2. IInv /\ [Next]_vars => IInv'
  BY TypeStep, CoreStep, PendingStep DEF IInv, Core
<1>. QED
  BY <1>1, <1>2, PTL DEF Spec

-----------------------------------------------------------------------------
(***************************************************************************)
(* What the invariant gives                                                *)
(***************************************************************************)

\* However the commands that filled a directory were ordered, killed and
\* resumed, a report of cmd_run never mixes mock and measured answers.
THEOREM ReportsArePure == Spec => []ProvenancePure
<1>1. IInv => ProvenancePure
  BY DEF IInv, Provenance
<1>. QED
  BY <1>1, Invariance, PTL

\* No archived answer that failed its discipline check is ever reused.
THEOREM NoUndisciplinedReuse == Spec => []UndisciplinedIsFresh
<1>1. IInv => UndisciplinedIsFresh
  BY DEF IInv
<1>. QED
  BY <1>1, Invariance, PTL

\* Only Ask calls a model for a cell, and only where the breaker has not stopped.
LEMMA SpendStep ==
  IInv /\ [Next]_vars =>
    [pc = "cell" /\ pc' = "call" => ~Trips(records, args.threshold)]_vars
<1>. SUFFICES ASSUME IInv, Next, pc = "cell", pc' = "call"
              PROVE  ~Trips(records, args.threshold)
  OBVIOUS
<1>1. PICK c \in Cells : Ask(c)
  BY DEF Next, RunNext, Start, Step, Refuse, Begin, Reuse, ReadTorn, Ended, Answer,
         WriteRunFile, Retry, TransportError, OpenReport, WriteReport, Crash, Edit,
         runnerVars
<1>2. ~stopped
  BY <1>1 DEF Ask, At
<1>. QED
  BY <1>2 DEF IInv, Breaker

\* A command never asks the model again once the breaker has tripped, for
\* every threshold and floor.
THEOREM NoSpendPastBreaker == Spec => BreakerStopsSpend
BY SpendStep, Invariance, PTL DEF Spec, BreakerStopsSpend

\* Only WriteReport makes a report.
LEMMA ReportsComeFromWriteReport ==
  ASSUME Next, scores' \in Report, scores' # scores
  PROVE  WriteReport
BY Markers DEF Next, RunNext, Start, Step, Refuse, Begin, Reuse, ReadTorn, Ask, Answer,
   WriteRunFile, Retry, TransportError, OpenReport, Crash, Edit, disk

\* A report is marked as stopped early exactly when its own runs trip the
\* breaker.
THEOREM StoppedReportsTripped == Spec => StoppedMeansTripped
<1>1. IInv /\ [Next]_vars =>
        [scores' \in Report /\ scores' # scores =>
           (scores'.stopped <=> Trips(scores'.runs, args.threshold))]_vars
  <2>. SUFFICES ASSUME IInv, Next, scores' \in Report, scores' # scores
                PROVE  scores'.stopped <=> Trips(scores'.runs, args.threshold)
    OBVIOUS
  <2>1. WriteReport
    BY ReportsComeFromWriteReport
  <2>2. pc = "report" /\ scores'.stopped = stopped /\ scores'.runs = records
    BY <2>1 DEF WriteReport, Reported
  <2>. QED
    BY <2>2 DEF IInv, Breaker
<1>. QED
  BY <1>1, Invariance, PTL DEF Spec, StoppedMeansTripped

\* Every run a report shows is on file as it is shown.
THEOREM ReportsAreArchived == Spec => ReportIsArchived
<1>1. IInv /\ [Next]_vars =>
        [scores' \in Report /\ scores' # scores =>
           \A c \in Held(scores'.runs) : files[c] = scores'.runs[c]]_vars
  <2>. SUFFICES ASSUME IInv, Next, scores' \in Report, scores' # scores,
                       NEW c \in Held(scores'.runs)
                PROVE  files[c] = scores'.runs[c]
    OBVIOUS
  <2>1. WriteReport
    BY ReportsComeFromWriteReport
  <2>2. pc = "report" /\ scores'.runs = records
    BY <2>1 DEF WriteReport, Reported
  <2>. QED
    BY <2>2 DEF IInv, Archived
<1>. QED
  BY <1>1, Invariance, PTL DEF Spec, ReportIsArchived

\* Only WriteReport ends a grid well.
LEMMA MissingStep ==
  IInv /\ [Next]_vars =>
    [pc = "report" /\ exit' = "ok" =>
       Held(scores'.runs) = Grid(loaded, args) \ skipped]_vars
<1>. SUFFICES ASSUME IInv, Next, pc = "report", exit' = "ok"
              PROVE  Held(scores'.runs) = Grid(loaded, args) \ skipped
  OBVIOUS
<1>1. \/ WriteReport
      \/ Edit /\ exit' = exit
  BY DEF Next, RunNext, Start, Step, Refuse, Begin, Reuse, ReadTorn, Ask, At, Answer,
         WriteRunFile, Retry, TransportError, OpenReport, Crash, Ended, Edit,
         runnerVars
<1>2. exit # "ok"
  BY DEF IInv, Pending, Running
<1>3. WriteReport
  BY <1>1, <1>2
<1>4. scores'.runs = records /\ ~stopped
  BY <1>3 DEF WriteReport, Reported, Ended
<1>. QED
  BY <1>4 DEF IInv, Accounted, Running

\* A grid that ends with EXIT_OK has a record of every cell but those the
\* transport failed for, for every grid.
THEOREM NothingElseIsMissing == Spec => OnlySkippedIsMissing
BY MissingStep, Invariance, PTL DEF Spec, OnlySkippedIsMissing

\* Only the cell being asked about is opened and written.
LEMMA PaidStep ==
  IInv /\ [Next]_vars =>
    [\A c \in Cells :
       Running /\ ~args.overwrite /\ MayReuse(files[c], args.mock)
         => files'[c] = files[c]]_vars
<1>. SUFFICES ASSUME IInv, Next, NEW c \in Cells, Running, ~args.overwrite,
                     MayReuse(files[c], args.mock)
              PROVE  files'[c] = files[c]
  OBVIOUS
<1>1. CASE files' = files
  BY <1>1
<1>2. ASSUME NEW d \in Cells, NEW raw \in Answers, NEW ok \in BOOLEAN,
             Answer(d, raw, ok)
      PROVE  files'[c] = files[c]
  <2>1. pc = "call" /\ d \in todo /\ First(d, todo)
    BY <1>2 DEF Answer, First
  <2>2. c # d
    BY <2>1 DEF IInv, Paid
  <2>. QED
    BY <1>2, <2>2 DEF Answer, IInv, TypeOK, DiskTypeOK
<1>3. ASSUME NEW d \in Cells, WriteRunFile(d)
      PROVE  files'[c] = files[c]
  <2>1. pc = "write" /\ d \in todo /\ First(d, todo)
    BY <1>3 DEF WriteRunFile, First
  <2>2. c # d
    BY <2>1, Markers DEF IInv, Paid, MayReuse
  <2>. QED
    BY <1>3, <2>2 DEF WriteRunFile, IInv, TypeOK, DiskTypeOK
<1>4. \/ files' = files
      \/ \E d \in Cells, raw \in Answers, ok \in BOOLEAN : Answer(d, raw, ok)
      \/ \E d \in Cells : WriteRunFile(d)
  BY DEF Next, RunNext, Start, Step, Refuse, Begin, Reuse, ReadTorn, Ask,
         Retry, TransportError, OpenReport, WriteReport, Crash, Edit, disk
<1>. QED
  BY <1>1, <1>2, <1>3, <1>4

\* Unless told to overwrite, a command never touches a run file it could have
\* reused, however often it is killed and started again.
THEOREM PaidWorkKept == Spec => PaidWorkIsKept
BY PaidStep, Invariance, PTL DEF Spec, PaidWorkIsKept

-----------------------------------------------------------------------------
(***************************************************************************)
(* Why a grid ends.                                                        *)
(***************************************************************************)

LEMMA CellsFinite == IsFiniteSet(Cells)
<1>1. IsFiniteSet(0 .. MaxN - 1)
  BY FS_Interval, RunArchiveAssumption
<1>. QED BY <1>1, FS_Product, RunArchiveAssumption DEF Cells

LEMMA OneCellLess ==
  ASSUME NEW S \in SUBSET Cells, NEW c \in S
  PROVE  /\ Cardinality(S) \in Nat /\ Cardinality(S \ {c}) \in Nat
         /\ Cardinality(S) = Cardinality(S \ {c}) + 1
<1>1. IsFiniteSet(S)
  BY CellsFinite, FS_Subset
<1>2. Cardinality(S \ {c}) = Cardinality(S) - 1
  BY <1>1, FS_RemoveElement
<1>3. IsFiniteSet(S \ {c})
  BY <1>1, FS_Subset
<1>4. Cardinality(S) \in Nat /\ Cardinality(S \ {c}) \in Nat
  BY <1>1, <1>3, FS_CardinalityType
<1>. QED
  BY <1>2, <1>4

\* The steps one cell takes at most, and those the command has left at its place.
StepsOfCell == MaxAttempts + 3
StepsHere ==
  CASE pc = "cell"  -> StepsOfCell
    [] pc = "call"  -> MaxAttempts + 2 - attempt
    [] pc = "write" -> 1
    [] OTHER        -> 0
StepsLeft == Cardinality(todo) * StepsOfCell + StepsHere

\* Passing a cell leaves less to do, wherever in the cell that happens.
LEMMA PassingACell ==
  ASSUME TypeOK, NEW c \in todo, todo' = todo \ {c}, pc' = "cell",
         StepsHere \in 1 .. StepsOfCell
  PROVE  StepsLeft' < StepsLeft
<1> DEFINE n == Cardinality(todo')
<1>1. n \in Nat /\ Cardinality(todo) = n + 1
  BY OneCellLess DEF TypeOK
<1>2. StepsOfCell \in Nat /\ StepsOfCell' = StepsOfCell /\ StepsHere' = StepsOfCell
  BY GridRunnerAssumption DEF StepsOfCell, StepsHere
<1> HIDE DEF n
<1>3. (n + 1) * StepsOfCell = n * StepsOfCell + StepsOfCell /\ n * StepsOfCell \in Nat
  BY <1>1, <1>2
<1>4. StepsLeft = n * StepsOfCell + StepsOfCell + StepsHere
  BY <1>1, <1>3 DEF StepsLeft
<1>5. StepsLeft' = n * StepsOfCell + StepsOfCell
  BY <1>2 DEF StepsLeft, n
<1>. QED
  BY <1>2, <1>3, <1>4, <1>5

\* A place further on in the same cell leaves less to do.
LEMMA WithinACell ==
  ASSUME TypeOK, todo' = todo, StepsHere \in Nat, StepsHere' \in Nat, StepsHere' < StepsHere
  PROVE  StepsLeft' < StepsLeft
<1> DEFINE n == Cardinality(todo) * StepsOfCell
           here == StepsHere
           then == StepsHere'
<1>1. Cardinality(todo) \in Nat
  BY CellsFinite, FS_Subset, FS_CardinalityType DEF TypeOK
<1>2. n \in Nat /\ StepsOfCell' = StepsOfCell
  BY <1>1, GridRunnerAssumption DEF StepsOfCell
<1>3. StepsLeft = n + here
  BY DEF StepsLeft
<1>4. StepsLeft' = n + then
  BY <1>2 DEF StepsLeft
<1>5. here \in Nat /\ then \in Nat /\ then < here
  OBVIOUS
<1> HIDE DEF n, here, then
<1>. QED
  BY <1>2, <1>3, <1>4, <1>5

LEMMA StepsHereBound ==
  ASSUME TypeOK
  PROVE  StepsHere \in 0 .. StepsOfCell /\ (pc \in {"cell", "call", "write"} => StepsHere >= 1)
<1>1. MaxAttempts \in Nat /\ attempt \in 0 .. MaxAttempts
  BY GridRunnerAssumption DEF TypeOK
<1>. QED
  BY <1>1 DEF StepsHere, StepsOfCell

\* Each step of a running command ends it or uses up a step; only the pack and
\* the scorer change meanwhile.
LEMMA StepUsesAStep ==
  ASSUME TypeOK, Next, Running
  PROVE  ~Running' \/ StepsLeft' < StepsLeft \/ UNCHANGED runnerVars
<1>1. /\ StepsHere \in 0 .. StepsOfCell
      /\ pc \in {"cell", "call", "write"} => StepsHere \in 1 .. StepsOfCell
      /\ StepsOfCell \in Nat
  BY StepsHereBound, GridRunnerAssumption DEF StepsOfCell
<1>2. TypeOK' /\ StepsHere' \in Nat
  <2>1. TypeOK'
    BY TypeStep
  <2>2. MaxAttempts \in Nat /\ attempt' \in 0 .. MaxAttempts
    BY <2>1, GridRunnerAssumption DEF TypeOK
  <2>. QED
    BY <2>1, <2>2 DEF StepsHere, StepsOfCell
<1>3. ASSUME NEW c \in Cells, Reuse(c) \/ WriteRunFile(c) \/ TransportError(c)
      PROVE  StepsLeft' < StepsLeft
  <2>1. /\ c \in todo /\ todo' = todo \ {c} /\ pc' = "cell"
        /\ pc \in {"cell", "call", "write"}
    BY <1>3 DEF Reuse, WriteRunFile, TransportError, At, First
  <2>. QED
    BY <1>1, <2>1, PassingACell
<1>4. ASSUME NEW c \in Cells, Ask(c) PROVE StepsLeft' < StepsLeft
  <2>1. todo' = todo /\ pc = "cell" /\ pc' = "call" /\ attempt' = 1
    BY <1>4 DEF Ask, At
  <2>2. StepsHere' < StepsHere
    BY <2>1, GridRunnerAssumption DEF StepsHere, StepsOfCell
  <2>. QED
    BY <1>1, <1>2, <2>1, <2>2, WithinACell
<1>5. ASSUME NEW c \in Cells, NEW raw \in Answers, NEW ok \in BOOLEAN, Answer(c, raw, ok)
      PROVE  StepsLeft' < StepsLeft
  <2>1. todo' = todo /\ pc = "call" /\ pc' = "write" /\ attempt \in 0 .. MaxAttempts
    BY <1>5 DEF Answer, TypeOK
  <2>2. StepsHere' < StepsHere
    BY <2>1, GridRunnerAssumption DEF StepsHere, StepsOfCell
  <2>. QED
    BY <1>1, <1>2, <2>1, <2>2, WithinACell
<1>6. ASSUME Retry PROVE StepsLeft' < StepsLeft
  <2>1. /\ todo' = todo /\ pc = "call" /\ pc' = "call" /\ attempt' = attempt + 1
        /\ attempt \in 0 .. MaxAttempts
    BY <1>6 DEF Retry, TypeOK, memory
  <2>2. StepsHere' < StepsHere
    BY <2>1, GridRunnerAssumption DEF StepsHere, StepsOfCell
  <2>. QED
    BY <1>1, <1>2, <2>1, <2>2, WithinACell
<1>7. ASSUME OpenReport PROVE StepsLeft' < StepsLeft
  <2>1. todo' = todo /\ pc = "cell" /\ pc' = "report"
    BY <1>7 DEF OpenReport, memory
  <2>2. StepsHere' < StepsHere
    BY <2>1, GridRunnerAssumption DEF StepsHere, StepsOfCell
  <2>. QED
    BY <1>1, <1>2, <2>1, <2>2, WithinACell
<1>8. ASSUME (\E c \in Cells : ReadTorn(c)) \/ WriteReport \/ Crash PROVE ~Running'
  BY <1>8 DEF ReadTorn, WriteReport, Crash, Ended, Running
<1>9. ~Start
  BY DEF Start, Refuse, Begin, Running
<1>10. Edit => UNCHANGED runnerVars
  BY DEF Edit
<1>. QED
  BY <1>3, <1>4, <1>5, <1>6, <1>7, <1>8, <1>9, <1>10 DEF Next, RunNext, Step

\* What is to do lies in the grid, so what is left is bounded from the start.
LEMMA StepsAreBounded ==
  ASSUME IInv, Running
  PROVE  StepsLeft \in 0 .. (Cardinality(Grid(loaded, args)) + 1) * StepsOfCell
<1> DEFINE n == Cardinality(todo)
           m == Cardinality(Grid(loaded, args))
<1>1. todo \subseteq Grid(loaded, args)
  BY DEF IInv, Accounted
<1>2. IsFiniteSet(Grid(loaded, args))
  <2>1. Grid(loaded, args) \subseteq Cells
    BY GridInCells DEF IInv, TypeOK
  <2>. QED
    BY <2>1, CellsFinite, FS_Subset
<1>3. n \in Nat /\ m \in Nat /\ n <= m
  BY <1>1, <1>2, FS_Subset, FS_CardinalityType
<1>4. StepsHere \in 0 .. StepsOfCell /\ StepsOfCell \in Nat
  BY StepsHereBound, GridRunnerAssumption DEF IInv, StepsOfCell
<1> HIDE DEF n, m
<1>5. /\ n * StepsOfCell \in Nat /\ m * StepsOfCell \in Nat
      /\ n * StepsOfCell <= m * StepsOfCell
      /\ (m + 1) * StepsOfCell = m * StepsOfCell + StepsOfCell
  BY <1>3, <1>4
<1>6. StepsLeft = n * StepsOfCell + StepsHere
  BY DEF StepsLeft, n
<1>7. StepsLeft \in 0 .. (m + 1) * StepsOfCell
  BY <1>4, <1>5, <1>6
<1>. QED
  BY <1>7 DEF m

\* A grid cannot go on for ever: of a number of steps that its cells and the
\* attempts allowed bound in advance, each of its steps uses up one or ends it
\* (the loops of core/__main__.py:399).
THEOREM GridsAreFinite ==
  Spec => /\ [](Running => StepsLeft \in 0 .. (Cardinality(Grid(loaded, args)) + 1) * StepsOfCell)
          /\ [][Running => ~Running' \/ StepsLeft' < StepsLeft \/ UNCHANGED runnerVars]_vars
<1>1. IInv => (Running => StepsLeft \in 0 .. (Cardinality(Grid(loaded, args)) + 1) * StepsOfCell)
  BY StepsAreBounded
<1>2. IInv /\ [Next]_vars =>
        [Running => ~Running' \/ StepsLeft' < StepsLeft \/ UNCHANGED runnerVars]_vars
  BY StepUsesAStep DEF IInv
<1>. QED
  BY <1>1, <1>2, Invariance, PTL DEF Spec
=============================================================================
