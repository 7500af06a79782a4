------------------------------ MODULE RunArchive ------------------------------
(***************************************************************************)
(* One results directory, <pack>/results/<date>-<condition>/: the run      *)
(* records under runs/ and the report scores.json built from them, with    *)
(* the pure rules core/__main__.py and core/archive.py apply to them.      *)
(*                                                                         *)
(* A record keeps the fields the rules tell apart.  by, mock, ok and raw   *)
(* are evidence (archive.TRANSPORT_FIELDS): who answered, the provenance   *)
(* stamp, the tool-discipline verdict and the response.  score is what the *)
(* scorer derived from raw (archive.DERIVED_FIELDS).  by is not written to *)
(* disk by name: it stands for the transcript, from which a reader could   *)
(* tell who answered.                                                      *)
(***************************************************************************)
EXTENDS Naturals, FiniteSets

CONSTANTS
  Tasks,        \* task ids, as numbers in the order load_tasks yields them
  MaxN,         \* the largest --n an operator passes
  Models,       \* the real models an operator may pin
  MockModel,    \* "mock-model"
  Answers,      \* what a response can say
  KeyAnswer,    \* the answer key rendered as an answer (the mock provider)
  NoBlock,      \* prose without an answer block (the mock provider's last task)
  Scores,       \* what the scorer can make of an answer
  Unparseable,  \* the score of a format failure
  Editions,     \* states of the pack and the scorer over time
  Verdict,      \* Verdict[e, a]: the score edition e gives to answer a
  TasksOf,      \* TasksOf[e]: the tasks the pack has in edition e
  Floor,        \* FORMAT_FAILURE_FLOOR
  NoFile,       \* no such file, no such record
  Torn          \* a file truncated for writing and not yet written

Cells == Tasks \X (0 .. MaxN - 1)

Record == [by: Models \cup {MockModel}, mock: BOOLEAN, ok: BOOLEAN,
           raw: Answers, score: Scores]

\* The in-memory list `records`, keyed by cell: an invocation appends at most
\* one record per cell.
RecordTable == [Cells -> Record \cup {NoFile}]

\* scores.json: the metadata a property reads, and the `runs` array.
Report == [mock: BOOLEAN, model: Models \cup {MockModel}, n: 1 .. MaxN,
           stopped: BOOLEAN, rebuilt: BOOLEAN, runs: RecordTable]

ASSUME RunArchiveAssumption ==
  /\ Tasks \subseteq Nat /\ IsFiniteSet(Tasks)
  /\ MaxN \in Nat \ {0}
  /\ MockModel \notin Models
  /\ KeyAnswer \in Answers /\ NoBlock \in Answers
  /\ Unparseable \in Scores
  /\ Verdict \in [Editions \X Answers -> Scores]
  /\ TasksOf \in [Editions -> SUBSET Tasks]
  /\ Floor \in Nat
  /\ NoFile # Torn
  /\ NoFile \notin Record \cup Report
  /\ Torn \notin Record \cup Report

VARIABLES
  files,    \* files[c]: the run file of cell c, runs/<task>-run<index>.json
  scores,   \* scores.json
  edition   \* the pack and the scorer as they are on disk now

disk == <<files, scores, edition>>

DiskTypeOK ==
  /\ files \in [Cells -> Record \cup {NoFile, Torn}]
  /\ scores \in Report \cup {NoFile, Torn}
  /\ edition \in Editions

-----------------------------------------------------------------------------

NoRecords == [c \in Cells |-> NoFile]

\* The cells a record table holds a record for.
Held(table) == {c \in Cells : table[c] \in Record}

\* Grids run task-major: every run of a task before the next task.
Precedes(c, d) == c[1] < d[1] \/ (c[1] = d[1] /\ c[2] < d[2])

First(c, todo) == c \in todo /\ \A d \in todo \ {c} : Precedes(c, d)

\* Mutants: a rule that ignores who answered, or whether the answer passed.
AnyProvenance(file, mock) == TRUE
MayReuseUndisciplined(file, mock) == file \in Record /\ file.mock = mock

\* may_reuse_archived_run: whether a file may stand in for the run about to
\* be made.  Provenance and discipline have to hold both.
SameProvenance(file, mock) == file.mock = mock

MayReuse(file, mock) ==
  /\ file \in Record
  /\ SameProvenance(file, mock)
  /\ file.ok

\* format_failure_breaker: too many unparseable answers among the records so
\* far.  The threshold is a percentage; 100 disables the breaker, and below
\* the floor a rate means nothing.
FormatFailures(table) == {c \in Held(table) : table[c].score = Unparseable}

Trips(table, threshold) ==
  /\ threshold < 100
  /\ Cardinality(Held(table)) >= Floor
  /\ 100 * Cardinality(FormatFailures(table))
       > threshold * Cardinality(Held(table))

\* The fields archive.reconcile_runs must never change.
Evidence(r) == <<r.by, r.mock, r.ok, r.raw>>

\* write_reports over an in-memory record table.
Reported(table, mock, model, n, stopped, rebuilt) ==
  [mock |-> mock, model |-> model, n |-> n, stopped |-> stopped,
   rebuilt |-> rebuilt, runs |-> table]
=============================================================================
