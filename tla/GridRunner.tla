------------------------------ MODULE GridRunner ------------------------------
(***************************************************************************)
(* cmd_run (core/__main__.py): one `run` of one condition into one results *)
(* directory.  It walks the grid task by task, reuses an archived run when *)
(* it may, otherwise asks the model up to MaxAttempts times until the      *)
(* condition's tool-discipline check passes, archives each record as soon  *)
(* as it has one, stops early when the format-failure breaker trips, and   *)
(* writes the report from the records it holds in memory.                  *)
(*                                                                         *)
(* A command may be killed at any step.  What it held in memory is then    *)
(* lost and a file it was writing stays truncated: Path.write_text opens   *)
(* the file for writing, which empties it, before it writes.               *)
(***************************************************************************)
EXTENDS RunArchive

CONSTANTS
  Invocations,  \* the argument lists an operator passes
  MaxAttempts   \* max_tool_retries

ASSUME GridRunnerAssumption ==
  /\ MaxAttempts \in Nat \ {0}
  /\ Invocations \subseteq
       [only: SUBSET Tasks, n: 1 .. MaxN, mock: BOOLEAN,
        model: Models \cup {MockModel}, overwrite: BOOLEAN,
        threshold: 0 .. 100]
  /\ \A a \in Invocations :
       IF a.mock THEN a.model = MockModel /\ a.threshold = 100
                 ELSE a.model \in Models

VARIABLES
  pc,       \* where the command is
  args,     \* its arguments
  loaded,   \* the edition its pack and scorer were loaded from
  todo,     \* the cells of the grid it has not passed yet
  records,  \* `records`
  stopped,  \* `stopped_early`
  attempt,  \* `attempt`
  fresh,    \* history: cells this command obtained an answer for
  skipped,  \* history: cells it skipped after a transport error
  exit      \* how the last command ended

memory == <<args, loaded, todo, records, stopped, attempt, fresh, skipped>>
runnerVars == <<pc, memory, exit>>
vars == <<disk, runnerVars>>

Running == pc # "idle"

\* The grid of one invocation: `--tasks` restricts the pack's own tasks.
Grid(e, a) == (TasksOf[e] \cap a.only) \X (0 .. a.n - 1)

Init ==
  /\ files = NoRecords
  /\ scores = NoFile
  /\ edition \in Editions
  /\ pc = "idle"
  /\ args = NoFile
  /\ loaded = edition
  /\ todo = {}
  /\ records = NoRecords
  /\ stopped = FALSE
  /\ attempt = 0
  /\ fresh = {}
  /\ skipped = {}
  /\ exit = "none"

\* The process is gone, and its memory with it.
Ended(how) ==
  /\ pc' = "idle"
  /\ args' = NoFile
  /\ todo' = {}
  /\ records' = NoRecords
  /\ stopped' = FALSE
  /\ attempt' = 0
  /\ fresh' = {}
  /\ skipped' = {}
  /\ exit' = how
  /\ UNCHANGED loaded

-----------------------------------------------------------------------------
(***************************************************************************)
(* Starting                                                                *)
(***************************************************************************)

\* A gate refuses to start: no task matched, or (never for a mock run) the
\* prompt gate, the transport, the model-pin guard or the canaries refuse.
Refuse(a) ==
  /\ pc = "idle"
  /\ \/ Grid(edition, a) = {} /\ exit' = "error"
     \/ Grid(edition, a) # {} /\ ~a.mock /\ exit' \in {"blocked", "error"}
  /\ UNCHANGED <<disk, pc, memory>>

Begin(a) ==
  /\ pc = "idle"
  /\ Grid(edition, a) # {}
  /\ pc' = "cell"
  /\ args' = a
  /\ loaded' = edition
  /\ todo' = Grid(edition, a)
  /\ exit' = "none"
  /\ UNCHANGED <<disk, records, stopped, attempt, fresh, skipped>>

-----------------------------------------------------------------------------
(***************************************************************************)
(* The loop over the grid                                                  *)
(***************************************************************************)

\* The loop has reached cell c.
At(c) == pc = "cell" /\ ~stopped /\ First(c, todo)

\* Mutants of Reuse: `records.append(prev)` is forgotten; the breaker is not
\* consulted before `continue`.
ReuseForgets(c) ==
  /\ At(c) /\ ~args.overwrite /\ MayReuse(files[c], args.mock)
  /\ todo' = todo \ {c}
  /\ UNCHANGED <<disk, pc, args, loaded, records, stopped, attempt, fresh,
                 skipped, exit>>
ReuseUnwatched(c) ==
  /\ At(c) /\ ~args.overwrite /\ MayReuse(files[c], args.mock)
  /\ records' = [records EXCEPT ![c] = files[c]]
  /\ todo' = todo \ {c}
  /\ UNCHANGED <<disk, pc, args, loaded, stopped, attempt, fresh, skipped, exit>>

\* The archived run stands in for a new one, verbatim.
Reuse(c) ==
  /\ At(c)
  /\ ~args.overwrite
  /\ MayReuse(files[c], args.mock)
  /\ records' = [records EXCEPT ![c] = files[c]]
  /\ stopped' = Trips(records', args.threshold)
  /\ todo' = todo \ {c}
  /\ UNCHANGED <<disk, pc, args, loaded, attempt, fresh, skipped, exit>>

\* json.loads on a truncated run file raises out of the command.
ReadTorn(c) ==
  /\ At(c)
  /\ ~args.overwrite
  /\ files[c] = Torn
  /\ Ended("raised")
  /\ UNCHANGED disk

\* Mutant of Ask: the archive is not consulted.
AskAgain(c) ==
  /\ At(c)
  /\ pc' = "call"
  /\ attempt' = 1
  /\ UNCHANGED <<disk, args, loaded, todo, records, stopped, fresh, skipped,
                 exit>>

\* There is no run to reuse: ask the model.
Ask(c) ==
  /\ At(c)
  /\ args.overwrite \/ (files[c] # Torn /\ ~MayReuse(files[c], args.mock))
  /\ pc' = "call"
  /\ attempt' = 1
  /\ UNCHANGED <<disk, args, loaded, todo, records, stopped, fresh, skipped,
                 exit>>

\* _record, scored by the edition the command loaded.
Scored(raw, ok) ==
  [by |-> args.model, mock |-> args.mock, ok |-> ok, raw |-> raw,
   score |-> Verdict[loaded, raw]]

\* _build_mock_responses breaks the last task's answer on purpose.
MockAnswer(t) ==
  IF \A u \in TasksOf[loaded] \cap args.only : u <= t THEN NoBlock
                                                      ELSE KeyAnswer

\* A response passes the tool-discipline check, or is the last one allowed; a
\* mock run is not checked.  Its record is appended, and its file opened,
\* which truncates it ...
Answer(c, raw, ok) ==
  /\ pc = "call"
  /\ First(c, todo)
  /\ IF args.mock THEN ok /\ raw = MockAnswer(c[1])
                  ELSE ok \/ attempt = MaxAttempts
  /\ records' = [records EXCEPT ![c] = Scored(raw, ok)]
  /\ files' = [files EXCEPT ![c] = Torn]
  /\ fresh' = fresh \cup {c}
  /\ attempt' = 0
  /\ pc' = "write"
  /\ UNCHANGED <<scores, edition, args, loaded, todo, stopped, skipped, exit>>

\* Mutants of WriteRunFile: an undisciplined run is not archived; it is run
\* again until it passes; the breaker looks at the records before this one.
WriteDisciplined(c) ==
  /\ pc = "write" /\ First(c, todo)
  /\ files' = [files EXCEPT ![c] = IF records[c].ok THEN records[c] ELSE NoFile]
  /\ stopped' = Trips(records, args.threshold)
  /\ todo' = todo \ {c}
  /\ pc' = "cell"
  /\ UNCHANGED <<scores, edition, args, loaded, records, attempt, fresh,
                 skipped, exit>>
WriteAndRepeat(c) ==
  /\ pc = "write" /\ First(c, todo)
  /\ files' = [files EXCEPT ![c] = records[c]]
  /\ stopped' = Trips(records, args.threshold)
  /\ todo' = IF records[c].ok THEN todo \ {c} ELSE todo
  /\ pc' = "cell"
  /\ UNCHANGED <<scores, edition, args, loaded, records, attempt, fresh,
                 skipped, exit>>
WriteThenLate(c) ==
  /\ pc = "write" /\ First(c, todo)
  /\ files' = [files EXCEPT ![c] = records[c]]
  /\ stopped' = Trips([records EXCEPT ![c] = NoFile], args.threshold)
  /\ todo' = todo \ {c}
  /\ pc' = "cell"
  /\ UNCHANGED <<scores, edition, args, loaded, records, attempt, fresh,
                 skipped, exit>>

\* ... and written.  Then the breaker looks at the records so far.
WriteRunFile(c) ==
  /\ pc = "write"
  /\ First(c, todo)
  /\ files' = [files EXCEPT ![c] = records[c]]
  /\ stopped' = Trips(records, args.threshold)
  /\ todo' = todo \ {c}
  /\ pc' = "cell"
  /\ UNCHANGED <<scores, edition, args, loaded, records, attempt, fresh,
                 skipped, exit>>

\* Mutant of Retry: no last attempt.
RetryForever ==
  /\ pc = "call" /\ ~args.mock
  /\ attempt' = attempt + 1
  /\ UNCHANGED <<disk, pc, args, loaded, todo, records, stopped, fresh, skipped,
                 exit>>

\* A discipline violation with attempts left: the response is discarded.
Retry ==
  /\ pc = "call"
  /\ ~args.mock
  /\ attempt < MaxAttempts
  /\ attempt' = attempt + 1
  /\ UNCHANGED <<disk, pc, args, loaded, todo, records, stopped, fresh, skipped,
                 exit>>

\* ModelError: the cell is skipped.  Its run file stays as it was.
TransportError(c) ==
  /\ pc = "call"
  /\ First(c, todo)
  /\ ~args.mock
  /\ pc' = "cell"
  /\ attempt' = 0
  /\ todo' = todo \ {c}
  /\ skipped' = skipped \cup {c}
  /\ UNCHANGED <<disk, args, loaded, records, stopped, fresh, exit>>

-----------------------------------------------------------------------------
(***************************************************************************)
(* The report, and the end of the command                                  *)
(***************************************************************************)

OpenReport ==
  /\ pc = "cell"
  /\ stopped \/ todo = {}
  /\ scores' = Torn
  /\ pc' = "report"
  /\ UNCHANGED <<files, edition, memory, exit>>

WriteReport ==
  /\ pc = "report"
  /\ scores' = Reported(records, args.mock, args.model, args.n, stopped, FALSE)
  /\ Ended(IF stopped THEN "blocked" ELSE "ok")
  /\ UNCHANGED <<files, edition>>

\* The process is killed.
Crash ==
  /\ Running
  /\ Ended("crashed")
  /\ UNCHANGED disk

-----------------------------------------------------------------------------

\* The steps the command takes by itself, once it was started.
Step ==
  \/ \E c \in Cells :
       \/ Reuse(c) \/ ReadTorn(c) \/ Ask(c)
       \/ \E raw \in Answers, ok \in BOOLEAN : Answer(c, raw, ok)
       \/ WriteRunFile(c)
       \/ TransportError(c)
  \/ Retry
  \/ OpenReport
  \/ WriteReport

Start == \E a \in Invocations : Refuse(a) \/ Begin(a)

\* The pack's answer key or the scorer changes.
Edit ==
  /\ edition' \in Editions \ {edition}
  /\ UNCHANGED <<files, scores, runnerVars>>

RunNext == Start \/ Step \/ Crash

Next == RunNext \/ Edit

Spec == Init /\ [][Next]_vars

\* A model call returns or raises: core/model.py bounds each by a timeout.
FairSpec == Spec /\ WF_vars(Step)

-----------------------------------------------------------------------------

TypeOK ==
  /\ DiskTypeOK
  /\ pc \in {"idle", "cell", "call", "write", "report"}
  /\ args \in Invocations \cup {NoFile}
  /\ Running => args \in Invocations
  /\ loaded \in Editions
  /\ todo \in SUBSET Cells
  /\ records \in RecordTable
  /\ stopped \in BOOLEAN
  /\ attempt \in 0 .. MaxAttempts
  /\ fresh \in SUBSET Cells
  /\ skipped \in SUBSET Cells
  /\ exit \in {"none", "ok", "blocked", "error", "raised", "crashed"}

\* However the commands that filled the directory were ordered, killed and
\* resumed: every run a report shows bears the stamp of who answered, also in a
\* report that was rebuilt from the archive, and a report cmd_run wrote never
\* mixes mock and measured answers (may_reuse_archived_run,
\* core/__main__.py:91).
ProvenancePure ==
  scores \in Report =>
    \A c \in Held(scores.runs) :
      /\ scores.runs[c].mock <=> scores.runs[c].by = MockModel
      /\ ~scores.rebuilt => scores.runs[c].mock = scores.mock

\* An answer that failed its tool-discipline check enters a grid only as the
\* last of MaxAttempts attempts of the command that reports it, never by
\* reuse of an archived run (core/__main__.py:111, 430).
UndisciplinedIsFresh ==
  \A c \in Held(records) : ~records[c].ok => c \in fresh

\* A command that has asked for an answer nobody can parse too often asks for
\* no further one: the breaker has been consulted after every record, reused
\* ones included (core/__main__.py:416, 460).
BreakerStopsSpend ==
  [][pc = "cell" /\ pc' = "call" => ~Trips(records, args.threshold)]_vars

\* A report says it was stopped early exactly when its own runs trip the
\* breaker; a grid cannot stop on records it does not publish.
StoppedMeansTripped ==
  [][scores' \in Report /\ scores' # scores =>
       (scores'.stopped <=> Trips(scores'.runs, args.threshold))]_vars

\* Every record a command reports is, at that moment, the content of its run
\* file: the report can be rebuilt from the archive.
ReportIsArchived ==
  [][scores' \in Report /\ scores' # scores =>
       \A c \in Held(scores'.runs) : files[c] = scores'.runs[c]]_vars

\* Work already paid for is kept: unless told to overwrite, no step of a
\* command replaces a run file it could have reused.  In particular a command
\* killed half way and started again asks only for what is missing.
PaidWorkIsKept ==
  [][\A c \in Cells :
       Running /\ ~args.overwrite /\ MayReuse(files[c], args.mock)
         => files'[c] = files[c]]_vars

\* A grid that ended with EXIT_OK holds a record of every cell except those
\* the transport failed for, and says N of each task otherwise.
OnlySkippedIsMissing ==
  [][pc = "report" /\ exit' = "ok" =>
       Held(scores'.runs) = Grid(loaded, args) \ skipped]_vars

\* Every command ends.
CommandEnds == Running ~> ~Running
=============================================================================
