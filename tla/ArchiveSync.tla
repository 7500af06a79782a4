------------------------------ MODULE ArchiveSync ------------------------------
(***************************************************************************)
(* `rebuild-report` (core/rebuild.py) and `reconcile-runs`                 *)
(* (core/archive.py) on one results directory.  A rebuild re-scores every  *)
(* run file with the pack and scorer of now, writes the report, and        *)
(* reconciles.  Reconciling verifies that run files and report pair up and *)
(* agree on all evidence, and only then copies the derived fields of the   *)
(* report into the run files, one file after the other.                    *)
(***************************************************************************)
EXTENDS RunArchive

CONSTANT DefaultModel  \* rebuild.DEFAULT_MODEL

ASSUME ArchiveSyncAssumption == DefaultModel \in Models

VARIABLES
  spc,      \* where the command is
  command,  \* "rebuild", "reconcile" or "check" (reconcile-runs --check)
  against,  \* the edition a rebuild loaded
  held,     \* the records a rebuild has re-scored
  plan,     \* the updated run records still to be written
  outcome   \* how the last command ended

syncVars == <<spc, command, against, held, plan, outcome>>

Syncing == spc # "idle"

SyncInit ==
  /\ spc = "idle"
  /\ command = "none"
  /\ against = edition
  /\ held = NoRecords
  /\ plan = NoRecords
  /\ outcome = "none"

SyncEnded(how) ==
  /\ spc' = "idle"
  /\ command' = "none"
  /\ held' = NoRecords
  /\ plan' = NoRecords
  /\ outcome' = how
  /\ UNCHANGED against

RunFiles == {c \in Cells : files[c] # NoFile}

-----------------------------------------------------------------------------
(***************************************************************************)
(* rebuild_report                                                          *)
(***************************************************************************)

\* Mutant: the record is stamped like the metadata of the rebuilt report.
RescoredStamped(r, c, e) ==
  [r EXCEPT !.mock = FALSE,
            !.score = IF c[1] \in TasksOf[e] THEN Verdict[e, r.raw] ELSE @]

\* A record of a task the pack no longer has keeps its old score.
Rescored(r, c, e) ==
  IF c[1] \in TasksOf[e] THEN [r EXCEPT !.score = Verdict[e, r.raw]] ELSE r

\* Without a run file there is nothing to rebuild from.
RebuildNothing ==
  /\ spc = "idle"
  /\ RunFiles = {}
  /\ outcome' = "error"
  /\ UNCHANGED <<disk, spc, command, against, held, plan>>

\* json.loads on a truncated run file raises; the command reports only
\* FileNotFoundError itself.
RebuildTorn ==
  /\ spc = "idle"
  /\ \E c \in Cells : files[c] = Torn
  /\ outcome' = "raised"
  /\ UNCHANGED <<disk, spc, command, against, held, plan>>

RebuildRead ==
  /\ spc = "idle"
  /\ RunFiles # {}
  /\ \A c \in Cells : files[c] # Torn
  /\ spc' = "rescored"
  /\ command' = "rebuild"
  /\ against' = edition
  /\ held' = [c \in Cells |-> IF files[c] \in Record
                              THEN Rescored(files[c], c, edition) ELSE NoFile]
  /\ outcome' = "none"
  /\ UNCHANGED <<disk, plan>>

\* n, when there is no prior report to take it from: the largest run index
\* on file, plus one.
InferredN ==
  CHOOSE n \in 1 .. MaxN :
    /\ \E c \in Held(held) : c[2] = n - 1
    /\ \A c \in Held(held) : c[2] <= n - 1

\* The metadata block: provenance carried over from a readable prior report,
\* but `mock: False` in every case.
Rebuilt ==
  IF scores \in Report
  THEN Reported(held, FALSE, scores.model, scores.n, scores.stopped, TRUE)
  ELSE Reported(held, FALSE, DefaultModel, InferredN, FALSE, TRUE)

\* write_reports: the report is on disk before anything is reconciled.
RebuildWrite ==
  /\ spc = "rescored"
  /\ scores' = Rebuilt
  /\ spc' = "verify"
  /\ UNCHANGED <<files, edition, command, against, held, plan, outcome>>

\* Killed after scores.json was opened, which truncates it, and before it was
\* written.
RebuildTears ==
  /\ spc = "rescored"
  /\ scores' = Torn
  /\ SyncEnded("crashed")
  /\ UNCHANGED <<files, edition>>

-----------------------------------------------------------------------------
(***************************************************************************)
(* reconcile_runs                                                          *)
(***************************************************************************)

Reconcile(cmd) ==
  /\ spc = "idle"
  /\ cmd \in {"reconcile", "check"}
  /\ spc' = "verify"
  /\ command' = cmd
  /\ outcome' = "none"
  /\ UNCHANGED <<disk, against, held, plan>>

\* Mutant: files and entries are paired up, and their evidence is not compared.
ReconcilableByPairs ==
  /\ scores \in Report
  /\ RunFiles # {}
  /\ Cardinality(RunFiles) = Cardinality(Held(scores.runs))
  /\ \A c \in RunFiles : files[c] \in Record /\ scores.runs[c] \in Record

\* Every run file has an entry, every entry a run file, and each pair agrees
\* on all evidence.
Reconcilable ==
  /\ scores \in Report
  /\ RunFiles # {}
  /\ Cardinality(RunFiles) = Cardinality(Held(scores.runs))
  /\ \A c \in RunFiles :
       /\ files[c] \in Record
       /\ scores.runs[c] \in Record
       /\ Evidence(files[c]) = Evidence(scores.runs[c])

\* Mutant: the score is not among the derived fields.
UpdatedWithout(c) == files[c]

\* The run record with the derived fields of its published entry.
Updated(c) == [files[c] EXCEPT !.score = scores.runs[c].score]

Stale == {c \in RunFiles : files[c].score # scores.runs[c].score}

\* A problem anywhere ends the command before it has written anything.
VerifyFails ==
  /\ spc = "verify"
  /\ ~Reconcilable
  /\ SyncEnded(IF command = "rebuild" THEN "unreconciled" ELSE "blocked")
  /\ UNCHANGED disk

VerifyPasses ==
  /\ spc = "verify"
  /\ Reconcilable
  /\ IF command = "check"
     THEN SyncEnded(IF Stale = {} THEN "ok" ELSE "error")
     ELSE /\ plan' = [c \in Cells |-> IF c \in Stale THEN Updated(c) ELSE NoFile]
          /\ spc' = "sync"
          /\ UNCHANGED <<command, against, held, outcome>>
  /\ UNCHANGED disk

OpenStale(c) ==
  /\ spc = "sync"
  /\ First(c, Held(plan))
  /\ files' = [files EXCEPT ![c] = Torn]
  /\ spc' = "write"
  /\ UNCHANGED <<scores, edition, command, against, held, plan, outcome>>

WriteStale(c) ==
  /\ spc = "write"
  /\ First(c, Held(plan))
  /\ files' = [files EXCEPT ![c] = plan[c]]
  /\ plan' = [plan EXCEPT ![c] = NoFile]
  /\ spc' = "sync"
  /\ UNCHANGED <<scores, edition, command, against, held, outcome>>

\* Mutant of SyncDone: the command ends after the first file.
SyncDoneEarly ==
  /\ spc = "sync"
  /\ SyncEnded("ok")
  /\ UNCHANGED disk

SyncDone ==
  /\ spc = "sync"
  /\ Held(plan) = {}
  /\ SyncEnded("ok")
  /\ UNCHANGED disk

SyncCrash ==
  /\ Syncing
  /\ SyncEnded("crashed")
  /\ UNCHANGED disk

-----------------------------------------------------------------------------

SyncStart ==
  \/ RebuildNothing
  \/ RebuildTorn
  \/ RebuildRead
  \/ \E cmd \in {"reconcile", "check"} : Reconcile(cmd)

SyncStep ==
  \/ RebuildWrite
  \/ VerifyFails
  \/ VerifyPasses
  \/ \E c \in Cells : OpenStale(c) \/ WriteStale(c)
  \/ SyncDone

SyncNext == SyncStart \/ SyncStep \/ RebuildTears \/ SyncCrash

SyncTypeOK ==
  /\ DiskTypeOK
  /\ spc \in {"idle", "rescored", "verify", "sync", "write"}
  /\ command \in {"none", "rebuild", "reconcile", "check"}
  /\ against \in Editions
  /\ held \in RecordTable
  /\ plan \in RecordTable
  /\ outcome \in {"none", "ok", "error", "blocked", "raised", "unreconciled",
                  "crashed"}

-----------------------------------------------------------------------------

\* While the run files are being synchronised, each readable one and its
\* published entry agree on all evidence, and each is either still to be
\* written or already equal to its entry (core/archive.py:14, 136).
SyncKeepsEvidence ==
  spc \in {"sync", "write"} =>
    \A c \in RunFiles \cap Held(scores.runs) :
      /\ files[c] \in Record => Evidence(files[c]) = Evidence(scores.runs[c])
      /\ plan[c] \in Record \/ files[c] = scores.runs[c]

\* A rebuild or a reconciliation that ends well leaves run files and report in
\* full agreement, and a rebuild leaves every run of a task the pack still has
\* scored by the edition it loaded.
SyncedAgree ==
  [][spc = "sync" /\ outcome' = "ok" =>
       /\ files = scores.runs
       /\ command = "rebuild" =>
            \A c \in Held(files) : c[1] \in TasksOf[against] =>
              files[c].score = Verdict[against, files[c].raw]]_<<disk, syncVars>>

\* The report a rebuild has just written can always be reconciled with the run
\* files it was built from: its RuntimeError (core/rebuild.py:128) is dead.
RebuildReconciles == outcome # "unreconciled"
=============================================================================
