----------------------------- MODULE ArchiveProofs -----------------------------
(***************************************************************************)
(* What `rebuild-report` and `reconcile-runs` promise for every archive,   *)
(* every history of packs and scorers, and every interleaving with grids   *)
(* over the same directory.                                                *)
(***************************************************************************)
EXTENDS ResultsDir, GridRunnerProofs, FiniteFacts

-----------------------------------------------------------------------------
(***************************************************************************)
(* Records.                                                                *)
(***************************************************************************)

\* Re-scoring keeps a record a record, and keeps its evidence.
LEMMA RescoredRecord ==
  ASSUME NEW r \in Record, NEW c \in Cells, NEW e \in Editions
  PROVE  /\ Rescored(r, c, e) \in Record
         /\ Evidence(Rescored(r, c, e)) = Evidence(r)
         /\ c[1] \in TasksOf[e] => Rescored(r, c, e).score = Verdict[e, r.raw]
         /\ Rescored(r, c, e).raw = r.raw
<1>1. r.raw \in Answers
  BY DEF Record
<1>2. Verdict[e, r.raw] \in Scores
  BY <1>1, RunArchiveAssumption
<1> DEFINE v == Verdict[e, r.raw]
<1> HIDE DEF v
<1>3. /\ [r EXCEPT !.score = v] \in Record
      /\ [r EXCEPT !.score = v].score = v
      /\ [r EXCEPT !.score = v].raw = r.raw
      /\ Evidence([r EXCEPT !.score = v]) = Evidence(r)
  BY <1>2 DEF Record, Evidence, v
<1> QED BY <1>3 DEF Rescored, v

\* Two records with the same evidence differ at most in their score.
LEMMA SameEvidence ==
  ASSUME NEW r \in Record, NEW s \in Record, Evidence(r) = Evidence(s)
  PROVE  /\ [r EXCEPT !.score = s.score] = s
         /\ r.score = s.score => r = s
<1>1. /\ DOMAIN r = {"by", "mock", "ok", "raw", "score"}
      /\ DOMAIN s = {"by", "mock", "ok", "raw", "score"}
  BY DEF Record
<1>2. r.by = s.by /\ r.mock = s.mock /\ r.ok = s.ok /\ r.raw = s.raw
  BY DEF Evidence
<1>3. r = [by |-> r.by, mock |-> r.mock, ok |-> r.ok, raw |-> r.raw, score |-> r.score]
  BY DEF Record
<1>4. s = [by |-> s.by, mock |-> s.mock, ok |-> s.ok, raw |-> s.raw, score |-> s.score]
  BY DEF Record
<1>5. r.score = s.score => r = s
  BY <1>2, <1>3, <1>4
<1>6. [r EXCEPT !.score = s.score]
        = [by |-> r.by, mock |-> r.mock, ok |-> r.ok, raw |-> r.raw, score |-> s.score]
  BY DEF Record
<1> QED BY <1>2, <1>4, <1>5, <1>6

\* Where a record is held, the n inferred from the run indexes exists.
LEMMA InferredNIsNumber ==
  ASSUME Held(held) # {}
  PROVE  InferredN \in 1 .. MaxN
<1> DEFINE Upper == {n \in 1 .. MaxN : \A c \in Held(held) : c[2] <= n - 1}
<1>1. \A c \in Held(held) : c[2] \in 0 .. MaxN - 1
  BY DEF Held, Cells
<1>2. MaxN \in Upper /\ Upper \subseteq Nat /\ MaxN \in Nat
  BY <1>1, RunArchiveAssumption
<1>3. PICK n \in Upper : \A m \in Upper : n <= m
  BY <1>2, LeastNat
<1>4. \E c \in Held(held) : c[2] = n - 1
  <2> SUFFICES ASSUME \A c \in Held(held) : c[2] # n - 1 PROVE FALSE
    OBVIOUS
  <2>1. \A c \in Held(held) : c[2] <= (n - 1) - 1
    BY <1>1, <1>2
  <2>2. n - 1 \in 1 .. MaxN
    BY <1>1, <1>2, <2>1
  <2>3. n - 1 \in Upper
    BY <2>1, <2>2
  <2> QED BY <1>2, <1>3, <2>3
<1> QED BY <1>4 DEF InferredN
-----------------------------------------------------------------------------
(***************************************************************************)
(* The invariant.                                                          *)
(***************************************************************************)

\* A record that edition e would score as it is scored, if e knows its task.
Current(c, r, e) == c[1] \in TasksOf[e] => r.score = Verdict[e, r.raw]
AllCurrent(table, e) == \A c \in Held(table) : Current(c, table[c], e)

\* A table is the run files, re-scored.
RescoredFiles(table) ==
  \A c \in Cells :
    IF files[c] \in Record THEN table[c] = Rescored(files[c], c, against)
                           ELSE files[c] = NoFile /\ table[c] = NoFile

\* How far the synchronisation of one file has come.
SyncedFile(c) ==
  IF files[c] = NoFile THEN scores.runs[c] = NoFile /\ plan[c] = NoFile
  ELSE /\ scores.runs[c] \in Record
       /\ \/ plan[c] = scores.runs[c]
          \/ plan[c] = NoFile /\ files[c] = scores.runs[c]
       /\ files[c] \in Record => Evidence(files[c]) = Evidence(scores.runs[c])

\* One command at a time, and what is true at each of its places.
Places ==
  /\ Running => spc = "idle"
  /\ ~Running => records = NoRecords
  /\ spc # "idle" => outcome = "none"
  /\ spc = "rescored" => command = "rebuild" /\ RunFiles # {} /\ RescoredFiles(held)
  /\ spc = "verify" /\ command = "rebuild" =>
       RunFiles # {} /\ scores \in Report /\ RescoredFiles(scores.runs)
  /\ spc \in {"sync", "write"} =>
       /\ scores \in Report
       /\ command = "rebuild" => AllCurrent(scores.runs, against)
       /\ \A c \in Cells : SyncedFile(c)
  /\ outcome # "unreconciled"

\* After a clean rebuild everything on file and in memory is current.
CleanInv ==
  clean =>
    /\ AllCurrent(files, edition)
    /\ scores \in Report => AllCurrent(scores.runs, edition)
    /\ Running => loaded = edition
    /\ AllCurrent(records, edition)
    /\ command = "rebuild" => against = edition

DirInv == DirTypeOK /\ Places /\ CleanInv

-----------------------------------------------------------------------------

LEMMA SomeTables ==
  /\ NoRecords \in RecordTable
  /\ \A c \in Cells : NoRecords[c] = NoFile
  /\ NoFile \notin Record /\ Torn \notin Record /\ NoFile # Torn
BY Markers DEF NoRecords, RecordTable

LEMMA DirInitInv == DirInit => DirInv
<1> SUFFICES ASSUME DirInit PROVE DirInv
  OBVIOUS
<1>1. DirTypeOK
  BY TypeInit, SomeTables DEF DirInit, DirTypeOK, SyncInit, SyncTypeOK, TypeOK, Init
<1>2. Places /\ CleanInv
  BY DEF DirInit, Init, SyncInit, Places, CleanInv, Running
<1> QED BY <1>1, <1>2 DEF DirInv

\* What the end of a synchronising command leaves.
LEMMA SyncEndedTypes ==
  ASSUME SyncTypeOK, DiskTypeOK', NEW how, SyncEnded(how),
         how \in {"ok", "error", "blocked", "unreconciled", "crashed"}
  PROVE  SyncTypeOK'
BY SomeTables DEF SyncEnded, SyncTypeOK

\* A table of re-scored run files holds exactly the run files, and agrees with
\* them on all evidence.
LEMMA RescoredTable ==
  ASSUME SyncTypeOK, NEW table, RescoredFiles(table)
  PROVE  /\ Held(table) = RunFiles
         /\ \A c \in RunFiles : /\ files[c] \in Record
                                /\ table[c] \in Record
                                /\ Evidence(files[c]) = Evidence(table[c])
                                /\ Current(c, table[c], against)
         /\ \A c \in Cells : table[c] \in Record \cup {NoFile}
<1>1. against \in Editions
  BY DEF SyncTypeOK
<1>2. ASSUME NEW c \in Cells, files[c] \in Record
      PROVE  /\ table[c] \in Record
             /\ Evidence(files[c]) = Evidence(table[c])
             /\ Current(c, table[c], against)
  <2>1. table[c] = Rescored(files[c], c, against)
    BY <1>2 DEF RescoredFiles
  <2>2. /\ Rescored(files[c], c, against) \in Record
        /\ Evidence(Rescored(files[c], c, against)) = Evidence(files[c])
        /\ c[1] \in TasksOf[against] =>
             Rescored(files[c], c, against).score = Verdict[against, files[c].raw]
        /\ Rescored(files[c], c, against).raw = files[c].raw
    BY <1>1, <1>2, RescoredRecord
  <2>3. /\ table[c] \in Record
        /\ Evidence(files[c]) = Evidence(table[c])
        /\ table[c].raw = files[c].raw
        /\ c[1] \in TasksOf[against] => table[c].score = Verdict[against, files[c].raw]
    BY <2>1, <2>2
  <2> QED BY <2>3 DEF Current
<1>3. ASSUME NEW c \in Cells, files[c] \notin Record
      PROVE  files[c] = NoFile /\ table[c] = NoFile
  BY <1>3 DEF RescoredFiles
<1> QED BY <1>2, <1>3, SomeTables DEF Held, RunFiles

\* A report and run files that reconcile are over the same cells.
LEMMA ReconcilableTable ==
  ASSUME SyncTypeOK, Reconcilable
  PROVE  Held(scores.runs) = RunFiles
<1>1. RunFiles \subseteq Held(scores.runs)
  BY DEF Reconcilable, RunFiles, Held
<1>2. IsFiniteSet(Held(scores.runs))
  BY CellsFinite, FS_Subset DEF Held
<1>3. Cardinality(RunFiles) = Cardinality(Held(scores.runs))
  BY DEF Reconcilable
<1> QED BY <1>1, <1>2, <1>3, FS_Subset

LEMMA RunsTyped ==
  ASSUME scores \in Report
  PROVE  scores.runs \in RecordTable
BY DEF Report

-----------------------------------------------------------------------------
(***************************************************************************)
(* The steps of the two commands.                                          *)
(***************************************************************************)

\* A command that ends leaves the files as they are.
LEMMA SyncEndedInv ==
  ASSUME DirInv, ~Running, NEW how \in {"ok", "error", "blocked", "crashed"},
         SyncEnded(how), UNCHANGED <<files, edition, runnerVars>>,
         scores' = scores \/ scores' = Torn, clean' = clean
  PROVE  DirInv'
<1>1. DiskTypeOK' /\ TypeOK'
  BY DEF DirInv, DirTypeOK, TypeOK, DiskTypeOK, runnerVars, memory, Running
<1>2. DirTypeOK'
  BY <1>1, SyncEndedTypes DEF DirInv, DirTypeOK
<1>3. Places'
  BY DEF DirInv, Places, SyncEnded, runnerVars, memory, Running
<1>4. CleanInv'
  BY SomeTables, Markers
  DEF DirInv, CleanInv, SyncEnded, runnerVars, memory, Running, AllCurrent, Current, Held
<1> QED BY <1>2, <1>3, <1>4 DEF DirInv

LEMMA StartRebuildInv ==
  ASSUME DirInv, ~Running, RebuildRead, UNCHANGED runnerVars, clean' = clean
  PROVE  DirInv'
<1> USE DEF RebuildRead, disk, runnerVars, memory
<1>1. \A c \in Cells : files[c] \in Record \/ files[c] = NoFile
  BY DEF DirInv, DirTypeOK, TypeOK, DiskTypeOK
<1>2. edition \in Editions
  BY DEF DirInv, DirTypeOK, TypeOK, DiskTypeOK
<1>3. \A c \in Cells : held'[c] = IF files[c] \in Record
                                 THEN Rescored(files[c], c, edition) ELSE NoFile
  OBVIOUS
<1>4. held' \in RecordTable
  BY <1>2, RescoredRecord DEF RecordTable
<1>5. DirTypeOK'
  BY <1>2, <1>4 DEF DirInv, DirTypeOK, TypeOK, DiskTypeOK, SyncTypeOK, Running
<1>6. RescoredFiles(held)'
  BY <1>1, <1>3 DEF RescoredFiles
<1>7. Places'
  BY <1>6 DEF DirInv, Places, Running, RunFiles
<1>8. CleanInv'
  BY DEF DirInv, CleanInv, Running, AllCurrent, Current, Held
<1> QED BY <1>5, <1>7, <1>8 DEF DirInv

LEMMA RebuildWriteInv ==
  ASSUME DirInv, ~Running, RebuildWrite, UNCHANGED runnerVars, clean' = clean
  PROVE  DirInv'
<1> USE DEF RebuildWrite, runnerVars, memory
<1>1. /\ SyncTypeOK /\ RescoredFiles(held) /\ RunFiles # {} /\ command = "rebuild"
      /\ held \in RecordTable
  BY DEF DirInv, DirTypeOK, SyncTypeOK, Places
<1>2. Rebuilt \in Report /\ Rebuilt.runs = held
  <2>1. Held(held) # {}
    BY <1>1, RescoredTable
  <2>2. InferredN \in 1 .. MaxN
    BY <2>1, InferredNIsNumber
  <2>3. CASE scores \in Report
    <3>1. scores.model \in Models \cup {MockModel} /\ scores.n \in 1 .. MaxN
          /\ scores.stopped \in BOOLEAN
      BY <2>3 DEF Report
    <3> QED BY <1>1, <2>3, <3>1 DEF Rebuilt, Reported, Report
  <2>4. CASE scores \notin Report
    BY <1>1, <2>2, <2>4, ArchiveSyncAssumption DEF Rebuilt, Reported, Report
  <2> QED BY <2>3, <2>4
<1>3. scores' \in Report /\ scores'.runs = held
  BY <1>2
<1>4. DirTypeOK'
  BY <1>3 DEF DirInv, DirTypeOK, TypeOK, DiskTypeOK, SyncTypeOK, Running
<1>5. RescoredFiles(scores.runs)' /\ RunFiles' = RunFiles
  BY <1>1, <1>3 DEF RescoredFiles, RunFiles
<1>6. Places'
  BY <1>1, <1>3, <1>5 DEF DirInv, Places, Running
<1>7. AllCurrent(held, against)
  BY <1>1, RescoredTable DEF AllCurrent
<1>8. CleanInv'
  <2>1. clean => against = edition
    BY <1>1 DEF DirInv, CleanInv
  <2> QED BY <1>3, <1>7, <2>1 DEF DirInv, CleanInv, Running, AllCurrent, Current, Held
<1> QED BY <1>4, <1>6, <1>8 DEF DirInv

LEMMA ReconcileInv ==
  ASSUME DirInv, ~Running, NEW cmd, Reconcile(cmd), UNCHANGED runnerVars, clean' = clean
  PROVE  DirInv'
<1> USE DEF Reconcile, disk, runnerVars, memory
<1>1. DirTypeOK'
  BY DEF DirInv, DirTypeOK, TypeOK, DiskTypeOK, SyncTypeOK, Running
<1>2. Places'
  BY DEF DirInv, Places, Running
<1>3. CleanInv'
  BY DEF DirInv, CleanInv, Running, AllCurrent, Current, Held
<1> QED BY <1>1, <1>2, <1>3 DEF DirInv

\* The report a rebuild wrote reconciles with the run files it was built from.
LEMMA RebuildIsReconcilable ==
  ASSUME DirInv, spc = "verify", command = "rebuild"
  PROVE  Reconcilable
<1>1. /\ SyncTypeOK /\ RescoredFiles(scores.runs) /\ RunFiles # {} /\ scores \in Report
  BY DEF DirInv, DirTypeOK, Places
<1> QED BY <1>1, RescoredTable DEF Reconcilable

LEMMA VerifyFailsInv ==
  ASSUME DirInv, ~Running, VerifyFails, UNCHANGED runnerVars, clean' = clean
  PROVE  DirInv'
<1>1. command # "rebuild"
  BY RebuildIsReconcilable DEF VerifyFails
<1> QED BY <1>1, SyncEndedInv DEF VerifyFails, disk

LEMMA VerifyPassesInv ==
  ASSUME DirInv, ~Running, VerifyPasses, UNCHANGED runnerVars, clean' = clean
  PROVE  DirInv'
<1>1. CASE command = "check"
  <2>1. PICK how \in {"ok", "error"} : SyncEnded(how)
    BY <1>1 DEF VerifyPasses
  <2> QED BY <2>1, SyncEndedInv DEF VerifyPasses, disk
<1>2. CASE command # "check"
  <2>1. /\ spc = "verify" /\ spc' = "sync" /\ Reconcilable
        /\ plan' = [c \in Cells |-> IF c \in Stale THEN Updated(c) ELSE NoFile]
        /\ UNCHANGED <<files, scores, edition, command, against, held, outcome>>
    BY <1>2 DEF VerifyPasses, disk
  <2>2. SyncTypeOK
    BY DEF DirInv, DirTypeOK
  <2>3. Held(scores.runs) = RunFiles /\ scores \in Report
    BY <2>1, <2>2, ReconcilableTable DEF Reconcilable
  <2>4. \A c \in RunFiles : /\ files[c] \in Record
                            /\ scores.runs[c] \in Record
                            /\ Evidence(files[c]) = Evidence(scores.runs[c])
    BY <2>1 DEF Reconcilable
  <2>5. \A c \in Cells \ RunFiles : files[c] = NoFile /\ scores.runs[c] = NoFile
    BY <2>3, RunsTyped DEF RunFiles, Held, RecordTable
  <2>6. \A c \in Cells : plan'[c] = IF c \in Stale THEN scores.runs[c] ELSE NoFile
    <3>1. \A c \in Stale : c \in RunFiles /\ Updated(c) = scores.runs[c]
      BY <2>4, SameEvidence DEF Stale, Updated
    <3> QED BY <2>1, <3>1
  <2>7. \A c \in RunFiles \ Stale : files[c] = scores.runs[c]
    BY <2>4, SameEvidence DEF Stale
  <2>8. \A c \in Cells : SyncedFile(c)'
    <3>1. ASSUME NEW c \in Cells, c \in RunFiles PROVE SyncedFile(c)'
      BY <2>1, <2>4, <2>6, <2>7, <3>1 DEF SyncedFile, RunFiles
    <3>2. ASSUME NEW c \in Cells, c \notin RunFiles PROVE SyncedFile(c)'
      BY <2>1, <2>5, <2>6, <3>2 DEF SyncedFile, Stale
    <3> QED BY <3>1, <3>2
  <2>9. plan' \in RecordTable
    BY <2>1, <2>4, <2>6 DEF RecordTable, Stale
  <2>10. DirTypeOK'
    BY <2>1, <2>9
    DEF DirInv, DirTypeOK, TypeOK, DiskTypeOK, SyncTypeOK, Running, runnerVars, memory
  <2>11. command = "rebuild" => AllCurrent(scores.runs, against)
    BY <2>1, <2>2, <2>3, RescoredTable DEF DirInv, Places, AllCurrent
  <2>12. Places'
    BY <2>1, <2>3, <2>8, <2>11
    DEF DirInv, Places, Running, runnerVars, memory, AllCurrent, Current, Held
  <2>13. CleanInv'
    BY <2>1
    DEF DirInv, CleanInv, Running, AllCurrent, Current, Held, runnerVars, memory
  <2> QED BY <2>10, <2>12, <2>13 DEF DirInv
<1> QED BY <1>1, <1>2
\* A file whose derived fields are being copied is truncated ...
LEMMA OpenStaleInv ==
  ASSUME DirInv, ~Running, NEW c \in Cells, OpenStale(c), UNCHANGED runnerVars,
         clean' = clean
  PROVE  DirInv'
<1> USE DEF OpenStale, runnerVars, memory
<1>1. /\ spc = "sync" /\ spc' = "write" /\ c \in Held(plan)
      /\ files' = [files EXCEPT ![c] = Torn]
      /\ UNCHANGED <<scores, edition, command, against, held, plan, outcome>>
  BY DEF First
<1>2. /\ files' \in [Cells -> Record \cup {NoFile, Torn}]
      /\ files'[c] = Torn
      /\ \A d \in Cells \ {c} : files'[d] = files[d]
  BY <1>1 DEF DirInv, DirTypeOK, TypeOK, DiskTypeOK
<1>3. DirTypeOK'
  BY <1>1, <1>2 DEF DirInv, DirTypeOK, TypeOK, DiskTypeOK, SyncTypeOK, Running
<1>4. \A d \in Cells : SyncedFile(d)'
  <2>1. \A d \in Cells : SyncedFile(d)
    BY <1>1 DEF DirInv, Places
  <2>2. plan[c] \in Record /\ plan[c] # NoFile
    BY <1>1, SomeTables DEF Held
  <2>3. SyncedFile(c)'
    BY <1>1, <1>2, <2>1, <2>2, SomeTables DEF SyncedFile
  <2>4. \A d \in Cells \ {c} : SyncedFile(d)'
    BY <1>1, <1>2, <2>1 DEF SyncedFile
  <2> QED BY <2>3, <2>4
<1>5. Places'
  BY <1>1, <1>4 DEF DirInv, Places, Running, AllCurrent, Current, Held
<1>6. CleanInv'
  <2>1. \A d \in Held(files') : d \in Held(files) /\ files'[d] = files[d]
    BY <1>2, SomeTables DEF Held
  <2> QED BY <1>1, <2>1 DEF DirInv, CleanInv, Running, AllCurrent, Current, Held
<1> QED BY <1>3, <1>5, <1>6 DEF DirInv

\* ... and written: it is then the published entry.
LEMMA WriteStaleInv ==
  ASSUME DirInv, ~Running, NEW c \in Cells, WriteStale(c), UNCHANGED runnerVars,
         clean' = clean
  PROVE  DirInv'
<1> USE DEF WriteStale, runnerVars, memory
<1>1. /\ spc = "write" /\ spc' = "sync" /\ c \in Held(plan)
      /\ files' = [files EXCEPT ![c] = plan[c]]
      /\ plan' = [plan EXCEPT ![c] = NoFile]
      /\ UNCHANGED <<scores, edition, command, against, held, outcome>>
  BY DEF First
<1>2. \A d \in Cells : SyncedFile(d)
  BY <1>1 DEF DirInv, Places
<1>3. plan[c] = scores.runs[c] /\ plan[c] \in Record
  BY <1>1, <1>2, SomeTables DEF SyncedFile, Held
<1>4. /\ files' \in [Cells -> Record \cup {NoFile, Torn}]
      /\ plan' \in RecordTable
      /\ files'[c] = scores.runs[c] /\ plan'[c] = NoFile
      /\ \A d \in Cells \ {c} : files'[d] = files[d] /\ plan'[d] = plan[d]
  BY <1>1, <1>3
  DEF DirInv, DirTypeOK, TypeOK, DiskTypeOK, SyncTypeOK, RecordTable
<1>5. DirTypeOK'
  BY <1>1, <1>4 DEF DirInv, DirTypeOK, TypeOK, DiskTypeOK, SyncTypeOK, Running
<1>6. \A d \in Cells : SyncedFile(d)'
  <2>1. SyncedFile(c)'
    BY <1>1, <1>3, <1>4, SomeTables DEF SyncedFile
  <2>2. \A d \in Cells \ {c} : SyncedFile(d)'
    BY <1>1, <1>2, <1>4 DEF SyncedFile
  <2> QED BY <2>1, <2>2
<1>7. Places'
  BY <1>1, <1>6 DEF DirInv, Places, Running, AllCurrent, Current, Held
<1>8. CleanInv'
  <2> SUFFICES ASSUME clean PROVE CleanInv'
    BY DEF CleanInv
  <2>1. scores \in Report /\ AllCurrent(scores.runs, edition) /\ AllCurrent(files, edition)
    BY <1>1 DEF DirInv, Places, CleanInv
  <2>2. Current(c, files'[c], edition)
    BY <1>3, <1>4, <2>1 DEF AllCurrent, Held
  <2>3. \A d \in Held(files') \ {c} : d \in Held(files) /\ files'[d] = files[d]
    BY <1>4 DEF Held
  <2>4. \A d \in Held(files') : Current(d, files'[d], edition)
    BY <2>1, <2>2, <2>3 DEF AllCurrent
  <2> QED BY <1>1, <2>1, <2>4 DEF DirInv, CleanInv, Running, AllCurrent, Current, Held
<1> QED BY <1>5, <1>7, <1>8 DEF DirInv

\* What has been synchronised agrees.
LEMMA NothingPlanned ==
  ASSUME DirInv, spc = "sync", Held(plan) = {}
  PROVE  /\ scores \in Report
         /\ files = scores.runs
         /\ command = "rebuild" => AllCurrent(files, against)
<1>1. /\ scores \in Report /\ \A c \in Cells : SyncedFile(c)
      /\ command = "rebuild" => AllCurrent(scores.runs, against)
  BY DEF DirInv, Places
<1>2. plan \in RecordTable /\ scores.runs \in RecordTable
  BY <1>1, RunsTyped DEF DirInv, DirTypeOK, SyncTypeOK
<1>3. files \in [Cells -> Record \cup {NoFile, Torn}]
  BY DEF DirInv, DirTypeOK, TypeOK, DiskTypeOK
<1>4. \A c \in Cells : plan[c] = NoFile
  BY <1>2 DEF Held, RecordTable
<1>5. \A c \in Cells : files[c] = scores.runs[c]
  BY <1>1, <1>4, SomeTables DEF SyncedFile
<1>6. files = scores.runs
  BY <1>2, <1>3, <1>5 DEF RecordTable
<1> QED BY <1>1, <1>6

LEMMA SyncDoneInv ==
  ASSUME DirInv, ~Running, SyncDone, UNCHANGED runnerVars,
         clean' = (clean \/ (command = "rebuild" /\ against = edition))
  PROVE  DirInv'
<1>1. CASE clean' = clean
  BY <1>1, SyncEndedInv DEF SyncDone, disk
<1>2. CASE clean' # clean
  <2>1. spc = "sync" /\ Held(plan) = {} /\ SyncEnded("ok") /\ UNCHANGED disk
    BY DEF SyncDone
  <2>2. clean' = TRUE /\ command = "rebuild" /\ against = edition
    BY <1>2 DEF DirInv, DirTypeOK
  <2>3. scores \in Report /\ files = scores.runs /\ AllCurrent(files, edition)
    BY <2>1, <2>2, NothingPlanned
  <2>4. DiskTypeOK' /\ TypeOK'
    BY <2>1 DEF DirInv, DirTypeOK, TypeOK, DiskTypeOK, runnerVars, memory, Running, disk
  <2>5. DirTypeOK'
    BY <2>1, <2>2, <2>4, SyncEndedTypes DEF DirInv, DirTypeOK
  <2>6. Places'
    BY <2>1 DEF DirInv, Places, SyncEnded, runnerVars, memory, Running
  <2>7. CleanInv'
    <3>1. Held(records) = {} /\ ~Running'
      BY HeldOfNoRecords DEF DirInv, Places, runnerVars, Running
    <3> QED
      BY <2>1, <2>3, <3>1
      DEF CleanInv, SyncEnded, disk, runnerVars, memory, AllCurrent, Current, Held
  <2> QED BY <2>5, <2>6, <2>7 DEF DirInv
<1> QED BY <1>1, <1>2

LEMMA SyncStartInv ==
  ASSUME DirInv, ~Running, RebuildNothing \/ RebuildTorn, UNCHANGED runnerVars,
         clean' = clean
  PROVE  DirInv'
<1> USE DEF RebuildNothing, RebuildTorn, disk, runnerVars, memory
<1>1. DirTypeOK'
  BY DEF DirInv, DirTypeOK, TypeOK, DiskTypeOK, SyncTypeOK, Running
<1>2. Places'
  BY DEF DirInv, Places, Running
<1>3. CleanInv'
  BY DEF DirInv, CleanInv, Running, AllCurrent, Current, Held
<1> QED BY <1>1, <1>2, <1>3 DEF DirInv

LEMMA SyncCommandInv ==
  ASSUME DirInv, SyncCommand
  PROVE  DirInv'
<1>1. /\ ~Running /\ SyncNext /\ UNCHANGED runnerVars
      /\ clean' = (clean \/ (spc = "sync" /\ command = "rebuild" /\ against = edition
                              /\ outcome' = "ok"))
  BY DEF SyncCommand
<1>2. spc # "idle" => outcome # "ok"
  BY DEF DirInv, Places
<1>3. ~SyncDone => clean' = clean
  <2>1. spc = "sync" /\ outcome' = "ok" /\ SyncNext => SyncDone
    BY <1>2
    DEF SyncNext, SyncStart, SyncStep, RebuildNothing, RebuildTorn, RebuildRead,
        Reconcile, RebuildWrite, VerifyFails, VerifyPasses, OpenStale, WriteStale,
        RebuildTears, SyncCrash, SyncEnded
  <2>2. clean \in BOOLEAN
    BY DEF DirInv, DirTypeOK
  <2> QED BY <1>1, <2>1, <2>2
<1>4. CASE SyncDone
  <2>1. spc = "sync" /\ outcome' = "ok"
    BY <1>4 DEF SyncDone, SyncEnded
  <2>2. clean' = (clean \/ (command = "rebuild" /\ against = edition))
    BY <1>1, <2>1
  <2> QED BY <1>1, <1>4, <2>2, SyncDoneInv
<1>5. CASE ~SyncDone
  <2>1. clean' = clean
    BY <1>3, <1>5
  <2>2. CASE RebuildNothing \/ RebuildTorn
    BY <1>1, <2>1, <2>2, SyncStartInv
  <2>3. CASE RebuildRead
    BY <1>1, <2>1, <2>3, StartRebuildInv
  <2>4. CASE \E cmd \in {"reconcile", "check"} : Reconcile(cmd)
    BY <1>1, <2>1, <2>4, ReconcileInv
  <2>5. CASE RebuildWrite
    BY <1>1, <2>1, <2>5, RebuildWriteInv
  <2>6. CASE VerifyFails
    BY <1>1, <2>1, <2>6, VerifyFailsInv
  <2>7. CASE VerifyPasses
    BY <1>1, <2>1, <2>7, VerifyPassesInv
  <2>8. CASE \E c \in Cells : OpenStale(c)
    BY <1>1, <2>1, <2>8, OpenStaleInv
  <2>9. CASE \E c \in Cells : WriteStale(c)
    BY <1>1, <2>1, <2>9, WriteStaleInv
  <2>10. CASE RebuildTears
    BY <1>1, <2>1, <2>10, SyncEndedInv DEF RebuildTears
  <2>11. CASE SyncCrash
    BY <1>1, <2>1, <2>11, SyncEndedInv DEF SyncCrash, disk
  <2> QED
    BY <1>1, <1>5, <2>2, <2>3, <2>4, <2>5, <2>6, <2>7, <2>8, <2>9, <2>10, <2>11
    DEF SyncNext, SyncStart, SyncStep
<1> QED BY <1>4, <1>5
-----------------------------------------------------------------------------
(***************************************************************************)
(* The steps of a grid in the same directory, and of the pack.             *)
(***************************************************************************)

\* What a grid puts into the directory and holds in memory is current.
GridCurrent ==
  /\ AllCurrent(files, edition)
  /\ scores \in Report => AllCurrent(scores.runs, edition)
  /\ Running => loaded = edition
  /\ AllCurrent(records, edition)

LEMMA GridEndedCurrent ==
  ASSUME GridCurrent, UNCHANGED <<files, edition>>, NEW how, Ended(how),
         scores' = scores \/ scores' = Torn \/ scores'.runs = records
  PROVE  GridCurrent'
<1>1. Held(records') = {} /\ ~Running'
  BY HeldOfNoRecords DEF Ended, Running
<1>2. Torn \notin Report
  BY Markers
<1> QED BY <1>1, <1>2 DEF GridCurrent, AllCurrent, Current, Held

LEMMA GridStepCurrent ==
  ASSUME TypeOK, ~Running => records = NoRecords, GridCurrent, RunNext
  PROVE  GridCurrent'
<1> USE DEF disk, memory
<1>1. ASSUME NEW a \in Invocations, Refuse(a) PROVE GridCurrent'
  BY <1>1 DEF Refuse, GridCurrent, AllCurrent, Current, Held, Running
<1>2. ASSUME NEW a \in Invocations, Begin(a) PROVE GridCurrent'
  BY <1>2 DEF Begin, GridCurrent, AllCurrent, Current, Held, Running
<1>3. ASSUME NEW c \in Cells, Reuse(c) PROVE GridCurrent'
  <2>1. files[c] \in Record
    BY <1>3 DEF Reuse, MayReuse
  <2>2. /\ Held(records') = Held(records) \cup {c}
        /\ records'[c] = files[c]
        /\ \A d \in Cells \ {c} : records'[d] = records[d]
    BY <1>3, <2>1, HeldUpdate DEF Reuse, TypeOK
  <2>3. Current(c, files[c], edition)
    BY <2>1 DEF GridCurrent, AllCurrent, Held
  <2>4. \A d \in Held(records') : Current(d, records'[d], edition)
    BY <2>2, <2>3 DEF GridCurrent, AllCurrent, Held
  <2> QED BY <1>3, <2>4 DEF Reuse, At, GridCurrent, AllCurrent, Current, Held, Running
<1>4. ASSUME NEW c \in Cells, ReadTorn(c) PROVE GridCurrent'
  BY <1>4, GridEndedCurrent DEF ReadTorn
<1>5. ASSUME NEW c \in Cells, Ask(c) PROVE GridCurrent'
  BY <1>5 DEF Ask, At, GridCurrent, AllCurrent, Current, Held, Running
<1>6. ASSUME NEW c \in Cells, NEW raw \in Answers, NEW ok \in BOOLEAN, Answer(c, raw, ok)
      PROVE  GridCurrent'
  <2>1. args \in Invocations /\ loaded = edition
    BY <1>6 DEF Answer, TypeOK, Running, GridCurrent
  <2>2. Scored(raw, ok) \in Record
    BY <2>1, ScoredIsRecord
  <2>3. Current(c, Scored(raw, ok), edition)
    BY <2>1 DEF Scored, Current
  <2>4. /\ Held(records') = Held(records) \cup {c}
        /\ records'[c] = Scored(raw, ok)
        /\ \A d \in Cells \ {c} : records'[d] = records[d]
    BY <1>6, <2>2, HeldUpdate DEF Answer, TypeOK
  <2>5. \A d \in Held(records') : Current(d, records'[d], edition)
    BY <2>3, <2>4 DEF GridCurrent, AllCurrent, Held
  <2>6. \A d \in Held(files') : d \in Held(files) /\ files'[d] = files[d]
    BY <1>6, SomeTables DEF Answer, Held, TypeOK, DiskTypeOK
  <2> QED
    BY <1>6, <2>5, <2>6 DEF Answer, GridCurrent, AllCurrent, Current, Held, Running
<1>7. ASSUME NEW c \in Cells, WriteRunFile(c) PROVE GridCurrent'
  <2>1. /\ files'[c] = records[c]
        /\ \A d \in Cells \ {c} : files'[d] = files[d]
    BY <1>7 DEF WriteRunFile, TypeOK, DiskTypeOK
  <2>2. \A d \in Held(files') : Current(d, files'[d], edition)
    BY <2>1 DEF GridCurrent, AllCurrent, Held
  <2> QED BY <1>7, <2>2 DEF WriteRunFile, GridCurrent, AllCurrent, Current, Held, Running
<1>8. ASSUME NEW c \in Cells, TransportError(c) PROVE GridCurrent'
  BY <1>8 DEF TransportError, GridCurrent, AllCurrent, Current, Held, Running
<1>9. ASSUME Retry PROVE GridCurrent'
  BY <1>9 DEF Retry, GridCurrent, AllCurrent, Current, Held, Running
<1>10. ASSUME OpenReport PROVE GridCurrent'
  BY <1>10, Markers DEF OpenReport, GridCurrent, AllCurrent, Current, Held, Running
<1>11. ASSUME WriteReport PROVE GridCurrent'
  <2>1. scores'.runs = records
    BY <1>11 DEF WriteReport, Reported
  <2>2. PICK how \in {"blocked", "ok"} : Ended(how)
    BY <1>11 DEF WriteReport
  <2> QED BY <1>11, <2>1, <2>2, GridEndedCurrent DEF WriteReport
<1>12. ASSUME Crash PROVE GridCurrent'
  BY <1>12, GridEndedCurrent DEF Crash
<1> QED
  BY <1>1, <1>2, <1>3, <1>4, <1>5, <1>6, <1>7, <1>8, <1>9, <1>10, <1>11, <1>12
  DEF RunNext, Start, Step

\* A command that is over leaves an empty memory.
LEMMA AtRestStep ==
  ASSUME ~Running => records = NoRecords, RunNext
  PROVE  ~Running' => records' = NoRecords
BY DEF RunNext, Start, Step, Refuse, Begin, Reuse, ReadTorn, Ask, Answer, WriteRunFile,
       TransportError, Retry, OpenReport, WriteReport, Crash, Ended, At, Running,
       disk, memory

LEMMA RunCommandInv ==
  ASSUME DirInv, RunCommand
  PROVE  DirInv'
<1>1. spc = "idle" /\ RunNext /\ UNCHANGED <<syncVars, clean>>
  BY DEF RunCommand, Syncing
<1>2. TypeOK'
  BY <1>1, TypeStep DEF DirInv, DirTypeOK, Next
<1>3. DirTypeOK'
  BY <1>1, <1>2 DEF DirInv, DirTypeOK, SyncTypeOK, TypeOK, syncVars
<1>4. ~Running' => records' = NoRecords
  BY <1>1, AtRestStep DEF DirInv, Places
<1>5. Places'
  BY <1>1, <1>4 DEF DirInv, Places, syncVars, Running
<1>6. CleanInv'
  <2> SUFFICES ASSUME clean PROVE CleanInv'
    BY <1>1 DEF CleanInv
  <2>1. GridCurrent /\ (command = "rebuild" => against = edition)
    BY DEF DirInv, CleanInv, GridCurrent
  <2>2. GridCurrent'
    BY <1>1, <2>1, GridStepCurrent DEF DirInv, DirTypeOK, Places
  <2>3. edition' = edition
    BY <1>1
    DEF RunNext, Start, Step, Refuse, Begin, Reuse, ReadTorn, Ask, Answer,
        WriteRunFile, TransportError, Retry, OpenReport, WriteReport, Crash, disk
  <2> QED BY <1>1, <2>1, <2>2, <2>3 DEF CleanInv, GridCurrent, syncVars
<1> QED BY <1>3, <1>5, <1>6 DEF DirInv

LEMMA EditPackInv ==
  ASSUME DirInv, EditPack
  PROVE  DirInv'
<1> USE DEF EditPack, Edit, syncVars, runnerVars, memory
<1>1. DirTypeOK'
  <2>1. TypeOK' /\ SyncTypeOK'
    BY DEF DirInv, DirTypeOK, TypeOK, DiskTypeOK, SyncTypeOK, Running
  <2>2. clean' \in BOOLEAN
    OBVIOUS
  <2> QED BY <2>1, <2>2 DEF DirTypeOK
<1>2. /\ \A c \in Cells : SyncedFile(c)' <=> SyncedFile(c)
      /\ \A table : RescoredFiles(table)' <=> RescoredFiles(table)
      /\ RunFiles' = RunFiles
      /\ AllCurrent(scores.runs, against)' <=> AllCurrent(scores.runs, against)
  BY DEF SyncedFile, RescoredFiles, RunFiles, AllCurrent, Current, Held
<1>3. Places'
  BY <1>2 DEF DirInv, Places, Running, RescoredFiles
<1> QED BY <1>1, <1>3 DEF DirInv, CleanInv

LEMMA DirStepInv == DirInv /\ [DirNext]_dirVars => DirInv'
<1> SUFFICES ASSUME DirInv, [DirNext]_dirVars PROVE DirInv'
  OBVIOUS
<1>1. CASE RunCommand
  BY <1>1, RunCommandInv
<1>2. CASE SyncCommand
  BY <1>2, SyncCommandInv
<1>3. CASE EditPack
  BY <1>3, EditPackInv
<1>4. CASE UNCHANGED dirVars
  <2> USE <1>4 DEF dirVars, disk, runnerVars, memory, syncVars
  <2>1. DirTypeOK'
    BY DEF DirInv, DirTypeOK, TypeOK, DiskTypeOK, SyncTypeOK, Running
  <2>2. Places'
    BY DEF DirInv, Places, Running, RescoredFiles, SyncedFile, RunFiles, AllCurrent,
           Current, Held
  <2>3. CleanInv'
    BY DEF DirInv, CleanInv, Running, AllCurrent, Current, Held
  <2> QED BY <2>1, <2>2, <2>3 DEF DirInv
<1> QED BY <1>1, <1>2, <1>3, <1>4 DEF DirNext

LEMMA DirInvariance == DirSpec => []DirInv
BY DirInitInv, DirStepInv, PTL DEF DirSpec

-----------------------------------------------------------------------------

\* No step of any command, killed or not, gives the variables another type.
THEOREM DirectoryIsTyped == DirSpec => []DirTypeOK
<1>1. DirInv => DirTypeOK
  BY DEF DirInv
<1> QED BY DirInvariance, <1>1, PTL

\* Reconciling rewrites run files without touching what they are evidence of.
THEOREM EvidenceIsKept == DirSpec => []SyncKeepsEvidence
<1>1. DirInv => SyncKeepsEvidence
  <2> SUFFICES ASSUME DirInv, spc \in {"sync", "write"},
                      NEW c \in RunFiles \cap Held(scores.runs)
               PROVE  /\ files[c] \in Record => Evidence(files[c]) = Evidence(scores.runs[c])
                      /\ plan[c] \in Record \/ files[c] = scores.runs[c]
    BY DEF SyncKeepsEvidence
  <2>1. c \in Cells /\ SyncedFile(c) /\ files[c] # NoFile
    BY DEF DirInv, Places, RunFiles
  <2> QED BY <2>1 DEF SyncedFile
<1> QED BY DirInvariance, <1>1, PTL

\* The error a rebuild raises when its own report does not reconcile is dead
\* code.
THEOREM RebuildNeverUnreconciled == DirSpec => []RebuildReconciles
<1>1. DirInv => RebuildReconciles
  BY DEF DirInv, Places, RebuildReconciles
<1> QED BY DirInvariance, <1>1, PTL

\* Until the pack or the scorer changes, nothing stale comes back after a
\* rebuild, whatever is run, killed and resumed in the directory.
THEOREM RebuildStaysCurrent == DirSpec => []RebuiltStaysCurrent
<1>1. DirInv => RebuiltStaysCurrent
  BY DEF DirInv, CleanInv, AllCurrent, Current, RebuiltStaysCurrent
<1> QED BY DirInvariance, <1>1, PTL

\* A synchronisation that ends well leaves files and report equal, and after a
\* rebuild both are scored by the edition it loaded.
THEOREM SyncEndsInAgreement == DirSpec => SyncedAgree
<1> DEFINE Agreed ==
             spc = "sync" /\ outcome' = "ok" =>
               /\ files = scores.runs
               /\ command = "rebuild" =>
                    \A c \in Held(files) : c[1] \in TasksOf[against] =>
                      files[c].score = Verdict[against, files[c].raw]
<1>1. DirInv /\ [DirNext]_dirVars => Agreed
  <2> SUFFICES ASSUME DirInv, [DirNext]_dirVars, spc = "sync", outcome' = "ok"
               PROVE  /\ files = scores.runs
                      /\ command = "rebuild" =>
                           \A c \in Held(files) : c[1] \in TasksOf[against] =>
                             files[c].score = Verdict[against, files[c].raw]
    OBVIOUS
  <2>1. outcome # "ok"
    BY DEF DirInv, Places
  <2>2. SyncDone
    BY <2>1
    DEF DirNext, RunCommand, SyncCommand, EditPack, Syncing, dirVars, syncVars,
        SyncNext, SyncStart, SyncStep, RebuildNothing, RebuildTorn, RebuildRead,
        Reconcile, RebuildWrite, VerifyFails, VerifyPasses, OpenStale, WriteStale,
        RebuildTears, SyncCrash, SyncEnded
  <2> QED BY <2>2, NothingPlanned DEF SyncDone, AllCurrent, Current
<1>2. DirInv /\ [DirNext]_dirVars => [Agreed]_<<disk, syncVars>>
  BY <1>1
<1> QED BY DirInvariance, <1>2, PTL DEF DirSpec, SyncedAgree

-----------------------------------------------------------------------------
(***************************************************************************)
(* Grids in a directory that is also rebuilt and reconciled.               *)
(***************************************************************************)

\* What a command has in memory, to report or to write, says who made it, as the
\* run file did.
CopiesHonest ==
  /\ \A c \in Held(held) : Honest(held[c])
  /\ \A c \in Held(plan) : Honest(plan[c])

\* The runs of a report say who made them.
RunsHonest(report) == \A c \in Held(report.runs) : Honest(report.runs[c])

SharedInv == DirInv /\ CopiesHonest /\ IInv

LEMMA HonestByEvidence ==
  ASSUME NEW r, NEW s, Evidence(r) = Evidence(s), Honest(r)
  PROVE  Honest(s)
BY DEF Evidence, Honest

\* Evidence is never changed, so what was honest stays so; the only report such
\* a command writes is marked as rebuilt, and shows runs that say who made them.
LEMMA SyncIsHonest ==
  ASSUME DirInv, CopiesHonest, \A c \in Cells : files[c] \in Record => Honest(files[c]), SyncNext
  PROVE  /\ CopiesHonest'
         /\ \A c \in Cells : files'[c] \in Record => Honest(files'[c])
         /\ scores' \in Report =>
              scores' = scores \/ (scores'.rebuilt /\ RunsHonest(scores'))
<1>1. ASSUME NEW how, SyncEnded(how) PROVE CopiesHonest'
  BY <1>1, HeldOfNoRecords DEF SyncEnded, CopiesHonest
<1>2. CASE VerifyPasses /\ spc' = "sync"
  <2>1. /\ Reconcilable /\ UNCHANGED <<disk, held>>
        /\ plan' = [c \in Cells |-> IF c \in Stale THEN Updated(c) ELSE NoFile]
    BY <1>2 DEF VerifyPasses, SyncEnded
  <2>2. ASSUME NEW c \in Cells, plan'[c] \in Record PROVE Honest(plan'[c])
    <3>1. c \in Stale /\ plan'[c] = Updated(c)
      BY <2>1, <2>2, SomeTables
    <3>2. files[c] \in Record
      BY <2>1, <3>1 DEF Stale, Reconcilable
    <3>3. Updated(c).mock = files[c].mock /\ Updated(c).by = files[c].by
      BY <3>2 DEF Updated, Record
    <3> QED BY <3>1, <3>2, <3>3 DEF Honest
  <2> QED BY <2>1, <2>2 DEF CopiesHonest, Held, disk
<1>3. ASSUME NEW c \in Cells, OpenStale(c)
      PROVE  /\ CopiesHonest'
             /\ \A d \in Cells : files'[d] \in Record => Honest(files'[d])
             /\ scores' = scores
  <2>1. /\ files' = [files EXCEPT ![c] = Torn] /\ scores' = scores
        /\ plan' = plan /\ held' = held
    BY <1>3 DEF OpenStale
  <2>2. \A d \in Cells : files'[d] \in Record => files'[d] = files[d]
    BY <2>1, SomeTables DEF DirInv, DirTypeOK, SyncTypeOK, DiskTypeOK
  <2> QED BY <2>1, <2>2 DEF CopiesHonest, Held
<1>4. ASSUME NEW c \in Cells, WriteStale(c)
      PROVE  /\ CopiesHonest'
             /\ \A d \in Cells : files'[d] \in Record => Honest(files'[d])
             /\ scores' = scores
  <2>1. /\ files' = [files EXCEPT ![c] = plan[c]] /\ scores' = scores
        /\ plan' = [plan EXCEPT ![c] = NoFile] /\ held' = held
        /\ c \in Held(plan)
    BY <1>4 DEF WriteStale, First
  <2>2. /\ files \in [Cells -> Record \cup {NoFile, Torn}]
        /\ plan \in [Cells -> Record \cup {NoFile}]
    BY DEF DirInv, DirTypeOK, SyncTypeOK, DiskTypeOK, RecordTable
  <2>3. \A d \in Cells : files'[d] \in {plan[c], files[d]} /\ (files'[d] = plan[c] \/ files'[d] = files[d])
    BY <2>1, <2>2
  <2>4. \A d \in Cells : plan'[d] \in Record => plan'[d] = plan[d]
    BY <2>1, <2>2, SomeTables
  <2> QED BY <2>1, <2>3, <2>4 DEF CopiesHonest, Held
<1>5. CASE RebuildWrite
  <2>1. /\ scores' = Rebuilt /\ UNCHANGED <<files, held, plan>>
        /\ Rebuilt.rebuilt /\ Rebuilt.runs = held
    BY <1>5 DEF RebuildWrite, Rebuilt, Reported
  <2> QED BY <2>1 DEF RunsHonest, CopiesHonest, Held
<1>6. CASE RebuildTears
  BY <1>1, <1>6, Markers DEF RebuildTears
<1>7. CASE UNCHANGED <<disk, held, plan>>
  BY <1>7 DEF disk, CopiesHonest, Held
<1>8. CASE UNCHANGED disk /\ \E how : SyncEnded(how)
  BY <1>1, <1>8 DEF disk
<1>9. CASE RebuildRead
  <2>1. /\ UNCHANGED <<disk, plan>>
        /\ held' = [c \in Cells |-> IF files[c] \in Record
                                    THEN Rescored(files[c], c, edition) ELSE NoFile]
    BY <1>9 DEF RebuildRead
  <2>2. edition \in Editions
    BY DEF DirInv, DirTypeOK, SyncTypeOK, DiskTypeOK
  <2>3. ASSUME NEW c \in Cells, held'[c] \in Record PROVE Honest(held'[c])
    <3>1. files[c] \in Record /\ held'[c] = Rescored(files[c], c, edition)
      BY <2>1, <2>3, SomeTables
    <3>2. Evidence(Rescored(files[c], c, edition)) = Evidence(files[c])
      BY <2>2, <3>1, RescoredRecord
    <3>3. Honest(Rescored(files[c], c, edition))
      BY <3>1, <3>2, HonestByEvidence
    <3> QED BY <3>1, <3>3
  <2> QED BY <2>1, <2>3 DEF CopiesHonest, Held, disk
<1> QED
  BY <1>2, <1>3, <1>4, <1>5, <1>6, <1>7, <1>8, <1>9
  DEF SyncNext, SyncStart, SyncStep, RebuildNothing, RebuildTorn, RebuildRead, Reconcile,
      VerifyFails, VerifyPasses, SyncDone, SyncCrash

\* A synchronisation finds no grid in memory, and leaves none.
LEMMA SyncCommandShared ==
  ASSUME SharedInv, SyncCommand
  PROVE  CopiesHonest' /\ IInv'
<1>1. ~Running /\ SyncNext /\ UNCHANGED runnerVars
  BY DEF SyncCommand
<1>2. /\ CopiesHonest'
      /\ \A c \in Cells : files'[c] \in Record => Honest(files'[c])
      /\ scores' \in Report =>
           scores' = scores \/ (scores'.rebuilt /\ RunsHonest(scores'))
  BY <1>1, SyncIsHonest DEF SharedInv, IInv, Provenance
<1>3. TypeOK'
  BY SyncCommandInv DEF SharedInv, DirInv, DirTypeOK
<1>4. records = NoRecords /\ Held(records) = {} /\ todo = {}
  BY <1>1, HeldOfNoRecords DEF SharedInv, IInv, AtRest
<1>5. Held(records)' = {} /\ Held(records') = {}
  BY <1>1, <1>4 DEF runnerVars, memory, Held
<1>6. Provenance'
  <2>1. ProvenancePure'
    BY <1>2 DEF ProvenancePure, SharedInv, IInv, Provenance, RunsHonest, Honest, Held
  <2> QED BY <1>2, <1>5, <2>1 DEF Provenance
<1>7. UndisciplinedIsFresh' /\ Archived'
  BY <1>1, <1>4, <1>5 DEF UndisciplinedIsFresh, Archived, runnerVars, memory, Running
<1>8. Pending' /\ AtRest' /\ Breaker' /\ Paid'
  BY <1>1 DEF SharedInv, IInv, Pending, AtRest, Breaker, Paid, runnerVars, memory, Running
<1>9. Accounted'
  BY <1>1, <1>4, <1>5 DEF SharedInv, IInv, Accounted, runnerVars, memory, Running
<1> QED BY <1>2, <1>3, <1>6, <1>7, <1>8, <1>9 DEF IInv

LEMMA SharedStep == SharedInv /\ [DirNext]_dirVars => SharedInv'
<1> SUFFICES ASSUME SharedInv, [DirNext]_dirVars PROVE SharedInv'
  OBVIOUS
<1>1. DirInv'
  BY DirStepInv DEF SharedInv
<1>2. CASE SyncCommand
  BY <1>1, <1>2, SyncCommandShared DEF SharedInv
<1>3. CASE RunCommand \/ EditPack \/ UNCHANGED dirVars
  <2>1. [Next]_vars /\ plan' = plan /\ held' = held
    BY <1>3
    DEF RunCommand, EditPack, Next, dirVars, vars, syncVars, runnerVars, disk
  <2>2. IInv'
    <3>1. TypeOK' /\ Core' /\ Pending'
      BY <2>1, TypeStep, CoreStep, PendingStep DEF SharedInv, IInv, Core
    <3> QED BY <3>1 DEF IInv, Core
  <2>3. CopiesHonest'
    BY <2>1 DEF SharedInv, CopiesHonest, Held
  <2> QED BY <1>1, <2>2, <2>3 DEF SharedInv
<1> QED BY <1>2, <1>3 DEF DirNext

LEMMA SharedInit == DirInit => SharedInv
<1> SUFFICES ASSUME DirInit PROVE SharedInv
  OBVIOUS
<1>1. TypeOK /\ Core /\ Pending
  BY TypeInit, CoreInit DEF DirInit, Init, Pending, Running
<1>2. CopiesHonest
  BY HeldOfNoRecords DEF DirInit, SyncInit, CopiesHonest
<1> QED BY <1>1, <1>2, DirInitInv DEF SharedInv, IInv, Core

\* Whatever is rebuilt and reconciled between grids, and killed in between, the
\* invariant of the grid runner stands.
THEOREM GridsKeepTheirInvariant == DirSpec => []IInv
<1>1. SharedInv => IInv
  BY DEF SharedInv
<1> QED BY SharedInit, SharedStep, <1>1, PTL DEF DirSpec

LEMMA SharedInvariance == DirSpec => []SharedInv
BY SharedInit, SharedStep, PTL DEF DirSpec

\* A step of the directory is one of the grid runner's, or finds none running.
LEMMA DirStepKinds ==
  ASSUME [DirNext]_dirVars
  PROVE  [Next]_vars \/ (~Running /\ UNCHANGED runnerVars)
BY DEF DirNext, RunCommand, SyncCommand, EditPack, Next, dirVars, vars

\* Also in a directory that was rebuilt and reconciled: no report a grid wrote
\* mixes mock and measured answers, and what a rebuild wrote may mix them, but
\* every run it shows still bears the stamp of who answered
\* (core/__main__.py:91, core/archive.py:14).
THEOREM SharedReportsArePure == DirSpec => []ProvenancePure
<1>1. IInv => ProvenancePure
  BY DEF IInv, Provenance
<1> QED BY GridsKeepTheirInvariant, <1>1, PTL

\* Nor is a model asked past a tripped breaker (core/__main__.py:416).
THEOREM SharedSpendStops == DirSpec => BreakerStopsSpend
<1>1. SharedInv /\ [DirNext]_dirVars =>
        [pc = "cell" /\ pc' = "call" => ~Trips(records, args.threshold)]_vars
  <2> SUFFICES ASSUME SharedInv, [DirNext]_dirVars
               PROVE  [pc = "cell" /\ pc' = "call" => ~Trips(records, args.threshold)]_vars
    OBVIOUS
  <2>1. CASE [Next]_vars
    BY <2>1, SpendStep DEF SharedInv
  <2>2. CASE ~Running /\ UNCHANGED runnerVars
    BY <2>2 DEF Running
  <2> QED BY <2>1, <2>2, DirStepKinds
<1> QED BY SharedInvariance, <1>1, PTL DEF DirSpec, BreakerStopsSpend

\* Nor is a run file replaced that could have been reused (core/__main__.py:424).
THEOREM SharedPaidWorkKept == DirSpec => PaidWorkIsKept
<1> DEFINE Kept == \A c \in Cells :
             Running /\ ~args.overwrite /\ MayReuse(files[c], args.mock)
               => files'[c] = files[c]
<1>1. SharedInv /\ [DirNext]_dirVars => [Kept]_vars
  <2> SUFFICES ASSUME SharedInv, [DirNext]_dirVars PROVE [Kept]_vars
    OBVIOUS
  <2>1. CASE [Next]_vars
    BY <2>1, PaidStep DEF SharedInv
  <2>2. CASE ~Running /\ UNCHANGED runnerVars
    BY <2>2
  <2> QED BY <2>1, <2>2, DirStepKinds
<1> QED BY SharedInvariance, <1>1, PTL DEF DirSpec, PaidWorkIsKept

\* Nor does a grid that ends well miss a cell but those it skipped.
THEOREM SharedNothingElseIsMissing == DirSpec => OnlySkippedIsMissing
<1> DEFINE Whole == pc = "report" /\ exit' = "ok" =>
                      Held(scores'.runs) = Grid(loaded, args) \ skipped
<1>1. SharedInv /\ [DirNext]_dirVars => [Whole]_vars
  <2> SUFFICES ASSUME SharedInv, [DirNext]_dirVars PROVE [Whole]_vars
    OBVIOUS
  <2>1. CASE [Next]_vars
    BY <2>1, MissingStep DEF SharedInv
  <2>2. CASE ~Running /\ UNCHANGED runnerVars
    BY <2>2 DEF Running
  <2> QED BY <2>1, <2>2, DirStepKinds
<1> QED BY SharedInvariance, <1>1, PTL DEF DirSpec, OnlySkippedIsMissing

-----------------------------------------------------------------------------
(***************************************************************************)
(* Why a synchronisation ends.                                             *)
(***************************************************************************)

\* A file takes two steps, and a rebuild three before the first one.
SyncStepsLeft ==
  CASE spc = "rescored" -> 2 * Cardinality(Cells) + 3
    [] spc = "verify"   -> 2 * Cardinality(Cells) + 2
    [] spc = "sync"     -> 2 * Cardinality(Held(plan)) + 1
    [] spc = "write"    -> 2 * Cardinality(Held(plan))
    [] OTHER            -> 0

LEMMA PlannedAreCounted ==
  ASSUME NEW table
  PROVE  /\ Cardinality(Held(table)) \in Nat /\ Cardinality(Cells) \in Nat
         /\ Cardinality(Held(table)) <= Cardinality(Cells)
<1>1. Held(table) \subseteq Cells
  BY DEF Held
<1> QED BY <1>1, CellsFinite, FS_Subset, FS_CardinalityType

LEMMA WrittenIsOneLess ==
  ASSUME SyncTypeOK, NEW c \in Cells, WriteStale(c)
  PROVE  Cardinality(Held(plan)) = Cardinality(Held(plan')) + 1
<1>1. c \in Held(plan) /\ plan' = [plan EXCEPT ![c] = NoFile]
  BY DEF WriteStale, First
<1>2. Held(plan') = Held(plan) \ {c}
  BY <1>1, SomeTables DEF Held, SyncTypeOK, RecordTable
<1>3. Held(plan) \in SUBSET Cells
  BY DEF Held
<1> QED BY <1>1, <1>2, <1>3, OneCellLess

LEMMA SyncStepUsesAStep ==
  ASSUME SyncTypeOK, SyncNext, Syncing
  PROVE  ~Syncing' \/ SyncStepsLeft' < SyncStepsLeft
<1> DEFINE n == Cardinality(Held(plan))
           m == Cardinality(Held(plan'))
           k == Cardinality(Cells)
<1>1. n \in Nat /\ m \in Nat /\ k \in Nat /\ m <= k
  BY PlannedAreCounted
<1>2. SyncStepsLeft = CASE spc = "rescored" -> 2 * k + 3 [] spc = "verify" -> 2 * k + 2
                        [] spc = "sync" -> 2 * n + 1 [] spc = "write" -> 2 * n [] OTHER -> 0
  BY DEF SyncStepsLeft
<1>3. Held(plan)' = Held(plan') /\ Cells' = Cells
  BY DEF Held, Cells
<1>4. SyncStepsLeft' = CASE spc' = "rescored" -> 2 * k + 3 [] spc' = "verify" -> 2 * k + 2
                         [] spc' = "sync" -> 2 * m + 1 [] spc' = "write" -> 2 * m [] OTHER -> 0
  BY <1>3 DEF SyncStepsLeft
<1>5. ASSUME NEW c \in Cells, OpenStale(c) PROVE SyncStepsLeft' < SyncStepsLeft
  <2>1. spc = "sync" /\ spc' = "write" /\ n = m
    BY <1>5 DEF OpenStale
  <2> HIDE DEF n, m, k
  <2> QED BY <1>1, <1>2, <1>4, <2>1
<1>6. ASSUME NEW c \in Cells, WriteStale(c) PROVE SyncStepsLeft' < SyncStepsLeft
  <2>1. spc = "write" /\ spc' = "sync" /\ n = m + 1
    BY <1>6, WrittenIsOneLess DEF WriteStale
  <2> HIDE DEF n, m, k
  <2> QED BY <1>1, <1>2, <1>4, <2>1
<1>7. ASSUME RebuildWrite PROVE SyncStepsLeft' < SyncStepsLeft
  <2>1. spc = "rescored" /\ spc' = "verify"
    BY <1>7 DEF RebuildWrite
  <2> HIDE DEF n, m, k
  <2> QED BY <1>1, <1>2, <1>4, <2>1
<1>8. ASSUME VerifyPasses PROVE ~Syncing' \/ SyncStepsLeft' < SyncStepsLeft
  <2>1. spc = "verify" /\ spc' \in {"idle", "sync"}
    BY <1>8 DEF VerifyPasses, SyncEnded
  <2> HIDE DEF n, m, k
  <2> QED BY <1>1, <1>2, <1>4, <2>1 DEF Syncing
<1>9. ASSUME VerifyFails \/ SyncDone \/ RebuildTears \/ SyncCrash PROVE ~Syncing'
  BY <1>9 DEF VerifyFails, SyncDone, RebuildTears, SyncCrash, SyncEnded, Syncing
<1>10. ~SyncStart
  BY DEF SyncStart, RebuildNothing, RebuildTorn, RebuildRead, Reconcile, Syncing
<1> QED
  BY <1>5, <1>6, <1>7, <1>8, <1>9, <1>10 DEF SyncNext, SyncStep

\* Neither command can go on for ever, however many run files are stale: each
\* of its steps uses up one of a bounded number, or ends it
\* (the loop of core/archive.py:180).
THEOREM SyncsAreFinite ==
  DirSpec => /\ [](SyncStepsLeft \in 0 .. 2 * Cardinality(Cells) + 3)
             /\ [][Syncing => \/ ~Syncing'
                              \/ SyncStepsLeft' < SyncStepsLeft
                              \/ UNCHANGED syncVars]_dirVars
<1>1. ASSUME DirInv PROVE SyncStepsLeft \in 0 .. 2 * Cardinality(Cells) + 3
  <2> DEFINE n == Cardinality(Held(plan))
             k == Cardinality(Cells)
  <2>1. n \in Nat /\ k \in Nat /\ n <= k
    BY PlannedAreCounted
  <2>2. SyncStepsLeft = CASE spc = "rescored" -> 2 * k + 3 [] spc = "verify" -> 2 * k + 2
                          [] spc = "sync" -> 2 * n + 1 [] spc = "write" -> 2 * n [] OTHER -> 0
    BY DEF SyncStepsLeft
  <2> HIDE DEF n, k
  <2>3. SyncStepsLeft \in 0 .. 2 * k + 3
    BY <2>1, <2>2
  <2> QED BY <2>3 DEF k
<1>2. DirInv /\ [DirNext]_dirVars =>
        [Syncing => ~Syncing' \/ SyncStepsLeft' < SyncStepsLeft \/ UNCHANGED syncVars]_dirVars
  <2> SUFFICES ASSUME DirInv, DirNext, Syncing
               PROVE  ~Syncing' \/ SyncStepsLeft' < SyncStepsLeft \/ UNCHANGED syncVars
    OBVIOUS
  <2>1. CASE SyncCommand
    BY <2>1, SyncStepUsesAStep DEF SyncCommand, DirInv, DirTypeOK
  <2>2. CASE RunCommand \/ EditPack
    BY <2>2 DEF RunCommand, EditPack
  <2> QED BY <2>1, <2>2 DEF DirNext
<1> QED BY DirInvariance, <1>1, <1>2, PTL DEF DirSpec
=============================================================================
