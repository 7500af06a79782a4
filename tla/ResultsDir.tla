------------------------------ MODULE ResultsDir ------------------------------
(***************************************************************************)
(* The commands that share one results directory: `run`, `rebuild-report`  *)
(* and `reconcile-runs`, issued one at a time and in any order, each of    *)
(* them possibly killed, while the pack and the scorer change.             *)
(***************************************************************************)
EXTENDS GridRunner, ArchiveSync

VARIABLE clean  \* history: the last rebuild ended well, and nothing changed since

dirVars == <<disk, runnerVars, syncVars, clean>>

DirInit == Init /\ SyncInit /\ clean = FALSE

RunCommand ==
  /\ ~Syncing
  /\ RunNext
  /\ UNCHANGED <<syncVars, clean>>

SyncCommand ==
  /\ ~Running
  /\ SyncNext
  /\ clean' = (clean \/ (spc = "sync" /\ command = "rebuild" /\ against = edition
                          /\ outcome' = "ok"))
  /\ UNCHANGED runnerVars

EditPack ==
  /\ Edit
  /\ clean' = FALSE
  /\ UNCHANGED syncVars

DirNext == RunCommand \/ SyncCommand \/ EditPack

DirSpec == DirInit /\ [][DirNext]_dirVars

DirTypeOK == TypeOK /\ SyncTypeOK /\ clean \in BOOLEAN

-----------------------------------------------------------------------------

\* After a rebuild, and until the pack or the scorer changes, no resumed grid
\* publishes a stale score and no stale record is on file: the path to a wrong
\* published number that ADR-0033 closes (core/rebuild.py:119).
RebuiltStaysCurrent ==
  clean =>
    /\ \A c \in Held(files) : c[1] \in TasksOf[edition] =>
         files[c].score = Verdict[edition, files[c].raw]
    /\ scores \in Report =>
         \A c \in Held(scores.runs) : c[1] \in TasksOf[edition] =>
           scores.runs[c].score = Verdict[edition, scores.runs[c].raw]

-----------------------------------------------------------------------------
(***************************************************************************)
(* What the documentation says and the code does not do                    *)
(***************************************************************************)

\* A mock answer is never published under a metadata block naming the real
\* model (core/__main__.py:102).
NoMockPublishedAsReal ==
  scores \in Report =>
    \A c \in Held(scores.runs) :
      scores.runs[c].by = MockModel => scores.model = MockModel
=============================================================================
