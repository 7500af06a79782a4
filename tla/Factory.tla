-------------------------------- MODULE Factory --------------------------------
(***************************************************************************)
(* The dispatcher: cmd_factory (core/__main__.py) over run_pipeline        *)
(* (core/factory.py).  It loads the queue file once, drives the first open *)
(* target of that copy through the stages of the pipeline, and writes the  *)
(* whole copy back after each target.  A stage that fails blocks the       *)
(* target with a reason; a stage that raises, other than the grid and the  *)
(* rendering of the card, ends the command with nothing saved.             *)
(*                                                                         *)
(* A pack is abstracted to its obstacle: the stage that will fail on it    *)
(* and how.  A queue entry keeps its status and its reason; ranks, notes   *)
(* and spend are carried along unread.                                     *)
(***************************************************************************)
EXTENDS Naturals, Sequences

CONSTANTS
  Targets,        \* target ids, as numbers in rank order
  Gates,          \* the names of factory.GATES, in order
  NumConditions,  \* how many conditions the registry of a pack has
  Obstacles,      \* the obstacles a pack may have
  AuthorStatuses, \* what an author writes into a status field
  Providers,      \* subset of {"mock", "cli"}
  LiveEditing,    \* whether an author edits the queue while a command runs
  NoObstacle,     \* a pack that passes every stage
  NoFile,         \* no card
  Torn            \* a file truncated for writing and not yet written

Stages == <<"pack">> \o Gates \o <<"mock", "grid", "compare", "card">>

ASSUME FactoryAssumption ==
  /\ Targets \subseteq Nat
  /\ NumConditions \in Nat \ {0}
  /\ Gates \in Seq({Gates[i] : i \in DOMAIN Gates})
  /\ \A i \in DOMAIN Gates :
       Gates[i] \notin {"pack", "mock", "grid", "compare", "card"}
  /\ Obstacles \subseteq
       [stage: {Stages[i] : i \in DOMAIN Stages}, raises: BOOLEAN]
  /\ NoObstacle \notin Obstacles
  /\ Providers \subseteq {"mock", "cli"}
  /\ LiveEditing \in BOOLEAN
  /\ "carded" \notin AuthorStatuses
  /\ {NoFile, Torn} \cap [by: Providers, conditions: 1 .. NumConditions] = {}

VARIABLES
  queue,     \* the queue file: an entry per target, or Torn
  pack,      \* pack[t]: the obstacle of the pack of t
  card,      \* card[t]: REPORT.scaffold.md of the pack of t
  pc,        \* where the command is
  mode,      \* "next" or "run"
  provider,  \* "cli" or "mock"
  entries,   \* `entries`: the copy of the queue the command works on
  at,        \* the target being driven, or NoFile
  stage,     \* index of the stage it is in (entry.status meanwhile)
  graded,    \* how many conditions have been graded
  exit       \* how the last command ended

onDisk == <<queue, pack, card>>
dispatch == <<pc, mode, provider, entries, at, stage, graded>>
factoryVars == <<onDisk, dispatch, exit>>

\* The statuses that decide a target, and (DONE_STATUSES) those next_target
\* skips.  Mutant: the one ADR-0019 found missing is missing.
Decided == {"carded", "blocked", "parked"}
DoneWithoutParked == {"carded", "blocked"}
DoneStatuses == Decided

\* STAGES, and the whole vocabulary.  An entry that names a stage is open: it is
\* driven like a queued one, from the first stage on.
StageWords ==
  {Gates[i] : i \in DOMAIN Gates}
    \cup {"mock", "canary", "grid", "compare", "card"}
Statuses == {"queued"} \cup StageWords \cup Decided

\* blocked_reason: the stage that blocked the target and whether it raised, or
\* the words of an author.
Reason(where, raised) == [stage |-> where, raised |-> raised]
Queued == [status |-> "queued", reason |-> Reason("none", FALSE)]
Entries ==
  [Targets ->
     [status: Statuses \cup AuthorStatuses,
      reason: [stage: {"none", "author"} \cup {Stages[i] : i \in DOMAIN Stages},
               raised: BOOLEAN]]]

\* A truncated queue file is no queue, and no list of calls made from one.
ASSUME TornAssumption ==
  Torn \notin Entries /\ Torn \notin [Targets -> {"open"} \cup Decided]

Init ==
  /\ queue = [t \in Targets |-> Queued]
  /\ pack \in [Targets -> Obstacles \cup {NoObstacle}]
  /\ card = [t \in Targets |-> NoFile]
  /\ pc = "idle"
  /\ mode = "none"
  /\ provider = "none"
  /\ entries = [t \in {} |-> Queued]
  /\ at = NoFile
  /\ stage = 1
  /\ graded = 0
  /\ exit = "none"

Idle == pc = "idle"

\* The process is gone; nothing is saved.
Ended(how) ==
  /\ pc' = "idle"
  /\ mode' = "none"
  /\ provider' = "none"
  /\ entries' = [t \in {} |-> Queued]
  /\ at' = NoFile
  /\ stage' = 1
  /\ graded' = 0
  /\ exit' = how

-----------------------------------------------------------------------------
(***************************************************************************)
(* cmd_factory                                                             *)
(***************************************************************************)

\* load_queue refuses a status it does not know.  A truncated file is an
\* empty document, which is an empty queue.
Loadable == queue # Torn => \A t \in Targets : queue[t].status \in Statuses

Loaded == IF queue = Torn THEN [t \in {} |-> Queued] ELSE queue

LoadRaises ==
  /\ Idle
  /\ ~Loadable
  /\ exit' = "raised"
  /\ UNCHANGED <<onDisk, dispatch>>

\* A cli run without a pinned model.
NoModel ==
  /\ Idle
  /\ Loadable
  /\ "cli" \in Providers
  /\ exit' = "blocked"
  /\ UNCHANGED <<onDisk, dispatch>>

Start(m, p) ==
  /\ Idle
  /\ Loadable
  /\ pc' = "pick"
  /\ mode' = m
  /\ provider' = p
  /\ entries' = Loaded
  /\ exit' = "none"
  /\ UNCHANGED <<onDisk, at, stage, graded>>

\* next_target: the first entry whose status is not a done one.
Open == {t \in DOMAIN entries : entries[t].status \notin DoneStatuses}
\* Mutant: the last one.
LastOpen(t) == t \in Open /\ \A u \in Open : u <= t
NextTarget(t) == t \in Open /\ \A u \in Open : t <= u

\* Mutant of Pick: the conditions graded for the last target still count.
PickOn(t) ==
  /\ pc = "pick"
  /\ NextTarget(t)
  /\ at' = t
  /\ pc' = "drive"
  /\ stage' = 1
  /\ UNCHANGED <<onDisk, mode, provider, entries, graded, exit>>

Pick(t) ==
  /\ pc = "pick"
  /\ NextTarget(t)
  /\ at' = t
  /\ pc' = "drive"
  /\ stage' = 1
  /\ graded' = 0
  /\ UNCHANGED <<onDisk, mode, provider, entries, exit>>

NothingToDo ==
  /\ pc = "pick"
  /\ Open = {}
  /\ Ended("ok")
  /\ UNCHANGED onDisk

\* save_queue opens the queue file, which truncates it, and writes the copy.
OpenQueue ==
  /\ pc = "save"
  /\ queue' = Torn
  /\ pc' = "saving"
  /\ UNCHANGED <<pack, card, mode, provider, entries, at, stage, graded, exit>>

\* Mutant of WriteQueue: the queue is written back as it was before the drive.
WriteQueueUnchanged ==
  /\ pc = "saving"
  /\ queue' = [entries EXCEPT ![at] = Queued]
  /\ IF mode = "run"
     THEN pc' = "pick" /\ at' = NoFile
          /\ UNCHANGED <<mode, provider, entries, stage, graded, exit>>
     ELSE Ended("ok")
  /\ UNCHANGED <<pack, card>>

\* `run` goes on; `next` ends, and only it reports a block in its exit code.
WriteQueue ==
  /\ pc = "saving"
  /\ queue' = entries
  /\ IF mode = "run"
     THEN pc' = "pick" /\ at' = NoFile
          /\ UNCHANGED <<mode, provider, entries, stage, graded, exit>>
     ELSE Ended(IF entries[at].status = "blocked" THEN "blocked" ELSE "ok")
  /\ UNCHANGED <<pack, card>>

-----------------------------------------------------------------------------
(***************************************************************************)
(* run_pipeline                                                            *)
(***************************************************************************)

In(name) == pc = "drive" /\ Stages[stage] = name

Meets(raises) == pack[at] = [stage |-> Stages[stage], raises |-> raises]

\* The namespace _run_namespace builds has no format_failure_threshold, which
\* cmd_run reads unless the run is a mock one.
NamespaceRaises == provider = "cli"

Refuses ==
  \/ Meets(FALSE)
  \/ In("grid") /\ provider = "cli"  \* a transport, canary or model-pin gate
Raises ==
  \/ Meets(TRUE)
  \/ In("grid") /\ NamespaceRaises

Blocked(raised) ==
  [status |-> "blocked", reason |-> Reason(Stages[stage], raised)]

\* Mutant of Block: the reason is reported and the status never set.
BlockUnmarked ==
  /\ pc = "drive"
  /\ Refuses \/ (In("grid") /\ Raises)
  /\ pc' = "save"
  /\ UNCHANGED <<onDisk, mode, provider, entries, at, stage, graded, exit>>

\* A missing pack, a failing gate, mock run or condition, a condition that
\* raises, a card that cannot be rendered.
Block ==
  /\ pc = "drive"
  /\ \/ Refuses /\ entries' = [entries EXCEPT ![at] = Blocked(FALSE)]
     \/ In("grid") /\ Raises /\ entries' = [entries EXCEPT ![at] = Blocked(TRUE)]
  /\ pc' = "save"
  /\ UNCHANGED <<onDisk, mode, provider, at, stage, graded, exit>>

\* Pack.load, a gate, the mock run or the joining of the conditions raises,
\* and nothing catches it.
Raise ==
  /\ pc = "drive"
  /\ ~In("grid")
  /\ Raises
  /\ Ended("raised")
  /\ UNCHANGED onDisk

Pass ==
  /\ pc = "drive"
  /\ Stages[stage] \notin {"grid", "card"}
  /\ ~Refuses
  /\ ~Raises
  /\ stage' = stage + 1
  /\ UNCHANGED <<onDisk, pc, mode, provider, entries, at, graded, exit>>

\* Mutant of GradeCondition: the grid ends with its first condition.
GradeFirst ==
  /\ In("grid")
  /\ provider = "mock"
  /\ ~Refuses /\ ~Raises
  /\ graded' = graded + 1
  /\ stage' = stage + 1
  /\ UNCHANGED <<onDisk, pc, mode, provider, entries, at, exit>>

\* One condition of the grid returns EXIT_OK.  A pack whose grid fails may
\* fail at any condition, the last one included.
GradeCondition ==
  /\ In("grid")
  /\ provider = "mock"
  /\ (Refuses \/ Raises) => graded < NumConditions - 1
  /\ graded' = graded + 1
  /\ stage' = IF graded' = NumConditions THEN stage + 1 ELSE stage
  /\ UNCHANGED <<onDisk, pc, mode, provider, entries, at, exit>>

\* The scaffold is rendered, and its file opened, which truncates it ...
OpenCard ==
  /\ In("card")
  /\ ~Refuses
  /\ ~Raises
  /\ card' = [card EXCEPT ![at] = Torn]
  /\ pc' = "card"
  /\ UNCHANGED <<queue, pack, mode, provider, entries, at, stage, graded, exit>>

\* ... and written; then the target is carded.
WriteCard ==
  /\ pc = "card"
  /\ card' = [card EXCEPT ![at] = [by |-> provider, conditions |-> graded]]
  /\ entries' = [entries EXCEPT ![at].status = "carded"]
  /\ pc' = "save"
  /\ UNCHANGED <<queue, pack, mode, provider, at, stage, graded, exit>>

Crash ==
  /\ ~Idle
  /\ Ended("crashed")
  /\ UNCHANGED onDisk

-----------------------------------------------------------------------------

FactoryStep ==
  \/ \E t \in Targets : Pick(t)
  \/ NothingToDo
  \/ Block \/ Raise \/ Pass \/ GradeCondition
  \/ OpenCard \/ WriteCard
  \/ OpenQueue \/ WriteQueue

\* An author parks a target, queues it again, or mistypes its status.
AuthorQueue(t, s) ==
  /\ Idle \/ LiveEditing
  /\ queue # Torn
  /\ pc # "saving"
  /\ queue' = [queue EXCEPT ![t] =
                 [status |-> s, reason |-> Reason("author", FALSE)]]
  /\ UNCHANGED <<pack, card, dispatch, exit>>

\* An author repairs a pack, or breaks it.
AuthorPack(t) ==
  /\ \E o \in (Obstacles \cup {NoObstacle}) \ {pack[t]} :
       pack' = [pack EXCEPT ![t] = o]
  /\ UNCHANGED <<queue, card, dispatch, exit>>

Next ==
  \/ LoadRaises
  \/ NoModel
  \/ \E m \in {"next", "run"}, p \in Providers : Start(m, p)
  \/ FactoryStep
  \/ Crash
  \/ \E t \in Targets :
       AuthorPack(t) \/ \E s \in AuthorStatuses : AuthorQueue(t, s)

Spec == Init /\ [][Next]_factoryVars

\* Nothing the dispatcher waits for is unbounded: each model call times out.
FairSpec == Spec /\ WF_factoryVars(FactoryStep)

-----------------------------------------------------------------------------

Whole(c) == c # NoFile /\ c # Torn

TypeOK ==
  /\ queue = Torn \/ queue \in Entries
  /\ pack \in [Targets -> Obstacles \cup {NoObstacle}]
  /\ \A t \in Targets :
       Whole(card[t]) =>
         card[t] \in [by: Providers, conditions: 1 .. NumConditions]
  /\ pc \in {"idle", "pick", "drive", "card", "save", "saving"}
  /\ pc \in {"drive", "card", "save", "saving"} => at \in DOMAIN entries
  /\ entries \in Entries \cup {[t \in {} |-> Queued]}
  /\ stage \in DOMAIN Stages
  /\ graded \in 0 .. NumConditions
  /\ exit \in {"none", "ok", "blocked", "raised", "crashed"}

\* The dispatcher spends only on a target that is open in a word of the
\* vocabulary, with every target ahead of it decided: never on one an author
\* parked, never on a status it does not know (ADR-0019).  It decides that from
\* its copy; while nobody edits the file meanwhile, the file says so too.
WorksOnlyUndecided ==
  pc \in {"drive", "card"} =>
    /\ entries[at].status \in Statuses \ Decided
    /\ \A u \in Targets : u < at => entries[u].status \in Decided
    /\ ~LiveEditing => queue # Torn /\ queue[at].status \notin Decided

\* A target reads carded only when its card is on file, whole, and covers
\* every condition, whatever was killed, re-queued or re-run before.
CardedHasWholeCard ==
  queue # Torn =>
    \A t \in Targets : queue[t].status = "carded" =>
      Whole(card[t]) /\ card[t].conditions = NumConditions

\* A `run` that ends well leaves every target on file carded, blocked or
\* parked (core/__main__.py:1010).
RunDrainsQueue ==
  [][mode = "run" /\ exit' = "ok" /\ queue # Torn =>
       \A t \in Targets : queue[t].status \in Decided]_factoryVars

\* Every command ends: no target is driven for ever.
DispatchEnds == ~Idle ~> Idle

\* The queue file and the cards, as the operator of a Worklist sees them.  A
\* file about to be rewritten still counts as it was: its target is open.
Called(q, t) == IF q[t].status \in Decided THEN q[t].status ELSE "open"

Board ==
  IF pc = "saving" THEN [t \in Targets |-> IF t = at THEN "open"
                                           ELSE Called(entries, t)]
  ELSE IF queue = Torn THEN Torn
  ELSE [t \in Targets |-> Called(queue, t)]

WL == INSTANCE Worklist WITH
        Lost <- Torn, board <- Board,
        cards <- {t \in Targets : Whole(card[t])}

\* The dispatcher implements the worklist.
ImplementsWorklist == WL!WLSpec

-----------------------------------------------------------------------------
(***************************************************************************)
(* What the documentation says and the code does not do                    *)
(***************************************************************************)

\* `blocked` is a property of the target (core/factory.py:41): when a grid
\* raised, something about the pack made it raise.
BlockedIsAboutTarget ==
  \A t \in DOMAIN entries :
    entries[t].reason = Reason("grid", TRUE) =>
      pack[t] # NoObstacle
=============================================================================
