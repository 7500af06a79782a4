# ai-readiness-eval in TLA+

TLA+ models of the evaluation harness in this repository, the TLC
configurations that check them on small instances, and TLAPS proofs of what
holds for every instance. Paths such as `core/archive.py:181` are relative to
the repository. "ADR-n" is the decision record of that number in `docs/adr/`.

The harness asks a model to produce API calls for the tasks of a *pack*, under
several *conditions* (which documents the prompt contains), scores the answers
against a key and publishes a report. What it promises is a number someone can
rely on, so the questions asked here are about that number: can a dry run end
up in it, can a killed command leave half of one behind, does a re-run pay
twice, does a page reach the prompt that should not, is an answer lost to a
budget counted against the model, does the scorer credit what was not said, can a
target be called measured when it is not.

Contents: [1 inventory](#1-inventory) · [2 modules](#2-modules-and-how-they-correspond-to-the-code)
· [3 runs](#3-runs-and-bounds) · [4 fairness](#4-fairness) · [5 proofs](#5-what-is-proved)
· [6 disagreements](#6-where-code-and-documentation-disagree)
· [7 not modelled](#7-what-is-not-modelled-and-why) · [8 plan](#8-plan)

## 1 Inventory

| Component | Code | State | Operations | Correct when |
|---|---|---|---|---|
| Grid runner | `core/__main__.py` (`cmd_run`), `core/report.py` | `runs/*.json` and `scores.json` of a results directory; in memory the records of this command, the attempt, the stop flag | `run`, with `--overwrite`, `--tasks`, `--n`, `--provider mock`; resume is the default | a report mixes no mock with measured answers; it shows what is archived; nothing paid for is lost; the breaker stops spending |
| Archive synchronisation | `core/rebuild.py`, `core/archive.py` | the same directory | `rebuild-report`, `reconcile-runs [--check]` | evidence is never changed; report and run files agree; stale scores do not come back |
| Factory dispatcher | `core/factory.py`, `cmd_factory` | the queue file, card files; in memory the loaded queue and the stage reached | `factory next`, `factory run` | drives only what is not decided, one at a time, in order; carded implies a whole card; drains the queue |
| Docs fetcher and robots gate | `core/docs_fetch.py`, `core/robots.py`, `_load_text` of `core/conditions.py`, `validate_docs_manifest` | manifest, cache of page texts; in memory the manifest, the policy cache | `fetch-docs`, `annotate-robots [--check]` | permission precedes a request; lists stay apart; a page injects what its entry attests |
| Publisher controls | `core/controls.py`, `core/robots.py` | a pacer's count and waited seconds, the probes of a baseline, the policy cache of the process | `run_controls`, `soft_404_baseline`, `well_known_spec_probe`, `reachability_control` | requests keep the declared pace; a host over budget is refused before it is probed; a specification is claimed only against a baseline |
| Conditions, pre-flight | `core/conditions.py`, `core/preflight.py` | the context being assembled; the records of an audit | `build_context` under a budget, `audit_docs_truncation`; canary calls before a grid | the budget takes what matters least; the audit blames it for nothing it had room for; a failing canary stops the grid |
| Gates of a pack | `GATES` of `core/factory.py`, `core/validate.py`, `core/prompt_gate.py`, `core/roundtrip.py` | the gate reached, the verdict | eight gates in order, then the grid | what is cleared can be measured: answers are in the window, sources may be kept |
| Scorers | `core/scorer.py`, `core/docs_scorer.py`, `core/answer_block.py`, `core/docs_answer.py`, `core/contract.py` | the calls used, the records, the score | parse a response, pair its calls with the key's, score each dimension | no call counts twice; the endpoint score does not depend on order; silence earns nothing |
| Round-trip control | `core/roundtrip.py`, `core/roundtrip_api.py` | problems collected | score the key directly and as a rendered block | a key scores full marks against itself, also through a block and the parser, or is reported |
| Surfaces | `core/surfaces.py` | the label of a run | classify a call, a run; gate a declaration | a label is earned by a matched call and not by the order of declaration |
| Pack loader, validation | `core/pack.py`, `core/validate.py`, `core/category.py` | none | load, validate | every shape the other parts rely on is refused otherwise |
| Prompt gate | `core/prompt_gate.py`, `core/prompt.py` | none | text check | every prompt names its vendor and product |
| Other reports over archives | `core/analyze.py`, `core/specsize.py`, `core/html_text.py` | none | read-only | |
| Transports, environment | `core/model.py`, `core/env.py` | child process, HTTP | one model call | |
| CI guard runner | `tools/assert_guard_ran.py` | none | one pass over a junit file | |

**Interaction.** Everything meets on disk. `run`, `rebuild-report` and
`reconcile-runs` share one results directory; `factory` calls `cmd_run` once per
condition through a hand-built namespace, reads the manifests, and writes cards
and the queue, which authors also edit; `fetch-docs` and `annotate-robots` share
the manifest, and `run` reads manifest and cache through the conditions. The
gates of `factory` call the round trip, which calls the scorer that `run` uses,
and assemble the very contexts the grid assembles again when it asks. There are
no threads and no locks.

**What is hard.** Commands are issued in any order, on any day, and killed; a
file is written with `Path.write_text`, which truncates it first, so a kill in
the middle leaves an empty file. Resuming is the default, so what a command
finds on disk may be the work of any earlier command, with another provider,
another edition of the pack, or another scorer. Model calls and pages fail, are
throttled, and are retried. The pack, the scorer, the robots.txt of a host and
the queue file change under way. In the pure parts it is two readers of one
declaration that can differ: a gate and the scorer, an audit and a prompt, a label
and the match it is about. `PROJECT.json` lists each such hazard at its
line, with the properties that cover it, or why none does.

## 2 Modules, and how they correspond to the code

    RunArchive ── GridRunner ──┐                      Worklist
        │                      ├── ResultsDir            ▲ implements (INSTANCE)
        └────── ArchiveSync ───┘                      Factory

    ApiScorer ── DocsScorer ── Scoring                PromptContext ── PackGates
    DocsFetch                  Controls

    Theorems: GridRunnerProofs ── ArchiveProofs (over ResultsDir), FactoryProofs,
    DocsFetchProofs, ControlsProofs, ScoringProofs, GatesProofs. FiniteFacts: what
    several of them need about numbers, finite sets and folds.
    MC*: instances for TLC.

**RunArchive** is the results directory: `files` (a run file per task and run
index, absent, whole, or `Torn`), `scores` (the report) and `edition` (pack and
scorer as they are now), and the pure rules: `MayReuse`
(`may_reuse_archived_run`), `Trips` (`format_failure_breaker`), `Evidence`
(`TRANSPORT_FIELDS`). A record keeps five fields. `by` is not one of the file's:
it stands for the transcript, from which a reader can tell who answered, and
lets a property say "a mock answer" without trusting the `mock` stamp it checks.

**GridRunner** is `cmd_run`. `Refuse` is every gate before the loop; `Begin` fixes
the grid; then each loop iteration is `Reuse`, `ReadTorn` (`json.loads` raises),
or `Ask`. Under `Ask`, `Retry` is an answer that breaks tool discipline with
attempts left; `Answer` is the one that is kept, and opens its file; `WriteRunFile`
completes it and consults the breaker; `TransportError` skips the cell.
`OpenReport` and `WriteReport` are `write_reports`. `Crash` ends the command
anywhere, leaving whatever is on disk. `fresh` and `skipped` are history
variables. `Edit` changes the pack or the scorer between and during commands.

**ArchiveSync** is `rebuild_report` (`RebuildRead`, `RebuildWrite`) followed by
`reconcile_runs` (`VerifyPasses` or `VerifyFails`, then `OpenStale`, `WriteStale`
for each file), and `reconcile-runs` itself. **ResultsDir** composes the two: one
command at a time, in any order, with edits.

**Factory** is `cmd_factory` over `run_pipeline`. The words of the queue are `Statuses`:
queued, the names of the stages (`StageWords`), which the loader also accepts, and the
three that decide a target (`Decided`). A pack is abstracted to its
*obstacle*: the stage that fails on it and whether by returning or by raising.
`Pass`, `Block` and `Raise` are what a stage can do, `GradeCondition` is one
condition of the grid, `OpenCard` and `WriteCard` the scaffold, `OpenQueue` and
`WriteQueue` are `save_queue`. `AuthorQueue` and `AuthorPack` are the people.
**Worklist** is what an operator who only sees the queue and the cards is
promised; `ImplementsWorklist` states that Factory implements it, with the board
an operator reads and the set of whole cards as the refinement mapping.

**DocsFetch** is `fetch_all` and `annotate_manifest`. Both walk the manifest in
order (`at`): `ReadRobots` is `fetch_policy`, `Permit` and `Refuse` the verdict,
`Throttled` an empty 2xx body, `Arrive` and `WriteCache` a document, `Fail` any
exception; `OpenManifest` and `WriteManifest` are the single write at the end.
`Injected` is `_load_text`. A robots.txt is abstracted to the URLs it forbids one
agent, so the model ranges over all of them; a text is abstracted to what was
asked for, for which list, as whom and when.

**Controls** is `run_controls`, and `soft_404_baseline` and `well_known_spec_probe`
called by themselves, each with its own pacer, in one process or after a
`Restart`. `ReadRobots` is `fetch_policy`, `RefusePace` and `Admit` are the budget
check of the whole call, `Skip` a path robots.txt refuses, `Wait` is
`Pacer.before_request` and `Ask` the rest of `_probe` with the verdict on its
response (`Verdict`, against `Established` and `Soft404`). `ReadOtherRobots`,
`AskOther`, `SkipOther` and `OtherAnswers` are `reachability_control`, `EnterSweep` the
second budget check. `gap` is a history variable: the seconds that have passed at
least since the target was last asked for anything. A response is its status, the
signature of its text, whether its body carries a spec marker, and whether it is
an error, so the model ranges over hosts that answer anything at any path.

**ApiScorer** and **DocsScorer** are the pure rules of the two cohorts: path
normalisation and base prefixes (`Comparable`), the candidates of a call (`Hit`),
its record (`MatchRecord`), the dimensions (`ApiScores`, `DocsScores`), and what
the gates say of a declared alternate or prefix, with each entry in the form an
author may have given it. Versions and style texts are folded by parameters
(`Canon`, `Fold`), of which only what the code relies on is assumed.

**Scoring** runs them. A task's pack and key are fixed; either a response is
scored (`ScoreResponse`, `Parse`), or the key itself, directly and then through a
rendered block (`ScoreKey`, `ScoreRenderedKey`), as the round-trip control does.
What rendering does to a key is part of a step: `RenderBlock` dumps its fields in
order, in which an observation called like a field takes its place (`DocsDumped`), and
the fence expression of the parser ends the block at the first fence a text of the
key puts at the start of a line (`UpTo`): inside a quoted text that breaks the YAML,
behind a folded one it loses the rest of the text and every later field. Where
that happens is `fence` of a key. The flow lists that only the API contract repairs
are never rendered. `MatchEndpoint` is one turn of the greedy loop, so `used` and `records` are the
loop's own variables; `ScoreTask` is the rest of `score_task`. `ClassifyRun` then
labels the run with a surface, `CheckPack` is the end of the control.

**PromptContext** is `build_context` (`NextPage` is one turn of its loop, over the
pages in `PagesFor` order) and `audit_docs_truncation` (`Begin` with purpose
"audit", `AuditRequest`). A text is a sequence of units, so that a cut can fall
anywhere, a spelling can survive in a heading, and a blank can be stripped at a
cut. `ContextLength` is the length of what is returned, with the preamble of the
contract and the line breaks `"\n".join` puts between blocks, neither of which the loop
counts. **PackGates** puts the eight gates in front of it: six look at the pack's
files only (`FileGate`), the last two audit every task's context; a cleared pack is
asked about (`AskModel`), and its prompts are assembled again. Factory abstracts
what PackGates decides to an obstacle; PackGates abstracts what Scoring decides
(a task scores itself, prefixes are cited, surfaces are told apart) to Booleans.

Definitions keep the names of the source where they can. Some operators are
marked "Mutant": each is a plausible error in the operation next to it, and no
specification uses it; it is there to show that a property notices the error.

## 3 Runs and bounds

| Run | Question |
|---|---|
| `grid_mixed` | Dry runs, real runs, resumes, `--overwrite` and `--tasks` over one directory, killed at any step while the pack changes: is each report pure, archived and complete, and is paid work kept? |
| `grid_breaker` | Is the breaker consulted after every record, reused or new, and does the report say what it did? |
| `dir_sync` | Runs, rebuilds and reconciliations in any order, killed anywhere, with a task retired: does a rebuild reconcile, is evidence kept, do stale scores stay away? |
| `factory_worklist` | Both commands, both providers, failing and raising packs, authors, kills: does the dispatcher implement the worklist, and drain it? |
| `docs_fetch` | Any robots.txt, throttling, failures, drift, kills: are lists apart, permission first, the manifest valid, and does a fetch repair what it finds? |
| `controls` | Controls run whole or in parts, in restarted processes, against any robots.txt and any answers: are requests paced and permitted, is a budget refused up front, does a spec verdict have a baseline? |
| `scoring` | Keys with good and bad tolerances, answers of up to three calls, both contracts, eight declarations of surfaces: is pairing maximal, is each method and version credited as some pairing deserves, does a key score itself full directly and through a block, or is reported, does silence earn nothing, is a label earned? |
| `pack_gates` | Packs of both cohorts, well and badly written, through all gates and into the prompts: does the budget drop what matters least, what exceeds it, does the audit blame it for what it had room for, are cleared answers in the window? |

The other runs each show one disagreement of section 6.

| Bound | Value | Why it is enough |
|---|---|---|
| `Tasks`, `MaxN` | 2 tasks of 1 run; 1 task of 3 runs for the breaker | two cells are needed for a half-done grid and for a retired task; three for a breaker that trips between two cells above its floor |
| `Floor` | 2 (20 in the code) | one record is below the floor, two are at it, three are past it |
| thresholds | 20, 50, 100 | trips on one of two; needs more than half; disabled |
| `MaxAttempts` | 3, as `max_tool_retries`; 2 for the breaker; 1 for `dir_sync`, which asks nothing of attempts | first, middle and last |
| `Answers`, `Scores`, `Editions` | 2, 3, 2 | the scorer's second edition rescues prose (ADR-0014) and the pack drops a task, so every kind of change of a score occurs |
| `Models` | 1 | a property that two pinned models be kept apart is not claimed by the code (see the hazards) |
| `Targets`, `Gates`, `NumConditions` | 2, 2, 2 | an order, a first and a later gate, a grid that fails half way |
| `Obstacles` | one per way a stage can end | |
| `AuthorStatuses` | queued, the name of a stage, parked, a misspelling | open, open though not queued, decided, unknown |
| `NumPages` | 2 | the same URL in two lists, or two URLs in one list |
| `Retries` | 2 (4 in the code) | a first and a last attempt |
| `NumNonsense`, `NumPaths` | 2 (as in the code), 2 (15) | probes that agree or not; a first and a last well-known path |
| `Budget`, delays | 8 s (600); none, 0, 2 and 3, or 1 by the caller | four paths at 2 fit exactly; 3 exceeds it for `run_controls` and not for its parts |
| `Responses`, `Policies` | 7, 8 | each verdict occurs; each kind of place is refused once |
| paths, calls, versions | 5 paths of at most 3 segments; answers of 0 to 2 calls, all of them, and some of 3; 3 versions in 5 spellings | three spellings of one resource, another one, and one in two versions; two calls are what a greedy choice needs to go wrong, three to spare one |
| `Styles` | 2 | the required style and an alternate; both together are unfalsifiable |
| tolerances | each list absent, empty, valid, or wrong in one way; three prefixes lists accepted, three refused | each rule of a gate fires alone |
| fences | six in API keys, four in docs keys | in the first, a middle and the last field; in a folded text and in a quoted one; at its start and behind some of it |
| observations | none, or one called like a field | which says something else, or more, than the field |
| surfaces | 8 declarations of up to 3 | two that share a path, with and without a version to tell them apart, a third that shares a version or nothing |
| `Budget` | 5 units, pages of 3 to 6, headings of 1 | a page fits, is cropped at each edge, or finds nothing left; the notice is one unit |
| preambles | one unit for API packs, none for docs packs | as in the contracts |
| pages of a task | all lists of up to 3 of 9 | both roles and an unknown one, forbidden, failed, not tried, not cached |
| packs | 1,719, among them every list of pages above | each gate blocks alone, with its neighbours passing |

No run needs a state constraint: all state is finite because each command is, and
a directory is, and a pacer waits within its budget. Deadlock checking is off: an idle command line may stay idle,
and under an unreadable queue or manifest it has nothing left to do.

## 4 Fairness

Weak fairness of the steps a command takes by itself (`Step`, `FactoryStep`),
and of nothing else: not of the operator, of authors, of kills or of edits. It is
justified by the timeouts: `core/model.py` bounds a model call, `core/docs_fetch.py`
a page (30 s) and `core/robots.py` a robots.txt (25 s); everything else is local.
Under it `CommandEnds` and `DispatchEnds` say every command ends or is killed. The
liveness in them is that the loops are bounded: a cell is passed, a target is
decided, a throttled page is given up. Nothing is assumed about outcomes: each
call may fail each time. Controls states no fairness: each of its properties is one
of safety, and a call that stops half way breaks none of them; nor do Scoring and
PackGates, whose loops are over finite lists.

## 5 What is proved

For every value of the constants that meets the named assumptions of the module.

**GridRunnerProofs** — `Invariance`: `Spec => []IInv`. None of the properties is
inductive alone; `IInv` adds what they rest on:

* `Provenance` — files and the records in memory are honest about who made them,
  and a command holds only records of its own kind. `ProvenancePure` speaks of the
  report alone; the next one comes from run files and memory.
* `Breaker` — `stopped` equals the breaker's verdict over the records in memory,
  except while a run file is being written.
* `Archived` — a passed cell's record is its file, and the one record that is
  not on file yet belongs to the first cell not passed.
* `Paid` — a model is asked, and a file truncated, only for a cell with nothing to
  reuse.
* `Accounted` — records, skipped cells and cells to do partition the grid.
* `AtRest`, `Pending` — memory is empty between commands.

From it follow `TypeCorrect`, `ReportsArePure`, `NoUndisciplinedReuse`,
`NoSpendPastBreaker`, `StoppedReportsTripped`, `ReportsAreArchived`,
`NothingElseIsMissing` and `PaidWorkKept`: each safety property of `grid_mixed` and
`grid_breaker`, for every number of tasks, runs, attempts, models and every
threshold and floor. The order of the grid enters through one lemma
(`FirstUnique`: one cell is first), the numeric rule through `NoRecordsNoTrip`.

**Why commands end.** `GridsAreFinite`, `SyncsAreFinite`, `FetchesAreFinite` and
`DispatchIsFinite` give each command a number of steps it has left (cells to do times
attempts and what one cell takes besides; stale run files; entries times retries;
open targets times stages and conditions), bound it in advance, and prove that
each step of the command uses one up or ends it, whatever authors do meanwhile
(`DispatchIsFinite` for finitely many targets). What `CommandEnds` and `DispatchEnds`
say besides is that some step can always be taken, and is: that needs ENABLED and
fairness and stays with TLC.

**DocsFetchProofs** — `FetchInvariance`: `Spec => []IInv` with `FilesBelong` (a file
holds a text retrieved for the list of its directory), `DocumentBelongs` (so does
the document in memory), `AllCoherent` (each entry on disk and in memory passes the
manifest gate) and `OpenedOnlyIfPermitted`. From it `FetchTypeCorrect`,
`ListsAreKeptApart`, `PermissionPrecedesRequest` and `GateAccepts`, for every manifest,
every assignment of URLs, slugs, hosts and agents.

`FetchesSettle` and `ForbiddenTextsAreGone` are proved **under `DistinctPaths`** (no
two pages share a cache path), by a second invariant, `Walk`: each entry the fetch
has passed is settled. The hypothesis cannot be dropped: `docs_slug` shows two
pages whose slugs coincide, of which the later overwrites, or deletes, the file
of the earlier.

**ControlsProofs** — `ControlsInvariance`: `Spec => []IInv`, for every number of paths,
budget, set of policies and of answers. Beside the properties `IInv` holds `Paced`
(the pacer has the pace of the call, and room in its budget for every place left:
the reason why no later check can refuse), `Asked` (once a policy is known, a time
since the last request is) and `Ordered` (findings are empty while the baseline is
probed, the unrelated host comes between). From it `ControlsTypeCorrect`,
`RequestsArePaced`, `SpecsHaveBaseline`, `ControlsArePermitted` and, as an action
property, `RefusalsComeFirst`: the refusals inside `before_request` and before the
sweep never happen.

**FactoryProofs** — `FactoryInv`, for every number of targets, gates and conditions,
every queue and every author: `CommandInv` (what a command in flight knows of itself),
`GradedByStage` (how much of the grid is graded at each stage, hence that a card is
of all conditions), `EntriesInv` (the target driven is the first open one of the
copy, and says a word that is open), `QueueInv` (carded in the file means carded in the copy, and
a whole card). From it `DispatcherIsTyped`, `SpendsOnlyOnUndecided` and `CardedIsBacked`,
also while authors edit the queue under the command. `RunDecidesAll` and
`DispatcherRefines` (Factory implements Worklist) are proved **under `~LiveEditing`**,
by `OwnedInv`: file and copy differ at most in the target being driven. With live
edits both are false, for the reason section 6 gives.

**ArchiveProofs** — `DirInv` over ResultsDir: `Places` (one command at a time, what holds
at each of its places, and `SyncedFile`: how far the synchronisation of each file has
come) and `CleanInv` (after a clean rebuild everything on file, in the report and in
memory is of the current edition). From it `DirectoryIsTyped`, `EvidenceIsKept`,
`RebuildNeverUnreconciled` (the error `rebuild_report` raises is dead code),
`RebuildStaysCurrent` and `SyncEndsInAgreement`. The steps of grids are taken over
from GridRunnerProofs. The number of runs a report infers is a least number
(well-founded induction on the naturals), and a count of its records a
cardinality.

The promises of the grid runner are proved again where it does not have the
directory to itself: `GridsKeepTheirInvariant` is `IInv` over ResultsDir, by
`SharedInv`, which adds to `DirInv` that the runs a synchronisation has read and the files
it is about to write say who made them, as the files they replace did (`CopiesHonest`;
evidence is kept), and that so do the runs of a report (`RunsHonest`). From it
`SharedReportsArePure` (of a report a grid wrote, that it is of one kind; of a rebuilt
one only that each run it shows bears the stamp of who answered, for such a report
may hold both kinds, as `dir_mock_as_real` shows), `SharedSpendStops`, `SharedPaidWorkKept` and
`SharedNothingElseIsMissing`. `ReportIsArchived` and `StoppedMeansTripped` are not among
them, and rightly: a rebuild publishes fresh scores before the run files have
them, and carries `stopped_early` over.

**ScoringProofs** — `ScoresByTheBook`: `ScoreInv` holds that records are a prefix of what
the greedy loop computes, that what is used is what was hit, and that the control
scores the answer its key renders to. From it

* `GreedyPairingIsMaximum` — no pairing of calls is larger, for every key, answer and
  list of prefixes. Calls pair by an equivalence (equal comparable paths), so within
  a class either every call of the key is paired or every call of the answer is used;
  a larger pairing would give an injection that cannot be.
* `LabelComesFromMatch` — the first call with the label's path was matched: had it
  been passed over, it would have been the hit.
* `LabelsAreEarned` — `_sole` returns the only surface a version marks, or none, in
  whatever order surfaces are declared: a change of order is a permutation, under
  which preimages keep their number, so each step of `classify_endpoint` decides
  the same. The version a verdict rests on is one that marks one publisher.
* `CreditsAreDeserved` — the calls that earn a method, each with the call it earns it
  by, are themselves a pairing (no call is hit twice), so no more is credited than
  some pairing would. Where neither side lists two calls of one path, a call has one
  partner at most, the greedy loop finds it, and every other pairing is part of that
  one; the same for versions, with the declared alternates.
* `SilenceIsNotCredited` — the gate's rules suffice for what the scorer reads.
* `KeysScoreFull` — what is scored is the key's own answer, on the second path unless
  the block cannot carry it (`RenderedIsParsed`); each dimension of it is served by the
  key itself. A key the block cannot carry is reported, or scores full all the same.

`Min` of the community modules is a CHOOSE; that it exists follows from strict
inclusion being well-founded on finite sets.

**GatesProofs** — `GatesReached`: `Reached`, what each gate let through still holds behind
it. `NoCopyIsForced` chains recon, validate and anchoring. `AuditsAreNew` and
`AuditsByGate`: a request is audited once, so a record is of the
context that still stands. `ContextsAreSound` adds `ContextOk`, from which the rest
follows:

* `BlocksOk` — `used` is the length of the blocks together, and at most the budget and,
  if one was cropped, the notice. With the preamble and one line break less than there
  are blocks, of which there are no more than pages, that is `BudgetIsHeld`. The length is a fold; `FoldCounts` (FiniteFacts)
  shows that a fold over a finite set counts a pile of that many elements, and the
  rest is arithmetic of cardinalities.
* `InOrder` — the pages injected are the first ones with a text, in `PagesFor` order,
  hence `LowestRoleIsDropped`. `PagesFor` places each page once and by role: its places
  are counts, so a page of a higher role has a lower place.
* `WholeFirst` — as long as the pages come to so far cost no more than the budget
  together, what is counted is what they cost and each is injected whole. The end of
  the loop therefore holds every page that fits, hence `AuditTellsTheTruth`: a value
  that stands in such a page is found in the context.
* `Comes` — the context is one a walk of `build_context` from the same request comes
  to. There is one such end (`Turn` is a function, and two walks of one request
  differ at a least turn), so the text the audit judged is the text the grid is
  given.

`AnswersAreInWindow` combines the last with `WindowInv`: what is recorded of a request is
true of the end it comes to (`RecordsAreTrue`), and no task is left out when the
truncation gate lets a pack through (`NobodyLeftOut`).

Inductions over data are replaced throughout by a least counterexample (`LeastNat`,
`GreatestNat`) or a minimal subset (`MinimalSubset`), which the library's facts about
well-founded sets give without an operator parameter.

**Only model-checked**: liveness (`CommandEnds` of both, `DispatchEnds`), which is out of
the prover's reach beyond the bounds above. Every other property of a passing run
is a theorem.

## 6 Where code and documentation disagree

Each of these is a run TLC must find violated; `PROJECT.json` quotes the line
that says otherwise.

| Run | What happens |
|---|---|
| `dir_mock_as_real` | a rebuild over run files of a dry run publishes mock answers as `mock: false` under a real model |
| `factory_namespace` | every cli grid of the factory raises, because the namespace lacks an argument `cmd_run` reads |
| `docs_slug` | two URLs with one slug share a cache file |
| `docs_gated` | gated pages are fetched with the pack's agent, not the declared one |

The models also do the following, for which no run is kept:

* the models show what the loader, the gates and the scorer accept:
  * a docs key may cite a page that is in the manifest and was never retrieved
    (`AnchoringOk`; `core/factory.py:571` says "What this gate can prove is that the
    URL was retrieved");
  * the anchoring gate raises on a vendored specification that does not parse, and
    on a valid key whose reference has no operation (`AnchoringRaises`;
    `core/roundtrip.py:226` says "Blocking is the contract");
  * a value spelled by the heading of a page counts as injected although the page's
    text was cropped (`Shown`; `core/conditions.py:454`): the loss is not reported.
    `AuditBlamesBudget` is about what is reported;
  * the context is longer than its budget by more than the notice: the line breaks
    between pages and the preamble are injected and counted nowhere (`ContextLength`;
    `core/conditions.py:187`, `core/conditions.py:193`). `BudgetHeld` says by how much;
  * a page that was not fetched ends the audit of its task with an error record,
    which blocks nothing, so a value cropped before the prompt comes to that page is
    not found (`ErrorRecord`; `core/factory.py:742` says it blocks); `AnswerInWindow`
    is about tasks that were audited;
  * the page that is cropped need not be the last one injected: what `rstrip` removes
    at the cut can exceed the notice and the next heading, and leave room for a
    page behind it (`NextPage`; `core/conditions.py:215`); `LowestRoleDropped` and
    `BudgetHeld` are what does hold;
  * a key whose text has a fence at the start of a line may render to a block that
    parses and says less (`UpTo`; `core/answer_block.py:25`), and an observation a docs
    task declares under the name of a field replaces the field (`DocsDumped`;
    `core/docs_answer.py:229`); `render_block` calls itself a right inverse of `parse`
    (`core/answer_block.py:291`, `core/docs_answer.py:215`). The control reports both
    where a score suffers, and says nothing where none does;
  * the endpoint score does not depend on the order of an answer's calls, but
    `method` and `api_version` do: they are read from the call the greedy loop took
    (`MatchRecord`; `core/scorer.py:803`), so of two calls of one path the first one
    listed decides. `CreditIsDeserved` claims the most there is to earn only where
    neither side lists two calls of one path;
  * of several prefixes the first that matches is stripped, so a declared prefix
    can raise `endpoint` and lower `method` (`StripBasePrefix`; `core/scorer.py:558`
    speaks of the endpoint dimension alone), or lower `api_version`;
  * a target whose entry was left at the name of a stage ("grid", "recon") is loaded
    and driven from the first stage, like a queued one (`StageWords`;
    `core/factory.py:46`), and the grid is paid for again;
  * a queue entry an author parks while a command runs is un-parked by the next
    save (`AuthorQueue`, then `WriteQueue`; `core/factory.py:230`);
* a host that answers 403 with one JSON body everywhere is reported as serving a
  specification at each path, if the body carries a marker: only a 2xx baseline is
  compared with (`Soft404`; `core/controls.py:489` reads "A 2xx", and any 4xx but
  404 comes there);
* a label rests on names the gate over a declaration does not look at: a marker such
  as "none" is a spelling of no version, so that an answer which states none counts
  as marked by that surface, and the check of `core/surfaces.py:209`, there so that the
  measured bucket is not inflated, passes; and a surface may be called like a
  bucket, such as "ambiguous". `LabelIsEarned` is about declarations without either
  (`NamesApart`), and holds of them in any order;
* `format_report` of the surfaces prints the split below a line that says it is not
  printed (`core/surfaces.py:346`); a report, and not modelled;
* a resumed grid asks for no cell another model, prompt or scorer edition has
  answered (`Reuse`; `core/__main__.py:407`), and a dry run over the run files of a
  real grid replaces them (`core/__main__.py:424`);
* a run file a kill left truncated makes every later resume raise (`ReadTorn`;
  `core/__main__.py:404`), until it is removed or `--overwrite` replaces it;
* a transport error skips a cell, and the grid still ends with `EXIT_OK` and a
  report that says N (`TransportError`; `core/report.py:335` says every cell is a
  mean over N runs). `OnlySkippedIsMissing` is what does hold;
* a synchronisation killed inside `write_text` loses the evidence of that file
  (`OpenStale`, then `SyncCrash`; `core/archive.py:14`);
* a gate that raises ends the dispatcher with nothing saved (`Raise`;
  `core/factory.py:1056` says it blocks the target);
* a dry run of the factory cards its target in the real queue (`WriteCard`;
  `core/factory.py:38` says carded means measured);
* an annotation made while a robots.txt forbids, or cannot be read, suppresses a
  captured page (`Suppressed`; `core/robots.py:402`), and a fetch then deletes it
  (`Refuse`; `core/docs_fetch.py:541` about transient errors);
* a fetch killed before it writes the manifest leaves files the manifest does not
  know, which are injected (`core/conditions.py:148`); one killed inside a cache
  file leaves a page that injects nothing (`core/conditions.py:162`). The next
  fetch repairs both: `FetchSettles`;
* a re-fetch without an agent keeps the recorded agent of the one before
  (`Retrieved`; `core/docs_fetch.py:402`).

## 7 What is not modelled, and why

* **Inside the modelled commands**: messages and progress output, run ids and
  timestamps, the spend fields and comments of the queue file, ranks and notes;
  pauses between requests (a page's turn does not depend on them); the
  `extracted_by` field; `--key-user-agents`, which only callers of `fetch_all` can
  pass, is in `docs_fetch` as one invocation; several packs in one
  `annotate-robots`, which share only the policy cache; growth of the queue;
  restoring files from version control; two dispatchers or two grids at once,
  which nothing in the repository provides for. Whether a gate is right is not
  Factory's question: it passes, fails or raises; PackGates says when.
* **Parsing** (YAML, JSON, HTML, the lines of robots.txt, prose) and the pack loader:
  no state, and what they return is what the models range over. A regular
  expression that recognises a version, a host or a login style is a parameter.
* **Of the gates and scorers**: the wording of problems and details, the publication, notes
  that block nothing, observations but for those called like a field, the bulk of the JSON schemas (one Boolean,
  `shape`), the mcp condition.
* **Redirects**: `urllib` follows them inside one call, so the page a redirect leads to is
  requested without a robots check of its own; `OpenedOnlyIfPermitted` is about the URLs
  the harness itself asks for.
* **Pre-flight**: its canaries and the check that a server is up are a refusal before
  the loop in GridRunner; how often they probe is not modelled.
* **Read-only reports** (consultation, invented endpoints, sizes), the CI guard,
  transports: no state of their own.

## 8 Plan

Done, in this order: RunArchive, GridRunner, ArchiveSync, ResultsDir, Worklist,
Factory, GridRunnerProofs, DocsFetch, DocsFetchProofs, Controls, ControlsProofs;
ApiScorer, DocsScorer, Scoring, PromptContext, PackGates, GatesProofs,
ScoringProofs, FactoryProofs, ArchiveProofs.

Then the properties of contexts and of labels as theorems, with FiniteFacts; those
of grids over a shared directory; and why commands end.

Next, the most important first:

1. `RobotsRules`: group selection and longest match of `core/robots.py`, as recursive
   functions against the reference of RFC 9309, and DocsFetch over them.
2. `PreFlight`: the canaries before a grid and what `run` does with their verdict.

To check a module: `tlc -config GridRunnerMixed.cfg MCGridRunner`. To check the
proofs: `tlapm` on each of `GridRunnerProofs.tla`, `ArchiveProofs.tla`,
`FactoryProofs.tla`, `DocsFetchProofs.tla`, `ControlsProofs.tla`, `ScoringProofs.tla`,
`GatesProofs.tla` and `FiniteFacts.tla`.
