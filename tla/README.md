# A verification model of Fathom

Fathom (`src/`) keeps a graph of datasets and of what each edge does to their
*partitions*. From it the program computes which partitions are stale when some
change, in which order to rebuild them, and keeps the graph in a SQLite file that
is refreshed by `fathom ingest` from SQL models, dbt manifests, OpenLineage events
and warehouse histories. Around the graph it answers for governance (erasure, consent,
labels, access), observes datasets (freshness, arrivals, profiles, incidents) and
traces what models were made from. This directory holds TLA+ modules of these parts, the
TLC instances that check them, and TLAPS proofs about the planner, the rebuild, ingest and the
store, migrations, erasure and the registries of governance.

Contents: [inventory](#1-inventory), [interactions](#2-how-the-parts-interact),
[modules](#3-modules), [runs](#4-runs-and-what-they-show), [bounds](#5-bounds),
[fairness](#6-fairness), [proofs](#7-what-is-proved),
[disagreements](#8-where-code-and-documentation-disagree),
[not modelled](#9-what-is-not-modelled), [plan](#10-plan).

## 1. Inventory

Paths are below `src/src/fathom/`.

| Component | State | Operations | What is hard | Correct when |
|---|---|---|---|---|
| `core/grains`, `core/partitions` | none (pure) | truncate, step, span, convert_window; rollup, identity, compose, join, leq, apply | months and years of uneven length; several hops; the cap on enumerated keys | a composed or joined mapping never claims less than its parts |
| `graph/model` | the graph; the locals of one `invalidate` call | add_dataset, add_edge, invalidate (`_absorb`, the budget, widening), `_on_cycle`, `_rebuild_order` | cycles, order of absorption, the budget | the plan covers everything stale, terminates, is no wider than it must be, and says where it is; build order |
| `graph/query`, `metrics`, `selectors`, `sinks` | the graph under construction | walks, paths, levels, merges, selections, publications, column walks | shortcuts, cycles, depth limits | every way is found, with the shortest length; notices and selections are complete |
| `graph/diff`, `graph/history` | the revision log, its table | diff_graphs, diff_plans, is_safe, digest, record, replay, what touched an edge | the head is read and appended to in different transactions; several editors; changes that shrink a claim step by step | the log is a chain of true differences that explains every lost claim; what passes as safe loses nothing |
| `graph/plan`, `report/orchestrators` | the status of batches once they run; prices, bills, run logs | waves, batches, task list, script; price, reconcile, calibrate; value of a rebuild | cycles in the plan, batches that fail and are retried; windows with nothing billed | a batch runs after its inputs are built; each stale partition is in one batch; prices follow bills |
| `ingest` | none | parsers; graph_from_queries, graph_from_lineage | merging of repeated edges | every report becomes one edge |
| `store/sqlite` | tables for datasets, edges, tokens, revisions, profiles, arrivals, reads, runs, shadow results, labels | save_graph, load_graph, set_token, record_revision, record_arrivals, ... | several processes, crashes, the limit of a read | what is stored for a source is what it says |
| `store/migrations` | schema version, ledger, backup files | plan, backup, migrate, restore, export, import | write-ahead log, two migrators, kills | all or nothing; what a backup promises is in it |
| `cli/project` | one command's locals | ingest, detect, plan, check, profile, labels | everything above, interleaved with other commands | see 4 |
| adapters, lineage | the cursor of a history | fetch_lineage, fetch_queries, lineage_token of Snowflake, Databricks and BigQuery | rows published late and out of order, row limit, two views under one limit | nothing is skipped |
| adapters, change detection | a resume token per source | changed() of object stores, Delta, Iceberg, BigQuery, Snowflake | equal timestamps, truncated history, coarse tokens | never omits a change; a quiet source is silent |
| `observe`: freshness, completeness, incidents, joins, usage, shadow | arrival and read logs, incidents, shadow rows | ages and blame; missing, late and repeated arrivals; correlate, acknowledge, resolve; join risks; retirement; shadow runs | retries, order of arrival, time | what is reported fresh, complete, grouped or proven is so |
| `observe`: profiles, quality, schema, regression, seasonal | stored profiles, baselines | drift, expectations, comparison, seasons | two checks over one baseline, missing statistics | the ways of judging one change agree |
| `govern/erasure`, `erase()` of the engines | the proof being written; the tables themselves | plan_erasure, apply_erasure, erase | rebuilt tables read others that may still hold the subject; an eraser fails half-way; pipelines rebuild meanwhile | a proof that says complete is true; nobody else's data is lost |
| `govern`: replicas, approvals, consent, licences, labels, contracts, re-identification | declared copies and attestations; votes; scopes; licences; labels | declare, attest, report; approve, reject, decide; propagate, refuse; verify | time, stale evidence, order of edges | what was closed, decided or refused stays so and reaches everything below |
| `govern/access` | keys, audit entries, roles, tenants and grants | register, rotate, shred; append, replay, verify; explain, can; own, share | partial failure, damaged storage, inheritance, changes of owner | a complete shred stays true; a break stays visible; a denial decides |
| `ai`: exposure, evals, features, retrieval, attribution | edges the recorders add; chunks and vectors; manifests; profiles | record_*, exposures, obligations, contamination, reindex, enforce_context, attribute | order of evidence after a reload, edits between plan and action | what remains after a deletion is admitted; a clean score shares nothing |
| `ai`: serving, training | variants, prompts, findings, checkpoints, trials, derivations, mixtures, vocabularies, clusters | roll out, promote, roll back, commit, guard, retain, compare, merge, normalise, diff, cluster | long sequences of legal calls, lost files, interim metrics | traffic is routed, evidence is kept, makings are known |
| `report` | notification history, metrics | route, deduplicate, escalate; observe, time, export; render | time windows, concurrent timers | nothing worse is hidden; counts add up |

`PROJECT.json` lists the components with their status and the hazards with the line
where each one bites.

## 2. How the parts interact

* `fathom ingest` (`cli/project.py`) reads the sources of `fathom.yml` one after the
  other into one graph, moves the lineage token of an adapter as soon as that adapter
  is read, loads the stored graph (two SELECTs), saves the new one (one transaction,
  which first deletes the edges of every source that is regenerated in full), reads
  the revision log and appends a revision (a second transaction).
* `fathom detect` and `fathom plan --detect` ask one source after the other what
  changed since its token and move the token at once.
* `fathom plan` loads the stored graph and calls `Graph.invalidate`; `fathom dag` does
  the same, schedules the plan in waves of batches and writes a file that an orchestrator
  or a shell runs later.
* `fathom erase` plans an erasure with `Graph.invalidate` from the subject's partitions and
  describes it; a program that has the engines calls `apply_erasure`, beside pipelines that
  go on building the tables.
* Any number of these commands run at once, from schedulers and from people. They
  share only the SQLite file, so a step of the models is one store transaction, one
  SELECT outside a transaction, or one read of something outside the program.
* `fathom check` and `fathom profile` read the latest stored profile, compare and store
  their own, in separate transactions; `fathom contracts` reads what they stored, and `fathom label`
  infers labels from it and stores them one transaction at a time, beside people who confirm some.
* Migrations, backups and restores work on the SQLite file beside open connections.
* The modules of `govern`, `observe` and `ai` are a library: they share the graph and its
  queries, and each keeps its own registry, which the caller holds. They do not write each
  other's state, so each is composed with the others only through the graph.

## 3. Modules

The core:

| Module | Models | State and actions |
|---|---|---|
| `Grains` | `core/grains.py` | pure: a calendar is a constant table of days before each month (`DaysBefore`), an instant is an hour since its start |
| `Mappings` | `core/partitions.py`, `KeyPredicate` | pure: a key is a function from field names to a value or ANY; mappings, compose, join, leq, apply with the cap |
| `MappingWalk` | `graph/query.py` effective_mapping | `composed` against `walked`: one `Hop` per edge |
| `Planner` | `Graph.invalidate`, `_absorb`, `_rebuild_order` | one action per turn of a loop; sets and dicts are iterated in every order |
| `Invalidation` | what `invalidate` promises | abstract: coverage grows, then the plan is handed over closed |
| `OnCycle` | `Graph._on_cycle` | the iterative Tarjan search, frame by frame |
| `Ingest` | `add_edge`, `save_graph`, diff, digest; `Project.ingest`, `_record_revision` over the store; `fetch_lineage`, `fetch_queries` and `lineage_token` of three warehouses | rows, edge keys, what a merge keeps; processes with a `pc`, files and configuration edited beside them, rows that land late, interruptions |
| `Histories` | `graph/history.py`, `graph/diff.py`, and the revision tables of the store | editors that load, change and record; `Persist` hands a revision to the store, again for one it has |
| `Detect` | `changed()` of the adapters; `Project.detect`, `Project.plan` over the tokens | a source is the log of its writes, an answer is partitions, token, complete; processes, writers, log clean-up, snapshot expiry, interruptions |
| `Rebuild` | `graph/plan/schedule.py`, `report/orchestrators.py` and the run of their files | the loop of `waves` by dataset (`Place`, `AddWave`), then batches that start, end, fail and are cleared |
| `Erasure` | `govern/erasure.py`, `erase()` of DuckDB, Snowflake, BigQuery and Databricks | one action per way a target is handled; `Refresh` is a pipeline building a partition; `holds` and `others` are the partitions with data of the subject and of everybody else |
| `Migrations` | `store/migrations.py` | migrators with a `pc`, the file, its write-ahead log and the backups; `Crash`, `FoldWal` and `SaveRows` are SQLite and other commands |
| `PlannerProofs`, `RebuildProofs`, `IngestProofs`, `OperationsProofs`, `GovernanceProofs`, `AssetsProofs`, `GraphProofs` | theorems about `Planner`, `Rebuild`, `Ingest`; `Migrations`, `Detect` and `Shadow`; `Erasure` and the registries that `MCGovernance` puts side by side; the desks of `MCAssets`; the alerts of `Reports` and `Observations`, the figures of `Costs`, the restrictions of `Restrictions`, what `Observations` and `Reports` say is so | |
| `Rounds` | lemmas the proofs share: least numbers, functions of a number of rounds, walks that widen a finite set, ranks in a finite set, sums over one; what the walks and the search for a shortest path of `Lineage` find, its build order (Kahn's), and what one pass along it makes of labels that join | |

Users of the graph:

| Module | Models | State and actions |
|---|---|---|
| `Lineage` | `graph/query.py`, `graph/metrics.py` | pure: the questions asked of a graph; the loops are functions over the number of steps |
| `Publications` | `graph/sinks.py`, `selectors.py`, and how a graph is put together; `column_descendants`, `column_ancestors` | the graph: links, publications in batches, merges and cuts; of a column walk one popped column per step, with the depth limit |
| `Restrictions` | `govern/consent.py`, `licenses.py` | scopes, pins and licences declared upstream; time |
| `Costs` | `graph/plan/cost.py`, `billing.py`, `lifetime.py`, `observe/usage.py` | prices, bills, read and run logs |
| `Exposure` | the recorders of `ai/`, `unlearning.py`, `training.py`, `agents.py`, `evals.py`, `features.py` | the graph by one `record_*` at a time, saved and loaded in another order |

Registries, life cycles and observation:

| Module | Models | State and actions |
|---|---|---|
| `Copies` | `govern/replicas.py` | declared copies, attestations, the day |
| `Decisions` | `govern/approvals.py`, `govern/access/audit.py` | one submission and its votes; the log; `Replay` after storage lost, moved, altered or unsealed a line |
| `Labels` | `govern/policy.py`; `Project.labels` and the label table | one label carried along one edge per step, in rounds; runs of `fathom label`, one `set_label` per step, beside profiles and confirmations |
| `Access` | `govern/access/keys.py`, `tenancy.py`, `rbac.py` | keys and what was ever encrypted under them (`sealed`): register, rotate in two halves, destroy, prove; owners and grants; roles, inherited |
| `Monitor` | `observe/profile.py`, `schema.py`, `quality.py`, `regression.py`, `seasonal.py`, `govern/contracts.py`, `reidentification.py`; `Project.check`, the `profile` and `contracts` commands | what is concluded from two profiles; two checkers over one table of profiles, data changing meanwhile |
| `Observations` | `observe/freshness.py`, `completeness.py`, `joins.py`, `incidents.py`; `ai/attribution.py` | builds, arrivals and retries, rows, findings; a change travels or is absorbed, profiles are taken at any time |
| `Shadow` | `observe/shadow.py` | rebuilds from a plan beside full ones |
| `Reports` | `report/notify.py`, `report/telemetry.py` | firings over time; histograms and timers |
| `Retrieval` | `ai/vectors.py`, `rag.py` | chunks and vectors; edits, erasures, plans carried out; contexts |
| `Releases` | `ai/serve/deployments.py`, `ai/prompts.py`, `ai/quality/safety.py` | variants and shares, prompt versions; findings, guards, runs of the suite |
| `Training` | `ai/train/checkpoints.py`, `experiments.py` | checkpoints written and retained while shards are lost; trials |
| `Makings` | `ai/train/finetuning.py`, `mixtures.py`, `tokenizers.py`, `ai/quality/contamination.py` | derived models; drafts of a mixture; vocabularies; unions of a union-find |

`MC*` modules give the constants of an instance. `MCSchedule`, `MCGraph`, `MCGovernance`,
`MCOperations` and `MCAssets` put several components side by side: a variable (`part`,
`user`, `desk`) says in a behaviour which of them acts, because they share no state and a
product of their states would show nothing more. Where components do share state they are
one specification: ingests and the store, detections and tokens, erasers and pipelines,
migrators and the file, checks and stored profiles, recorders and the store. The
invariants these modules define are conjunctions of named properties of the components,
each stated and commented in the component's module.

Operators whose comment says "mutant" are slips: beside each property stands one it is
known to catch, and `PROJECT.json`, `mutants`, names one for each property of a run. No action
uses them.

Abstractions. A dataset, a file or a piece of text is a name. A digest is the content it is
computed from, so equal digests mean equal contents. A transaction
opened with `BEGIN IMMEDIATE` is one step. `Break` ends a command at any point: it
stands for a crash and for every exception that leaves the command (an unreadable
source, a database locked past its timeout), which have the same effect on the store.
What the code leaves to set iteration order is taken in every order. In `Erasure` a partition
holds something of the subject or nothing; one built from partitions of which some does
holds it too, and reads what the mapping of the edge says. A table with the key column
has all of the subject in rows with that key. Times are small integers, confidences in
`Labels` the number of hops a label can still travel, rates and shares integers in the
unit the code rounds to (`Releases`) or fractions (`Costs`, `Makings`), thresholds of a ratio such
as `UniqueTolerance` percents. A function of the code that takes `now` has the caller's time as
a parameter beside the clock: in `Restrictions` the report of a dataset judges what has expired by the one and what is
permitted by the other, as `consent.report` does. In `Makings` an asset is a kind and a name: the
edges of an adapter end at `adapter://`, and what is merged, distilled or quantised starts at
`model://`, while a derivation knows names only.

## 4. Runs, and what they show

| Run | Question | Properties |
|---|---|---|
| `planner` | Is a plan complete, as narrow as it can be, explained, ordered, and always delivered? | `NothingForgotten`, `Sound`, `ToldAndInOrder` (`WidenedIsToldAndTrue`, `BuildsDependenciesFirst`), `ExactOffCycles` (`Exact`, `GrowsOncePerPath`), `KeepsPromise` (refinement of `Invalidation`), `Terminates` |
| `schedule` | Do composed paths and changed graphs claim enough, are cycles found, does a plan become work that is complete, rightly ordered and never stuck, and does the store settle on what the sources say? | `ClaimsAreKept` (`ComposedCoversWalk`, `WiderClaimsMore`, `CapOnlyWidens`; `HistoryIsTrue`), `CyclesAreFound`, `BatchesCanBeTrusted` (`EachPartitionOnce`, `InputsFirst`), `WavesAreEarliest`, `WorkComesToItsEnd`, `EverythingArrives` (`Converges`, `AllLineageIsFetched`) |
| `ingest` | What holds of the store while ingests overlap, resume, stop half-way and are edited under? | `UndisturbedIngestIsExact`, `CursorIsSafe` (`CursorWaitsForLateRows`, `NothingSkipped`), `RevisionsTellTheTruth` (`OneVersionPerFile`, `TrueAttribution`, `RevisionsFormAChain` without overlap), `MergeOnlyLearns` |
| `operations` | Is a write ever passed over, does a quiet source fall silent, is a plan graded fairly; and is the store whole whoever migrates, backs up, imports or is killed? | `AnswersAreRight` (`OmitsOnlyInGaps`, `QuietSourceIsSilent`, `SoundMeansThePlanSufficed`, `GradesAgreeWithRegressions`), `StoreIsWhole` (`MigrationsAreWhole`, `BackupsComeFirst`) |
| `graph` | Do walks, notices, restrictions, prices and observations tell all there is, whatever the graph and the order of events? | `WalksReachEverything`, `OrdersAndNoticesAreComplete`, `RestrictionsReachDown`, `FiguresAreModest`, `AlertsLoseNothing`, `WhatIsReportedIsTrue`, `CalibrationSettles` |
| `governance` | Does what was certified, attested, decided or found sensitive stay so? | `CertifiedMeansGone`, `NoBystanderLost`, `EvidenceStaysTrue`, `DecisionsAreOnRecord`, `NothingSensitiveIsLost`, `AccessIsBounded`, `ProfilesJudgeAlike`, `WhatWasDecidedStands` |
| `assets` | Is it known what a model, an index, an agent or a score rests on, under every order of the calls? | `ErasureIsAdmitted`, `TestsAndFeaturesAreTraced`, `RetrievalForgets`, `ReleasesAreGuarded`, `RunsCanBeTrusted`, `MakingsAreKnown`, `PastAnswersStand` |

`cursor_crash`, `nothing_declared`, `source_narrowed`, `rebuild_shell` and `erasure_statements`
are violations: see 8.

What a component's property says, in the components' own modules:

| Property | Of | Says |
|---|---|---|
| `SafeChangesLoseNothing`, `ChangesAreExplained`, `ReplayIsNet`, `HistoriesAgree` | `Histories` | after a revision called safe the graph makes stale all it did before, with the exceptions of 8; a claim that shrank or went is explained by a revision; log and table tell one story |
| `ArrivalsAreLabelled`, `StoredLabelsAreTrue`, `LabelDecisionsStand` | `Labels` | every way a label can travel is followed, at its best confidence; what a run stores is what profiles say now; confirmed labels stay so |
| `WalksFindTheShortest`, `PathsAndCountsAgree`, `CuttingsAnswerAlike`, `FiguresHoldTogether` | `Publications` | every dataset a way leads to is found, at the length of the shortest way; paths, reach counts, subgraphs and figures agree with it |
| `PublishedIsRestated`, `OrderIsBuildable`, `BuildScopeIsSelfContained` | `Publications` | what was published below a dataset is in its notice; levels and order can be run; a build selection holds its inputs |
| `RenamesReachEveryColumn` | `Publications` | a walk that is not cut at its depth reports every derived column |
| `PropagationAgrees`, `RefusalsReachDownAndAreExplained`, `RoutesAndPinsAgree`, `NoTermIsLost` | `Restrictions` | a restriction upstream reaches everything below by either algorithm, for any time asked about; every refusal names a source unless the report is asked for the past, and what it lists as expired permits nothing unless it is asked for the future; transfers are routes, terms are not lost |
| `SavingsAreModest`, `RatesMatchTheBill`, `RetirementSparesWhatFeedsAReader` | `Costs` | what a plan saves is not overstated; a calibrated window is priced as billed; a table that feeds a reader is not proposed for retirement |
| `RepeatsAreCountedNotLost`; `GroupsShareACause`, `LifecyclesReadBack` | `Reports`; `Observations` | a suppressed repeat is counted and never hides a worse finding; a group is connected and near in time, its times and states read back |
| `ReportedFreshnessIsTransitive`, `CompleteMeansLanded`, `RewritesAreNotReplays`, `ProvenRisksAreReal`, `CausesAreFound`; `MeasuresAddUp` | `Observations`; `Reports` | reports are compared with what really was built, landed, joined, observed and changed |
| `EntriesAreTrue`; `CompleteShredsStayTrue`, `OnlyTheirOwnIsShredded`; `ClosedCopiesStayClosed` | `Erasure`; `Access`; `Copies` | evidence once given stays true whatever follows |
| `ApprovedMeansAgreed`, `VerdictStands`, `CleanLogsWereWritten`, `BreaksStay` | `Decisions` | what takes effect was agreed to; a log that verifies was written so, and a break is not papered over |
| `BoundariesAgree`, `NobodySeesMoreUnnamed`, `InheritedDenialsDecide`, `TighteningCloses` | `Access` | the views of a boundary agree, and nothing opens but by a grant that names the reader; a role that a principal is given closes what it, or a role only it leads to, denies, opens nothing if they only deny, and closes nothing they neither deny nor cap |
| `JudgesAgree`, `AcceptedShapesNeverBreak`, `SeasonsAreJudgedByTheirOwn` | `Monitor` | drift, schema, regression, contract and expectation judge one change alike; the baseline never drifts into a break through checks that passed |
| `ExtendedPlansAdmitAll`, `LearnedMeansInWeights`, `ReportsAgree`, `LaunderingIsSeen`, `CleanScoresShareNothing`, `WatchedFeaturesAreFound` | `Exposure` | whatever was recorded in whatever order, what learned from the data is said to have it in its weights, and a clean score shares no source with its test |
| `ReindexingMakesCurrent`, `ErasedIsNotRetrieved`, `ContextsAreJudgedByOrigin` | `Retrieval` | a plan carried out leaves the index current, and what was erased is on the list of what can still be retrieved or gone |
| `TrafficIsRouted`, `PastAnswersKept`, `RecurrenceIsTold` | `Releases` | shares add up and go to serving variants; the version of a past moment stays the answer for it; a probe that fails again is told |
| `EvidenceIsKept`, `VerdictsAreFounded`, `LosersLoseToWinners`, `TheBeatenStayBeaten` | `Training` | retention keeps what a claim rests on; verdicts on a resume have grounds; interim metrics do not make a winner |
| `CopiesAreGrouped`, `CopiesAreNeverClean`, `RemixesBalance`, `BasesAreFound`, `StableMeansAgreed`, `KeptVectorsStillDecode`, `GrowthIsCompatible` | `Makings` | what a model was made from is known: `base_of` names exactly the bases, and the edges lead to the same models wherever no adapter is on the way; near copies are grouped; a remix is what was asked for, up to the tolerance `validate` allows and rounding |
| `SoundMeansThePlanSufficed`, `GradesAgreeWithRegressions`; `MigrationsAreWhole`, `BackupsComeFirst` | `Shadow`; `Migrations` | a plan graded sound changed nothing outside it; ledger and schema agree after any kill, and the backup of a migration holds everything from before it |

`CertifiedMeansGone` and `EntriesAreTrue` have two conditions. `Located`: every copy is
within the plan's reach. A request whose partitions were named too narrowly does not meet
it, nor does one whose origin is itself built by a model: erasing there rebuilds the table
from inputs that are not erased, and the proof says complete. `InputsComeFirst`: the order
puts inputs before what is built from them, which the planner does away from cycles
(`BuildsDependenciesFirst`); on a cycle a table is rebuilt from one that is not erased yet.
The instance holds requests of both kinds, and without either condition the property fails.

`OmitsOnlyInGaps` is conditional: `Detect` marks a source in `gaps` when it meets a
situation the code cannot tell from silence, and the property says there are no others.
The gaps are

1. object stores: contents the boundary of a token may list (8);
2. Delta: commits removed before the token that is stored or held reached them: a token
   older than the oldest commit in the log is not recognised as such, the answer is
   `complete=True` and passes them over; a first answer read from a checkpoint does not name the partitions
   removed before it;
3. Iceberg: a snapshot expired before the first detection (its files are carried
   forward in later manifests and skipped as such); two snapshots with one timestamp,
   which are sorted by their random id;
4. BigQuery and Snowflake watermarks: a write at the instant of an earlier detection
   (the comparison is strict); Snowflake's LAST_ALTERED within one second;
5. a detection that ends after it moved the token of a source and before it showed the
   answer; `plan --detect` on an answer with `complete=False`, which it drops.

`fathom detect` followed by `fathom plan --detect` is a special case outside the
property: the first command consumes the changes, and nothing hands them to the second.

## 5. Bounds

* `planner`: every graph of up to `MaxEdges` edges over three datasets with three kinds
  of mapping, two seed sets, `MaxRevisits` = 2 so that the budget of cycles runs out;
  the acyclic valve is the program's own, which no acyclic graph of this size reaches. Cycles of one, two and three datasets, diamonds and parallel edges
  occur.
* `schedule`, paths: the Gregorian calendar of 2020 to 2029, seeds at month ends, leap
  days and year boundaries, paths of up to three hops out of fifteen, caps of one and five keys
  beside the program's 4096 (one below every window, one that needs a second collapse or none). The rounding of
  a conversion depends on the position in the calendar and on the pair of grains; all
  pairs and all kinds of boundary occur. Cycles: every directed graph of up to five edges over
  four datasets: two components joined by a bridge, a cross edge and a self-loop need no more.
  Rebuilds: every graph over three datasets and four shapes of four (diamonds, with a
  shortcut and with a dataset that reads itself; a chain into a cycle), every order that
  respects the edges above cycles; batches of at most two partitions, over days with a
  gap, two regions, and a dataset without time; one failure. A wave then holds a batch
  that is full, one cut off it, one after a gap and one of another region.
  Histories: eight versions of a graph, with windows that narrow, widen and move, edges that
  come and go with and without their datasets, a month that was a day, and two edges of one key;
  three revisions, of which the store reads two back, of a named editor and one without a name whose clocks differ.
  Three are what it takes for a claim to shrink over two changes and for a graph to return. Ingests: two files' worth of edits under
  two processes, and three rows of which two fit a fetch.
* `ingest`: two processes; two files with two versions each; three events of each of the three
  platforms; a fetch limit below their number; two revisions read back, fewer than some runs append; one to three
  edits; one interruption. Two processes suffice for every pair of steps of two
  ingests; a third one only repeats what a second one does.
* `operations`: detection of one source of each kind with three writes under one detection, or two
  writes under two that overlap, in three instants and two partitions, and two sources under
  one command with one interruption; two migrators, two versions of the schema under two
  builds of the program (one with an altered step), one backup (section 7 proves it for more), rows saved meanwhile, any number
  of kills and lock time-outs; two datasets rebuilt in either order with one write to the source.
* `governance`, erasure: three tables and two partitions in six shapes (chains, a shortcut, a fan, a
  table that reads itself, a cycle, an origin that is built from another), with each way
  to erase and to be blocked, one eraser missing, and partitions named exactly, too wide
  and too narrow. Calls, failures and refreshes are not bounded. Two tables in a row
  below the origin are what it takes for an entry to depend on one that depends on another.
  The registries: two keys and two subjects, which is what it takes to share one and to rotate into
  another; two copies over four days; three votes of three people; three audit entries and two
  faults; three label graphs with a diamond, a cycle and columns left out; two runs of
  `fathom label` over two profiled datasets and one confirmation; three tenants, two datasets and two
  grants; three roles; two checkers over four shapes of a table, two seasons and three stored profiles.
* `graph`: graphs of up to five datasets built from links and batches of publications, with parallel
  edges, shortcuts, self-loops and cycles; four estates for consent and licences; every set of column edges
  out of eight, with a depth limit some walk meets; two bills in two periods; three pipelines
  for freshness; three stories for a diagnosis; three findings, two routes and a day of
  hours for notifications; six findings for incidents, of which some share causes in a chain.
* `assets`: ten assets of eight kinds and four recorders' runs in any order up to
  `MaxRecorded`; two documents in two spaces; four variants and eight moves; four prompt versions;
  three checkpoints of three shapes with eighteen jobs that may resume them; three trials; three documents of up to four words
  out of two, under six hash orders in three bands; three derivations, enough for base, adapter, merge; three components,
  whose weights may miss the whole by one part in `Precision` = 4 (10^6 in the code: with 4 the tolerance decides some of the
  drafts of the run);
  four vocabularies.

`edits`, `breaks`, `overlap`, `writes` and every constant called `Max...` or `Last...` are bounds of the
models, except `MaxBatch`, `MaxHops` of a query and `MaxRounds`, `MaxKeys`, `MaxRevisits`; these, the fetch, revision, history and key
limits, tolerances, thresholds, windows and numbers of hashes are parameters of the program with values
of the size of the instance (`UniqueTolerance` is 150 percent where the code has 102, because a table of a few keys meets no finer one).

## 6. Fairness

* `Planner` and `OnCycle` (`CyclesStep` of `MCSchedule`): weak fairness of the next step. They are loops of one thread,
  which nothing stops.
* `Ingest` (`IngestStep` of `MCSchedule`): weak fairness of each process's next step. An ingest
  that is under way goes on, and a scheduler starts another (documented as the way to run
  it). Edits, events, the landing of rows and interruptions are not fair: files may stand
  still for ever, and `AllLineageIsFetched` speaks of rows that did land.
* `Rebuild` (`RebuildStep` of `MCSchedule`): weak fairness of the generator, of starting what may start, and of the end
  of what runs. Nobody has to clear a failed batch: `EverythingIsRebuilt` supposes that
  none is left failed.

## 7. What is proved

`PlannerProofs` proves, for every graph, set of seeds, budget and calendar that meets
the named assumptions of `Mappings` and `Planner`:

* `Invariance`: `Spec => []IInv`.
* `TypeCorrect`: `Spec => []TypeOK`.
* `NothingIsForgotten`: an edge with something left to deliver leaves a dataset that is
  queued or under way.
* `Soundness`: a plan that is returned covers the seeds and is closed under every edge.
* `Refinement`: the planner implements `Invalidation`.
* `PlanCanBeReadAndRun`: `Spec => []ToldAndInOrder`, from `WideningIsTold` and `BuildOrder`.

`Sound` is not inductive: it speaks of the end. The invariant behind it,
`NothingForgotten`, says of every edge that what it would produce is covered or that
its source is queued or being walked with that edge ahead. It is preserved because a
dataset that grows is queued again in the same step (`ChangedIsQueued`), and because
growth never uncovers anything (`AbsorbKeepsCoverage`, `CoverTransitive`), so an edge
once delivered stays delivered until its source grows. Two further conjuncts are needed:
`ForcedWhole` (a dataset skipped as forced is wholly dirty, so there is nothing to
deliver to it) and `AbsorbOK` (what one absorption has and has not taken yet).

`WideningIsTold` rests on `Told`: a dataset is marked as widened in the same turn in which an
absorption or the budget makes it wholly dirty, and only seeds make one so otherwise. `BuildOrder` has an
invariant of its own, `OrderInv`. In `_rebuild_order` the count of a dataset is the number of its edges
from affected inputs that are not built yet or still ahead in the loop under way (`Left`), and a dataset is ready or
built, once, exactly when none is left (`KahnOK`); so what is emitted comes after all its inputs, and the
counts never go below zero, which `TypeCorrect` needs. What cannot be emitted has an input in the same position:
going up by such inputs ends at a cycle, because what is above a dataset off cycles gets fewer
with each step (`HeldBackByCycles`), so what is appended at the end by name is all below cycles.

`RebuildProofs` proves, for every plan whose order lists its datasets once and keeps the
edges above cycles (`RebuildAssumption`; `BuildOrder` proves it of every order the planner
gives), every batch size and number of failures:

* `TypeCorrect`: `Spec => []TypeOK`, with at most as many waves as datasets.
* `BatchesAreRight`: `Spec => []BatchesCanBeTrusted` when the flavour is a task list, from `InputsAreFirst` and `EachOnce`.
* `WavesAreAsEarly`: `Spec => []WavesAreEarliest`, away from cycles the waves are the earliest possible and no more than
  the critical path has datasets.

A task depends on the wave before its own only. That everything earlier is done follows
from `Behind` (what started has every earlier wave behind it), which is inductive because
no wave is empty (`Waved`: every index below `count` is some dataset's wave), so there is
always a batch in between whose own start vouches for the rest. `Deep` and `Waved`
carry the order of the plan to depths and from depths to waves. `EachOnce` is about the plan alone: the
run a partition is in has one start (`RunStartIs`, a least time again), being in one chunk of it is an
equivalence, and a chunk has as many times as `max_batch` (`Stretches`, `OneStretch`: what division does).
For the waves, `Exact` says that a depth is no more than one above that of some input. Then from an acyclic dataset
inputs lead down through every depth (`DepthsAreInUse`), so the depths in use below its own are all the numbers
below its own, and the index of a wave is its depth (`Numbered`). The two references are recursive functions: that `LongestChainTo` is the
depth is a pair of inductions along `reaches` (`LongestChainIs`), and the table of `critical_path` is first shown to exist, each
chain being made of those before it in the order (`ChainsExist`, `CriticalPathIs`). `RebuildAssumption` asks for it that there are
finitely many datasets.

`GovernanceProofs` proves of `Erasure`, for every request that meets `ErasureAssumption` (the plan is
closed under the edges, as `Sound` says), any number of calls, failures and rebuilds by
pipelines:

* `TypeCorrect`: `Spec => []TypeOK`.
* `CompleteIsTrue`: `Spec => []CertifiedMeansGone`.
* `BystandersKeepTheirs`: `Spec => []NoBystanderLost`.

`CertifiedMeansGone` speaks of the end. The invariant behind it, `Safe`, says that as long
as no target was left out, those handled so far are clean, and that nothing is outside the
plan's reach. A rebuild, by an eraser or a pipeline, reads only tables that come no later in
the order (`Spread`), so it brings nothing back to a target that is clean like all before it;
the target of an eraser between its two statements is clean as well. When the last target
is handled all of them are clean, hence everything within reach, hence everything.

* `EntriesCanBeBelieved`: `Spec => []EntriesAreTrue`, under the same two conditions. It is
  about single entries, in proofs that are partial too. An entry stands for its target and all
  that it is made from; the walk that collects these is a recursion by rounds and ends with what
  it stands still at (`Rounds.IsWidening`), so a set of erased targets closed under what they
  are made from is clean and stays so (`SpreadWithin`).

`Rounds` holds what such proofs share. A function of the numbers `0 .. N` that is
defined by recursion is characterised without an induction theorem: a set of numbers that
fail has a least one (`LeastNumber`), and that one cannot fail. From there: what an iteration
returns (`IsIteration`), that a finite set can only widen as often as it has elements
(`RoundsClose`), and that a walk of as many rounds stands still (`IsWidening`).

`IngestProofs` proves, for every project that meets `IngestAssumption` and
`EvidenceAssumption` (what the parsers and the configuration give: files are not named as a
platform's views are, no file is a source twice), any number of processes, files,
versions, events, edits and interruptions, and every fetch and revision limit:

* `TypeCorrect`: `Spec => []TypeOK`.
* `MergingOnlyLearns`: `Spec => MergeOnlyLearns`, an action property.
* `CursorsAreSafe`: `Declaring => (Spec => []CursorIsSafe)`.
* `UndisturbedIngestsAreExact`: `Declaring => (Spec => []UndisturbedIngestIsExact)`.
* `RevisionsAreTrue`: `Spec => []RevisionsTellTheTruth`.

`Declaring` says that every configuration declares a dataset. Without it the two are false, and
the run `nothing_declared` shows it (8). `Typed` follows every run: the graph it has in hand, where it is
among its sources. `CursorInv` says that whatever a run is about to make the cursor, or has
read as such, lies in the covered past: what a fetch returns is the oldest of what is missing, and the
lag keeps rows that have not landed ahead of it. `FetchedInv` says that a fetched row is
in the store or in the graph of a run that has not saved: a save writes at least what it
loaded. `VersionsInv` and `ExactInv` follow the part of a graph that comes from one file
(`Part`): a run reads each file once, in one version, and what `save_graph` keeps of several edges with one key is
the last (`LastOfConcat`). `RevisionsInv` ties the revision a run is about to append to the log it
was computed from: the log only grows, and without overlap the head has not moved. The proof found
that the chain breaks beyond the revisions `revisions()` reads back; `RevisionsFormAChain` says so now,
and the run has a limit small enough to meet it.

It proves of the registries, side by side as `MCGovernance` puts them, for
any keys, subjects, copies, people, tenants, roles, graphs and bounds that meet the named assumptions:

* `EvidenceIsKept`: `GovernanceSpec => []EvidenceStaysTrue`.
* `RecordsAreKept`: `GovernanceSpec => []DecisionsAreOnRecord`.
* `AccessIsDecided`: `GovernanceSpec => []AccessIsBounded`.
* `LabelsAreKept`: `GovernanceSpec => []NothingSensitiveIsLost`.
* `ProfilesAgree`: `GovernanceSpec => []ProfilesJudgeAlike`.
* `DecisionsAreKept`: `GovernanceSpec => WhatWasDecidedStands`, an action property.

`CompleteShredsStayTrue` and `OnlyTheirOwnIsShredded` are inductive with the types of keys and proofs (`KeysInv`):
destroyed is the last state of a key, and who a key was used for is either among its subjects or on
record as left out by a later registration. `CopiesInv` adds to the closed copies that they are declared ones and that
there are none before the erasure. `ApprovalsInv` is about votes: a vote is added at the end and never counts for the proposer.
`AuditInv` says that every line ever in the log is a sealed one or a damaged variant of it;
a chain that verifies then determines its lines one after the other from the first (a least number
again), and a break, being a fact about a line and the one before it, is beyond the reach of appends.
`RbacInv` with `ReachedIsInherited` says that the walk over parents ends with all that is inherited: cycles
only make it meet a role again. What tightening does follows from it: roles are added and never changed (`RolesOnlyAdd`), so what
a principal inherits after a role more is what it inherited and what is reached through the new one, and what it holds
against a dataset is the old grants and theirs (`GrantsAreInherited`); `can` is decided by those grants alone (`TighteningNext`).

`FlowInv` is about one propagation: whatever a column carries has come there by some way
(`HasArrived`), a seed is only ever outranked by something stronger (`SeedsKept`), and an edge that is not
pending, as long as nothing changed, has nothing to bring (`Walked`); when a round changes nothing, all ways have
been walked. Where the ways lead is a set that widens by rounds, and the proof showed that the
reference stopped too early: a label can travel round a cycle as long as its confidence lasts, so the number of datasets bounds
nothing. `Arrivals` now takes as many rounds as there are places and confidences. `TagsInv` carries a `fathom label` run that no other
writer came between: its seeds are those of the datasets read so far (`RunOwes`), and what it has
written is what it will find (`Wanted`), because inference never says "confirmed" (`PropagateUnconfirmed`).

`MonitorInv` says of a check in hand what it compared with: a comparison that found nothing broken was
with the very profile it names, and that one's columns and types are all kept (`ShapeKept`);
a baseline saved clean kept those of the one before it. To keep a shape is transitive, so a chain of
clean baselines reaches from any of them to any later one, and what drift, the schema diff, a learned suite and a
contract find broken between two profiles is each shown to be that a shape was not kept (`BreaksMean`, `BrokenMeans`,
`LearnedErrors`). A learned suite accepts the profile it was learned from (`LearnedAccepts`), because its
bounds lie around that profile's; a band of a season holds all the values of its bucket (`BandsHold`), because
its ends are extremes of a finite set; and two exports are linked by what each tells that the other
does not (`ExportsAreRelated`, `LinkedMeans`). `MonitorAssumption` types the profiles and the tolerances and
asks nothing else of them.

`OperationsProofs` proves `MigrationsKeepTheStore`: `OperationsSpec => []StoreIsWhole`, for any
number of migrators, builds, versions, backups and rows (`MigrationsAssumption`: versions are numbers,
a build's are among them). The invariant behind it, `InHand`, says what a migrator has in its hands at each step:
inside the transaction the store is as it was at BEGIN with one step more, because the lock is
its own; what it found applied is still in the ledger, and its backup knows no more than the
store, because while anybody migrates the ledger only grows (a restore waits until all are at rest).
The primary key of the ledger is what keeps a step that two migrators planned from running
twice. The proof attempt showed that `BackupsComeFirst` had been too strong: a second backup in
the same second goes into the first one's file, and its process may have made another backup since, which one
backup at a time never shows. The property now speaks of the files that were shared (`traces.shared`).

* `AnswersHold`: `OperationsSpec => []AnswersAreRight`, put together from `DetectLosesNothing` and
  `ShadowGradesAreRight`.

`DetectInv` says of every token outside the `gaps`, the one in the store, the one a command asks with and the one it
is about to set, that whatever it passes over was told or is about to be (`TokenCovers`): each write of the log
was reported, is among the answers of a command that has moved the token, or is what an adapter answers to this token
(`StillTold`). It is inductive kind by kind: each adapter's answer reports what its token
misses and returns a token that misses no more (`SourcesAnswer`), and a token keeps what it
misses while writes land and logs are cleaned up, or the source enters the gaps. `QuietSourceIsSilent`
is the other half: a token settled at the end of the log is answered with nothing. `DetectAssumption`
says what kinds of sources and commands there are, and that having no token is no token.

`ShadowInv` says of a source nobody wrote to and of datasets graded in the order of their inputs what every cell holds: the
datasets already rebuilt are as the source, the rest as the run began, so a grade misses exactly what was stale
and not planned. A report counts what its grades missed, and the count is nothing exactly when every grade missed nothing
(`TotalMissed`, from `Rounds.AddsExist`, which says of any sum along a sequence that it
is there). `ShadowAssumption` asks for finitely many datasets, numbered in order, and partitions.

`AssetsProofs` proves of models and their data, for every value of the constants that meets the named
assumptions of `Exposure`, `Retrieval`, `Training`, `Releases` and `Makings`:

* `ErasureStaysAdmitted`: `AssetsSpec => []ErasureIsAdmitted`.
* `TestsAndFeaturesStayTraced`: `AssetsSpec => []TestsAndFeaturesAreTraced`.
* `RetrievalForgetsErased`: `AssetsSpec => []RetrievalForgets`.
* `RunsAreToBeTrusted`: `AssetsSpec => []RunsCanBeTrusted`.
* `ReleasesStayGuarded`: `AssetsSpec => []ReleasesAreGuarded`.
* `VocabulariesDecode`: `AssetsSpec => [](desk = "tokenizers" => KeptVectorsStillDecode)`.
* `PastAnswersAreKept`: `AssetsSpec => PastAnswersStand`, an action property.

Each desk has an inductive invariant of its own; that the others leave it alone is `OneDeskActs`. `ExposureInv` says of the graph the
recorders write that its edges end at its assets and carry the evidence of a recorder, and of each agent's run on record that its
calls are edges of it (`RunIsKept`). What storing and reloading does is in it too: of the rows with one
source, target and evidence one stays, and the order they come back in is one of an order by ranks
(`OneRowOfEach`, `ReloadedRows`). The reports are then about one graph: what the walks up and down reach is related
both ways, there is a path to show exactly where there is reach (`Rounds.WalkFindsAll`, `Rounds.PathsAreWays`), and a
summary by route adds up to what it sums (`Rounds.CountByClass`). An extended plan is a fold over what is due, followed
target by target (`PlansGoOn`). `ExposureAssumption` asks for finitely many assets, that every record names some of them, and that
agents' runs are sequences of calls. `RetrievalInv` says that all
vectors are of the space the index is recorded with, and what a plan that is still to be carried out knows of an
index that changes under it (`PlanOK`): a full one replaces or deletes every vector that was there. `CheckpointsInv`
says of the last prune what it was given and what it dropped; that enough newer ones are kept beside each that was
dropped (`TheWindowIsKept`) is a count over a finite set, and that one no worse is kept (`TheBestIsKept`) a choice of
the best in one (`Rounds.FiniteHasLeast`). In `SweepInv` a finished
trial never changes, and domination is an order, so who is beaten is beaten by one in the front
(`OutOfTheFrontIsBeaten`: among those that beat it, one that is itself beaten by fewest).

`DeploymentsInv` is stronger than `TrafficIsRouted`: the shares of those that serve are the whole exactly, or but for the
rounding of the plan's equal parts and then nobody serves for nothing (`Whole`). The second half is what retiring
needs: only who gets nothing is retired, so once rounded shares are in force nobody can be, and what was lost by
rounding is never more than half a millionth for each that still serves. That every share of a plan is worth something is
`RolloutAssumption`: a step leaves the others a millionth each or nothing at all. The code's steps do; of a step that left less, some
shares would round to nothing, retiring those would leave fewer to answer for the same error, and the property
would be false. A sum over those who serve is a fold whose order is nobody's choice; `Rounds.SumsInAnyOrder` says that the
order makes no difference. `SafetyInv` relates findings, probes and suite: a probe in force is in the suite, a finding closed
without one was forced.

`GraphProofs` proves `AlertsAreNotLost`: `GraphSpec => []AlertsLoseNothing`, for all findings, routes and symptoms that
meet `NotifyAssumption` and `IncidentsAssumption` (what is upstream of a dataset is finite and
transitive, as the closure it comes from is).

`NotifyInv` says of every firing what excused the router from sending it (`Excused`), that what it remembers of a
fingerprint is the last time it was sent (`LastIsLatest`), and that the count has run since the first
(`CountedFrom`). That the fingerprint tells severities apart (`FingerprintTells`) is what keeps an escalated finding
from being taken for its milder self. Incidents are recomputed by `correlate`, one finding after the other, so the
proof first gives the fold its rounds (`CorrelateByRounds`, from `Rounds.FoldsExist`) and shows that sorting moves findings
and drops none (`OrderedMoves`, `OrderedKeeps`). Each round then puts one finding into one new place
(`PlacesGrow`, `CountsKeep`) beside one it is connected to (`LinksGrow`), and as long as everything follows the first symptom
there is one group (`FollowersJoin`). The attempt found two claims that hold only away from cycles, as `root_datasets`
takes nothing for a root that is upstream of itself: `GroupsShareACause` and `LifecyclesReadBack` say so now.

`FiguresStayModest` (`GraphSpec => []FiguresAreModest`) and `CalibrationsSettle` (`GraphSpec => CalibrationSettles`) hold of
every graph whose edges end at its datasets (`IsLineage`, which `add_edge` sees to) and of all prices, counts and amounts
that are natural numbers. `BillingInv` and `UsageInv` are the types of the logs: the work is in what is computed from
them. Two bodies of lemmas do it. A sum over a finite set is a number, splits into parts, grows with its terms
and is the sum of the sums of its classes (`SumsAdd`, `SumSplits`, `SumOfPart`, `SumByClass`): charges by dataset or by day
are the whole, and a part of them is no more. A walk of a graph is taken wave by wave (`WalkIsInWaves`); a wave that finds
anything has found one dataset more, so after as many waves as there are datasets nothing is left to find
(`Rounds.WalkFindsAll`: what is found is the least set closed under the edges). Hence what is upstream of what is upstream is
upstream, and the walks up and down agree (`AncestorsAndDescendants`), which is why the sources of a table a person reads are never proposed
for retirement. A walk goes as deep as there are datasets, `MAX_DEPTH` of the code being 64. The attempt found that `partition_counts_from` makes a saving look larger for a dataset that is
listed as empty: it counts as one until it is listed. `SavingsAreModest` says so now.

`RestrictionsStayDown` (`GraphSpec => []RestrictionsReachDown`) holds of all graphs whose edges end at their datasets, all
scopes and residencies and all licences with the terms of `License`, and for any time a caller asks about, before or after the
clock (`ConsentAssumption`: a scope expires at an integer, or `Never`). `ConsentInv` and `LicenseInv` are types and the keys
that the desks keep; what has expired stays expired at any later time, which is what relates the two clocks of a report. The
rest of the work is in comparing two algorithms. `propagate_purposes` and `propagate` label every dataset in
one pass along the order of `query.topological_order`; `permitted_purposes` and `effective_license` ask what is upstream of
one. The order is Kahn's: it lists every dataset once, and one that is freed comes after all it reads (`OrderIsKahns`).
Who is never freed reads somebody else who is never freed; the one among them with the least upstream is upstream of what it
reads, so it is on a cycle of several (`HeldBackByACycle`), and everything above a dataset off
those cycles is off them too (`OffTheCycles`). So the pass gives there a label that is the combination of the labels of all inputs
(`FlowOffTheCycles`), and down the order (`DownOffTheCycles`, by the longest stretch on which both agree) it combines what
everything upstream declared: combining two by two, in whatever order inputs come, is combining the set (`JoinedInTurn`), and
combining combinations is combining what they combine (`CombinedOfCombined`). The order and the pass are in `Rounds`.
Routes come from `Rounds.PathsAreWays`. The attempt found one claim false: for a source that is made of
nothing but itself, an incremental table that nobody declared, the pass starts from nothing while the
answer counts declared scopes only. `query.roots` does not list such a dataset, so the claim that both agree now
speaks of `Origins`, who read nothing or only themselves, and an estate of the run has one.

`ReportsStayTrue` (`GraphSpec => []WhatIsReportedIsTrue`) is five arguments, under `FreshnessAssumption`,
`ArrivalsAssumption`, `JoinsAssumption`, `TelemetryAssumption` and `AttributionAssumption` (limits are numbers, edges end at
datasets of their graph, no key is the null, bounds of a histogram rise, span trees are finite). Of freshness the pass along the build order is
again compared with the closure: off the cycles a label that joins by the earlier of two builds is the oldest build upstream (`BuildsFlow`,
`OldestOffTheCycles`). `ArrivalsInv` ties the table to what was written: every line of the log tells of something that landed and
the other way round; runs of missing periods are cut where one has landed, so they neither overlap nor touch (`RunsEnd`, `GapsAre`). A
join's profiles are counts of its tables: if no key may be met twice within the tolerance, there are no more rows than
keys (`UniqueIsTight`), and average fan-out shows in that count (`FanOutShows`). `TelemetryInv` says that a bucket holds the number of durations
observed that are not above its bound; those grow from bound to bound (`FittingGrows`), so the
duration of a rank is in the bucket the quantile is taken from (`RankFits`, `QuantilesLie`), and self times add up by a sum over
the waves of the tree (`SelfTimesAddUp`). `AttributionInv` says that only what the origin leads to ever drifts; distances fall by one
along every edge of an even story (`NearerBelow`), so nothing that drifted is further from the target than the origin. The attempts found two
claims too strong: the tolerance for unique keys hides a doubled key among enough others (`ToldExactly`), and a target that
reads itself is a suspect of its own (`Even`). Both properties say so now.

Only model-checked, and why:

* all liveness (`Terminates`, `WorkComesToItsEnd`, `EverythingArrives`): fairness and ENABLED are out of the
  prover's reach;
* what recursive data computes, where no number of rounds bounds it: the compositions of mappings
  and the conversions of grains (`ClaimsAreKept`), histories replayed, Tarjan's search (`CyclesAreFound`), components and
  counts of a graph (`WalksReachEverything`, `OrdersAndNoticesAreComplete`),
  n-grams, unions and
  derivations (`MakingsAreKnown`, but for its part about tokenizers): an induction over sequences or graphs takes an operator as parameter, which the
  provers cannot instantiate;
* `Exact` and `GrowsOncePerPath` of `Planner` (`ExactOffCycles`). `Exact` cannot hold for every value of the
  constants: once `MAX_ENUMERATED_KEYS` collapses a dimension, a predicate dropped as covered may have a wider capped image than
  the one that covers it, so what a plan holds depends on the order of absorption; and a dataset off every cycle may
  exceed `_ACYCLIC_SAFETY_VALVE`. The instance that is checked is small enough for neither to happen.

## 8. Where code and documentation disagree

Each has a run that ends in a violation.

* `cursor_crash`: the lineage token is committed before the lineage it stands for; an
  ingest that ends in between loses those rows for good.
* `nothing_declared`: with no partitioned dataset declared, `graph or Graph()` replaces
  the accumulating (empty, hence false) graph and every source is dropped.
* `rebuild_shell`: the script of `fathom dag --flavor shell` separates waves by a bare
  `wait`, which ignores what became of the jobs: after a batch fails the next wave runs on
  tables that were not written.
* `source_narrowed`: the evidence of an edge is the file's name and the store has one row for
  source, target and evidence, so of a backfill and an increment in one file the last one
  decides, although
  `store/sqlite.py:348-349` promises that "what the store holds for that source is exactly what
  the source now says".
* `erasure_statements`: Snowflake, BigQuery and Databricks rebuild a model by a DELETE and
  an INSERT with no transaction around them, while `Eraser.erase` "must be transactional":
  when the second fails the partitions are empty, of everybody's rows, and no proof is
  written that would name them.

Met while modelling, without a run of their own:

* A change that returns to an earlier graph is never recorded, and no later change is either:
  `record_revision` ignores a digest that is anywhere in the log (`AppendRevision`).
* Object identity at a token's boundary is an etag, not a path, and it is applied to newer
  objects too: an object whose contents equal those of a boundary object is never reported
  (`ObjectsAfter`; a known gap of `OmitsOnlyInGaps`).
* `apply_erasure` looks at the salt after the last target: without one it has erased
  everything and raises, and there is no proof (`RefuseSalt`).
* Erasing at an origin that a model builds, or on a cycle, may end in a proof that says
  complete while the data is there (see 4), although "never a no-op that reports success"
  (`govern/erasure.py:15`) is the module's own rule.
* Two overlapping ingests may both append to one parent (the head is read outside the
  transaction that appends): `RevisionsFormAChain` is stated for ingests that do not
  overlap. An older reading that saves last is in the store until the next ingest:
  `Converges` says it does not stay.
* A revision compares the stored graph with what this run read, and an adapter only
  reports what is new since its token: edges of earlier increments are recorded as
  removed although they are stored. `TrueAttribution` compares the graphs revisions hold.
* `load_graph` reads datasets and edges with two SELECTs outside a transaction: a save in
  between ends the ingest in a KeyError (`LoadFails`).
* `revisions()` returns the oldest 500 rows, so after 500 revisions the head stands still.
* A dataset below a cycle may be listed before one it depends on, because everything that
  Kahn's algorithm cannot emit is appended by name, while iteration of a plan is documented
  as "dependencies before dependents" (`graph/model.py:159`). Below a cycle a dataset may
  therefore share a wave with an input; `InputsFirst` is about the datasets above.
* `plan.cyclic` holds datasets below a cycle, not only those in one.

Stated in a module and false of the code; each is reproduced by naming it as an INVARIANT
(or PROPERTY) of the run that has its component:

| Statement | Source | What the code does |
|---|---|---|
| `Exposure.TestTrainingIsSeen` | `ai/evals.py:253`, "Every (model, eval set) pair in the graph with provable leakage" | leakage paths skip the eval set itself: a model trained on its own test is not in the list |
| `Makings.ClustersAreMutual` | `ai/quality/contamination.py:300`, "A group of mutually near-identical documents" | a cluster is the transitive closure of pairs |
| `Costs.NothingBilledIsNoAnswer` | `graph/plan/billing.py:121`, a window with nothing charged is "no answer" | `calibrate` scales every rate to nothing by it |
| `Exposure.TrainedMeansInsufficient` | `ai/unlearning.py:249`, "False whenever a model was trained on the data" | an asset whose first recorded edge is not the training edge has another route |
| `Retrieval.RebuiltContextsAreJudgedTheSame` | `ai/rag.py:384`, "Rebuild a manifest" | a source whose namespace needs quoting is read back as another dataset |
| `Monitor.ContractsSeeWhatIsTrue` | `cli/main.py:1058`, "against what is currently true" | the latest stored profile is verified, whatever the data is now |
| `Monitor.NearUniqueColumnsAreReported` | `govern/reidentification.py:203` | a near-unique column of no known kind is not in the report |
| `Migrations.RestorePutsTheBackupBack` (with `Careful = FALSE`) | `store/migrations.py:241`, "Put a backup back" | the file is copied under a write-ahead log that is still there, and read with it |
| `Reports.WhatCanWaitWaitsUntilMorning` | `report/notify.py:13`, "an INFO waits until morning" | it is dropped; only a later firing is sent |
| `Restrictions.UnlicensedSourcesTaint` | `govern/licenses.py:65`, "taints everything downstream with a review requirement" | a stricter licence on another input answers first and no review is required |
| `Training.CompatibleNeedsNoResharding` | `ai/train/checkpoints.py:326`, "without resharding" | topologies that need it are listed |
| `Releases.UnmeasuredMeansNotRun` | `ai/quality/safety.py:317`, "No benign probes were run" | said also when benign probes were run and none counted |
| `Histories.SafeMeansNothingMissed` | `graph/diff.py:182`, `docs/guide/cookbook.md:277`, "Narrowing and removal are the two ways a graph edit serves stale data" | a window that moves ([0, 1] to [-1, 0]) drops partitions, is neither narrowed nor widened, and is safe; so is a change to the first of two edges of one key |
| `Histories.UnsafeEdgesAreShown` | `cli/main.py:1098`, "Only revisions that narrowed or removed an edge" | with `--edge` only narrowings are asked for: of a removed edge it says that no revision touched it |
| `Ingest.OneRowPerDependency` | `ingest/events.py:63` | BigQuery's evidence names the job, so each job adds a row for one dependency |
| `Ingest.ColumnsAccumulate` | `store/sqlite.py:350` | an upsert replaces the columns earlier increments stored |
| `Ingest.NothingIsCrowdedOut` | `adapters/engines/databricks.py:256` | one limit for each of two views and one cursor for both: rows of the one that was cut are passed |
| `Ingest.AllLineageIsFetched` (BigQuery, or more rows in the lag than the limit) | `docs/integrations/snowflake.md:184`, "lower it if the ingest warehouse is small" | BigQuery has no cursor and reads its oldest rows again; a cursor held back by the lag reads the same rows for ever |
| `Labels.ConfirmedLabelsCount` | `docs/guide/label.md:112`, "a confirmed label always counts regardless" | policies are checked against what inference finds now; the label table is never read |
| `Restrictions.ReportsWithdrawPermission` | `govern/consent.py:162`, "retention running out is a withdrawal of permission, not a note for a separate report" | `report(now=...)` gives the caller's time to `expired` only: asked about the future it lists a source as expired and still permits what is below it, asked about the past it denies and names nobody |
| `Makings.EdgesNameTheBases` | `ai/train/finetuning.py:4` | the edges of an adapter end at `adapter://`, those of what is made from it start at `model://`: from a merged model no edge leads to the base, which `base_of` names |
| `Observations.OriginsAreNeverRelays` | `ai/attribution.py:295`, "the origin rather than the relay" | with an edge past a relay the relay is further away than the origin |

Also met: `PromptTemplate.digests` says "newest first" (`ai/prompts.py:126`) and returns the oldest first;
`import_store` deletes outside the transaction that loads (`store/migrations.py:345`), so an
import that fails leaves the tables empty (`Migrations.ImportFails`).

## 9. What is not modelled

Parsing and formatting (SQL, dbt manifests, OpenLineage, YAML, selectors, licences, contracts, partition text,
names), file and SQL I/O, the computation of a profile from rows and other statistics, and
rendering: `core/ids`, `paths`, `codec`, `errors`, `util`, `adapters/fs`, `sql_runner`, `predicates`,
`cli/explain`, most of `cli/main` and `cli/config`, `report/render`, `emit` and `compliance`, `govern/diff`.
They have no state that other parts interleave with, and their inputs are unbounded text.
The Dagster file names each op once per dependent, and what an orchestrator makes of that
is not modelled; nor are `rebalance` and the estimates of the schedule.
The removal of objects from an object store is never reported by the code and not
modelled. Of erasure, the text, digest and files of a proof are left out, storage modes other than
"can be erased" and "cannot", and rows that a rebuild loses because a source no longer keeps
what they were built from. Of `graph/metrics`, the centrality
figures; of `store/migrations`, `compact`; of `ai`, the comparison of metrics between models, digests and reports in words;
of `report/telemetry`, counters, gauges and the text formats.

## 10. Plan

1. Partition algebra and planner, 2. ingest and the store, 3. change detection, 4. the schedule
and its execution, 5. erasure, 6. the registries of `govern`, 7. observation and operations, 8. AI
assets: written and checked.

9. Proofs: done for the planner's worklist, the rebuild, ingest, erasure, migrations, detection, the shadow,
   the registries of `govern`, most desks of `ai`, alerts, savings and retirement, what lineage restricts, and what is reported of freshness, arrivals, joins, measures and causes. Left, in the order of their worth:
   the depths and scopes along the order of a graph (`OrdersAndNoticesAreComplete`), and the bases of a model
   (`BasesAreFound` of `Makings`).
10. Composition of erasure with copies and keys in one request, once the code composes them.
