# Verification of mor-faithfulness

TLA+ specifications of the merge-on-read faithfulness project: the checker, the
audit-preserving compaction patched into Iceberg, the harness that measures both, and the
studies that say what compaction does to the evidence. TLC checks small instances; TLAPS
proves the safety of the patch, of the harness's runs on all three formats, of the checker's
report, of the sweep, of both phase-8 pipelines and of the maintenance for all of them.

Line numbers below are those of the repository; "the patch" is
`cost-study/studies/audit/iceberg-1.10.2-stale-wins-audit.patch`, "the harness" is
`cost-study/src/mor_harness/`, "the studies" are `cost-study/studies/`.

## The system

A merge-on-read table holds, for one key, data rows and equality deletes, each with a
sequence number. A delete hides the rows of strictly lower sequence number. Each row also
has a version, its place in the source's log. The table is *faithful* for a key when the one
visible row is the current version. A change stream that is committed out of order, or in one
commit when it should be in two, breaks that without any error: a *stale win* (one visible
row, an older version), a *duplicate*, a *missing* version, a *ghost*. Compaction then
rewrites the table from what is visible and hides the evidence; expiry destroys it.

| Component | State | Operations | Talks to | Hard because | Correct when |
|---|---|---|---|---|---|
| Checker core (`checker/.../core`) | none | `classify` of a layout | adapter | ties, missing versions, deletes that may be legitimate | a violation is reported only when the layout proves it |
| Checker adapter (`adapters/iceberg.py`) | the current snapshot's live files | `layouts`, Tier-A `scan_metadata`, hint resolution | Iceberg metadata | position deletes are not analyzed, bounds leave nulls out, a hint can be old | the layouts are what a reader merges, the screen says what it proves |
| Report and CLI | none | fold verdicts, localize, exit code | checker | options that settle open verdicts | exit 0 certifies the table |
| Audited rewrite (the patch) | runner accumulators, verdict in the snapshot summary, statistics file | plan, gate or audit a group, commit, spill, register | table, other writers, group threads | concurrent commits, lazy bounds, keys in several groups, two commits for one verdict, failure anywhere | verdict names exactly the stale wins or abstains; compaction changes no visible row |
| Stream and knobs (`stream.py`, `imperfections.py`) | history per key, lsn, timestamps | emit, skew | write planner | interleaving of keys, ties after skew | the truth is each key's last operation |
| Write planner (`batching.py`) | assignment of changes to checkpoints | clean plan, swap, flush, copy, coarsen | drivers | knobs compose | enforced modes are not disturbed |
| Drivers (`adapters/drivers/`) | the table | commit a checkpoint, compact, read the audit back | engines | each format has its own arbiter | enforced runs show the log |
| Oracle and reconcile (`check.py`) | none | verdicts, cross-check | checker, runner | masking, tombstones, blind spots | no false alarm, no hidden disagreement |
| Sweep (`sweep.py`) | JSONL and CSV files | run, append, resume | runner | killed at any time | no result lost, none repeated |
| Synthetic workload (`iceberg_driver.py`) | the table | ingest, closed-form oracle | audit studies | windows, ties, injected duplicates | closed form = table |
| Audit studies (`studies/audit`) | a table, its groups, a verdict | ingest, compact with options, score | driver, planner | planner's grouping, cap, minimum input files | a study's checks can only fail for the reason it names |
| Parallel sink (`phase8-cdc`) | writer buffers, table, latch | write, barrier, commit, verify | threads | barriers are not atomic, threads die | no event lost or twice; it ends |
| Induced pipeline (`phase8-cdc`) | log, topic, oracle, plan, table | capture, plan, replay, verify | Postgres, Debezium | early and repeated captures, redelivery | a plan that is built shows its stale win |
| Maintenance studies (`studies/`, `delta/`, `hudi/`) | snapshots, files on disk, verdicts | rewrite, expire, orphan removal; OPTIMIZE, VACUUM; compact, clean | engines | order of operations, a process that dies between two commits | evidence goes only with expiry, the verdict outlives it |

Everything else (Lean theory, rate model, sensitivity study, survey, cloud scripts, cost
studies, the engine sub-process adapters) is listed with its reason under `components` in
`PROJECT.json`.

## Modules

Bottom up; `A -> B` reads "A extends B".

| Module | Stands for | State and actions |
|---|---|---|
| `MorModel` | `core/model.py`, `core/classify.py` | operators only: visibility (`IsVisible`, a threshold as in the code), `CurrentVersion`, `Classify` |
| `IcebergAdapter -> MorModel` | `adapters/iceberg.py layouts()` and Iceberg's merge rule | a table is a set of rows and a set of equality deletes; `Layout` projects a key; `LiveRows` is what a reader returns, `StaleWinsKeys` what the checker reports |
| `AuditRewrite -> IcebergAdapter` | the patch, and as external the parts of Iceberg it hooks into | `Commit` (other writers), `PlanRewrite`, `StockRewrite` (gate cleared the group), `AuditedRewrite`, `CommitRewrite`, `WriteSpill`, `RegisterSpill`, `NothingToSpill`, `Abandon` |
| `AuditPromise` | README "Audit-preserving compaction" | the abstract table: `Write`, `Compact` with a report that is exact or an abstention, `Publish` |
| `CheckerReport -> IcebergAdapter` | `report.py`, `cli.py`, Tier A of `adapters/iceberg.py` | operators: `Screen`, `Counts`, `Findings`, `ExitCode`, `Localize` |
| `CheckerCases -> CheckerReport` | tables mor-check is run on: `build_fixtures.py`, the real-world generators, free ones | commits, hints written or lost, `Check` of the metadata file the hint resolves to |
| `UpsertLog` | what the enforced write path promises | per key a log, a prefix of it, and the view the prefix ends with |
| `CdcPlan` | `stream.py`, `imperfections.py`, `batching.py`, `RunConfig` | `Emit`, `Skew`, `BuildPlan`, and `Rows`/`Deletes` of each checkpoint |
| `CdcIceberg -> CdcPlan, IcebergAdapter` | `runner.py`, `check.py`, the Iceberg driver | `CommitCheckpoint`, `Compact`, `Reconcile` |
| `AuditGroups -> IcebergAdapter` | what one audited compaction says, given its groups | operators: `Plans` (file-group cap, minimum input files), gate, `Summary`, `Straddles` |
| `CdcAudit -> CdcIceberg, AuditGroups` | `validate_audit*.py`, `validate_m4_correctness.py`, `validate_crossgroup.py`, `validate_phase5_multigroup.py`, `measure_straddle_rate.py` | `CompactAudited`; each study is the set of runs it makes (`...Run`) and the checks it applies (`...Checks`) |
| `CdcArbiters -> CdcPlan` | the Hudi and Delta drivers, `reconcile_hudi` | `BulkUpsert`, `DeleteTails`; `MergeData`, `DeleteKeys`; `Reconcile` |
| `Sweep` | `sweep.py` | `Start`, `Skip`, `Run`, `AppendRecord`, `EndLoop`, `WriteCsv`, and the kills `Crash`, `TornAppend`, `TornCsv` |
| `ParallelSink -> IcebergAdapter` | `MorPhase8ParallelTest.java`, `verify_parallel_race.py` | per subtask `Write`, `Finish`, `Die`; coordinator `Check`, `Wake`, `Await`, `Prepare`, `CommitAll`, `CommitFails` |
| `CdcChain -> IcebergAdapter` | `capture_lsn_oracle.py`, `build_write_plan.py`, `MorPhase8CdcTest.java`, `verify_end_to_end.py` | the log grows, the connector publishes or starts over, capture, plan, replay, verification stage by stage |
| `SynthOracle -> IcebergAdapter` | `run_synth`, `construction_oracle` | `SynthCommit`; the closed form as operators |
| `AuditTables -> AuditGroups` | the studies that write a table by hand | their tables, selections, options and expectations |
| `AuditStudies -> SynthOracle, AuditTables` | thirteen studies of `studies/audit` | `Write`, `CompactAndRead`; `...Run` and `...Checks` per study |
| `EvidenceLife` | what maintenance may do to evidence, whatever the format | `Write` and `Compact`, each told by the commits of its kind, and `Expire`, which commits nothing |
| `IcebergMaintenance -> IcebergAdapter` | the compaction, time-travel, spill and orphan studies | `CommitRows`, `Rewrite`, `RewriteDies`, `ExpireSnapshots`, `WriteSidecar`, `RemoveOrphanFiles` |
| `DeltaHistory`, `HudiSlices` | the Delta and Hudi probes | `InsertRows`, `MergeRows`, `Optimize`, `RetentionPasses`, `DisableCheck`, `Vacuum`; upsert, compact, clean |
| `LayoutLemmas`, `*_proofs` | - | theorems, see below; `Phase8_proofs` is about `ParallelSink` and `CdcChain`, `Reports_proofs` about `CheckerCases` and `Sweep`, `Studies_proofs` about the three formats' maintenance and `AuditStudies` |
| `MC*` | - | instances for TLC; `MCSink` and `MCMaintenance` put systems that share nothing side by side |

Choices worth knowing:

* A snapshot's id and its sequence number are its position in the history. A rewrite's output
  carries the sequence number of the snapshot the rewrite *started* from
  (`use-starting-sequence-number`), which is what makes a concurrent delete still reach it.
* The groups of one rewrite run on several threads. They touch shared state through atomic
  counters, synchronized lists and per-key merges, and it is read after all have ended, so
  one group is one step, in any order.
* `boundsAt` is the snapshot whose manifests the gate read. The code asks for
  `table().currentSnapshot()` when the first group is judged, which may be later than the plan.
* The action fails by `Abandon`, between any two steps: a group fails, a commit conflicts, or
  the process dies. What was committed stays, what was in memory is gone.
* `AuditGroups` repeats the audit as a function of the table and the groups, for the studies:
  they run alone, and only the planner's choices and the options vary. `AuditRewrite` is how
  the same verdict comes about among threads and other writers.
* One run of the harness is `config`, a member of `Configs`: rates become "the knob may choose
  any subset of places" or "none". A key outside the stream has an empty history.
* `Check` needs a snapshot, as the adapter raises without one. It is given its key columns, by
  option or as the table's identifier fields: where neither is there and no delete names them,
  `mor-check` raises too, and no such table is written here.
* A study is a set of runs and the checks its script makes of each. The scripts differ in
  size, which is abstracted, and in the table's shape and the options, which are not. A check
  the script makes of its own numbers is in `...Checks`; what must hold of every run is a
  property.
* Sizes, payloads, file names, Spark sessions, timings, and the JSON spelling of keys are left
  out. A version is the lsn; a key is a model value.
* Definitions named `X_Something` before `X` are deliberate mistakes: the mutation of `X` that
  the property it is listed with must detect.

## Runs

| Run | Bounds | Shows |
|---|---|---|
| `audit_groups` | 1 key, ordering values 1, 2 and null, 3 snapshots, 2 files per commit, 3 rows, 2 groups, gate on, fail-closed, commits during the rewrite | a verdict is an abstention or exactly the stale wins of the pinned snapshot (`OneSided`, `Complete`); the gate clears no guilty group (`GateSound`); no visible row changes (`PreservesContent`) |
| `audit_cross` | the same values, 3 groups, cross-group mode, every list that names a key spilled, failures before the commit and between it and the registration | the merged verdict is exact; the mechanism implements `AuditPromise` (`KeepsPromise`), whatever a failed registration leaves behind |
| `audit_spill` | every list spilled, two rewrites, fairness | blobs belong to their rewrite, every rewrite's verdict becomes readable, `AuditPromise` with its fairness |
| `audit_selected` | one group that leaves a file out | violation of `OneSided` |
| `audit_misfiled` | a commit between the rewrite's commit and its spill | violation of `BlobsBelong` |
| `cdc_iceberg` | eight configurations, 2 keys with one update or 1 key with two, every tail; groups of 2 files | enforced: `FollowsUpsertLog`; unsafe: `ViolationClasses`, `NeverRaises`; compaction: `MaskingIsTotal`; audited: `AuditMatchesOracle` |
| `cdc_arbiters` | five configurations, skew of 1 or 2 positions, up to three updates | Hudi: `StaleExactlyWhenOvertaken`; Delta: `DeltaFollowsUpsertLog`, `DeltaLosesOnlyReinserts` |
| `sweep` | a list of four with a repetition, three starts, kills anywhere | `SweepIsComplete`, `SuccessEndsWork`, `CsvReports` |
| `sink` | race: 2 subtasks, 2 keys, 3 events, 2 timed barriers, failures, fairness; induced pipeline: 2 keys, 4 changes, a connector restart, 2 captures | `NothingLostOrTwice`, `RaceFailsOnlyOnMissed`, `RaceTerminates`; `EveryPlanDemonstrates`, `OnlyTheTargetInverted` |
| `report` | keys of two columns, one nullable, 2 versions, 2 commits of 2 rows, lost hints, the scripted tables, six command lines | `CleanIsFaithful`, `ContextOnlySettles`, `ScreenIsSound`, `ScriptsAsExpected`, `StaleOnlyByHint` |
| `maintenance` | Iceberg: 1 key, 4 snapshots, one dying rewrite; Delta: 2 keys, 5 versions; Hudi: 2 keys, 2 timestamps, 4 writes | `MaskingOutcome`, `VerdictOutlivesEvidence`; `FeedIsWhatWritesChanged`; `WinnerSurvivesMaintenance`; all three implement `EvidenceLife` (`MaintenanceKeepsEvidence`): a rewrite serves the same rows as before and keeps nothing else in the current state; only expiry and its like destroy |
| `studies` | every parameter combination up to 6 commits of 5 rows in one file each; 3 commits of 3 rows over two files, scattered or not, with and without an interleaved row, up to 2 groups, five option sets; 99 and 100 commits of one duplicated key, the most for which the injected value is the highest; the hand-written tables | `OneGroupStudiesPass`, `ContiguousIsCleared`, `ErrorsStraddle`, `VerdictIsTheCheckers`, `TablesAsExpected` |

Why the bounds are enough to be interesting. A stale win takes two commits and two ordering
values; a duplicate takes two rows; a false positive of per-group counting takes one discarded
row and two survivors in different files, which is three rows in two commits; a rewrite that
races a commit takes one more. Keys do not interact except through the files they share, the
groups those files are put in, and the checkpoints. In the harness a history of
read/update/delete/reinsert has every pair of adjacent operations, and two keys of different
lengths exercise the last checkpoint. Two subtasks and three events have every inversion:
older after younger in another subtask, and twice within one. For the screen two files with
ranges that touch, nest or miss each other need two key columns and no more than two rows
each. For maintenance two commits, a rewrite and what follows it are four snapshots; a third
commit after the rewrite, or a second rewrite of the rewritten file, fits in the same bound.
In the studies two files a commit are the least that a planner can split, and one interleaved
row is the least that defeats the gate.

Deadlock is not checked: every one of these systems comes to rest when its work is done (the
bounds are used up, the run is reconciled, the last barrier has fired).

Fairness. `AuditRewrite!FairSpec` assumes that a rewrite takes its steps: it waits for nothing
outside itself, and its failures are a separate action, switched off where liveness is
checked. `AuditPromise!FairSpec` assumes a due report is published, which is what
`KeepsFairPromise` derives from the former. `MCSpec` of `MCSink` assumes of the race that
threads are scheduled, sleeps end and a lock that is only held for one event is obtained;
nothing is assumed of `Die` and `CommitFails`, nor of the hand-run scripts of the induced
pipeline. Writers, the sweep and the maintenance scripts have no fairness: they may stop.

## What is proved

All of it for every value of the constants: keys are finitely many, ordering values are
naturals or null, bounds are naturals, options Booleans. Those and a few more are the named
`ASSUME`s of the modules: a subtask exists; a configuration's hash is not the empty string;
the planner's minimum of input files is at least one; `CdcIceberg` is given Iceberg
configurations, and no study of a harness run lifts the single-survivor guard (patch 222 keeps
that for tests); Hudi's timestamps and the induced run's keys are naturals, and the run's
target is one of its keys; two key tuples of the checker have the same columns, and a null in
one is no number. Two theorems about the audit studies have hypotheses besides, stated with
them. The Lean
development in `lean/` proves the gate's soundness for a static list of rows; what follows is
independent of it and about the running mechanisms.

`LayoutLemmas`: `VisibleIsLive` (the checker's threshold and the reader's rule give the same
rows), `DiscardedBeforeSurvivor`, `VerdictByRows` (each verdict of `Classify` as a condition on
the rows), and `StaleWinsMeaning` (STALE_WINS is one visible row under a strictly younger
version). `UpTo` and `Pass` unfold a recursive function with a bounded domain: what such a
function computes is then an ordinary induction on naturals, in the module that needs it.

### The audited rewrite (`AuditRewrite_proofs`)

For every grouping of files, interleaving with other writers, and failure:

* `TypeCorrect`: `Spec => []TypeOK`, including that every table, group set and output is
  finite, which the maxima and counts in the definitions need.
* `GateIsSound`: `Spec => []GateSound`. `GateSound` is not inductive. The strengthening is
  `NothingYounger` (no row or delete has a sequence number beyond the snapshot it is in),
  `Pinned` (in every snapshot from the start of the rewrite on, the files of the planned groups
  hold exactly the rows they held in the pinned one, and the deletes up to its sequence number
  are the pinned ones) and `Cleared` (a cleared group was cleared by bounds read no earlier
  than the plan). From these: the bounds are those of the group's rows whenever they were
  read; a discarded row lies at a strictly lower sequence number than any survivor of its key;
  so a stale win would be a pair the gate looks for. Lazy reading of the bounds is therefore
  harmless, although the code does not say so.
* `RewritePreservesContent`: `Spec => []PreservesContent`. It adds `WrittenSurvives` (what the
  groups have written so far is exactly the pinned survivors of the finished groups): a
  rewritten row is hidden by a delete of the current table exactly if the original is, because
  it is written at the starting sequence number and every delete up to that number was
  already applied.
* `DecidedIsOneSided`, `DecidedIsComplete`: a decided verdict names stale wins only, and all of
  them. Both assume `Safeguarded`: no file is left out of the selection, and either the groups
  are merged or a rewrite of several abstains and one survivor is required. The runs
  `audit_groups`, `audit_cross` and `audit_spill` satisfy it; `audit_selected` shows what
  happens without its first part. The argument: a key is a stale win if and only if its three
  partials (discarded maximum, surviving maximum, survivor count) say so (`StaleWinByPartials`);
  the groups are disjoint and cover the pinned table (`Partition`); what has been merged is the
  partials of the finished groups' rows as if they were one group (`Merged`), and what has been
  listed is each finished group's own answer (`Listed`), cleared groups included because the
  gate is sound; without cross-group mode a rewrite that does not abstain has one group, which
  is the whole table. What is then in a summary, in memory or in a blob stays about the table
  it was made from (`SummariesExact`, `PendingExact`, `BlobsExact`).
* `BlobsAreFiledRight`: with `Safeguarded`, without cross-group mode, and if nobody commits
  while the action runs, a registered blob describes the snapshot it is filed under. The
  invariants are `PendingIsCurrent` and `FiledRight`. `audit_misfiled` shows that the last
  assumption is needed: the code files the blob under whatever is current.
* `RewriteKeepsPromise`: with `Safeguarded`, `Spec => KeepsPromise`, the refinement of
  `AuditPromise`. Beside the above it takes `UniqueContent` and `WrittenOnce` (no row is in a
  table twice, so a rewritten table makes no new stale win), `WritersSilent` and `PendingUnread`
  (a verdict becomes readable in one step, by its registration).

### The harness on Iceberg (`CdcPlan_proofs`, `CdcIceberg_proofs`)

For every number of keys, changes and checkpoints, every stream and every choice of the knobs,
with the audit on or off:

* `CdcPlan_proofs` says what each pass of the knobs makes of one key's assignment: swapping
  keeps every change in a checkpoint of its own and leaves the last checkpoint to one of the
  last two changes (`SwappedShape`, `SwappedLate`), flushing and coarsening keep the order
  (`FlushedShape`, `CoarsenedShape`). `PlanOK` is the invariant of stream and plan.
* The invariant `IInv` of a run: the table is a function of the plan and the number of
  checkpoints applied (`TableAfter`), or, after the rewrite, that table's live rows moved to one
  file (`TableMoved`). A commit's sequence number counts the checkpoints before it that are not
  empty (`SeqOf`), so a row is deleted exactly when a later checkpoint carries a change of its
  key (`DeletedIs`).
* `NeverRaisesHolds`: the cross-check of `check.py` fails no run. The version the oracle calls
  the truth is always one of the table's rows, and no row is younger (`TruthIsWritten`), so the
  layout and the view tell the same story before a rewrite (`LayoutOf`, `Categories`); after
  one, the checker is at worst fooled, which `check.py` excepts.
* `MaskingHolds`: a rewrite hides every stale and every missing version and no duplicate.
* `ViolationClassesHold`: without out-of-order commits the last change of a key survives
  (`LastSurvives`); without co-location a key has at most one row that is not deleted
  (`OneSurvives`).
* `EnforcedRunsFollowTheLog`: `Spec => FollowsUpsertLog`, the refinement of `UpsertLog`. Under
  the clean plan a key's only surviving row is its last applied change's (`SafeRows`), so a
  commit moves some keys on by one version (`CommitApplies`) and every other step stutters.
* `StudiesMatchOracle`: `AuditSpec => []AuditMatchesOracle`: for one group and for merged groups
  the summary is the oracle's set of stale wins, though the audit knows only the layout and the
  oracle only the stream. `AuditOK` says that the summary is of the table the plan leads to. A
  group that holds all rows of a key judges it as the whole table would, one that holds none
  does not flag it (`WholeKey`), and the gate clears no group that flags (`GateClearsNone`). The
  difficult keys are those whose stream ends with a delete: no row of theirs may be called
  stale, and none is: a row that outlives the delete is of the change just before it, the
  youngest the key ever had (`LiveComesLast`).

### The harness on Hudi and Delta (`CdcArbiters_proofs`)

Two formats with arbiters of their own, for any streams, skews and knobs. The invariant `ArbInv`
is that Hudi shows a function of the stream and of the commits made (`HudiShows`, as its plan is
never disturbed), and Delta shows of a key what the last applied checkpoint that touches the
key decides (`DeltaShows`), with the state between MERGE and DELETE described apart.

* `StaleWhenOvertaken`: `Spec => []StaleExactlyWhenOvertaken`. Precombine keeps the latest
  timestamp and the later write of a tie, which is the winner the harness predicts (`WinnerIs`,
  `PredictsWinner`): no run is raised, and a key is stale exactly if the skew let an older
  change overtake its last.
* `DeltaLosesOnly`: `Spec => []DeltaLosesOnlyReinserts`.
* `EnforcedDeltaFollowsTheLog`: `Spec => DeltaFollowsUpsertLog`, the refinement of `UpsertLog`,
  although a checkpoint takes two commits: a reader between them sees some keys moved on and
  none lost or turned back (`OneOn`).

### The checker's report and the sweep (`Reports_proofs`)

The report, for tables of any size, any number of key columns and any versions. The invariant
`CasesInv` says that metadata files are well-formed tables, a file holding the rows of one
sequence number, and that a report is of the file the hint resolves to:

* `CleanExitIsFaithful`: exit 0 certifies that a reader gets each key's current version, once.
* `ContextSettles`: options that add context change no verdict that is a finding or a clearance.
* `ScreenSound`: a candidate of the metadata screen is what its confidence says.
* `StaleByHint`: only a hint that was lost makes the checker read an old table.

The tables of the fixtures and of FLINK-38450. `ScriptFollowed` says that the metadata is what a
script has written so far (`WrittenBy`), so what is checked is a table its commits determine:

* `PostFixIsFaithful`, `PreFixDuplicates`: what the real-world report shows on one pair of
  batches holds of any. The fixed connector's table passes whatever it is given, if versions
  rise with the batches (`UpsertServed`: the last row of a key is the one served); before the
  fix a key in two batches of one checkpoint is a violation under every option, and the screen
  has both files.
* `ScriptsChecked`: `Spec => []ScriptsAsExpected`. `ExitIs` and `CleanExit` reduce the exit code
  to what the report has; `DuplicateExits`, `SuppressedExits`, `EqualSeqExits` and
  `AscendingExits` decide it for the shapes of table the scripts write.

The sweep, for every list of configurations, starts and kills:

* `WorkEnds`: `SweepSpec => []SuccessEndsWork`. The strengthening is `KnowsSuccess` (a running
  sweep has seen every recorded success, although it read the file once) and `AtHand` (what it
  is about to write is of a configuration it has not seen).
* `EndIsComplete`: `SweepSpec => []SweepIsComplete`, from `Passed` and `SeenIsListed`: what a
  sweep has seen is recorded, save for the record that was on the torn line when the sweep read
  it and the one written onto it. That the number two does not grow with further kills is the
  point: a later sweep reads the file anew.
* `CsvIsReport`: `SweepSpec => []CsvReports`. `CsvInv` maps the rows of the CSV file, and
  those together with the rows the running sweep holds back, one after the other to lines that
  no later append can change (`Stands`, `Settled`): all but a torn last one. What an append
  adds is a stretch of the rows held back, with torn lines and a header among them
  (`CsvTextIs`, `CsvExtendedIs`, `CsvAfter`), and a subsequence of rows stands for what those
  stood for (`StandsThrough`). `OnceInv` is why the header fits: while nothing has failed and
  no record is torn, the sweep that makes the file has recorded the success of every
  configuration, and no later one has a row to add.

### The phase-8 pipelines (`Phase8_proofs`)

The parallel sink, for every number of subtasks and assignment of events, with threads that die
and commits that throw:

* `EventsAreConserved`: `Spec => []NothingLostOrTwice`. `Kept` says that what was taken is
  somewhere; `Ordered`, that committed rows, events in a barrier and events in the writer of
  one subtask follow each other in log order, so that nothing is in two places; `Asking` and
  `Closing`, that the last barrier finds nothing left behind it.
* `RaceIsARace`: `Spec => []RaceFailsOnlyOnMissed`. `SubtaskOrder` and `PositionDeletes` say
  that one subtask commits a key's rows in order and removes all but the last of a batch;
  with `DeletesComeWithRows`, a stale row that is served was overtaken through another subtask.
  That the rewrite removes the checker's finding and leaves the row follows from
  `StaleWinsMeaning`.

The induced pipeline, for any log, delivery, restart of the connector and moments of capture:

* `PlansDemonstrate`: `ChainSpec => []EveryPlanDemonstrates`: a plan that is built shows its stale
  win in each stage of the verification. `InOrder` lists a set by rank (`NumbersInOrder`), so the plan
  ends with the target's last two versions, swapped (`PlanIsFor`, `LastTwo`); the commit of the
  second hides every other row of the target, and the version before the last is served
  (`LastIsServed`). The invariant `ChainInv` relates that version to the later captures and to the
  log: the plan is of a prefix of the oracle's capture, which is a prefix of the topic
  (`CapturedInTurn`), whose events are all in the log however often they are redelivered
  (`TopicIsLog`), so the youngest version can only have become younger (`PrefixLatest`,
  `KnownIsCommitted`). The rewrite moves the one row that is served, after which the checker
  finds the target faithful (`RewrittenIsFaithful`).
* `TheRestIsCurrent`: `ChainSpec => []OnlyTheTargetInverted`.

### Maintenance (`Studies_proofs`)

Iceberg, for every order of commits, rewrites, deaths, expiry and orphan cleanup:

* `VerdictSurvives`: `IceSpec => []VerdictOutlivesEvidence`. `NamedIsThere` (the metadata names
  no missing file) and `ManifestsGo` (a snapshot's manifests go when it is no longer retained)
  make "can be read" and "is retained" the same; `Published` (a spilled verdict is registered
  unless its rewrite died) and `NamesStaleWins` (it is about the snapshot before) say the rest.
* `RewriteMasks`: `IceSpec => []MaskingOutcome`. Every replacement has the live rows of the
  snapshot before it, none of them hidden, and deletes that were there already
  (`ReplacementsRewrite`); no table holds a row twice (`TablesOK`), so a key has as many
  surviving rows after as before, and the verdict is read off that number.

Delta, for any keys and number of versions:

* `FeedTellsChanges`: `DeltaSpec => []FeedIsWhatWritesChanged`. Inductive together with
  `NamedByVersion` (a file is named after the version that wrote it) and `CurrentStored`.

Hudi, for any keys, timestamps and number of writes:

* `WinnerSurvives`: `HudiSpec => []WinnerSurvivesMaintenance`. `HudiInv` says that a slice's base
  is the winners of the first writes and its log files are the writes after them; merging one
  batch into the winners so far gives the winners with that batch (`MergeSettles`), so it does
  not matter where between the writes the compactions fall.

Each format's refinement of `EvidenceLife` is a theorem (`IcebergKeeps`, `DeltaKeeps`,
`HudiKeeps`). The refinement mapping hands `EvidenceLife` the commits of the writers and of the
rewrites, so a step of the code cannot pass for another kind of step:

* a rewrite (OPTIMIZE, a compaction; registered or not) leaves in the current state exactly the
  rows that were served before it, which are still served, and destroys no version;
* a writer's commit destroys nothing and serves no version again that was superseded. What it
  supersedes stays in the current state; in Delta, where MERGE replaces files, a matched row
  gives way to a row of its key;
* expiry, orphan removal, VACUUM and the cleaner commit no rows. They alone destroy versions,
  of earlier states only.

The proofs need that a table which only grew serves no row it did not serve before, new ones
apart (Iceberg: `CommitGrows`, `GrownServes`), that a commit's files are new and no key goes
with the files it removes (Delta: `NewFilesAreNew`, `KeepsKeys`), and that a record that lost
keeps losing (Hudi: `LoserStaysLoser`).
`EvidenceIsKept` puts the three together for the specification the run `maintenance` checks.

### The audit studies (`Studies_proofs`)

For any number of commits, rows, deletes, duplicates and files, blocks or scattered, any
options and any groups the planner may form. The invariant `StudyInv` says what the studies'
table is: row by row what the commits so far have written (`Ingested`, kept by each commit in
`CommitIngests`), and after the compaction the live rows of the table that was scanned, with
the summary of one of the planner's sets of groups (`ReadBack`). The rest is about one key at a
time. `KeySplits` gives its live and its discarded rows from the parameters alone, `CountIs`
and `OutrankedIs` compare them with the closed form, `ExpectedAre` reads the oracle's sets off
that; on the other side `FlagMeans`, `WholeKey` and `GateClearsNone` say when a group flags a
key, and `CheckerMeans` when the checker does. `LiveCount` adds the keys up.

* `CheckersVerdict`: `StudySpec => []VerdictIsTheCheckers`. Interleaved rows included: nothing in
  the argument is about how the ordering values came about.
* `ErrorsOnlyStraddle`: `StudySpec => []ErrorsStraddle`. A group that has every row of a key
  judges it as the closed form does (`WholeGroupIs`), and the history `diagnose_straddle_fp.py`
  reconstructs is the closed form's (`ClassifyIs`).
* `ContiguousCleared`: `WindowsApart` implies `StudySpec => []ContiguousIsCleared`.
* `StudiesPass`: `WindowsApart` and `HighIsHigh` imply `StudySpec => []OneGroupStudiesPass`. An
  inverted run of several commits of several keys is never cleared (`InvertedIsSuspect`).

The two hypotheses are about the parameters, and the driver checks neither. `WindowsApart`: a
commit writes no more rows than the values between its window and the next (ten million), so
that windows of an advancing workload advance (iceberg_driver.py lines 399-401). `HighIsHigh`:
where a version is injected, its value is above those of the last commit's second copies, which
the comment at iceberg_driver.py line 90 takes for granted. The proof uses it in one place, a
duplicated key's being outranked once the survivor guard is off.

`InjectedIsHigh` says that this hypothesis is no stronger than it must be, for any constants:
the injected version is above all surviving ones of its key exactly when the last commit's base
and offset stay below `HIGH_LSN`. With the driver's constants that is 99 commits of advancing
windows and 100 of inverted ones; the run `studies` has both, and `MCSynthHigh.cfg` is the
first workload beyond that a study fails on. (A hundred advancing commits break the comment
too, but the studies turn the guard off for inverted workloads only; with an even number of
inverted commits the key is outranked for another reason, its last base being two commits old.)

Six tables are written by hand. `HandInv` says that such a study has written a beginning of its
commits, or has compacted the whole and read the summary of the one group it selects:

* `TablesChecked`: `StudySpec => []TablesAsExpected`. Three of the tables have commits of every
  key that delete the one before (`Upserts`): the gate clears them if the values rise
  (`UpsertsClear`), and the audit flags the keys whose last row is older than an earlier one
  (`UpsertsFlag`); `RisingIsClear` is the gate's half for the table of one key a commit. The
  bounds `gate_metrics_registration` reads are those of the rows (`BoundsHold`), and without the
  gate a group that holds no live row reports nothing (`SurvivorSays`).

### Only model-checked

* Liveness, as fairness and ENABLED are out of the prover's reach: `VerdictPublished`,
  `KeepsFairPromise`, `RaceTerminates`. The safety half of the promise is proved, the fair half
  is not.

## Where the code and its documentation part

Two have a run and a finding: the abstention that does not make one-sidedness unconditional
(`audit_selected`), and the blob that describes another writer's snapshot (`audit_misfiled`).
Six more can be replayed by hand with the configurations that are kept beside the modules:

| `tlc -config` | module | violates | the document says |
|---|---|---|---|
| `MCDeltaControl.cfg` | `MCArbiters` | `DeltaIsControl`: a schema flush costs Delta a reinserted key | `cost-study/DESIGN.md:193`, `271`: Delta as a control with no violations |
| `MCSinkRecall.cfg` | `MCSink` | `NullResultHidesNothing`: a stale key is called a duplicate, as position deletes are not read, and a run that shows nothing stale hides it | `verify_parallel_race.py:118` |
| `MCReportScreen.cfg` | `MCReport` | `ScreenHasNoFalseNegatives`: two rows of a key in one file that also holds another key | `DESIGN_MEMO.md:226-228`: no false negatives for equal-sequence duplicates |
| `MCSweepColumns.cfg` | `MCSweep` | `RowsFitHeader`: with no kill at all, a later sweep that retries a failure appends rows with other columns than the header (of a failed run there are no `cost.` columns, Iceberg's driver adds `live_rows` and `evict_s`), so values stand under other columns' names | `cost-study/DESIGN.md:274`: "a flattened `.csv`"; `sweep.py:66`: "append records" to it |
| `MCSynthHigh.cfg` | `MCSynth` | `OneGroupStudiesPass`: of 101 inverted commits the injected version is not the youngest, so the audit without its guard reports no duplicate where the oracle expects one | `iceberg_driver.py:90`: `HIGH_LSN` "out-orders everything" |
| `MCReportNames.cfg` | `MCReport` | `LocalizesTopDelete`: the file named is that of the first delete, the number that of the last | `report.py:116-122` |

Others met while modelling, without a run:

* patch 563-565 calls the cross-group verdict a superset of the per-group one. It is not: a
  key with one survivor in each of two groups can be in the per-group list only.
* Evidence committed after the plan is masked by the rewrite and judged by nobody (README line
  14 speaks of keeping the evidence): a stale win that a concurrent writer makes can be erased
  with no verdict naming it.
* The runner abstains when more than one group was *formed*. With `min-input-files` the planner
  skips a leftover group, one group is left, and the verdict is decided although files were
  left out: the hole `audit_selected` shows is reached through an ordinary option.
* An abstention is scored by the driver as if every stale win had been missed
  (`iceberg_driver.py`, the score added to the result): recall of an abstaining run says
  nothing about the audit.
* `sweep_gate_selectivity.py:22-24` expects that one out-of-window row anywhere in a group
  defeats the gate. It does not when the planner puts the row's file in a group without the
  commits whose windows the row jumped over (`OneOutlierDefeatsGate` in `AuditStudies` states
  the prediction; as an invariant of `MCSynth` it fails at once).
* A HIGH candidate of the screen is "proof" of a duplicate only without nulls in the key:
  bounds leave nulls out, so a file of one null and one other key looks collapsed.
* A verdict is in one snapshot's summary. The next commit makes another snapshot current, and
  expiring the older one takes an inline verdict with it: it outlives the evidence only until
  then (`VerdictOutlivesEvidence` says "while the snapshot is retained").
* After VACUUM a vanished Delta version can still seem readable: aggregates are answered from
  the log's statistics. `ReadableVersion` is about reads that open files.
* `cost-study/DESIGN.md:220` says NEEDS_CONTEXT should essentially never appear; every correctly deleted
  key gives it, since deletes are possible.
* The docstring of `run_sweep` says records are appended to the JSONL and the CSV file. The
  CSV gets only the rows of a call that reaches its end, and the next call skips what is in
  the JSONL file, so the rows of an interrupted call never appear in it.
* The abstain branch of `reconcile_iceberg` is never taken on Iceberg with the version column:
  a tombstone is counted before it and a missing version agrees with NEEDS_CONTEXT.

## Not modelled

* The partial-progress path of the rewrite (patch line 147): the batches are committed by
  Iceberg's own service, which is not in the repository. It is a listed hazard.
* A harness rewrite that forms no group: the driver reads an empty summary and scores every
  stale win as missed (iceberg_driver.py:614). The modelled runs always form one.
* What the rewrite action tells its caller: a failed registration is reported as a failed
  rewrite (patch line 148). `audit_cross` fails there too, and checks the table it leaves.
* Retries of commits, the plan's cost, the JSON spelling of keys in the summary.
* A Hudi merge that loses a row: the branch of `reconcile_hudi` that would not notice
  (check.py:233) is a listed hazard, and no model here loses one.
* Position deletes in the checker: the code does not read them either. They are modelled where
  a writer makes them (`ParallelSink`, `CdcChain`).
* TPC-DS sampling and seeds, Spark sessions, sub-process adapters, Postgres and Debezium
  beyond what they deliver, row lineage of format version 3, byte counts, timings, cloud
  scripts, statistics of rates and costs, the Lean development. Reasons are in `PROJECT.json`.

## Plan

Done: the checker core, adapter, screen and report; the audited rewrite and its promise; the
harness (plan, three formats, reconcile, sweep); both phase-8 pipelines; the audit studies; the
maintenance of the three formats. Left, in order of worth:

1. Partial progress as an action of `AuditRewrite`, once the commit service's batching is
   described in the repository: which of the batches' snapshots carries a verdict.
2. A second concurrent rewrite: the patch keeps one pending spill per action, two actions on
   one table are not excluded.
3. The rate model and the Lean theory next to each other: which of the Lean statements the
   theorems above imply, lemma by lemma.
