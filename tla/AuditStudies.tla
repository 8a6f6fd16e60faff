---------------------------- MODULE AuditStudies ----------------------------
(***************************************************************************)
(* The audit studies on the synthetic workload (cost-study/studies/audit): *)
(* each ingests a table, compacts it with the audit on and scores the      *)
(* verdict against the closed form.  A study is the set of runs it makes   *)
(* (parameters, options, how the planner groups the files) and the checks  *)
(* it applies to each; studies differ in size, which is abstracted, and in *)
(* the shape of the table, which is not.  Some write their table by hand   *)
(* (AuditTables).                                                          *)
(***************************************************************************)
EXTENDS SynthOracle, AuditTables

CONSTANTS
    GroupCap,       \* max-file-group-size-bytes, in files
    MinInputFiles,  \* min-input-files
    MaxPlanned,     \* bound: groups of one rewrite
    StudyOptions    \* bound: the options runs are made with

ASSUME StudyAssumption ==
    /\ {GroupCap, MinInputFiles, MaxPlanned} \subseteq Nat
    /\ StudyOptions \subseteq Options

VARIABLES
    study,      \* "synthetic", or the table written by hand
    opts,       \* the options of the compaction
    groups,     \* the groups it formed
    scanned,    \* the table it read
    summary     \* the summary of the current snapshot

studyVars == <<synthVars, study, opts, groups, scanned, summary>>

StudyInit ==
    /\ SynthInit
    /\ study \in {"synthetic"} \cup DOMAIN HandTables
    /\ study # "synthetic" => cfg = CHOOSE p \in Configs : TRUE
    /\ opts = Defaults
    /\ groups = {}
    /\ scanned = EmptyTable
    /\ summary = NoSummary

HandWrite ==
    LET c == made + 1
        commit == HandTables[study][c]
    IN  /\ made < Len(HandTables[study])
        /\ made' = c
        /\ table' = [data |-> table.data \cup {HandRow(c, r) : r \in commit.rows},
                     dels |-> table.dels \cup {[key |-> k, seq |-> c] : k \in commit.deletes}]
        /\ UNCHANGED cfg

Write ==
    /\ IF study = "synthetic" THEN SynthCommit ELSE HandWrite
    /\ UNCHANGED <<study, opts, groups, scanned, summary>>

Commits == IF study = "synthetic" THEN cfg.C ELSE Len(HandTables[study])

\* The driver compacts once the last commit is in.  A group cap splits the files
\* or it holds them all; a table written by hand makes one group.
CompactAndRead ==
    /\ made = Commits
    /\ scanned = EmptyTable
    /\ IF study = "synthetic"
       THEN /\ opts' \in StudyOptions
            /\ \E cap \in {GroupCap, Cardinality(FilesOf(table))} :
                groups' \in Plans(FilesOf(table), cap, MinInputFiles, MaxPlanned)
       ELSE opts' = HandOptions(study) /\ groups' = {Selected(study, table)}
    /\ scanned' = table
    /\ summary' = Summary(table, groups', opts')
    /\ table' = Compacted(table, groups', made)
    /\ UNCHANGED <<cfg, made, study>>

StudyNext == Write \/ CompactAndRead

StudySpec == StudyInit /\ [][StudyNext]_studyVars

-----------------------------------------------------------------------------
\* The score the driver adds to its result.

\* A study raises, and concludes nothing, when no group was formed.
Done == study = "synthetic" /\ summary.present

LiveRowsMatch == ExpectedLiveRows = Cardinality(LiveRows(table))

Misses == ExpectedStaleWins \ Captured(summary)

FromDuplicates == Captured(summary) \cap ExpectedDupRisky

OtherFalsePositives == Captured(summary) \ (ExpectedStaleWins \cup ExpectedDupRisky)

Exact == Captured(summary) = ExpectedStaleWins

\* The counters account for every group, or the study raises.
Counted == summary.gated + summary.audited = summary.groups

Cleared == summary.gated = summary.groups

-----------------------------------------------------------------------------
\* The studies.

\* Every version of a key is in the one group.
OneGroup == groups = {FilesOf(scanned)}

\* validate_oracle_guard: duplicates injected or not, either ordering, split
\* files; the guard off only where the trap must fire.
OracleGuardRun ==
    /\ OneGroup /\ OracleValid /\ opts.gate /\ ~opts.cross /\ cfg.C > 1
    /\ ~opts.guard => cfg.inverted /\ cfg.nDup > 0

OracleGuardChecks ==
    /\ LiveRowsMatch
    /\ Misses = {} /\ OtherFalsePositives = {}
    /\ opts.guard => FromDuplicates = {}
    /\ ~opts.guard => ExpectedDupRisky # {} /\ FromDuplicates = ExpectedDupRisky

\* bench_scale_correctness: inverted, duplicates, default options.
ScaleRun ==
    /\ OneGroup /\ OracleValid /\ opts = Defaults
    /\ cfg.inverted /\ cfg.nDup > 0

ScaleChecks ==
    LiveRowsMatch /\ FromDuplicates = {} /\ OtherFalsePositives = {} /\ ExpectedDupRisky # {}

\* validate_closed_form_live_rows: inverted, no duplicate.
ClosedFormRun == OneGroup /\ OracleValid /\ opts = Defaults /\ cfg.inverted /\ cfg.nDup = 0

ClosedFormChecks == LiveRowsMatch

\* regress_gate_behaviour: one file a commit, either ordering.  With one row a
\* commit, or one commit, the inverted ordering inverts nothing.
RegressRun ==
    /\ OneGroup /\ OracleValid /\ opts = Defaults
    /\ cfg.files = 1 /\ cfg.nDup = 0 /\ (cfg.inverted => cfg.C > 1 /\ cfg.R > 1)

RegressChecks ==
    /\ Counted /\ LiveRowsMatch
    /\ ~cfg.inverted => Cleared /\ summary.keys = {}
    /\ cfg.inverted => summary.gated = 0 /\ Exact

\* bench_gate_contiguous: the ungated arm audits a contiguous table for nothing.
GateContiguousRun == OneGroup /\ OracleValid /\ cfg.nDup = 0 /\ ~cfg.inverted /\ ~opts.cross

GateContiguousChecks ==
    /\ Counted /\ summary.keys = {}
    /\ IF opts.gate THEN Cleared ELSE summary.gated = 0

\* probe_gate_filelayout: blocks or scattered keys, several groups, one commit
\* among the runs.  The values are the same in each, and so must clearance be.
FileLayoutRun == OracleValid /\ cfg.nDup = 0 /\ ~cfg.inverted /\ opts = Defaults

FileLayoutChecks == Counted /\ LiveRowsMatch /\ Cleared

\* sweep_gate_selectivity: interleaving over a contiguous table, group by group.
SweepRun == cfg.nDup = 0 /\ ~cfg.inverted /\ opts = Defaults

SweepChecks == Counted /\ (OracleValid => Cleared)

\* diagnose_clearance_nondeterminism: the one-seed run of the sweep; only the
\* order in which planning delivers the files differs between its repeats.
ClearanceRun == SweepRun /\ ~OracleValid

\* bench_scale_groups: the group cap binds; per group or merged.
ScaleGroupsRun == OracleValid /\ cfg.inverted /\ opts.gate /\ opts.guard /\ opts.failClosed

ScaleGroupsChecks == FromDuplicates = {} /\ OtherFalsePositives = {} /\ LiveRowsMatch

\* bench_straddle_repeat: the same table, each mode repeated.
StraddleRepeatRun == OracleValid /\ cfg.inverted /\ opts.gate /\ opts.guard

\* diagnose_straddle_fp: the whole history of a key, in closed form.
ClassifyKey(k) ==
    LET first == FirstSurvivor(LastDelete(k))
        dup == k \in DupKeys
        surv == {Lsn(c, k) : c \in first..cfg.C}
                  \cup (IF dup THEN {LsnBase(cfg.C) + DupLsnOff + k - 1} ELSE {})
        disc == {Lsn(c, k) : c \in 1..first - 1} \cup (IF dup THEN {HighLsn + k - 1} ELSE {})
    IN  [survivors |-> cfg.C - first + 1 + (IF dup THEN 1 ELSE 0),
         violation |-> /\ cfg.C - first + 1 + (IF dup THEN 1 ELSE 0) = 1
                       /\ disc # {} /\ Max(disc) > Max(surv)]

-----------------------------------------------------------------------------
\* Properties.

\* Each study's checks pass on every run of it with one file group: the closed
\* form predicts the rows a reader sees, the audit finds every stale win the
\* closed form derives and nothing else, and without the survivor guard it is
\* fooled by exactly the keys the closed form calls duplicate-risky.
OneGroupStudiesPass ==
    Done => /\ OracleGuardRun => OracleGuardChecks
            /\ ScaleRun => ScaleChecks
            /\ ClosedFormRun => ClosedFormChecks
            /\ RegressRun => RegressChecks
            /\ GateContiguousRun => GateContiguousChecks

\* Commits that write advancing windows are cleared, whatever the number of
\* files, however the keys are spread over them and whichever files the planner
\* puts together; a single commit is, too.
ContiguousIsCleared ==
    Done => /\ FileLayoutRun => FileLayoutChecks
            /\ SweepRun => SweepChecks

\* Judged group by group (and not abstaining), the audit errs only on keys whose
\* versions do not share a group: it misses those it never sees together, and
\* flags those of which a group holds a single one of several survivors or only
\* older ones.  The key's own history, in closed form, says which.  With the default
\* options, or merged across every group, nothing is flagged wrongly.
ErrorsStraddle ==
    Done =>
        /\ StraddleRepeatRun /\ ~opts.cross =>
               /\ \A k \in Misses : summary.decided => Straddles(scanned, groups, k)
               /\ \A k \in Captured(summary) \ ExpectedStaleWins : Straddles(scanned, groups, k)
               /\ \A k \in Keys : ClassifyKey(k).violation <=> k \in ExpectedStaleWins
        /\ ScaleGroupsRun /\ UNION groups = FilesOf(scanned) => ScaleGroupsChecks

\* Over one group, or merged across groups with none left out, the verdict is what
\* the checker finds in the layout the audit scanned, interleaved rows included: the
\* gate cleared nothing it should not, and it does not matter how the files fell.
VerdictIsTheCheckers ==
    Done /\ opts.guard /\ UNION groups = FilesOf(scanned) /\ (OneGroup \/ opts.cross) =>
        Captured(summary) = StaleWinsKeys(scanned)

\* Each study that writes its table by hand finds its checks met: the clean
\* tables are cleared by the gate, the corrupt ones are audited and their one
\* stale win found, and a group without the key's survivor reports nothing.
TablesAsExpected ==
    study # "synthetic" /\ summary.present =>
        CASE study \in {"m3_clean", "m3_corrupt"} -> M3Checks(study, summary)
          [] study \in {"metrics_clean", "metrics_corrupt"} -> MetricChecks(study, scanned, summary)
          [] study = "clean_control" -> CleanControlChecks(scanned, summary)
          [] OTHER -> SurvivorChecks(scanned, summary)

\* The prediction of sweep_gate_selectivity: one out-of-window row anywhere in a
\* group is enough to defeat the gate for it.
OneOutlierDefeatsGate ==
    Done /\ ClearanceRun =>
        \A g \in groups :
            (\E r \in GroupRows(scanned, g) : r.ver \notin {Lsn(r.commit, k) : k \in Keys})
                => g \in Audited(scanned, groups, opts)
=============================================================================
