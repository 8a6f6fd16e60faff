---------------------------- MODULE AuditTables ----------------------------
(***************************************************************************)
(* The tables the audit studies write by hand, each with the files the     *)
(* compaction selects, its options, and what the study expects of the      *)
(* summary.  A commit is the rows <<key, ordering value>> of one file and  *)
(* the keys of one equality delete file.                                   *)
(***************************************************************************)
EXTENDS AuditGroups, Sequences

HandCommit(rows, deletes) == [rows |-> rows, deletes |-> deletes]

HandRow(c, r) ==
    [commit |-> c, part |-> 1, key |-> r[1], ver |-> r[2], file |-> <<c, 1>>, seq |-> c]

-----------------------------------------------------------------------------
\* validate_m3_contiguous: one key a commit.  In the corrupt table commit 9
\* carries key 10 at a value its own survivor in commit 10 does not reach.

M3Clean == [c \in 1..10 |-> HandCommit({<<c, c>>}, {})]

M3Corrupt ==
    [M3Clean EXCEPT ![9] = HandCommit({<<9, 9>>, <<10, 12>>}, {}),
                    ![10] = HandCommit({<<10, 11>>}, {10})]

\* gate_metrics_registration: six commits of every key, each deleting the keys
\* of the one before; in the corrupt table one version out-orders its survivor.

MetricKeys == 5..9

MetricLsn(corrupt, c, k) == IF corrupt /\ c = 5 /\ k = 7 THEN 99999 ELSE k + c * 1000

MetricCommits(corrupt) ==
    [c \in 1..6 |-> HandCommit({<<k, MetricLsn(corrupt, c, k)>> : k \in MetricKeys},
                               IF c > 1 THEN MetricKeys ELSE {})]

\* probe_gate_on_phase8: the clean control, in the shape of the real table.

ControlKeys == 1..5

ControlLsn(c, k) == 24000000 + c * 1000 + k

CleanControl ==
    [c \in 1..4 |-> HandCommit({<<k, ControlLsn(c, k)>> : k \in ControlKeys},
                               IF c > 1 THEN ControlKeys ELSE {})]

\* probe_group_survivor_semantics: three versions of one key.

ThreeVersions ==
    <<HandCommit({<<1, 50>>}, {}), HandCommit({<<1, 10>>}, {1}), HandCommit({<<1, 100>>}, {1})>>

-----------------------------------------------------------------------------
HandTables ==
    [m3_clean |-> M3Clean, m3_corrupt |-> M3Corrupt,
     metrics_clean |-> MetricCommits(FALSE), metrics_corrupt |-> MetricCommits(TRUE),
     clean_control |-> CleanControl, survivor |-> ThreeVersions]

\* The files a rewrite's filter selects: lsn <= 50 in the survivor probe.
Selected(study, table) ==
    IF study = "survivor" THEN {f \in FilesOf(table) : \A r \in table.data : r.file = f => r.ver <= 50}
    ELSE FilesOf(table)

HandOptions(study) == IF study = "survivor" THEN [Defaults EXCEPT !.gate = FALSE] ELSE Defaults

\* Every file has the bounds the gate needs, and there are sequence numbers to compare.
GateCanJudge(table) ==
    /\ Cardinality(SeqsOf(table, FilesOf(table))) >= 2
    /\ \A f \in FilesOf(table) : VersionsOf({r \in table.data : r.file = f}) # {}

\* The bounds registered with a file are those of the rows of its commit.
MetricBounds(table) ==
    /\ Cardinality(FilesOf(table)) = 6
    /\ Cardinality({d.seq : d \in table.dels}) = 5
    /\ \A c \in 1..6 :
        LET span == SeqSpan(table, {<<c, 1>>}, c)
        IN  Min(span) = 5 + c * 1000 /\ Max(span) = 9 + c * 1000

M3Checks(study, summary) ==
    IF study = "m3_clean" THEN summary.gated = 1 /\ summary.keys = {}
    ELSE summary.audited = 1 /\ Cardinality(summary.keys) = 1

MetricChecks(study, table, summary) ==
    IF study = "metrics_clean" THEN MetricBounds(table) /\ summary.gated = 1
    ELSE summary.audited = 1 /\ Cardinality(summary.keys) = 1

CleanControlChecks(table, summary) ==
    GateCanJudge(table) /\ summary.gated = summary.groups /\ summary.groups > 0

\* No survivor is elected from among rows that deletes of the whole table
\* discard: the group reports nothing for the key.
SurvivorChecks(table, summary) ==
    /\ VersionsOf(LiveRows(table)) = {100}
    /\ summary.groups >= 1 /\ summary.audited >= 1 /\ summary.keys = {}
=============================================================================
