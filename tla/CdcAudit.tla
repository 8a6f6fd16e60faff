------------------------------ MODULE CdcAudit ------------------------------
(***************************************************************************)
(* Harness runs that compact with the audit on: the studies that compare   *)
(* the verdict in the snapshot summary with the oracle of the same run     *)
(* (validate_audit, validate_audit_8cell, validate_m4_correctness,         *)
(* validate_phase5_multigroup, validate_crossgroup and                     *)
(* measure_straddle_rate in cost-study/studies/audit).                     *)
(***************************************************************************)
EXTENDS CdcIceberg, AuditGroups

CONSTANTS
    GroupCap,      \* max-file-group-size-bytes, in files
    StudyOptions   \* bound: the options runs are made with

\* The option that lifts the single-survivor guard is for tests only (patch 222), and no
\* study of a harness run passes it.
ASSUME CdcAuditAssumption ==
    /\ GroupCap \in Nat
    /\ StudyOptions \subseteq Options /\ \A o \in StudyOptions : o.guard

VARIABLES
    groups,    \* the groups of the audited rewrite
    scanned,   \* the table it read
    summary    \* the summary of the current snapshot

auditVars == <<groups, scanned, summary>>

AuditInit ==
    /\ Init
    /\ groups = {} /\ scanned = EmptyTable /\ summary = NoSummary

\* With the flag off the summary has no audit property.
CompactUnaudited == Compact /\ UNCHANGED auditVars

CompactAudited ==
    /\ Compact
    /\ compacted' = "rewritten"
    /\ scanned' = table
    /\ \E o \in StudyOptions, cap \in {GroupCap, Cardinality(FilesOf(table))} :
        \E plan \in Plans(FilesOf(table), cap, 1, 2) :
            /\ UNION plan = FilesOf(table)
            /\ groups' = plan
            /\ summary' = Summary(table, plan, o)

AuditNext ==
    \/ /\ \/ PlanNext /\ UNCHANGED <<next, commits, table, compacted>>
          \/ CommitCheckpoint
          \/ Reconcile
       /\ UNCHANGED auditVars
    \/ CompactUnaudited
    \/ CompactAudited

AuditSpec == AuditInit /\ [][AuditNext]_<<vars, auditVars>>

-----------------------------------------------------------------------------
\* What the studies compare.

OracleStale == {k \in Keys : OracleVerdict(k) = "STALE_WINS"}

FalsePositives == Captured(summary) \ OracleStale

Missed == OracleStale \ Captured(summary)

\* Neighbours out of order and copies are the only knobs of these studies.
StudyKnobs == ~config.schema /\ config.coarsening = 1

\* validate_audit and the cells of validate_audit_8cell: the default options and a
\* table small enough for one group.
ExactRun == StudyKnobs /\ summary.present /\ groups = {FilesOf(scanned)} /\ ~summary.crossGroup

ExactChecks == FalsePositives = {} /\ Missed = {}

\* validate_m4_correctness: a clean stream, nothing to find.
CleanRun == ExactRun /\ ~config.outOfOrder

CleanChecks == Captured(summary) = {} /\ OracleStale = {}

\* validate_crossgroup: the keys merged over the groups.
CrossGroupRun == StudyKnobs /\ summary.present /\ summary.crossGroup

CrossGroupChecks == FalsePositives = {} /\ Missed = {}

\* validate_phase5_multigroup: group by group, and not abstaining.
MultigroupRun == StudyKnobs /\ summary.decided /\ ~summary.crossGroup

\* measure_straddle_rate: the keys whose files the plan separates.
StraddlingKeys == {k \in Keys : Straddles(scanned, groups, k)}

MultigroupChecks == FalsePositives \cup Missed \subseteq StraddlingKeys

\* With one group, or merged across groups, the verdict read from the summary is
\* the oracle's set of stale wins: the audit knows only the layout, the oracle
\* only the stream and the rows read back.  Judged group by group, and not
\* abstaining, it errs only on straddling keys.
AuditMatchesOracle ==
    /\ ExactRun => ExactChecks
    /\ CleanRun => CleanChecks
    /\ CrossGroupRun => CrossGroupChecks
    /\ MultigroupRun => MultigroupChecks
=============================================================================
