---------------------------- MODULE DeltaHistory ----------------------------
(***************************************************************************)
(* A Delta table under maintenance, as the Delta probes drive it           *)
(* (cost-study/studies/delta/): MERGE writes whole files anew, OPTIMIZE    *)
(* packs the current files into one, VACUUM deletes files that earlier     *)
(* versions stand on.  The log keeps every commit; a version is read by    *)
(* replaying the adds and removes up to it and opening what is left.       *)
(***************************************************************************)
EXTENDS Naturals, Sequences, FiniteSets, FiniteSetsExt

CONSTANTS
    DeltaKeys,
    MaxVersions      \* bound: commits in the log

VARIABLES
    log,             \* the commits: files added and removed, change files, operation
    changeFeed,      \* the table records change data
    stored,          \* the files in the table directory
    aged,            \* the files retired longer ago than the retention
    checkRetention,  \* retentionDurationCheck.enabled in the session
    changed          \* what the writes changed, by version; no file holds it

deltaVars == <<log, changeFeed, stored, aged, checkRetention, changed>>

-----------------------------------------------------------------------------
\* A file is named by its version and number and carries its rows; a row is a
\* key and the version that wrote it.

Version == Len(log)

LogAdds(v) == UNION {log[i].add : i \in 1..v}

LogRemoves(v) == UNION {log[i].remove : i \in 1..v}

VersionFiles(v) == LogAdds(v) \ LogRemoves(v)

CurrentFiles == VersionFiles(Version)

VersionRows(v) == UNION {f.rows : f \in VersionFiles(v)}

\* A read that opens data files, in a process that has cached none.
ReadableVersion(v) == VersionFiles(v) \subseteq stored

Superseded == LogAdds(Version) \cap LogRemoves(Version)

DataFile(rows) == [kind |-> "data", at |-> Version + 1, rows |-> rows]

ChangeFile(rows) == [kind |-> "change", at |-> Version + 1, rows |-> rows]

ChangeFiles(v) == UNION {log[i].cdc : i \in 1..v}

-----------------------------------------------------------------------------
DeltaInit ==
    /\ log = <<[operation |-> "CREATE", add |-> {}, remove |-> {}, cdc |-> {}, dataChange |-> TRUE]>>
    /\ changeFeed \in BOOLEAN
    /\ stored = {}
    /\ aged = {}
    /\ checkRetention = TRUE
    /\ changed = {}

LogCommit(operation, add, remove, cdc, dataChange) ==
    /\ Version < MaxVersions
    /\ log' = Append(log, [operation |-> operation, add |-> add, remove |-> remove,
                           cdc |-> cdc, dataChange |-> dataChange])
    /\ stored' = stored \cup add \cup cdc

Change(type, row) == [at |-> Version + 1, type |-> type, row |-> row]

\* INSERT INTO appends one file.
InsertRows(keys) ==
    LET rows == {[key |-> k, ver |-> Version + 1] : k \in keys}
    IN  /\ \A r \in VersionRows(Version) : r.key \notin keys
        /\ LogCommit("WRITE", {DataFile(rows)}, {}, {}, TRUE)
        /\ changed' = changed \cup {Change("insert", r) : r \in rows}
        /\ UNCHANGED <<changeFeed, aged, checkRetention>>

\* MERGE: every file with a matched row is written anew, its other rows copied;
\* keys not matched are inserted.  With the change feed on, what changed is written
\* to change files beside them.
MergeRows(keys) ==
    LET touched == {f \in CurrentFiles : \E r \in f.rows : r.key \in keys}
        before == {r \in UNION {f.rows : f \in touched} : r.key \in keys}
        after == {[key |-> k, ver |-> Version + 1] : k \in keys}
        rows == ((UNION {f.rows : f \in touched}) \ before) \cup after
        changes == {Change("update_preimage", r) : r \in before}
                   \cup {Change(IF \E q \in before : q.key = r.key THEN "update_postimage" ELSE "insert", r) :
                         r \in after}
    IN  /\ LogCommit("MERGE", {DataFile(rows)}, touched,
                     IF changeFeed THEN {ChangeFile(changes)} ELSE {}, TRUE)
        /\ changed' = changed \cup changes
        /\ UNCHANGED <<changeFeed, aged, checkRetention>>

\* Mutant: the packed files pass for a change of data.
Optimize_DataChange ==
    /\ Cardinality(CurrentFiles) > 1
    /\ LogCommit("OPTIMIZE", {DataFile(VersionRows(Version))}, CurrentFiles, {}, TRUE)
    /\ UNCHANGED <<changeFeed, aged, checkRetention, changed>>

\* OPTIMIZE packs the current files into one and leaves the old ones where they are.
\* With one file there is nothing to pack and no commit at all.
Optimize ==
    /\ Cardinality(CurrentFiles) > 1
    /\ LogCommit("OPTIMIZE", {DataFile(VersionRows(Version))}, CurrentFiles, {}, FALSE)
    /\ UNCHANGED <<changeFeed, aged, checkRetention, changed>>

\* The files retired so far, and the change files, pass the retention.
RetentionPasses ==
    /\ aged' = Superseded \cup ChangeFiles(Version)
    /\ aged' # aged
    /\ UNCHANGED <<log, changeFeed, stored, checkRetention, changed>>

\* spark.conf.set(retentionDurationCheck.enabled, false).
DisableCheck ==
    /\ checkRetention
    /\ checkRetention' = FALSE
    /\ UNCHANGED <<log, changeFeed, stored, aged, changed>>

\* Mutant: whatever is old enough goes, though the current version reads it.
Deletable_ByAge(hours) == IF hours = 0 THEN stored ELSE stored \cap aged

\* Files on disk that the current version does not read; old enough, unless the
\* retention is zero.
Deletable(hours) == (IF hours = 0 THEN stored ELSE stored \cap aged) \ CurrentFiles

\* VACUUM, at the default retention or RETAIN 0 HOURS, which the check refuses.  In
\* the history it is a commit that adds and removes nothing.
Vacuum(hours) ==
    /\ hours = 0 => ~checkRetention
    /\ Version < MaxVersions
    /\ log' = Append(log, [operation |-> "VACUUM", add |-> {}, remove |-> {}, cdc |-> {}, dataChange |-> FALSE])
    /\ stored' = stored \ Deletable(hours)
    /\ UNCHANGED <<changeFeed, aged, checkRetention, changed>>

DeltaNext ==
    \/ \E keys \in (SUBSET DeltaKeys) \ {{}} : InsertRows(keys) \/ MergeRows(keys)
    \/ Optimize
    \/ RetentionPasses
    \/ DisableCheck
    \/ \E hours \in {0, 168} : Vacuum(hours)

DeltaSpec == DeltaInit /\ [][DeltaNext]_deltaVars

-----------------------------------------------------------------------------
\* The change feed from the first version, as a reader puts it together: the
\* change files of a commit if it has any, else its adds and removes, unless the
\* commit says that they change no data.

FeedOf(i) ==
    IF ~log[i].dataChange THEN {}
    ELSE IF log[i].cdc # {} THEN UNION {f.rows : f \in log[i].cdc}
    ELSE {[at |-> i, type |-> "insert", row |-> r] : r \in UNION {f.rows : f \in log[i].add}}
         \cup {[at |-> i, type |-> "delete", row |-> r] : r \in UNION {f.rows : f \in log[i].remove}}

Feed == UNION {FeedOf(i) : i \in DOMAIN log}

-----------------------------------------------------------------------------
\* Properties.

\* With the change feed on, the feed tells exactly what the writes changed: OPTIMIZE
\* adds nothing to it and MERGE's copied rows do not show (probe_delta_optimize.py:107-110).
FeedIsWhatWritesChanged == changeFeed => Feed = changed

CommitsOf(operations) == {v \in DOMAIN log : log[v].operation \in operations}

DeltaLife ==
    INSTANCE EvidenceLife WITH
        CopyOnWrite <- TRUE,
        writes      <- CommitsOf({"WRITE", "MERGE"}),
        rewrites    <- CommitsOf({"OPTIMIZE"}),
        content     <- VersionRows(Version),
        visible     <- VersionRows(Version),
        recoverable <- UNION {VersionRows(v) : v \in {u \in DOMAIN log : ReadableVersion(u)}}

\* OPTIMIZE leaves every row as it is and destroys no version; VACUUM takes versions
\* the current one has no row of, and no row of the current one; INSERT and MERGE
\* destroy nothing and lose no key, a matched row giving way to the merged one and the
\* rows copied beside it (probe_delta_vacuum.py C2, C5, C6).
DeltaKeepsEvidence == DeltaLife!LifeSpec
=============================================================================
