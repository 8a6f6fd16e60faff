-------------------------- MODULE IcebergMaintenance --------------------------
(***************************************************************************)
(* An Iceberg table under maintenance, down to the files it is made of: the*)
(* studies that rewrite its data files, expire its snapshots, remove its   *)
(* orphan files and ask what is left of the evidence                       *)
(* (cost-study/studies/run_compaction_timetravel.py,                       *)
(* run_compaction_masking_sweep.py, audit/test_puffin_spill.py,            *)
(* audit/run_orphan_cleanup.py, audit/probe_rewrite_delete_retention.py).  *)
(*                                                                         *)
(* Each operation runs in a process of its own, one after the other.  An   *)
(* object is a file of the table directory: a data file, a delete file, the*)
(* manifests of a snapshot, a statistics blob, or a sidecar that nothing in*)
(* the metadata names.  Metadata files are never removed.                  *)
(***************************************************************************)
EXTENDS IcebergAdapter, Sequences

CONSTANTS
    IceKeys,
    Versions,            \* values of the version column
    MaxSnapshots,        \* bound: snapshots of the table
    MaxAppends,          \* bound: commits of the writer
    MaxRowsPerCommit,    \* bound: rows of one commit
    MaxParts,            \* bound: data files of one commit
    MaxDeletes,          \* bound: keys one commit deletes
    MaxDeaths,           \* bound: rewrites that die
    IceMinFiles          \* the planner rewrites no group of fewer files

ASSUME MaintenanceAssumption ==
    /\ IsFiniteSet(IceKeys) /\ IsFiniteSet(Versions) /\ Versions \subseteq Nat \cup {NoVersion}
    /\ MaxParts \in Nat /\ IceMinFiles \in Nat \ {0}

VARIABLES
    history,       \* the table of each snapshot ever committed, by its id
    summaries,     \* each snapshot's summary: its operation, and the verdict it carries
    retained,      \* the snapshots in the current metadata
    registered,    \* the snapshots whose statistics file the metadata names
    disk,          \* the objects in the table directory
    deaths         \* the rewrites that died: before their commit, or before they registered

iceVars == <<history, summaries, retained, registered, disk, deaths>>

-----------------------------------------------------------------------------
\* Objects, and what the metadata reaches.

Manifests(i) == [kind |-> "manifests", at |-> <<i, 0>>]

Blob(i) == [kind |-> "blob", at |-> <<i, 0>>]

Sidecar == [kind |-> "sidecar", at |-> <<0, 0>>]

DataObject(file) == [kind |-> "data", at |-> file]

DeleteObject(seq) == [kind |-> "deletes", at |-> <<seq, 0>>]

Current == Len(history)

TableNow == IF history = <<>> THEN EmptyTable ELSE history[Current]

IceFiles(table) == {r.file : r \in table.data}

ObjectsOf(i) ==
    {Manifests(i)} \cup {DataObject(f) : f \in IceFiles(history[i])}
                   \cup {DeleteObject(d.seq) : d \in history[i].dels}

Reachable == (UNION {ObjectsOf(i) : i \in retained}) \cup {Blob(i) : i \in registered}

\* A snapshot is read through any metadata file that names it, an old one too.
CanRead(i) == ObjectsOf(i) \subseteq disk

Appended == [operation |-> "append", verdict |-> "none", keys |-> {}]

\* Whether a reader gets at the verdict of snapshot i.
VerdictReadable(i) ==
    \/ summaries[i].verdict = "inline"
    \/ summaries[i].verdict = "spilled" /\ i \in registered /\ Blob(i) \in disk

-----------------------------------------------------------------------------
IceInit ==
    /\ history = <<>>
    /\ summaries = <<>>
    /\ retained = {}
    /\ registered = {}
    /\ disk = {}
    /\ deaths = {}

\* A new snapshot, and the files it brings.
AddSnapshot(table, summary, files) ==
    /\ history' = Append(history, table)
    /\ summaries' = Append(summaries, summary)
    /\ retained' = retained \cup {Current + 1}
    /\ disk' = disk \cup files \cup {Manifests(Current + 1)}

NewFile == [part : 1..MaxParts, key : IceKeys, ver : Versions]

\* The writer of the studies: data files and equality deletes in one commit.
CommitRows ==
    /\ Current < MaxSnapshots
    /\ Cardinality({i \in DOMAIN history : summaries[i].operation = "append"}) < MaxAppends
    /\ \E n \in 0..MaxRowsPerCommit, m \in 0..MaxDeletes :
       \E rows \in kSubset(n, NewFile), deletes \in kSubset(m, IceKeys) :
        LET id == Current + 1
            added == {[commit |-> id, part |-> r.part, key |-> r.key, ver |-> r.ver,
                       file |-> <<id, r.part>>, seq |-> id] : r \in rows}
        IN  /\ n + m > 0
            /\ AddSnapshot([data |-> TableNow.data \cup added,
                            dels |-> TableNow.dels \cup {[key |-> k, seq |-> id] : k \in deletes}],
                           Appended,
                           {DataObject(r.file) : r \in added}
                               \cup {DeleteObject(id) : k \in deletes})
    /\ UNCHANGED <<registered, deaths>>

\* Mutant: the rewrite copies the rows that its delete files remove.
RewrittenRows_Everything(table) == {[r EXCEPT !.file = <<Current + 1, 1>>, !.seq = Current] : r \in table.data}

\* The live rows, in one file that carries the starting sequence number.
RewrittenRows(table) == {[r EXCEPT !.file = <<Current + 1, 1>>, !.seq = Current] : r \in LiveRows(table)}

\* A delete file may go once every data file is younger.  The filter works by
\* manifest and takes some of them only; which ones the probe could not predict.
Droppable(table) ==
    {d.seq : d \in {e \in table.dels : \A r \in RewrittenRows(table) : e.seq < r.seq}}

RewrittenTable(dropped) ==
    [data |-> RewrittenRows(TableNow), dels |-> {d \in TableNow.dels : d.seq \notin dropped}]

BinPacks == Cardinality(IceFiles(TableNow)) >= IceMinFiles

NewFiles == {DataObject(r.file) : r \in RewrittenRows(TableNow)}

\* The verdict of an audited rewrite, in the summary or in a blob; the stock
\* rewrite has none.
Replaced(how) ==
    [operation |-> "replace", verdict |-> how,
     keys |-> IF how = "none" THEN {} ELSE StaleWinsKeys(TableNow)]

\* rewrite_data_files; a spilled verdict is registered before the call returns.
Rewrite(how) ==
    /\ Current < MaxSnapshots
    /\ BinPacks
    /\ \E dropped \in SUBSET Droppable(TableNow) :
        AddSnapshot(RewrittenTable(dropped), Replaced(how),
                    NewFiles \cup (IF how = "spilled" THEN {Blob(Current + 1)} ELSE {}))
    /\ registered' = IF how = "spilled" THEN registered \cup {Current + 1} ELSE registered
    /\ UNCHANGED deaths

\* The process dies: before the commit, which leaves the new data files, or after
\* it and before the spilled verdict is registered, which leaves its blob.
RewriteDies ==
    /\ Current < MaxSnapshots
    /\ BinPacks
    /\ Cardinality(deaths) < MaxDeaths
    /\ \/ /\ deaths' = deaths \cup {[snapshot |-> Current + 1, before |-> "commit"]}
          /\ disk' = disk \cup {DataObject(<<Current + 1, 0>>)}
          /\ UNCHANGED <<history, summaries, retained>>
       \/ /\ deaths' = deaths \cup {[snapshot |-> Current + 1, before |-> "registering"]}
          /\ \E dropped \in SUBSET Droppable(TableNow) :
                AddSnapshot(RewrittenTable(dropped), Replaced("spilled"),
                            NewFiles \cup {Blob(Current + 1)})
    /\ UNCHANGED registered

\* What the expired snapshots alone need, their statistics included.
ExpiredObjects ==
    ((UNION {ObjectsOf(i) : i \in retained \ {Current}}) \cup {Blob(i) : i \in registered \ {Current}})
        \ ObjectsOf(Current)

\* expire_snapshots(retain_last => 1), older than any snapshot.
ExpireSnapshots ==
    /\ history # <<>>
    /\ disk' = disk \ ExpiredObjects
    /\ retained' = {Current}
    /\ registered' = registered \cap {Current}
    /\ UNCHANGED <<history, summaries, deaths>>

\* A copy of the verdict that nothing in the metadata names.
WriteSidecar ==
    /\ \E i \in retained : summaries[i].verdict # "none"
    /\ disk' = disk \cup {Sidecar}
    /\ UNCHANGED <<history, summaries, retained, registered, deaths>>

\* Mutant: what no snapshot names is an orphan.
Orphans_Statistics == disk \ UNION {ObjectsOf(i) : i \in retained}

Orphans == disk \ Reachable

\* deleteOrphanFiles with a cutoff in the future, so that no file is too young;
\* the script fails when there is nothing to delete.
RemoveOrphanFiles ==
    /\ Orphans # {}
    /\ disk' = disk \ Orphans
    /\ UNCHANGED <<history, summaries, retained, registered, deaths>>

IceNext ==
    \/ CommitRows
    \/ \E how \in {"none", "inline", "spilled"} : Rewrite(how)
    \/ RewriteDies
    \/ ExpireSnapshots
    \/ WriteSidecar
    \/ RemoveOrphanFiles

IceSpec == IceInit /\ [][IceNext]_iceVars

-----------------------------------------------------------------------------
\* The masking study: the checker on one table before and after its rewrite.

VerdictOf(table, k) ==
    IF k \in LayoutKeys(table) THEN Classify(Layout(table, k, TRUE, FALSE)) ELSE "ABSENT"

Replacements == {i \in DOMAIN history : summaries[i].operation = "replace"}

\* What becomes of a key: a stale win or a key that is absent for good turns
\* FAITHFUL, or is seen no more.
MaskedVerdicts(table, k) ==
    CASE VerdictOf(table, k) \in {"FAITHFUL", "NEEDS_CONTEXT"} -> {"FAITHFUL", "ABSENT"}
      [] VerdictOf(table, k) = "STALE_WINS" -> {"FAITHFUL"}
      [] OTHER -> {VerdictOf(table, k)}

-----------------------------------------------------------------------------
\* Properties.

\* After a rewrite the checker finds every stale win FAITHFUL and every duplicate a
\* DUPLICATE; a key without a surviving row is either seen no more or, while one of
\* its delete files is still there, FAITHFUL (README.md: 5,440 of 5,440, 773 of 773,
\* 1,898 disappear and 4 resolve to FAITHFUL).
MaskingOutcome ==
    \A i \in Replacements, k \in IceKeys :
        /\ VerdictOf(history[i], k) \in MaskedVerdicts(history[i - 1], k)
        /\ VerdictOf(history[i - 1], k) = "NEEDS_CONTEXT" /\ VerdictOf(history[i], k) = "FAITHFUL" =>
               \E d \in history[i].dels : d.key = k

\* The verdict outlives the evidence: while the snapshot of a rewrite is retained,
\* its verdict can be read and names every stale win the rewrite made invisible, even
\* when the snapshots that showed them are gone.  A rewrite that died before it
\* registered its blob is excepted (test_puffin_spill.py:7-12, README.md "Persistence").
\* Every file the metadata names is there, so a snapshot can be read exactly while it
\* is retained, through whatever old metadata file (run_compaction_timetravel.py:17-23).
VerdictOutlivesEvidence ==
    /\ Reachable \subseteq disk
    /\ \A i \in DOMAIN history : CanRead(i) <=> i \in retained
    /\ \A i \in retained :
           summaries[i].verdict # "none" =>
               /\ summaries[i].keys = StaleWinsKeys(history[i - 1])
               /\ VerdictReadable(i) <=> [snapshot |-> i, before |-> "registering"] \notin deaths

SnapshotsOf(operation) == {i \in DOMAIN summaries : summaries[i].operation = operation}

IceLife ==
    INSTANCE EvidenceLife WITH
        CopyOnWrite <- FALSE,
        writes      <- SnapshotsOf("append"),
        rewrites    <- SnapshotsOf("replace"),
        content     <- Content(LiveRows(TableNow)),
        visible     <- Content(TableNow.data),
        recoverable <- UNION {Content(history[i].data) : i \in {j \in DOMAIN history : CanRead(j)}}

\* A rewrite, registered or not, takes the superseded versions and nothing else out of
\* the current snapshot, serves the same rows as before and loses no version; expiry
\* and orphan removal lose versions of earlier snapshots and change nothing in the
\* current one; the writer's commits keep every version in it, and serve none again
\* that was superseded (run_compaction_timetravel.py:1-24, README.md "Compaction
\* masking, in detail").
IcebergKeepsEvidence == IceLife!LifeSpec
=============================================================================
