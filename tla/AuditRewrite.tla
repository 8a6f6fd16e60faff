---------------------------- MODULE AuditRewrite ----------------------------
(***************************************************************************)
(* The audited rewrite: Iceberg's rewrite_data_files with the stale-wins   *)
(* audit patched in (cost-study/studies/audit/                             *)
(* iceberg-1.10.2-stale-wins-audit.patch).                                 *)
(*                                                                         *)
(* A writer commits data files and equality deletes.  The rewrite action   *)
(* pins a starting snapshot, partitions its files into groups, and rewrites*)
(* each group; a group that is not cleared by the metadata gate contributes*)
(* its per-key findings to accumulators that every group shares.  The      *)
(* commit carries the verdict in the snapshot summary; a verdict too large *)
(* for the summary is written to a blob and registered by a second commit. *)
(*                                                                         *)
(* Snapshot i is snapshots[i]; its id and its sequence number are both i.  *)
(* The groups of one rewrite run on several threads, but a group touches   *)
(* the shared accumulators only through atomic increments, appends and     *)
(* per-key merges that commute, and they are read after every group has    *)
(* ended: one group is one step.                                           *)
(***************************************************************************)
EXTENDS IcebergAdapter, Sequences

CONSTANTS
    Keys,
    Versions,             \* values of the ordering column, NoVersion among them if it is nullable
    MaxCommits,           \* bound: the writer commits while the table has fewer snapshots
    MaxRowsPerCommit,     \* bound: rows in one commit of the writer
    MaxRows,              \* bound: rows in the table when the writer commits
    MaxParts,             \* bound: data files of one commit of the writer
    MaxRewrites,          \* bound: rewrites that commit
    MaxGroups,            \* bound: file groups of one rewrite
    SpillThreshold,       \* keys the summary holds before the list is spilled
    AuditGate,            \* option audit-gate
    AuditCrossGroup,      \* option audit-cross-group
    AuditRequireSingleSurvivor,   \* option audit-require-single-survivor
    AuditFailClosed,      \* option audit-fail-closed
    PartialSelection,     \* the planner may leave files of the snapshot out of the rewrite
    ConcurrentCommits,    \* the writer commits while a rewrite is under way
    CanFail               \* a rewrite may be abandoned part-way

ASSUME KeysAssumption == IsFiniteSet(Keys)

ASSUME VersionsAssumption == Versions \subseteq Nat \cup {NoVersion}

ASSUME BoundsAssumption ==
    {MaxCommits, MaxRowsPerCommit, MaxRows, MaxParts, MaxRewrites, MaxGroups, SpillThreshold}
        \subseteq Nat

ASSUME OptionsAssumption ==
    {AuditGate, AuditCrossGroup, AuditRequireSingleSurvivor, AuditFailClosed,
     PartialSelection, ConcurrentCommits, CanFail} \subseteq BOOLEAN

VARIABLES
    snapshots,      \* every snapshot of the table, oldest first
    statistics,     \* the registered statistics files: the keys of a blob, by snapshot id
    phase,          \* where the action is
    start,          \* the starting snapshot of the rewrite
    groups,         \* the groups it planned
    todo,           \* the groups it has not rewritten
    boundsAt,       \* the snapshot whose manifests gave the ordering bounds, 0 until they are read
    gated,          \* the groups the gate cleared
    flagged,        \* auditStaleWinsKeyJson: a key once per group that found it
    cross,          \* the accumulators of cross-group mode, per key
    written,        \* the rows of the files the groups wrote
    pendingSpill,   \* pendingSpillJson: the key list a blob must carry
    spillSnap       \* the snapshot id the blob was written for

tableVars  == <<snapshots, statistics>>
actionVars == <<phase, start, groups, todo>>
runnerVars == <<boundsAt, gated, flagged, cross, written>>
spillVars  == <<pendingSpill, spillSnap>>
vars == <<tableVars, actionVars, runnerVars, spillVars>>

-----------------------------------------------------------------------------
\* The table, its snapshots and the verdict in a snapshot's summary.

Partial == [dmax : Versions \cup {NoVersion}, smax : Versions \cup {NoVersion}, scnt : Nat]

NothingSeen == [k \in Keys |-> [dmax |-> NoVersion, smax |-> NoVersion, scnt |-> 0]]

NoSpill == [needed |-> FALSE, keys |-> {}]

Summary == [verdict : {"none", "undecidable", "decided"}, count : Nat,
            keys : SUBSET Keys, spilled : BOOLEAN, crossKeys : SUBSET Keys]

NoSummary == [verdict |-> "none", count |-> 0, keys |-> {}, spilled |-> FALSE, crossKeys |-> {}]

\* base is the starting snapshot of the rewrite that made the snapshot, 0 for a
\* commit of the writer.  The properties use it; the table does not store it.
Snapshot == [table : Table(Keys, Versions), summary : Summary, base : Nat]

CurrentId == Len(snapshots)

CurrentTable == IF snapshots = <<>> THEN EmptyTable ELSE snapshots[CurrentId].table

StartTable == snapshots[start].table

Files(table) == {r.file : r \in table.data}

Rewrites == {i \in DOMAIN snapshots : snapshots[i].base # 0}

\* Mutant: a runner used again keeps what it gathered.
NewRunner_Reused == boundsAt' = 0 /\ UNCHANGED <<gated, flagged, cross, written>>

\* The audit state of a fresh runner and a fresh action.
NewRunner ==
    /\ boundsAt' = 0
    /\ gated' = {}
    /\ flagged' = {}
    /\ cross' = NothingSeen
    /\ written' = {}

Init ==
    /\ snapshots = <<>>
    /\ statistics = {}
    /\ phase = "idle"
    /\ start = 0
    /\ groups = {}
    /\ todo = {}
    /\ boundsAt = 0
    /\ gated = {}
    /\ flagged = {}
    /\ cross = NothingSeen
    /\ written = {}
    /\ pendingSpill = NoSpill
    /\ spillSnap = 0

-----------------------------------------------------------------------------
\* The writer.

NewRows == [part : 1..MaxParts, key : Keys, ver : Versions]

\* One checkpoint is one commit: its data files and its equality deletes share
\* one sequence number, so a delete never reaches a row of its own commit.
Commit ==
    /\ phase = "idle" \/ ConcurrentCommits
    /\ CurrentId < MaxCommits
    /\ \E rows \in UNION {kSubset(n, NewRows) : n \in 0..MaxRowsPerCommit}, deletes \in SUBSET Keys :
        LET id == CurrentId + 1
            added == {[commit |-> id, part |-> r.part, key |-> r.key, ver |-> r.ver,
                       file |-> <<id, r.part>>, seq |-> id] : r \in rows}
        IN
        /\ IsFiniteSet(rows)
        /\ rows # {} \/ deletes # {}
        /\ Cardinality(CurrentTable.data) + Cardinality(rows) <= MaxRows
        /\ snapshots' = Append(snapshots,
               [table |-> [data |-> CurrentTable.data \cup added,
                           dels |-> CurrentTable.dels \cup {[key |-> k, seq |-> id] : k \in deletes}],
                summary |-> NoSummary,
                base |-> 0])
    /\ UNCHANGED <<statistics, actionVars, runnerVars, spillVars>>

-----------------------------------------------------------------------------
\* The metadata gate.

\* The rows of the snapshot the bounds are read from, and the ordering values
\* one data sequence number spans in a group.
BoundsRows(g, at) == {r \in snapshots[at].table.data : r.file \in g}

HasBounds(f, at) == VersionsOf({r \in snapshots[at].table.data : r.file = f}) # {}

SpanOf(g, at, seq) == VersionsOf({r \in BoundsRows(g, at) : r.seq = seq})

\* Mutant: the sequence numbers in the wrong order.
MayContainStaleWins_Reversed(g, at) ==
    (\A f \in g : HasBounds(f, at)) =>
      \E s, t \in {r.seq : r \in BoundsRows(g, at)} :
          s > t /\ Min(SpanOf(g, at, t)) < Max(SpanOf(g, at, s))

\* TRUE unless the bounds, known for every file of the group, prove that no
\* earlier sequence number holds a larger ordering value than a later one.
MayContainStaleWins(g, at) ==
    (\A f \in g : HasBounds(f, at)) =>
      \E s, t \in {r.seq : r \in BoundsRows(g, at)} :
          s < t /\ Min(SpanOf(g, at, t)) < Max(SpanOf(g, at, s))

\* Cross-group mode turns the gate off.
GateOn == AuditGate /\ ~AuditCrossGroup

-----------------------------------------------------------------------------
\* The per-group audit: one scan in which the delete filter marks rows.

GroupRows(g) == {r \in StartTable.data : r.file \in g}

Discarded(g, k) == {r \in RowsOf(GroupRows(g), k) : IsDeleted(StartTable, r)}

\* Mutant: the deletes of the snapshot current now, not of the pinned one.
Survivors_Unpinned(g, k) == {r \in RowsOf(GroupRows(g), k) : ~IsDeleted(CurrentTable, r)}

Survivors(g, k) == {r \in RowsOf(GroupRows(g), k) : ~IsDeleted(StartTable, r)}

\* SQL's max: nulls do not count, and no value gives null.
MaxOrdering(rows) == IF VersionsOf(rows) = {} THEN NoVersion ELSE Max(VersionsOf(rows))

PerKey(g) ==
    [k \in Keys |-> [dmax |-> MaxOrdering(Discarded(g, k)),
                     smax |-> MaxOrdering(Survivors(g, k)),
                     scnt |-> Cardinality(Survivors(g, k))]]

\* A discarded version out-orders the survivor.
OutOrders(p) == p.dmax # NoVersion /\ p.smax # NoVersion /\ p.dmax > p.smax

StaleWin(p) == OutOrders(p) /\ (AuditRequireSingleSurvivor => p.scnt = 1)

MaxOf(a, b) == IF NoVersion \in {a, b} THEN (IF a = NoVersion THEN b ELSE a)
               ELSE IF a >= b THEN a ELSE b

\* Mutant: a group overwrites what another group contributed.
CollectCrossGroup_Overwrite(acc, perKey) == perKey

\* Merge one group's partials into the table-level accumulators.
CollectCrossGroup(acc, perKey) ==
    [k \in Keys |-> [dmax |-> MaxOf(acc[k].dmax, perKey[k].dmax),
                     smax |-> MaxOf(acc[k].smax, perKey[k].smax),
                     scnt |-> acc[k].scnt + perKey[k].scnt]]

CrossGroupStaleWins == {k \in Keys : OutOrders(cross[k]) /\ cross[k].scnt = 1}

-----------------------------------------------------------------------------
\* The rewrite action.

\* Pin the current snapshot and partition its files; a file assigned to 0 is
\* not selected.
PlanRewrite ==
    /\ phase = "idle"
    /\ Cardinality(Rewrites) < MaxRewrites
    /\ snapshots # <<>>
    /\ \E assignment \in [Files(CurrentTable) -> (IF PartialSelection THEN 0 ELSE 1)..MaxGroups] :
        groups' = {{f \in Files(CurrentTable) : assignment[f] = i} : i \in 1..MaxGroups} \ {{}}
    /\ groups' # {}
    /\ todo' = groups'
    /\ start' = CurrentId
    /\ phase' = "rewriting"
    /\ NewRunner
    /\ UNCHANGED <<tableVars, spillVars>>

\* Mutant: the rows the delete filter marked are written too.
WriteSurvivors_Unfiltered(g) ==
    /\ todo' = todo \ {g}
    /\ written' = written \cup
           {[r EXCEPT !.file = <<0, Cardinality(groups) - Cardinality(todo) + 1>>] : r \in GroupRows(g)}

\* Write the group's survivors to one new file, named when the rewrite commits.
WriteSurvivors(g) ==
    /\ todo' = todo \ {g}
    /\ written' = written \cup {[r EXCEPT !.file = <<0, Cardinality(groups) - Cardinality(todo) + 1>>] :
                                r \in GroupRows(g) \ DeadRows(StartTable)}

\* The bounds are read once per rewrite, from the snapshot current at the time.
BoundsSnapshot == IF boundsAt = 0 THEN CurrentId ELSE boundsAt

StockRewrite(g) ==
    /\ phase = "rewriting"
    /\ g \in todo
    /\ GateOn
    /\ ~MayContainStaleWins(g, BoundsSnapshot)
    /\ boundsAt' = BoundsSnapshot
    /\ gated' = gated \cup {g}
    /\ WriteSurvivors(g)
    /\ UNCHANGED <<tableVars, phase, start, groups, flagged, cross, spillVars>>

AuditedRewrite(g) ==
    /\ phase = "rewriting"
    /\ g \in todo
    /\ GateOn => MayContainStaleWins(g, BoundsSnapshot)
    /\ boundsAt' = IF GateOn THEN BoundsSnapshot ELSE boundsAt
    /\ cross' = IF AuditCrossGroup THEN CollectCrossGroup(cross, PerKey(g)) ELSE cross
    /\ flagged' = flagged \cup ({g} \X {k \in Keys : StaleWin(PerKey(g)[k])})
    /\ WriteSurvivors(g)
    /\ UNCHANGED <<tableVars, phase, start, groups, gated, spillVars>>

FlaggedKeys == {f[2] : f \in flagged}

\* Mutant: abstain from three groups on.
Abstains_OffByOne == AuditFailClosed /\ ~AuditCrossGroup /\ Cardinality(groups) > 2

\* Fail closed: a survivor count taken within a group says nothing once the
\* rewrite has formed more than one.
Abstains == AuditFailClosed /\ ~AuditCrossGroup /\ Cardinality(groups) > 1

\* Mutant: an abstention leaves its key list to be spilled.
Spills_Abstaining == Cardinality(flagged) > SpillThreshold

Spills == ~Abstains /\ Cardinality(flagged) > SpillThreshold

AuditSnapshotSummary ==
    IF Abstains
    THEN [NoSummary EXCEPT !.verdict = "undecidable"]
    ELSE [verdict   |-> "decided",
          count     |-> IF AuditCrossGroup THEN Cardinality(CrossGroupStaleWins)
                        ELSE Cardinality(flagged),
          keys      |-> IF Spills THEN {} ELSE FlaggedKeys,
          spilled   |-> Spills,
          crossKeys |-> IF AuditCrossGroup THEN CrossGroupStaleWins ELSE {}]

\* Mutant: the new files carry the sequence number of the commit.
RewrittenTables_NewSequence ==
    LET id == CurrentId + 1
        kept == {r \in CurrentTable.data : r.file \notin UNION groups}
        moved == {[r EXCEPT !.file = <<id, r.file[2]>>, !.seq = id] : r \in written}
    IN  {[data |-> kept \cup moved, dels |-> CurrentTable.dels]}

\* The commit replaces the selected files.  The new files carry the sequence
\* number of the STARTING snapshot, so that a delete committed since still
\* reaches their rows; deletes older than every remaining file may be dropped.
RewrittenTables ==
    LET id == CurrentId + 1
        kept == {r \in CurrentTable.data : r.file \notin UNION groups}
        moved == {[r EXCEPT !.file = <<id, r.file[2]>>, !.seq = start] : r \in written}
        data == kept \cup moved
        droppable == {d \in CurrentTable.dels : \A r \in data : d.seq < r.seq}
    IN  {[data |-> data, dels |-> CurrentTable.dels \ dropped] : dropped \in SUBSET droppable}

CommitRewrite ==
    /\ phase = "rewriting"
    /\ todo = {}
    /\ \E table \in RewrittenTables :
        snapshots' = Append(snapshots,
            [table |-> table, summary |-> AuditSnapshotSummary, base |-> start])
    /\ pendingSpill' = IF Spills THEN [needed |-> TRUE, keys |-> FlaggedKeys] ELSE NoSpill
    /\ phase' = "committed"
    /\ UNCHANGED <<statistics, start, groups, todo, runnerVars, spillSnap>>

\* Mutant: the blob is written for the starting snapshot.
WriteSpill_ForStart ==
    /\ phase = "committed"
    /\ pendingSpill.needed
    /\ spillSnap' = start
    /\ phase' = "spilled"
    /\ UNCHANGED <<tableVars, start, groups, todo, runnerVars, pendingSpill>>

\* Take the pending spill; write its blob for the snapshot that is current NOW.
WriteSpill ==
    /\ phase = "committed"
    /\ pendingSpill.needed
    /\ spillSnap' = CurrentId
    /\ phase' = "spilled"
    /\ UNCHANGED <<tableVars, start, groups, todo, runnerVars, pendingSpill>>

\* Register the blob as the snapshot's statistics file, replacing any other.
RegisterSpill ==
    /\ phase = "spilled"
    /\ statistics' = {s \in statistics : s.snap # spillSnap}
                        \cup {[snap |-> spillSnap, keys |-> pendingSpill.keys]}
    /\ pendingSpill' = NoSpill
    /\ phase' = "idle"
    /\ UNCHANGED <<snapshots, start, groups, todo, runnerVars, spillSnap>>

NothingToSpill ==
    /\ phase = "committed"
    /\ ~pendingSpill.needed
    /\ phase' = "idle"
    /\ UNCHANGED <<tableVars, start, groups, todo, runnerVars, spillVars>>

\* A group fails (there are no retries), a commit conflicts, or the process
\* dies: the action is over and what it held in memory is gone.
Abandon ==
    /\ CanFail
    /\ phase # "idle"
    /\ phase' = "idle"
    /\ todo' = {}
    /\ pendingSpill' = NoSpill
    /\ NewRunner
    /\ UNCHANGED <<tableVars, start, groups, spillSnap>>

RewriteStep ==
    \/ \E g \in todo : StockRewrite(g) \/ AuditedRewrite(g)
    \/ CommitRewrite
    \/ WriteSpill
    \/ RegisterSpill
    \/ NothingToSpill

Next == Commit \/ PlanRewrite \/ RewriteStep \/ Abandon

Spec == Init /\ [][Next]_vars

\* The action runs to its end unless it fails: nothing it waits for is out of
\* its hands.
FairSpec == Spec /\ WF_vars(RewriteStep)

-----------------------------------------------------------------------------
\* What a reader of the table gets back.

Blobs(i) == {s \in statistics : s.snap = i}

\* The keys found for snapshot i: in cross-group mode the merged list, else the
\* inline list, or the blob registered under the snapshot's own id.
VerdictKeys(i) ==
    IF AuditCrossGroup THEN snapshots[i].summary.crossKeys
    ELSE IF snapshots[i].summary.spilled THEN UNION {s.keys : s \in Blobs(i)}
    ELSE snapshots[i].summary.keys

Decided(i) == snapshots[i].summary.verdict = "decided"

Readable(i) == AuditCrossGroup \/ ~snapshots[i].summary.spilled \/ Blobs(i) # {}

\* The table the rewrite that made snapshot i scanned, and the one it replaced.
AuditedTable(i) == snapshots[snapshots[i].base].table

ReplacedTable(i) == snapshots[i - 1].table

-----------------------------------------------------------------------------
\* Properties.

\* The types of the variables; every set of rows, deletes, groups and findings
\* is finite (the records of patch lines 242-295 and the Iceberg metadata).
TypeOK ==
    /\ snapshots \in Seq(Snapshot)
    /\ statistics \subseteq [snap : Nat, keys : SUBSET Keys]
    /\ phase \in {"idle", "rewriting", "committed", "spilled"}
    /\ start \in 0..Len(snapshots) /\ (phase # "idle" => start # 0)
    /\ groups \subseteq SUBSET File
    /\ todo \subseteq groups
    /\ boundsAt \in 0..Len(snapshots)
    /\ gated \subseteq groups
    /\ flagged \subseteq groups \X Keys
    /\ cross \in [Keys -> Partial]
    /\ written \subseteq Row(Keys, Versions)
    /\ pendingSpill \in [needed : BOOLEAN, keys : SUBSET Keys]
    /\ spillSnap \in Nat
    /\ \A i \in DOMAIN snapshots :
          IsFiniteSet(snapshots[i].table.data) /\ IsFiniteSet(snapshots[i].table.dels)
    /\ IsFiniteSet(groups) /\ IsFiniteSet(written)

\* One-sidedness: a decided verdict never names a key that is not a stale win
\* of the audited snapshot, whatever the grouping and the concurrent commits
\* (README.md "Correctness is one-sided", patch lines 602-608).
OneSided ==
    \A i \in Rewrites : Decided(i) => VerdictKeys(i) \subseteq StaleWinsKeys(AuditedTable(i))

\* Recall: a decided verdict that can be read names every stale win of the
\* audited snapshot, and its count says how many even when the list cannot be
\* read (README.md "zero misses"; the gate must not clear a guilty group).
Complete ==
    \A i \in Rewrites : Decided(i) =>
        /\ Readable(i) => StaleWinsKeys(AuditedTable(i)) \subseteq VerdictKeys(i)
        /\ snapshots[i].summary.count = Cardinality(StaleWinsKeys(AuditedTable(i)))

\* The gate clears no group in which a discarded version out-orders a survivor
\* (patch lines 656-684, lean/MorFaithful/GateSoundness.lean), although it reads
\* the bounds from whatever snapshot is current by then.
GateSound ==
    phase = "rewriting" => \A g \in gated, k \in Keys : ~OutOrders(PerKey(g)[k])

\* A rewrite changes no row that a reader sees, duplicates included, even when
\* deletes were committed while it ran (README.md "0 keys changed materialized
\* content", "773 of 773 survive").
PreservesContent ==
    \A i \in Rewrites :
        Content(LiveRows(snapshots[i].table)) = Content(LiveRows(ReplacedTable(i)))

\* A registered blob belongs to a decided rewrite that spilled, and holds the
\* verdict of that rewrite (patch lines 92-93 and 104-136).
BlobsBelong ==
    \A s \in statistics :
        /\ s.snap \in Rewrites
        /\ Decided(s.snap) /\ snapshots[s.snap].summary.spilled
        /\ s.keys = StaleWinsKeys(AuditedTable(s.snap))

\* A rewrite that is not abandoned ends in a snapshot that has a verdict, which
\* can then be read back under that snapshot's id.
VerdictPublished ==
    (phase = "rewriting") ~>
        \E i \in Rewrites : /\ snapshots[i].base = start
                            /\ snapshots[i].summary.verdict # "none"
                            /\ Readable(i)

-----------------------------------------------------------------------------
\* The mechanism as an implementation of the promise.

Report(i) ==
    LET summary == snapshots[i].summary
    IN  [status |-> IF ~Readable(i) THEN "pending" ELSE summary.verdict,
         base   |-> snapshots[i].base,
         keys   |-> IF Readable(i) THEN VerdictKeys(i) ELSE {}]

History ==
    [i \in DOMAIN snapshots |->
        [content |-> Content(LiveRows(snapshots[i].table)),
         stale   |-> StaleWinsKeys(snapshots[i].table),
         report  |-> Report(i)]]

Promise == INSTANCE AuditPromise WITH history <- History

\* Every step of the mechanism is a write, a compaction that keeps content and
\* reports exactly the stale wins it read or abstains, or the publication of a
\* spilled report (README.md "Audit-preserving compaction").
KeepsPromise == Promise!Spec

\* The same, and a spilled report is published in the end.
KeepsFairPromise == Promise!FairSpec
=============================================================================
