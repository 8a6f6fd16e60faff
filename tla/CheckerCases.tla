---------------------------- MODULE CheckerCases ----------------------------
(***************************************************************************)
(* mor-check run on tables as they grow.  A table is either written freely *)
(* (any data files and equality deletes, through the API the fixture       *)
(* builder uses) or by one of the repository's scripts, whose verdict is   *)
(* known: the gating fixtures (checker/fixtures/build_fixtures.py), the    *)
(* real-writer tables and the FLINK-38450 reproduction                     *)
(* (checker/realworld/generators).                                         *)
(*                                                                         *)
(* The table is a directory: metadata file n is the table after n - 1      *)
(* commits, and a hint file names one of them.  The checker has no catalog *)
(* and finds the metadata through the hint.                                *)
(***************************************************************************)
EXTENDS CheckerReport, SequencesExt

CONSTANTS
    Keys,                \* key tuples of the free tables
    Versions,            \* values of the version column of the free tables, or none
    MaxCommits,          \* bound: commits of a free table
    MaxParts,            \* bound: data files of one commit
    MaxRowsPerCommit,    \* bound: rows of one commit
    MaxRows,             \* bound: rows of a free table
    MaxDeletes,          \* bound: equality deletes of one commit
    CommandLines         \* the options the checks are run with

\* A key has a value for each key column; the options are the command line's.
ASSUME CasesAssumption ==
    /\ IsFiniteSet(Keys) /\ \A k, l \in Keys : k \in [DOMAIN l -> Nat \cup {NullValue}]
    /\ IsFiniteSet(Versions) /\ Versions \subseteq Nat \cup {NoVersion}
    /\ MaxParts \in Nat
    /\ CommandLines \subseteq Options

VARIABLES
    script,     \* the script that writes the table, or "free"
    plan,       \* the commits the script has still to make
    metadata,   \* the metadata files, by number
    hint,       \* the number in the hint file, 0 if the catalog keeps none
    checked     \* the last check: what it read, how, and its report

vars == <<script, plan, metadata, hint, checked>>

-----------------------------------------------------------------------------
\* The scripts.  A commit is a set of rows and a set of deleted keys.

Id(n) == <<n>>

Written(part, n, ver) == [part |-> part, key |-> Id(n), ver |-> ver]

DeltaCommit(rows, keys) == [rows |-> rows, deletes |-> keys]

\* The upsert writer: a batch is a data file and one equality delete per key.
Batch(part, rows) == DeltaCommit({Written(part, r[1], r[2]) : r \in rows}, {Id(r[1]) : r \in rows})

\* The connector before the fix merges the batches of a checkpoint into one commit.
PreFix(batches) ==
    LET numbered == [i \in DOMAIN batches |-> Batch(i, batches[i])]
    IN  <<DeltaCommit(UNION {c.rows : c \in Range(numbered)},
                      UNION {c.deletes : c \in Range(numbered)})>>

\* Mutant: the fixed connector still merges.
PostFix_Merged(batches) == PreFix(batches)

\* After the fix each batch is a commit of its own.
PostFix(batches) == [i \in DOMAIN batches |-> Batch(1, batches[i])]

BadEqualSeq == <<Batch(1, {<<1, 1>>, <<1, 2>>})>>

GoodAscending == <<DeltaCommit({Written(1, 1, 1)}, {}), DeltaCommit({Written(1, 1, 2)}, {Id(1)})>>

WronglySuppressed == <<DeltaCommit({Written(1, 1, 1)}, {}), DeltaCommit({}, {Id(1)})>>

RealWorldUpserts == PostFix(<<{<<1, 1>>, <<2, 2>>, <<3, 3>>}, {<<1, 4>>, <<2, 5>>}, {<<1, 6>>, <<3, 7>>}>>)

SchemaSplit == <<{<<1, 1>>}, {<<1, 2>>}>>

Scripts == [bad_equal_seq |-> BadEqualSeq, good_ascending |-> GoodAscending,
            wrongly_suppressed |-> WronglySuppressed, upserts |-> RealWorldUpserts,
            tier2_pre |-> PreFix(SchemaSplit), tier2_post |-> PostFix(SchemaSplit)]

\* The exit code each script's table is expected to get, without and with the
\* version column and the upsert-only assertion.
ExpectedExit(name, options) ==
    CASE name \in {"bad_equal_seq", "tier2_pre"} -> 2
      [] name = "wrongly_suppressed" -> IF options.upsertOnly THEN 2 ELSE 1
      [] OTHER -> IF options.hasVersion THEN 0 ELSE 1

-----------------------------------------------------------------------------
\* The directory.

Table0 == metadata[Len(metadata)]

NotChecked == [of |-> 0, options |-> [hasVersion |-> FALSE, upsertOnly |-> FALSE, allKeys |-> FALSE],
               report |-> [exit |-> 0]]

\* Mutant: without a hint the newest metadata file is left out, as one being written.
ResolveMetadata_Older(files, h) == IF h \in files THEN h ELSE Max({1} \cup (files \ {Max(files)}))

\* The hinted metadata file, or the one with the highest number.
ResolveMetadata(files, h) == IF h \in files THEN h ELSE Max(files)

Init ==
    /\ \E name \in DOMAIN Scripts \cup {"free"} :
        /\ script = name
        /\ plan = IF name = "free" THEN <<>> ELSE Scripts[name]
    /\ metadata = <<EmptyTable>>
    /\ hint \in IF script = "free" THEN {0} ELSE {0, 1}   \* a free table has a catalog
    /\ checked = NotChecked

\* One snapshot: its files share its sequence number.  The hint is written after
\* the metadata, and the writer goes on when that fails.
AddSnapshot(commit) ==
    LET id == Len(metadata)
        added == {[commit |-> id, part |-> r.part, key |-> r.key, ver |-> r.ver,
                   file |-> <<id, r.part>>, seq |-> id] : r \in commit.rows}
    IN  /\ metadata' = Append(metadata,
               [data |-> Table0.data \cup added,
                dels |-> Table0.dels \cup {[key |-> k, seq |-> id] : k \in commit.deletes}])
        /\ hint' \in IF hint = 0 THEN {0} ELSE {hint, id + 1}

Commit ==
    /\ script = "free"
    /\ Len(metadata) <= MaxCommits
    /\ \E n \in 0..MaxRowsPerCommit, d \in 0..MaxDeletes :
        \E rows \in kSubset(n, [part : 1..MaxParts, key : Keys, ver : Versions]),
           deletes \in kSubset(d, Keys) :
            /\ n + d > 0
            /\ Cardinality(Table0.data) + n <= MaxRows
            /\ AddSnapshot(DeltaCommit(rows, deletes))
    /\ checked' = NotChecked
    /\ UNCHANGED <<script, plan>>

ScriptCommit ==
    /\ plan # <<>>
    /\ AddSnapshot(Head(plan))
    /\ plan' = Tail(plan)
    /\ UNCHANGED <<script, checked>>

\* mor-check, between any two commits of a free table and at the end of a script.  A
\* metadata file without a snapshot has no entries to read, and the adapter raises; the
\* key columns are given, or are the table's identifier fields.
Check(options) ==
    /\ plan = <<>>
    /\ checked.of = 0
    /\ LET n == ResolveMetadata(DOMAIN metadata, hint)
       IN  /\ n > 1
           /\ checked' = [of |-> n, options |-> options, report |-> BuildReport(metadata[n], options)]
    /\ UNCHANGED <<script, plan, metadata, hint>>

Next == Commit \/ ScriptCommit \/ \E options \in CommandLines : Check(options)

Spec == Init /\ [][Next]_vars

-----------------------------------------------------------------------------
\* Properties.

Seen == metadata[checked.of]

Done == checked.of # 0

\* Exit code 0 certifies the table that was read: a reader gets, for every key
\* that has data, exactly one row, and it carries the largest version stored for
\* the key (cli.py:8-9, report.py:24-29).
CleanIsFaithful ==
    Done /\ checked.report.exit = 0 =>
        \A k \in {r.key : r \in Seen.data} :
            \E r \in LiveRows(Seen) : /\ {q \in LiveRows(Seen) : q.key = k} = {r}
                                      /\ \A q \in RowsOf(Seen.data, k) :
                                             q.ver # NoVersion => q.ver <= r.ver

\* A verdict that certifies or refutes a key stands when the operator supplies a
\* version column or asserts an upsert-only stream: more context settles the open
\* verdicts and overturns none (core/classify.py:36-48).
ContextOnlySettles ==
    Done => \A k \in LayoutKeys(Seen), more \in Options :
        /\ checked.options.hasVersion => more.hasVersion
        /\ checked.options.upsertOnly => more.upsertOnly
        /\ Verdict(Seen, k, checked.options) \notin {"UNDECIDABLE", "NEEDS_CONTEXT"}
        => Verdict(Seen, k, more) = Verdict(Seen, k, checked.options)

\* The metadata screen: a HIGH candidate holds two rows of one key, as it says,
\* unless the file has a null in a key column, which the bounds do not show; and two
\* rows of one key without nulls, in two files at one sequence number, are always
\* among the candidates (adapters/iceberg.py:149-161, 181-187).
ScreenIsSound ==
    Done =>
        /\ \A f \in HighCandidates(Seen) :
               \/ \E r \in FileRows(Seen, f) : \E c \in DOMAIN r.key : r.key[c] = NullValue
               \/ \E r, q \in FileRows(Seen, f) : r # q /\ r.key = q.key
        /\ \A r, q \in Seen.data :
               /\ r.key = q.key /\ r.seq = q.seq /\ r.file # q.file
               /\ \A c \in DOMAIN r.key : r.key[c] # NullValue
               => {r.file, q.file} \subseteq Screen(Seen)

\* Every script's table gets the exit code its author wrote down, in each mode, and
\* the screen is quiet on the healthy ones and not on the FLINK-38450 ones
\* (build_fixtures.py:125-201, tests/test_fixtures.py, realworld/REPORT.md).
ScriptsAsExpected ==
    Done /\ script # "free" /\ checked.of = Len(metadata) =>
        /\ checked.report.exit = ExpectedExit(script, checked.options)
        /\ checked.report.screened # {} <=> script \in {"bad_equal_seq", "tier2_pre"}

\* What is checked is the table a reader sees unless the hint of the last commit
\* was lost, and then it is the one the last kept hint names
\* (adapters/iceberg.py:34-61: "the current metadata file location").
StaleOnlyByHint ==
    Done /\ checked.of # Len(metadata) => hint # 0 /\ checked.of = hint

\* DESIGN_MEMO.md:226-228 says of the metadata screen that it "has no false
\* negatives for the equal-sequence DUPLICATE class".
ScreenHasNoFalseNegatives ==
    Done => \A r, q \in LiveRows(Seen) :
        r # q /\ r.key = q.key /\ r.seq = q.seq => r.file \in Screen(Seen)

\* A zero-survivor finding names the delete file that is at the sequence number
\* it gives (report.py:116-122: "added equality-delete file ... at sequence number").
LocalizesTopDelete ==
    Done => \A k \in checked.report.findings :
        \A s \in Localize(Seen, k, checked.options) : s.named = s.deleteSeq
=============================================================================
