---------------------------- MODULE SynthOracle ----------------------------
(***************************************************************************)
(* The synthetic ingest of iceberg_driver.py and the closed form it is     *)
(* scored against.  run_synth writes every key in every commit, split over *)
(* several files, and, from the second commit on, deletes a rotating       *)
(* window of keys; construction_oracle derives from the parameters alone   *)
(* which keys a stale-wins audit must flag, unless rows were interleaved.  *)
(***************************************************************************)
EXTENDS IcebergAdapter

CONSTANTS
    Configs,          \* bound: the parameter combinations run
    MaxOutliers,      \* bound: interleaved rows of one commit
    Spacing,          \* the distance between the ordering values of two commits
    HighLsn,          \* HIGH_LSN
    DupLsnOff         \* DUP_LSN_OFF

ASSUME SynthAssumption ==
    /\ Configs \subseteq [C : Nat \ {0}, R : Nat \ {0}, nDel : Nat \ {0}, nDup : Nat,
                         inverted : BOOLEAN, files : Nat \ {0}, scatter : BOOLEAN,
                         interleave : BOOLEAN]
    /\ \A p \in Configs : p.nDel <= p.R /\ p.nDup <= p.nDel /\ p.files <= p.R
    /\ {Spacing, HighLsn, DupLsnOff, MaxOutliers} \subseteq Nat

VARIABLES
    cfg,      \* the parameters
    made,     \* commits made
    table

synthVars == <<cfg, made, table>>

Keys == 1..cfg.R

-----------------------------------------------------------------------------
\* What both halves share.

\* The keys commit c deletes.
DelWindow(c) ==
    LET first == 1 + (((c - 2) * cfg.nDel) % Max({1, cfg.R - cfg.nDel + 1}))
    IN  first .. first + cfg.nDel - 1

\* Inverted: an even commit orders before the one two back.
LsnBase(c) == (IF cfg.inverted /\ c % 2 = 0 THEN Max({1, c - 2}) ELSE c) * Spacing

Lsn(c, k) == LsnBase(c) + k - 1

\* The keys written twice in the last commit: the first of its window.
DupKeys ==
    LET first == IF cfg.C >= 2 THEN Min(DelWindow(cfg.C)) ELSE 1
    IN  first .. first + cfg.nDup - 1

-----------------------------------------------------------------------------
\* The ingest.

\* Mutant: the last of the block files is no longer than the others.
FileKeys_ShortLast(j) ==
    LET chunk == cfg.R \div cfg.files
    IN  IF cfg.scatter THEN {k \in Keys : k % cfg.files = j % cfg.files}
        ELSE 1 + (j - 1) * chunk .. j * chunk

\* The keys of a commit's j-th file: every files-th key, or a block, the last
\* of which takes what the division leaves.
FileKeys(j) ==
    LET chunk == cfg.R \div cfg.files
    IN  IF cfg.scatter THEN {k \in Keys : k % cfg.files = j % cfg.files}
        ELSE 1 + (j - 1) * chunk .. (IF j = cfg.files THEN cfg.R ELSE j * chunk)

\* The value row k of file j takes from commit c's window.  A row is counted by
\* its position in the file, so in a scattered file it is not its own key's.
Outlier(c, j, k) ==
    c * Spacing + Cardinality({i \in FileKeys(j) : i < k}) + Min(FileKeys(j)) - 1

\* Which rows of commit c are interleaved, and with which commit.
Draws(c) ==
    IF ~cfg.interleave \/ cfg.C = 1 THEN {<<>>}
    ELSE UNION {[ks -> 1..cfg.C \ {c}] : ks \in {s \in SUBSET Keys : Cardinality(s) <= MaxOutliers}}

NewRow(c, part, k, lsn) ==
    [commit |-> c, part |-> part, key |-> k, ver |-> lsn, file |-> <<c, part>>, seq |-> c]

FileRows(c, j, draw) ==
    {NewRow(c, j, k, IF k \in DOMAIN draw THEN Outlier(draw[k], j, k) ELSE Lsn(c, k)) :
     k \in FileKeys(j)}

DupFile == cfg.files + 1

\* The discarded version of a duplicate key, appended by the first commit.
DupHigh == {NewRow(1, DupFile, k, HighLsn + k - 1) : k \in DupKeys}

\* Its second copy, in the last commit.
DupExtra(c) == {NewRow(c, DupFile, k, LsnBase(c) + DupLsnOff + k - 1) : k \in DupKeys}

Deleted(c) == IF c = 1 THEN {} ELSE DelWindow(c)

SynthCommit ==
    LET c == made + 1
    IN  /\ made < cfg.C
        /\ made' = c
        /\ \E draw \in Draws(c) :
            table' = [data |-> table.data \cup (UNION {FileRows(c, j, draw) : j \in 1..cfg.files})
                                         \cup (IF c = 1 THEN DupHigh
                                               ELSE IF c = cfg.C THEN DupExtra(c) ELSE {}),
                      dels |-> table.dels \cup {[key |-> k, seq |-> c] : k \in Deleted(c)}]
        /\ UNCHANGED cfg

SynthInit ==
    /\ cfg \in Configs
    /\ made = 0
    /\ table = EmptyTable

-----------------------------------------------------------------------------
\* The closed form.  It assumes that every row has its own commit's value, and
\* is refused when rows were interleaved.

OracleValid == ~cfg.interleave

\* The last commit whose window covers the key, 0 if none does.
LastDelete(k) == Max({0} \cup {c \in 2..cfg.C : k \in DelWindow(c)})

\* The first commit that survives when d is the last delete.
FirstSurvivor(d) == Max({d, 1})

Prefix(d) == {LsnBase(c) : c \in 1..FirstSurvivor(d) - 1}

Suffix(d) == {LsnBase(c) : c \in FirstSurvivor(d)..cfg.C}

\* Mutant: a tie counts as out-ordered.
Risky_OrEqual(d) == Prefix(d) # {} /\ Max(Prefix(d)) >= Max(Suffix(d))

\* A discarded commit out-orders every surviving one.
Risky(d) == Prefix(d) # {} /\ Max(Prefix(d)) > Max(Suffix(d))

SurvivorCount(k) ==
    cfg.C - FirstSurvivor(LastDelete(k)) + 1 + (IF k \in DupKeys THEN 1 ELSE 0)

ExpectedStaleWins ==
    {k \in Keys \ DupKeys : Risky(LastDelete(k)) /\ SurvivorCount(k) = 1}

ExpectedDupRisky ==
    DupKeys \cup {k \in Keys : Risky(LastDelete(k)) /\ SurvivorCount(k) > 1}

ExpectedLiveRows ==
    LET total[k \in 0..cfg.R] == IF k = 0 THEN 0 ELSE total[k - 1] + SurvivorCount(k)
    IN  total[cfg.R]
=============================================================================
