----------------------------- MODULE CdcIceberg -----------------------------
(***************************************************************************)
(* One harness run on Iceberg (runner.py): the plan is committed checkpoint*)
(* by checkpoint, the compacting modes then rewrite the data files, and the*)
(* oracle's verdict on every key is reconciled with the checker's          *)
(* (check.py).  A disagreement on a decidable key raises and fails the run.*)
(***************************************************************************)
EXTENDS CdcPlan, IcebergAdapter

\* The runs whose driver is the Iceberg driver: the runner picks it by the format.
ASSUME IcebergAssumption == \A c \in Configs : c.format = "iceberg"

VARIABLES
    next,        \* the next checkpoint to apply
    commits,     \* commits made so far, which is the last sequence number
    table,       \* the table's current snapshot
    compacted    \* the compaction call: "no", "unchanged" or "rewritten"

vars == <<stage, planVars, next, commits, table, compacted>>

CompactMode == config.mode \in {"safe_compact", "unsafe_compact"}

\* The rows of a key a merge-on-read reader returns.
View(k) == RowsOf(LiveRows(table), k)

-----------------------------------------------------------------------------
\* The oracle: the view against the ground truth of the stream.

OracleVerdict(k) ==
    LET present == Cardinality(View(k))
    IN  CASE Truth(k) = 0 -> IF present = 0 THEN "MATCH" ELSE "GHOST"
          [] Truth(k) # 0 /\ present = 0 -> "MISSING_CURRENT"
          [] Truth(k) # 0 /\ present >= 2 -> "DUPLICATE"
          [] OTHER -> IF \E r \in View(k) : r.ver = Truth(k) THEN "MATCH" ELSE "STALE_WINS"

\* The read-only checker, given the version column.
CheckerVerdict(k) ==
    IF k \in LayoutKeys(table) THEN Classify(Layout(table, k, TRUE, config.upsertOnly)) ELSE "ABSENT"

\* The checker verdicts that agree with an oracle verdict on a data-tail key.
Expected(oracle) ==
    CASE oracle = "MATCH" -> {"FAITHFUL"}
      [] oracle = "DUPLICATE" -> {"DUPLICATE"}
      [] oracle = "STALE_WINS" -> {"STALE_WINS"}
      [] oracle = "MISSING_CURRENT" -> {"WRONGLY_SUPPRESSED_CURRENT", "NEEDS_CONTEXT"}
      [] OTHER -> {}

Abstains(k) ==
    /\ CheckerVerdict(k) \in {"UNDECIDABLE", "NEEDS_CONTEXT"}
    /\ OracleVerdict(k) \in {"MATCH", "MISSING_CURRENT"}

\* Mutant: the mask pattern is not excepted.
Masked_Never(k) == FALSE

\* Compaction fooled the checker: recorded, not raised.
Masked(k) == CompactMode /\ CheckerVerdict(k) = "FAITHFUL"

\* How reconcile_iceberg counts a key.
Category(k) ==
    IF Truth(k) = 0
    THEN IF OracleVerdict(k) # "GHOST" THEN "absent"
         ELSE IF CheckerVerdict(k) = "FAITHFUL" THEN "blind" ELSE "ghost"
    ELSE IF CheckerVerdict(k) \in Expected(OracleVerdict(k)) THEN "agree"
    ELSE IF Abstains(k) THEN "abstain"
    ELSE IF Masked(k) THEN "masked"
    ELSE "disagree"

-----------------------------------------------------------------------------
Init ==
    /\ PlanInit
    /\ next = 0
    /\ commits = 0
    /\ table = EmptyTable
    /\ compacted = "no"

\* Data and deletes of a checkpoint are one commit: they share its sequence number.
Placed(c, seq) ==
    {[commit |-> c, part |-> row.copy, key |-> row.key, ver |-> row.ver, file |-> <<c, 1>>, seq |-> seq] :
     row \in Rows(c)}

\* The checkpoint's equality delete file.
PlacedDeletes(c, seq) == {[key |-> k, seq |-> seq] : k \in Deletes(c)}

\* A checkpoint with neither data nor deletes makes no commit.
CommitCheckpoint ==
    /\ stage = "apply"
    /\ next <= LastCheckpoint
    /\ next' = next + 1
    /\ IF Rows(next) = {} /\ Deletes(next) = {}
       THEN UNCHANGED <<table, commits>>
       ELSE /\ commits' = commits + 1
            /\ table' = [data |-> table.data \cup Placed(next, commits + 1),
                         dels |-> table.dels \cup PlacedDeletes(next, commits + 1)]
    /\ UNCHANGED <<stage, planVars, compacted>>

\* Mutant: the rewrite leaves the deleted rows where they are.
Rewritten_KeepsDead ==
    [table EXCEPT !.data = {[r EXCEPT !.file = <<next, 1>>, !.seq = commits] : r \in LiveRows(table)}
                           \cup DeadRows(table)]

\* rewrite_data_files writes the live rows under the sequence number of the
\* snapshot it started from and keeps the equality deletes.
Rewritten ==
    [table EXCEPT !.data = {[r EXCEPT !.file = <<next, 1>>, !.seq = commits] : r \in LiveRows(table)}]

\* Iceberg's planner may find nothing worth rewriting.
Compact ==
    /\ stage = "apply"
    /\ next > LastCheckpoint
    /\ CompactMode
    /\ compacted = "no"
    /\ \/ /\ compacted' = "unchanged"
          /\ UNCHANGED <<table, commits>>
       \/ /\ compacted' = "rewritten"
          /\ table' = Rewritten
          /\ commits' = commits + 1
    /\ UNCHANGED <<stage, planVars, next>>

Reconcile ==
    /\ stage = "apply"
    /\ next > LastCheckpoint
    /\ CompactMode => compacted # "no"
    /\ stage' = IF \E k \in Keys : Category(k) = "disagree" THEN "raised" ELSE "ok"
    /\ UNCHANGED <<planVars, next, commits, table, compacted>>

PlanNext == (\E k \in Keys : Emit(k)) \/ Skew \/ BuildPlan

Next ==
    \/ PlanNext /\ UNCHANGED <<next, commits, table, compacted>>
    \/ CommitCheckpoint
    \/ Compact
    \/ Reconcile

Spec == Init /\ [][Next]_vars

-----------------------------------------------------------------------------
\* The cross-check of check.py is sound: the oracle, which reads the rows, and
\* the checker, which reads the physical layout, never disagree on a decidable
\* key, whatever the knobs did to the plan, so no run is failed by requirement A.
NeverRaises == stage # "raised"

\* Under the enforced modes every reader, at every commit on the way and after
\* compaction, sees of each key the version its applied prefix ends with.
Applied(k) ==
    LET changes == IF next = 0 THEN 0 ELSE Min({next - 1, Changes(k)})
    IN  IF IsRead(k) THEN (IF next = 0 THEN 0 ELSE 1 + changes) ELSE changes

\* An unsafe run promises nothing: it maps to a log nobody writes to.
SafeLog ==
    INSTANCE UpsertLog WITH
        log  <- [k \in Keys |-> IF Enforced
                               THEN [i \in 1..Len(lsns[k]) |-> IF history[k][i] = "d" THEN 0 ELSE lsns[k][i]]
                               ELSE <<>>],
        at   <- [k \in Keys |-> IF Enforced THEN Applied(k) ELSE 0],
        view <- [k \in Keys |-> IF Enforced THEN {[ver |-> r.ver, copy |-> r.part] : r \in View(k)} ELSE {}]

\* The safe write path implements the per-key log it promises: a commit shows
\* the next version of the keys it moves and of no other, and skips none.
FollowsUpsertLog == SafeLog!LogSpec

\* Each knob produces its own violations and no other: without out-of-order
\* commits no key is stale or missing, and without co-location (a schema flush,
\* a copy, coarse commits) no key is duplicated.
ViolationClasses ==
    stage \in {"ok", "raised"} =>
        \A k \in Keys :
            /\ OracleVerdict(k) \in {"STALE_WINS", "MISSING_CURRENT"} => config.outOfOrder
            /\ OracleVerdict(k) = "DUPLICATE" => config.schema \/ config.duplicates \/ config.coarsening > 1

\* A rewrite hides every stale and every missing version from the checker, and
\* hides no duplicate: on each data-tail key it is fooled or it agrees.
MaskingIsTotal ==
    stage = "ok" /\ compacted = "rewritten" =>
        \A k \in Keys : Truth(k) # 0 =>
            /\ Category(k) = "masked" <=> OracleVerdict(k) \in {"STALE_WINS", "MISSING_CURRENT"}
            /\ Category(k) # "masked" => Category(k) = "agree"
=============================================================================
