---------------------------- MODULE CdcArbiters ----------------------------
(***************************************************************************)
(* One harness run on Hudi or Delta, which have no equality deletes.  Hudi *)
(* keeps of all the versions of a key the one with the greatest precombine *)
(* value: the lsn in the enforced modes, the timestamp otherwise.  Delta   *)
(* applies each checkpoint as a MERGE of its rows and a DELETE of its      *)
(* deleted keys.  Either shows at most one row of a key.                   *)
(***************************************************************************)
EXTENDS CdcPlan

VARIABLES
    next,      \* Delta: the next checkpoint; Hudi: the next of its two writes
    merged,    \* Delta: the checkpoint's MERGE is done, its DELETE is not
    shown      \* the version the table shows of each key, 0 if it shows none

vars == <<stage, planVars, next, merged, shown>>

Checkpoints == 0..LastCheckpoint

RowsOfKey(rows, k) == {r \in rows : r.key = k}

-----------------------------------------------------------------------------
\* Hudi.

\* Mutant: the timestamp decides in the enforced modes too.
Precombine_Timestamp(v) == ts[v]

\* The precombine value of version v.
Precombine(v) == IF Enforced THEN v ELSE ts[v]

\* A tie goes to the version written later.
Outranks(v, w) == Precombine(v) > Precombine(w) \/ (Precombine(v) = Precombine(w) /\ v > w)

Winner(versions) == CHOOSE v \in versions : \A w \in versions \ {v} : Outranks(v, w)

AllRows == UNION {Rows(c) : c \in Checkpoints}

\* All data in one bulk upsert.
BulkUpsert ==
    /\ Format = "hudi" /\ stage = "apply" /\ next = 0
    /\ shown' = [k \in Keys |-> IF RowsOfKey(AllRows, k) = {} THEN 0
                                ELSE Winner({r.ver : r \in RowsOfKey(AllRows, k)})]
    /\ next' = 1
    /\ UNCHANGED <<stage, planVars, merged>>

DataCheckpoints(k) == {c \in Checkpoints : RowsOfKey(Rows(c), k) # {}}

DeleteCheckpoints(k) == {c \in Checkpoints : k \in Deletes(c)}

\* The keys whose last delete is in a later checkpoint than their last row.
TerminallyDeleted ==
    {k \in Keys : \E c \in DeleteCheckpoints(k) : \A d \in DataCheckpoints(k) : c > d}

\* One delete commit for them, if there are any.
DeleteTails ==
    /\ Format = "hudi" /\ stage = "apply" /\ next = 1
    /\ shown' = [k \in Keys |-> IF k \in TerminallyDeleted THEN 0 ELSE shown[k]]
    /\ next' = 2
    /\ UNCHANGED <<stage, planVars, merged>>

-----------------------------------------------------------------------------
\* Delta.

\* Mutant: the first of each key.
LastRow_First(rows) == Min({r.ver : r \in rows})

\* The rows of a checkpoint come key by key in logical order, and MERGE is given
\* the last of each key.
LastRow(rows) == Max({r.ver : r \in rows})

MergeData ==
    /\ Format = "delta" /\ stage = "apply"
    /\ next <= LastCheckpoint /\ ~merged
    /\ shown' = [k \in Keys |-> IF RowsOfKey(Rows(next), k) = {} THEN shown[k]
                                ELSE LastRow(RowsOfKey(Rows(next), k))]
    /\ merged' = TRUE
    /\ UNCHANGED <<stage, planVars, next>>

DeleteKeys ==
    /\ merged
    /\ shown' = [k \in Keys |-> IF k \in Deletes(next) THEN 0 ELSE shown[k]]
    /\ next' = next + 1
    /\ merged' = FALSE
    /\ UNCHANGED <<stage, planVars>>

-----------------------------------------------------------------------------
\* The oracle, and what Hudi's readback is reconciled with.

OracleVerdict(k) ==
    IF Truth(k) = 0 THEN (IF shown[k] = 0 THEN "MATCH" ELSE "GHOST")
    ELSE IF shown[k] = 0 THEN "MISSING_CURRENT"
    ELSE IF shown[k] = Truth(k) THEN "MATCH" ELSE "STALE_WINS"

\* The versions the stream gives a key.
Versions(k) == {lsns[k][i] : i \in {j \in DOMAIN history[k] : history[k][j] # "d"}}

\* The harness's own prediction, from the stream and not from the plan.
Predicted(k) ==
    LET latest == Max({Precombine(v) : v \in Versions(k)})
    IN  Max({v \in Versions(k) : Precombine(v) = latest})

Disagrees(k) ==
    /\ Format = "hudi"
    /\ Truth(k) # 0 /\ shown[k] # 0
    /\ shown[k] # Predicted(k)

Applied == IF Format = "hudi" THEN next = 2 ELSE next > LastCheckpoint

Reconcile ==
    /\ stage = "apply" /\ Applied
    /\ stage' = IF \E k \in Keys : Disagrees(k) THEN "raised" ELSE "ok"
    /\ UNCHANGED <<planVars, next, merged, shown>>

-----------------------------------------------------------------------------
Init ==
    /\ PlanInit
    /\ next = 0
    /\ merged = FALSE
    /\ shown = [k \in Keys |-> 0]

PlanNext == (\E k \in Keys : Emit(k)) \/ Skew \/ BuildPlan

Next ==
    \/ PlanNext /\ UNCHANGED <<next, merged, shown>>
    \/ BulkUpsert
    \/ DeleteTails
    \/ MergeData
    \/ DeleteKeys
    \/ Reconcile

Spec == Init /\ [][Next]_vars

-----------------------------------------------------------------------------
Done == stage \in {"ok", "raised"}

\* Some older version of the key carries a later timestamp than the current one.
Overtaken(k) == \E v \in Versions(k) : v < Truth(k) /\ ts[v] > ts[Truth(k)]

\* Hudi under skew: deletes and reinserts come out right whatever the clocks say,
\* and a key is stale exactly when the timestamp decides and an older version,
\* one from before a delete included, has overtaken the current one.  The harness,
\* which looks at the stream and not at the plan, predicts the winner it reads back:
\* no run is failed by its cross-check.
StaleExactlyWhenOvertaken ==
    Done /\ Format = "hudi" =>
        /\ stage # "raised"
        /\ \A k \in Keys :
             /\ OracleVerdict(k) \in {"MATCH", "STALE_WINS"}
             /\ OracleVerdict(k) = "STALE_WINS" <=>
                    ~Enforced /\ Truth(k) # 0 /\ Overtaken(k)

\* Delta without out-of-order commits shows no stale version and no ghost; only
\* co-locating a delete with the reinsert after it can lose a key.
DeltaLosesOnlyReinserts ==
    Done /\ Format = "delta" /\ ~config.outOfOrder =>
        \A k \in Keys :
            /\ OracleVerdict(k) \in {"MATCH", "MISSING_CURRENT"}
            /\ OracleVerdict(k) = "MISSING_CURRENT" =>
                   config.schema /\ \E i \in DOMAIN history[k] : history[k][i] = "d"

AppliedOps(k) ==
    LET step == IF next = 0 \/ ~merged THEN next
                ELSE next + (IF Changes(k) >= next /\ Op(k, next) # "d" THEN 1 ELSE 0)
        changes == Min({Changes(k), IF step = 0 THEN 0 ELSE step - 1})
    IN  IF IsRead(k) THEN (IF step = 0 /\ ~merged THEN 0 ELSE 1 + changes) ELSE changes

\* Only an enforced run on Delta has something to keep.
Promised == Format = "delta" /\ Enforced

SafeLog ==
    INSTANCE UpsertLog WITH
        log  <- [k \in Keys |-> IF Promised
                               THEN [i \in 1..Len(lsns[k]) |-> IF history[k][i] = "d" THEN 0 ELSE lsns[k][i]]
                               ELSE <<>>],
        at   <- [k \in Keys |-> IF Promised THEN AppliedOps(k) ELSE 0],
        view <- [k \in Keys |-> IF Promised /\ shown[k] # 0 THEN {[ver |-> shown[k], copy |-> 1]} ELSE {}]

\* In the enforced modes Delta implements the per-key log although a checkpoint
\* takes two commits: a reader between them sees keys moved on, never a lost one.
DeltaFollowsUpsertLog == SafeLog!LogSpec

\* DESIGN.md: Delta is a control that should show no violations.
DeltaIsControl == Done /\ Format = "delta" => \A k \in Keys : OracleVerdict(k) = "MATCH"
=============================================================================
