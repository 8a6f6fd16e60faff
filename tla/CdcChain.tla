------------------------------ MODULE CdcChain ------------------------------
(***************************************************************************)
(* The induced run of phase8-cdc, end to end: Postgres writes its log, a   *)
(* connector publishes it to a topic, capture_lsn_oracle.py reads the topic*)
(* into an oracle, build_write_plan.py makes a plan of four checkpoints in *)
(* which the target key's last two versions are swapped,                   *)
(* MorPhase8CdcTest.java replays the plan into an Iceberg table, and       *)
(* verify_end_to_end.py compares checker, oracle and served row before and *)
(* after a rewrite.                                                        *)
(*                                                                         *)
(* The scripts are run by hand and hand each other files: the oracle may be*)
(* captured before the log is complete, and again after the plan was made. *)
(* The connector delivers at least once.  A delete's event carries the row *)
(* it removed and is treated as a version; its tombstone is skipped.       *)
(***************************************************************************)
EXTENDS IcebergAdapter, Sequences, SequencesExt

CONSTANTS
    ChainKeys,      \* primary keys, natural numbers
    Target,         \* MOR_TARGET_KEY
    MaxChanges,     \* bound: changes in the log
    MaxRestarts,    \* bound: restarts of the connector
    MaxCaptures     \* bound: runs of the capture script

ASSUME ChainAssumption == ChainKeys \subseteq Nat /\ Target \in ChainKeys

VARIABLES
    wal,          \* the changes in commit order: key and lsn
    offset,       \* the changes the connector has published since it last started over
    topic,        \* what the topic holds, in arrival order
    restarts,
    captures,
    oracle,       \* lsn_oracle.json
    writePlan,    \* write_plan.tsv, and the events of the oracle it was made of
    lake,         \* the Iceberg table
    posRows,      \* its rows that are deleted by position
    e2e           \* how far verify_end_to_end.py has come, and what it saw

sourceVars == <<wal, offset, topic, restarts>>
chainVars == <<sourceVars, captures, oracle, writePlan, lake, posRows, e2e>>

-----------------------------------------------------------------------------
\* The elements of a set by rank.
InOrder(set, Before(_, _)) ==
    [n \in 1..Cardinality(set) |->
        CHOOSE x \in set : Cardinality({y \in set : Before(y, x)}) = n - 1]

\* capture_lsn_oracle.py.

NoOracle == [events |-> <<>>, ok |-> FALSE]

\* A key's versions by lsn, in arrival order where they share one.
KeyVersions(events, k) ==
    LET arrivals == {i \in DOMAIN events : events[i].key = k}
        Before(i, j) == events[i].lsn < events[j].lsn \/ (events[i].lsn = events[j].lsn /\ i < j)
        order == InOrder(arrivals, Before)
    IN  [n \in DOMAIN order |-> events[order[n]].lsn]

Monotone(events) == \A i, j \in DOMAIN events : i < j => events[i].lsn <= events[j].lsn

\* Mutant: the target's versions may share an lsn.
OracleOk_Repeated(events) == Monotone(events) /\ Len(KeyVersions(events, Target)) >= 2

\* The controls: something was captured, nothing reorders before the plan does, and
\* the target has two versions or more, told apart by their lsn.
OracleOk(events) ==
    LET target == KeyVersions(events, Target)
    IN  Monotone(events) /\ Len(target) >= 2 /\ IsInjective(target)

LogicallyLatest(events, k) == Last(KeyVersions(events, k))

-----------------------------------------------------------------------------
\* build_write_plan.py.

PlanRow(cp, k, lsn) == [cp |-> cp, key |-> k, lsn |-> lsn]

\* Checkpoint 1: every key's first version.
FirstRows(events) ==
    LET keys == InOrder({e.key : e \in ToSet(events)}, <)
    IN  [n \in DOMAIN keys |-> PlanRow(1, keys[n], KeyVersions(events, keys[n])[1])]

\* Checkpoint 2: the later versions but the target's last two, by lsn.
MidRowsUpTo(events, short) ==
    LET V(k) == KeyVersions(events, k)
        swapped == {V(Target)[Len(V(Target))], V(Target)[Len(V(Target)) - 1]}
        rest == {at \in {e.key : e \in ToSet(events)} \X (2..Len(events)) :
                    /\ at[2] <= Len(V(at[1])) - short
                    /\ at[1] = Target => V(Target)[at[2]] \notin swapped}
        Before(a, b) == \/ V(a[1])[a[2]] < V(b[1])[b[2]]
                        \/ /\ V(a[1])[a[2]] = V(b[1])[b[2]]
                           /\ a[1] < b[1] \/ (a[1] = b[1] /\ a[2] < b[2])
        order == InOrder(rest, Before)
    IN  [n \in DOMAIN order |-> PlanRow(2, order[n][1], V(order[n][1])[order[n][2]])]

\* Mutant: every key's last version is left out.
MidRows_Short(events) == MidRowsUpTo(events, 1)

MidRows(events) == MidRowsUpTo(events, 0)

\* Checkpoints 3 and 4: the target's last version, then the one before it.
SwappedRows(events) ==
    LET V == KeyVersions(events, Target)
    IN  <<PlanRow(3, Target, V[Len(V)]), PlanRow(4, Target, V[Len(V) - 1])>>

PlanOf(events) == FirstRows(events) \o MidRows(events) \o SwappedRows(events)

-----------------------------------------------------------------------------
\* MorPhase8CdcTest.java: the rows of a checkpoint are one commit of one writer, in
\* which a later row of a key deletes the earlier one by position.

Checkpoints(rows) == InOrder({r.cp : r \in ToSet(rows)}, <)

\* The n-th checkpoint that has rows is the n-th commit.
ReplayedRows(rows) ==
    UNION {{[commit |-> n, part |-> i, key |-> rows[i].key, ver |-> rows[i].lsn, file |-> <<n, 1>>, seq |-> n] :
                i \in {j \in DOMAIN rows : rows[j].cp = Checkpoints(rows)[n]}} :
           n \in DOMAIN Checkpoints(rows)}

ReplayedTable(rows) ==
    [data |-> ReplayedRows(rows), dels |-> {[key |-> r.key, seq |-> r.seq] : r \in ReplayedRows(rows)}]

Overwrites(rows) ==
    {r \in ReplayedRows(rows) : \E q \in ReplayedRows(rows) :
        q.seq = r.seq /\ q.key = r.key /\ q.part > r.part}

-----------------------------------------------------------------------------
ChainInit ==
    /\ wal = <<>> /\ offset = 0 /\ topic = <<>> /\ restarts = 0
    /\ captures = 0 /\ oracle = NoOracle
    /\ writePlan = [rows |-> <<>>, of |-> <<>>]
    /\ lake = EmptyTable /\ posRows = {}
    /\ e2e = [stage |-> "idle"]

ToolVars == <<captures, oracle, writePlan, lake, posRows, e2e>>

\* A change of one row; the changes of one commit may share its lsn.
WalCommit(k) ==
    /\ Len(wal) < MaxChanges
    /\ LET last == IF wal = <<>> THEN 1 ELSE Last(wal).lsn
       IN  \E lsn \in {last, last + 1} : wal' = Append(wal, [key |-> k, lsn |-> lsn])
    /\ UNCHANGED <<offset, topic, restarts, ToolVars>>

Publish ==
    /\ offset < Len(wal)
    /\ topic' = Append(topic, wal[offset + 1])
    /\ offset' = offset + 1
    /\ UNCHANGED <<wal, restarts, ToolVars>>

\* The connector starts over from an offset it had stored before.
ConnectorRestarts ==
    /\ restarts < MaxRestarts
    /\ restarts' = restarts + 1
    /\ offset' \in 0..offset - 1
    /\ UNCHANGED <<wal, topic, ToolVars>>

\* The oracle is written whether or not its controls hold.
Capture ==
    /\ captures < MaxCaptures
    /\ captures' = captures + 1
    /\ oracle' = [events |-> topic, ok |-> OracleOk(topic)]
    /\ UNCHANGED <<sourceVars, writePlan, lake, posRows, e2e>>

\* Refuses an oracle that failed.  A plan that writes the target twice in a checkpoint
\* fails a control of its own and is written all the same.
BuildPlan ==
    /\ oracle.ok
    /\ e2e.stage = "idle"
    /\ writePlan' = [rows |-> PlanOf(oracle.events), of |-> oracle.events]
    /\ UNCHANGED <<sourceVars, captures, oracle, lake, posRows, e2e>>

-----------------------------------------------------------------------------
\* verify_end_to_end.py.

ServedRows(k) == {r \in RowsOf(LiveRows(lake), k) : r \notin posRows}

TargetVerdict ==
    IF Target \in LayoutKeys(lake) THEN Classify(Layout(lake, Target, TRUE, FALSE)) ELSE "NONE"

\* The table is built anew from the plan that lies there, then the oracle is read.
Regenerate ==
    /\ e2e.stage = "idle"
    /\ writePlan.rows # <<>>
    /\ lake' = ReplayedTable(writePlan.rows)
    /\ posRows' = Overwrites(writePlan.rows)
    /\ e2e' = [stage |-> "built", latest |-> LogicallyLatest(oracle.events, Target)]
    /\ UNCHANGED <<sourceVars, captures, oracle, writePlan>>

\* (a) one row, STALE_WINS, and (b) older than the oracle's latest.
ConfirmedBefore ==
    /\ TargetVerdict = "STALE_WINS"
    /\ Cardinality(ServedRows(Target)) = 1
    /\ \A r \in ServedRows(Target) : r.ver < e2e.latest

Observe ==
    /\ e2e.stage = "built"
    /\ e2e' = [stage |-> "observed", served |-> ServedRows(Target), verdict |-> TargetVerdict, ok |-> ConfirmedBefore]
    /\ UNCHANGED <<sourceVars, captures, oracle, writePlan, lake, posRows>>

NextSeq == 1 + Max({r.seq : r \in lake.data})

\* The rows a reader is served, in one file at the last sequence number.
Rewritten ==
    LET served == UNION {ServedRows(k) : k \in ChainKeys}
    IN  [data |-> {[r EXCEPT !.file = <<NextSeq, 1>>, !.seq = NextSeq - 1] : r \in served},
         dels |-> lake.dels]

\* (c) the rewrite, the checker once more, and the served row.
RewriteAndObserve ==
    /\ e2e.stage = "observed"
    /\ lake' = Rewritten
    /\ posRows' = {}
    /\ LET after == RowsOf(LiveRows(lake'), Target)
           passed == /\ e2e.ok
                     /\ Cardinality({r.file : r \in lake.data}) >= 2
                     /\ TargetVerdict' # "STALE_WINS"
                     /\ after # {} /\ Content(after) = Content(e2e.served)
       IN  e2e' = [stage |-> "done", before |-> e2e, passed |-> passed, verdict |-> TargetVerdict']
    /\ UNCHANGED <<sourceVars, captures, oracle, writePlan>>

ChainNext ==
    \/ \E k \in ChainKeys : WalCommit(k)
    \/ Publish \/ ConnectorRestarts
    \/ Capture \/ BuildPlan
    \/ Regenerate \/ Observe \/ RewriteAndObserve

ChainSpec == ChainInit /\ [][ChainNext]_chainVars

-----------------------------------------------------------------------------
\* Properties.

\* What Postgres has committed last for a key.
TrueLatest(k) == Max({wal[i].lsn : i \in {j \in DOMAIN wal : wal[j].key = k}})

\* Every plan that is built demonstrates what it is for, on Postgres and not only on the
\* oracle: the run passes; the target was flagged and served a version that Postgres had
\* overwritten; the rewrite left that row and took the flag away.  It does so when the
\* topic was read too early, when the oracle was captured again after the plan, and when
\* the connector delivered twice (verify_end_to_end.py:4-11, capture_lsn_oracle.py:16-23).
EveryPlanDemonstrates ==
    e2e.stage = "done" =>
        /\ e2e.passed
        /\ e2e.before.verdict = "STALE_WINS" /\ e2e.verdict = "FAITHFUL"
        /\ \E r \in ServedRows(Target) : /\ ServedRows(Target) = {r}
                                         /\ r.ver < TrueLatest(Target)
                                         /\ Content(e2e.before.served) = Content({r})

\* The inversion is the only one: of every other key the new table serves one row, the
\* latest that the oracle of the plan knew, though the writer may have deleted others by
\* position and the connector may have delivered twice (build_write_plan.py:9).
OnlyTheTargetInverted ==
    e2e.stage = "built" =>
        \A k \in {e.key : e \in ToSet(writePlan.of)} \ {Target} :
            \E r \in ServedRows(k) : /\ ServedRows(k) = {r}
                                     /\ r.ver = LogicallyLatest(writePlan.of, k)
=============================================================================
