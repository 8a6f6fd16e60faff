------------------------------ MODULE CdcPlan ------------------------------
(***************************************************************************)
(* The front half of the measurement harness: a synthetic change stream    *)
(* (cost-study/src/mor_harness/stream.py), the clock skew of imperfections *)
(* .py, and the physical write plan (batching.py).                         *)
(*                                                                         *)
(* Every key has a history of operations.  The merge gives each operation a*)
(* global log sequence number (lsn); the lsn is the version of the row it  *)
(* writes, and the key's last operation is the ground truth.  The plan     *)
(* assigns every change to a checkpoint, one checkpoint being one commit.  *)
(* The safe plan gives a key's j-th change to checkpoint j; under the      *)
(* unsafe modes three knobs disturb that.                                  *)
(***************************************************************************)
EXTENDS Naturals, Sequences, FiniteSets, FiniteSetsExt

CONSTANTS
    Keys,            \* the keys of all the streams
    Configs          \* the configurations of the runs

\* One configuration of a run.
RunConfig ==
    [format     : {"iceberg", "hudi", "delta"},
     mode       : {"safe", "unsafe", "safe_compact", "unsafe_compact"},   \* enforcement_mode
     outOfOrder : BOOLEAN,       \* ooo_rate > 0
     schema     : BOOLEAN,       \* schema_change_freq > 0
     duplicates : BOOLEAN,       \* dup_rate > 0
     coarsening : Nat \ {0},     \* commit_coarsening
     upsertOnly : BOOLEAN,       \* op_mix has neither delete tails nor reinsert tails
     keys       : SUBSET Keys,   \* the keys of the stream (base_keys, insert_rate)
     updates    : Nat \ {0},     \* bound: updates of one key
     skew       : Nat]           \* bound: how far the skew moves a timestamp, 0 without skew

ASSUME KeysAssumption == IsFiniteSet(Keys)

ASSUME ConfigsAssumption == Configs # {} /\ \A c \in Configs : c \in RunConfig

VARIABLES
    config,      \* the configuration of the run
    stage,       \* "stream", "plan", then the stages of the apply
    history,     \* the operations of each key, in logical order
    lsns,        \* the lsns given out so far to the operations of each key
    clock,       \* the last lsn given out
    ts,          \* the timestamp of each event, by lsn
    assign,      \* the checkpoint of each change of a key
    copied       \* the changes whose row is written twice

planVars == <<config, history, lsns, clock, ts, assign, copied>>

Format == config.format

Enforced == config.mode \in {"safe", "safe_compact"}

-----------------------------------------------------------------------------
\* Histories: a snapshot read and its changes, or a new key; updates; a tail.

Updates(n) == [i \in 1..n |-> "u"]

Tails == IF config.upsertOnly THEN {<<>>} ELSE {<<>>, <<"d">>, <<"d", "c">>}

Heads == {<<"r">>, <<"c">>}

Histories ==
    {<<"r">>} \cup {head \o Updates(n) \o tail :
                    head \in Heads, n \in 1..config.updates, tail \in Tails}

\* A key that is not in the stream has no history.
IsRead(k) == history[k] # <<>> /\ history[k][1] = "r"

\* The number of changes of a key: its operations, the snapshot read apart.
Changes(k) == IF IsRead(k) THEN Len(history[k]) - 1 ELSE Len(history[k])

\* Change j of a key: its operation, and its lsn once it has one.
Index(k, j) == IF IsRead(k) THEN j + 1 ELSE j

Op(k, j) == history[k][Index(k, j)]

Lsn(k, j) == lsns[k][Index(k, j)]

\* The version that should be visible, 0 if the key should be absent.
Truth(k) ==
    IF history[k] = <<>> \/ history[k][Len(history[k])] = "d" THEN 0 ELSE lsns[k][Len(history[k])]

-----------------------------------------------------------------------------
\* The stream.

PlanInit ==
    /\ config \in Configs
    /\ stage = "stream"
    /\ history \in [Keys -> Histories \cup {<<>>}]
    /\ \A k \in Keys : history[k] = <<>> <=> k \notin config.keys
    /\ lsns = [k \in Keys |-> <<>>]
    /\ clock = 0
    /\ ts = <<>>
    /\ assign = [k \in Keys |-> <<>>]
    /\ copied = [k \in Keys |-> {}]

Pending(k) == Len(lsns[k]) < Len(history[k])

UnreadKeys == {k \in Keys : IsRead(k) /\ lsns[k] = <<>>}

\* The snapshot reads get the lowest lsns; after them the merge takes the next
\* change of any key that has one left.
Emit(k) ==
    /\ stage = "stream"
    /\ Pending(k)
    /\ UnreadKeys # {} => k \in UnreadKeys
    /\ clock' = clock + 1
    /\ lsns' = [lsns EXCEPT ![k] = Append(@, clock + 1)]
    /\ ts' = Append(ts, clock + 1 + config.skew)
    /\ UNCHANGED <<config, stage, history, assign, copied>>

\* Clock skew moves the timestamps of the finished stream, never the lsns.
Skew ==
    /\ stage = "stream"
    /\ \A k \in Keys : ~Pending(k)
    /\ \E delta \in [1..clock -> 0..2 * config.skew] :
        ts' = [i \in 1..clock |-> i + delta[i]]
    /\ stage' = "plan"
    /\ UNCHANGED <<config, history, lsns, clock, assign, copied>>

-----------------------------------------------------------------------------
\* The write plan.

\* Each key's j-th change goes to checkpoint j.
CleanAssign(n) == [j \in 1..n |-> j]

\* Out-of-order commits: adjacent changes trade checkpoints, in one pass.
Swapped(cks, swaps) ==
    LET pass[j \in 0..Len(cks)] ==
            IF j = 0 THEN cks
            ELSE IF j \notin swaps THEN pass[j - 1]
            ELSE [pass[j - 1] EXCEPT ![j] = pass[j - 1][j + 1], ![j + 1] = pass[j - 1][j]]
    IN  pass[Len(cks)]

\* A schema flush puts a change into the checkpoint of the one before it.
Flushed(cks, flushes) ==
    LET pass[j \in 0..Len(cks)] ==
            IF j = 0 THEN cks
            ELSE IF j \notin flushes THEN pass[j - 1]
            ELSE [pass[j - 1] EXCEPT ![j + 1] = pass[j - 1][j]]
    IN  pass[Len(cks)]

\* Merge every coarsening levels of checkpoints into one.
Coarsened(cks) == [j \in DOMAIN cks |-> 1 + (cks[j] - 1) \div config.coarsening]

\* Mutant: the enforcement is forgotten.
Perturbed_Always == Format # "hudi"

\* Only the unsafe modes are perturbed; Hudi never is: precombine decides there.
Perturbed == Format # "hudi" /\ ~Enforced

\* What a knob may choose: any of n places, or none when its rate is zero.
Chosen(on, n) == IF on THEN SUBSET (1..n) ELSE {{}}

Pairs(n) == IF n = 0 THEN 0 ELSE n - 1

\* Rows are written twice only for changes that write a row.
Writes(k) == {j \in 1..Changes(k) : Op(k, j) \in {"c", "u"}}

\* One key's perturbed assignment and the changes it writes twice.
KeyPlans(k) ==
    LET n == Changes(k)
        disturbed == {Flushed(Swapped(CleanAssign(n), swaps), flushes) :
                      swaps \in Chosen(config.outOfOrder, Pairs(n)),
                      flushes \in Chosen(config.schema, Pairs(n))}
    IN  {IF Format = "iceberg" THEN Coarsened(cks) ELSE cks : cks \in disturbed}
            \X (IF config.duplicates THEN SUBSET Writes(k) ELSE {{}})

BuildPlan ==
    /\ stage = "plan"
    /\ IF Perturbed
       THEN \E plans \in {f \in [config.keys -> UNION {KeyPlans(k) : k \in config.keys}] :
                          \A k \in config.keys : f[k] \in KeyPlans(k)} :
              /\ assign' = [k \in Keys |-> IF k \in config.keys THEN plans[k][1] ELSE <<>>]
              /\ copied' = [k \in Keys |-> IF k \in config.keys THEN plans[k][2] ELSE {}]
       ELSE /\ assign' = [k \in Keys |-> CleanAssign(Changes(k))]
            /\ UNCHANGED copied
    /\ stage' = "apply"
    /\ UNCHANGED <<config, history, lsns, clock, ts>>

-----------------------------------------------------------------------------
\* The checkpoints of the plan.

LastCheckpoint == Max({0} \cup UNION {{assign[k][j] : j \in 1..Changes(k)} : k \in Keys})

\* The changes of a key that checkpoint c carries.
Carried(k, c) == {j \in 1..Changes(k) : assign[k][j] = c}

\* The rows of a checkpoint; copy tells the two copies of one row apart.
\* Checkpoint 0 is the snapshot load.
Rows(c) ==
    IF c = 0 THEN {[key |-> k, ver |-> lsns[k][1], copy |-> 1] : k \in {q \in Keys : IsRead(q)}}
    ELSE UNION {{[key |-> k, ver |-> Lsn(k, j), copy |-> 1] : j \in Carried(k, c) \cap Writes(k)}
                \cup {[key |-> k, ver |-> Lsn(k, j), copy |-> 2] : j \in Carried(k, c) \cap copied[k]} :
                k \in Keys}

\* Mutant: only the real deletes, for Iceberg too.
Deletes_OnlyReal(c) ==
    IF c = 0 THEN {} ELSE {k \in Keys : \E j \in Carried(k, c) : Op(k, j) = "d"}

\* Mutant: delete-then-insert for every format.
Deletes_Always(c) ==
    IF c = 0 THEN {} ELSE {k \in Keys : Carried(k, c) # {}}

\* The keys a checkpoint deletes: delete-then-insert for Iceberg, and only the
\* real deletes for the formats that upsert.
Deletes(c) ==
    IF c = 0 THEN {}
    ELSE {k \in Keys : \E j \in Carried(k, c) : Format = "iceberg" \/ Op(k, j) = "d"}
=============================================================================
