----------------------------- MODULE UpsertLog -----------------------------
(***************************************************************************)
(* What the enforced ("safe") write path promises its readers: each key has*)
(* a log of versions, and the table shows of every key the version its     *)
(* prefix of the log ends with, as one row or none.  A commit moves any    *)
(* number of keys on by one version and skips none.  Deletes, sequence     *)
(* numbers, checkpoints and files are beneath this level.                  *)
(***************************************************************************)
EXTENDS Naturals, Sequences

CONSTANT Keys

VARIABLES
    log,     \* the versions of each key, oldest first; 0 says that the key is absent
    at,      \* how much of each log has been applied
    view     \* the rows of each key a reader sees

logVars == <<log, at, view>>

Shown(version) == IF version = 0 THEN {} ELSE {[ver |-> version, copy |-> 1]}

LogInit ==
    /\ log = [k \in Keys |-> <<>>]
    /\ at = [k \in Keys |-> 0]
    /\ view = [k \in Keys |-> {}]

\* The source says something new about a key.
Record(k) ==
    /\ \A q \in Keys \ {k} : log'[q] = log[q]
    /\ Len(log'[k]) = Len(log[k]) + 1
    /\ SubSeq(log'[k], 1, Len(log[k])) = log[k]
    /\ UNCHANGED <<at, view>>

\* A commit.
Apply(moved) ==
    /\ \A k \in moved : at[k] < Len(log[k])
    /\ at' = [k \in Keys |-> IF k \in moved THEN at[k] + 1 ELSE at[k]]
    /\ view' = [k \in Keys |-> IF k \in moved THEN Shown(log[k][at[k] + 1]) ELSE view[k]]
    /\ UNCHANGED log

LogNext == (\E k \in Keys : Record(k)) \/ (\E moved \in SUBSET Keys : Apply(moved))

LogSpec == LogInit /\ [][LogNext]_logVars
=============================================================================
