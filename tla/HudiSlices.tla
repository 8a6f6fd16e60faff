----------------------------- MODULE HudiSlices -----------------------------
(***************************************************************************)
(* One file group of a Hudi merge-on-read table under maintenance, as the  *)
(* Hudi probes drive it (cost-study/studies/hudi/).  A slice is a base file*)
(* and the log files attached to it by its instant; compaction merges the  *)
(* current slice into the base of a new one, and the cleaner deletes       *)
(* slices.  Of a key's records the one with the latest timestamp wins.     *)
(***************************************************************************)
EXTENDS Naturals, Sequences, FiniteSets, SequencesExt

CONSTANTS
    HudiKeys,
    Timestamps,         \* values of the precombine field
    MaxUpserts          \* bound: writes

ASSUME TimestampsAssumption == Timestamps \subseteq Nat

VARIABLES
    slices,        \* every file slice, oldest first; the last is the current one
    sliceFiles,    \* the slices whose files are there
    due,           \* the table service the last write asked for, still to run
    upserted       \* every batch ever written, oldest first; no file holds it

hudiVars == <<slices, sliceFiles, due, upserted>>

-----------------------------------------------------------------------------
\* Mutant: of two records with one timestamp the stored one stays.
Merge_KeepFirst(view, batch) ==
    {q \in view : \A r \in batch : r.key = q.key => q.ts >= r.ts}
        \cup {r \in batch : \A q \in view : q.key = r.key => q.ts < r.ts}

\* EVENT_TIME_ORDERING: a record of the batch replaces the stored one of its key
\* unless the stored one has the later timestamp.
Merge(view, batch) ==
    {q \in view : \A r \in batch : r.key = q.key => q.ts > r.ts}
        \cup {r \in batch : \A q \in view : q.key = r.key => q.ts <= r.ts}

CurrentSlice == Last(slices)

\* A base file and its log files, merged in the order of the log.
Merged(base, logs) ==
    LET view[i \in 0..Len(logs)] == IF i = 0 THEN base ELSE Merge(view[i - 1], logs[i])
    IN  view[Len(logs)]

\* The snapshot query: the current slice, merged.
SnapshotQuery == IF slices = <<>> THEN {} ELSE Merged(CurrentSlice.base, CurrentSlice.logs)

Records(slice) == slice.base \cup UNION ToSet(slice.logs)

-----------------------------------------------------------------------------
HudiInit ==
    /\ slices = <<>>
    /\ sliceFiles = {}
    /\ due = "nothing"
    /\ upserted = <<>>

NewSlice(base) ==
    /\ slices' = Append(slices, [base |-> base, logs |-> <<>>, since |-> Len(upserted')])
    /\ sliceFiles' = sliceFiles \cup {Len(slices) + 1}

\* One upsert.  The first one writes every key and makes the base file; a later one
\* attaches a log file to the current slice, and may ask for an inline compaction or
\* for the cleaner.
Upsert(keys, service) ==
    /\ due = "nothing"
    /\ Len(upserted) < MaxUpserts
    /\ \E ts \in [keys -> Timestamps] :
        LET batch == {[key |-> k, ts |-> ts[k], ver |-> Len(upserted) + 1] : k \in keys}
        IN  /\ upserted' = Append(upserted, batch)
            /\ IF slices = <<>>
               THEN keys = HudiKeys /\ service = "nothing" /\ NewSlice(batch)
               ELSE /\ slices' = [slices EXCEPT ![Len(slices)].logs = Append(@, batch)]
                    /\ UNCHANGED sliceFiles
    /\ due' = service

\* hoodie.compact.inline: the old slice keeps its files.
Compact ==
    /\ due = "compaction"
    /\ due' = "nothing"
    /\ UNCHANGED upserted
    /\ NewSlice(SnapshotQuery)

\* KEEP_LATEST_COMMITS with one commit retained: the slice that serves it.
Retained == {Len(slices)}

Clean ==
    /\ due = "cleaner"
    /\ due' = "nothing"
    /\ sliceFiles' = sliceFiles \cap Retained
    /\ UNCHANGED <<slices, upserted>>

HudiNext ==
    \/ \E keys \in (SUBSET HudiKeys) \ {{}}, service \in {"nothing", "compaction", "cleaner"} :
            Upsert(keys, service)
    \/ Compact
    \/ Clean

HudiSpec == HudiInit /\ [][HudiNext]_hudiVars

-----------------------------------------------------------------------------
\* Properties.

\* Of all records of the first n batches, per key the latest by timestamp, the later
\* write on a tie.
Winners(n) ==
    LET written == UNION {upserted[i] : i \in 1..n}
        Beats(r, q) == r.ts > q.ts \/ (r.ts = q.ts /\ r.ver > q.ver)
    IN  {r \in written : \A q \in written : q.key = r.key /\ q # r => Beats(r, q)}

\* However often the group is compacted and cleaned, the snapshot query serves each
\* key's winner over everything ever written, and a base file the winners as of the
\* compaction that made it (probe_hudi_slices.py: the skewed version 3 stays the
\* winner before compaction, after it and after the cleaner).
WinnerSurvivesMaintenance ==
    /\ SnapshotQuery = Winners(Len(upserted))
    /\ \A i \in DOMAIN slices : slices[i].base = Winners(slices[i].since)

HudiLife ==
    INSTANCE EvidenceLife WITH
        CopyOnWrite <- FALSE,
        writes      <- DOMAIN upserted,
        rewrites    <- DOMAIN slices \ {1},
        content     <- SnapshotQuery,
        visible     <- IF slices = <<>> THEN {} ELSE Records(CurrentSlice),
        recoverable <- UNION {Records(slices[i]) : i \in sliceFiles}

\* The losing versions leave the current slice when it is compacted, all of them and not
\* before, and the disk when the old slice is cleaned, not before; neither service
\* changes what the snapshot query serves, and no upsert brings a loser back.
HudiKeepsEvidence == HudiLife!LifeSpec
=============================================================================
