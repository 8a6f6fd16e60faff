---------------------------- MODULE CheckerReport ----------------------------
(***************************************************************************)
(* What mor-check says of a table (checker/src/mor_checker): the metadata  *)
(* screen of adapters/iceberg.py (Tier A), the report that report.py folds *)
(* out of the exact verdicts (Tier B), its localization sentences, and the *)
(* exit code of cli.py.                                                    *)
(*                                                                         *)
(* A key is a tuple with one value per key column.  A value is a natural   *)
(* number or NullValue: column bounds in the metadata leave nulls out.     *)
(***************************************************************************)
EXTENDS IcebergAdapter, Sequences

CONSTANT NullValue      \* a null in a key column

ASSUME NullValueAssumption == NullValue \notin Nat

\* The command line: --version-column, --upsert-only, --all-keys.
Options == [hasVersion : BOOLEAN, upsertOnly : BOOLEAN, allKeys : BOOLEAN]

-----------------------------------------------------------------------------
\* Tier A, from metadata only.

KeyColumns(table) == UNION {DOMAIN r.key : r \in table.data}

DataFiles(table) == {r.file : r \in table.data}

FileRows(table, f) == {r \in table.data : r.file = f}

FileSeq(table, f) == (CHOOSE r \in FileRows(table, f) : TRUE).seq

\* The values that column c's bounds are taken over; no bounds if there is none.
Bounded(table, f, c) == {r.key[c] : r \in FileRows(table, f)} \ {NullValue}

\* Mutant: ranges that only touch do not overlap.
KeyBoundsOverlap_Touching(table, f, g) ==
    \A c \in KeyColumns(table) : Bounded(table, f, c) # {} /\ Bounded(table, g, c) # {} =>
        /\ Max(Bounded(table, f, c)) > Min(Bounded(table, g, c))
        /\ Max(Bounded(table, g, c)) > Min(Bounded(table, f, c))

KeyBoundsOverlap(table, f, g) ==
    \A c \in KeyColumns(table) : Bounded(table, f, c) # {} /\ Bounded(table, g, c) # {} =>
        /\ Max(Bounded(table, f, c)) >= Min(Bounded(table, g, c))
        /\ Max(Bounded(table, g, c)) >= Min(Bounded(table, f, c))

KeyBoundsCollapsed(table, f) == \A c \in KeyColumns(table) : Cardinality(Bounded(table, f, c)) = 1

HighCandidates(table) ==
    {f \in DataFiles(table) :
        Cardinality(FileRows(table, f)) >= 2 /\ KeyBoundsCollapsed(table, f)}

MediumCandidates(table) ==
    {pair \in kSubset(2, DataFiles(table)) :
        \E f, g \in pair : /\ f # g
                           /\ FileSeq(table, f) = FileSeq(table, g)
                           /\ KeyBoundsOverlap(table, f, g)}

Screen(table) == HighCandidates(table) \cup UNION MediumCandidates(table)

-----------------------------------------------------------------------------
\* Tier B folded into a report.

Violations == {"DUPLICATE", "WRONGLY_SUPPRESSED_CURRENT", "STALE_WINS"}

KeyLayout(table, k, options) == Layout(table, k, options.hasVersion, options.upsertOnly)

Verdict(table, k, options) == Classify(KeyLayout(table, k, options))

Counts(table, options) ==
    [v \in Verdicts |-> Cardinality({k \in LayoutKeys(table) : Verdict(table, k, options) = v})]

Findings(table, options) ==
    {k \in LayoutKeys(table) : options.allKeys \/ Verdict(table, k, options) # "FAITHFUL"}

\* Mutant: a key that needs context is certified.
ExitCode_ContextPasses(counts) ==
    IF \E v \in Violations : counts[v] > 0 THEN 2
    ELSE IF counts["UNDECIDABLE"] > 0 THEN 1 ELSE 0

\* 0 faithful, 1 needs review, 2 violations.
ExitCode(counts) ==
    IF \E v \in Violations : counts[v] > 0 THEN 2
    ELSE IF counts["UNDECIDABLE"] + counts["NEEDS_CONTEXT"] > 0 THEN 1 ELSE 0

CurrentRecords(layout) == {r \in layout.data : r.ver = CurrentVersion(layout) /\ r.ver # NoVersion}

\* What the sentence of a finding says: the sequence number it gives for the
\* delete, the one of the delete file it names, and the file of the row it names.
\* A zero-survivor sentence names the LAST of the key's deletes in the order of
\* the manifest entries; that order is Iceberg's, so any of them may be the last.
Localize(table, k, options) ==
    LET layout == KeyLayout(table, k, options)
        top == IF layout.dels = {} THEN 0 ELSE SD(layout)
        atTop == {r \in VisibleSet(layout) : r.seq = top}
        verdict == Classify(layout)
    IN  CASE verdict = "DUPLICATE" ->
                {[deleteSeq |-> top, named |-> top, row |-> r.file] :
                     r \in IF atTop # {} THEN atTop ELSE VisibleSet(layout)}
          [] verdict \in {"WRONGLY_SUPPRESSED_CURRENT", "NEEDS_CONTEXT"} ->
                {[deleteSeq |-> top, named |-> d, row |-> <<0, 0>>] : d \in layout.dels}
          [] verdict = "STALE_WINS" ->
                {[deleteSeq |-> top, named |-> top, row |-> r.file] : r \in CurrentRecords(layout)}
          [] OTHER ->
                {[deleteSeq |-> top, named |-> top, row |-> r.file] : r \in VisibleSet(layout)}

BuildReport(table, options) ==
    [counts   |-> Counts(table, options),
     exit     |-> ExitCode(Counts(table, options)),
     screened |-> Screen(table),
     findings |-> Findings(table, options),
     clean    |-> Findings(table, options) = {}]
=============================================================================
