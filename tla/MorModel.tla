------------------------------ MODULE MorModel ------------------------------
(***************************************************************************)
(* The format-neutral core of the read-only checker: the physical layout   *)
(* of ONE key (checker/src/mor_checker/core/model.py) and the verdict the  *)
(* checker gives it (core/classify.py).                                    *)
(*                                                                         *)
(* A layout is a record                                                    *)
(*   data             the key's data records, each with the fields seq     *)
(*                    (physical order) and ver (logical order); a record   *)
(*                    may carry more fields, which keep two copies of one  *)
(*                    row apart (the code counts a tuple of records)       *)
(*   dels             the sequence numbers of the key's equality deletes   *)
(*   hasVersion       the table has a version column                       *)
(*   deletesPossible  a legitimate delete could explain zero survivors     *)
(***************************************************************************)
EXTENDS Naturals, FiniteSets, FiniteSetsExt

CONSTANT NoVersion      \* a record without a version (Python's None)

ASSUME NoVersionAssumption == NoVersion \notin Nat

Verdicts == {"FAITHFUL", "DUPLICATE", "WRONGLY_SUPPRESSED_CURRENT",
             "STALE_WINS", "UNDECIDABLE", "NEEDS_CONTEXT"}

\* The largest delete sequence number, for a layout that has a delete.
SD(layout) == Max(layout.dels)

\* A record is visible iff no delete has a strictly higher sequence number.
IsVisible(seq, layout) == layout.dels = {} \/ seq >= SD(layout)

VisibleSet(layout) == {r \in layout.data : IsVisible(r.seq, layout)}

SuppressedSet(layout) == {r \in layout.data : ~IsVisible(r.seq, layout)}

\* The number of rows a merge-on-read reader returns for the key.
MultPhys(layout) == Cardinality(VisibleSet(layout))

VersionsOf(records) == {r.ver : r \in records} \ {NoVersion}

\* The logically current version: the largest among ALL data records, the
\* suppressed ones included (NoVersion when the layout cannot tell).
CurrentVersion(layout) ==
    IF layout.hasVersion /\ VersionsOf(layout.data) # {}
    THEN Max(VersionsOf(layout.data))
    ELSE NoVersion

\* Mutant: one visible row is taken for faithful when nothing says otherwise.
ClassifySurvivor_Optimistic(layout) ==
    LET survivor == CHOOSE r \in VisibleSet(layout) : TRUE
    IN  IF ~layout.hasVersion \/ survivor.ver \in {NoVersion, CurrentVersion(layout)}
        THEN "FAITHFUL" ELSE "STALE_WINS"

ClassifySurvivor(layout) ==
    LET survivor == CHOOSE r \in VisibleSet(layout) : TRUE
    IN  IF ~layout.hasVersion \/ NoVersion \in {CurrentVersion(layout), survivor.ver}
        THEN "UNDECIDABLE"
        ELSE IF survivor.ver = CurrentVersion(layout) THEN "FAITHFUL" ELSE "STALE_WINS"

ClassifyAbsent(layout) ==
    IF layout.data = {} THEN "FAITHFUL"
    ELSE IF layout.deletesPossible THEN "NEEDS_CONTEXT" ELSE "WRONGLY_SUPPRESSED_CURRENT"

Classify(layout) ==
    IF MultPhys(layout) >= 2 THEN "DUPLICATE"
    ELSE IF MultPhys(layout) = 0 THEN ClassifyAbsent(layout)
    ELSE ClassifySurvivor(layout)
=============================================================================
