---------------------------- MODULE LayoutLemmas ----------------------------
(***************************************************************************)
(* What the checker's per-key arithmetic amounts to on a table: facts about*)
(* Max and Min of finite sets, about recursion over an interval, about     *)
(* visibility, and about the verdicts.  The proofs about the components    *)
(* that share a table rest on these.                                       *)
(***************************************************************************)
EXTENDS IcebergAdapter, TLAPS, FiniteSetTheorems

\* A finite nonempty set of numbers has a largest and a smallest element (the
\* model's max and min of a list that is not empty).
LEMMA Extremes ==
    ASSUME NEW S \in SUBSET Nat, IsFiniteSet(S), S # {}
    PROVE  /\ \E x \in S : \A y \in S : x >= y
           /\ \E x \in S : \A y \in S : x <= y
<1> DEFINE Above(x) == {y \in S : y > x}
           Below(x) == {y \in S : y < x}
<1>1. IsWellFoundedOn(StrictSubsetOrdering(S), SUBSET S)
  BY FS_StrictSubsetOrderingWellFounded, FS_FiniteSubsetsOfFinite
<1>2. \E x \in S : \A y \in S : x >= y
  <2> DEFINE T == {Above(x) : x \in S}
  <2>1. T \subseteq SUBSET S /\ T # {} OBVIOUS
  <2>2. PICK A \in T : \A B \in T : <<B, A>> \notin StrictSubsetOrdering(S)
    <3> HIDE DEF T
    <3> QED BY <1>1, <2>1, WFMin
  <2>3. PICK x \in S : A = Above(x) OBVIOUS
  <2>4. ASSUME NEW z \in S, z > x PROVE FALSE
    <3>1. z \in Above(x) /\ z \notin Above(z) BY <2>4
    <3>2. Above(z) \subseteq Above(x)
      <4> SUFFICES ASSUME NEW y \in S, y > z PROVE y > x OBVIOUS
      <4> QED BY <2>4, x \in Nat, y \in Nat, z \in Nat
    <3>3. <<Above(z), A>> \in StrictSubsetOrdering(S)
      <4> HIDE DEF Above
      <4> QED BY <2>1, <2>3, <3>1, <3>2 DEF StrictSubsetOrdering
    <3> QED BY <3>3, <2>2
  <2> QED BY <2>4, \A y \in S : y \in Nat
<1>3. \E x \in S : \A y \in S : x <= y
  <2> DEFINE T == {Below(x) : x \in S}
  <2>1. T \subseteq SUBSET S /\ T # {} OBVIOUS
  <2>2. PICK A \in T : \A B \in T : <<B, A>> \notin StrictSubsetOrdering(S)
    <3> HIDE DEF T
    <3> QED BY <1>1, <2>1, WFMin
  <2>3. PICK x \in S : A = Below(x) OBVIOUS
  <2>4. ASSUME NEW z \in S, z < x PROVE FALSE
    <3>1. z \in Below(x) /\ z \notin Below(z) BY <2>4
    <3>2. Below(z) \subseteq Below(x)
      <4> SUFFICES ASSUME NEW y \in S, y < z PROVE y < x OBVIOUS
      <4> QED BY <2>4, x \in Nat, y \in Nat, z \in Nat
    <3>3. <<Below(z), A>> \in StrictSubsetOrdering(S)
      <4> HIDE DEF Below
      <4> QED BY <2>1, <2>3, <3>1, <3>2 DEF StrictSubsetOrdering
    <3> QED BY <3>3, <2>2
  <2> QED BY <2>4, \A y \in S : y \in Nat
<1> QED BY <1>2, <1>3

\* Max and Min are what their names say (Python's max and min).
LEMMA MaxMin ==
    ASSUME NEW S \in SUBSET Nat, IsFiniteSet(S), S # {}
    PROVE  /\ Max(S) \in S /\ \A y \in S : Max(S) >= y
           /\ Min(S) \in S /\ \A y \in S : Min(S) <= y
<1>1. Max(S) \in S /\ \A y \in S : Max(S) >= y
  BY Extremes DEF Max
<1>2. Min(S) \in S /\ \A y \in S : Min(S) <= y
  BY Extremes DEF Min
<1> QED BY <1>1, <1>2

\* The image of a finite set is finite.
LEMMA FiniteImage ==
    ASSUME NEW S, NEW T, NEW f \in [S -> T], IsFiniteSet(S), \A t \in T : \E s \in S : f[s] = t
    PROVE  IsFiniteSet(T)
<1>1. f \in Surjection(S, T) BY DEF Surjection
<1> QED BY <1>1, FS_Surjection DEF ExistsSurjection

\* Induction over an interval, for a set of numbers.
LEMMA UpTo ==
    ASSUME NEW n \in Nat, NEW T, 0 \in T, \A j \in 1..n : j - 1 \in T => j \in T
    PROVE  0..n \subseteq T
<1> DEFINE Bad == {j \in 0..n : j \notin T}
<1> SUFFICES ASSUME Bad # {} PROVE FALSE OBVIOUS
<1>1. \E x \in Bad : \A y \in Bad : x <= y
  <2>1. IsFiniteSet(0..n) BY FS_Interval
  <2>2. Bad \in SUBSET Nat /\ IsFiniteSet(Bad) BY <2>1, FS_Subset
  <2> HIDE DEF Bad
  <2> QED BY <2>2, Extremes
<1>2. PICK x \in Bad : \A y \in Bad : x <= y BY <1>1
<1>3. x # 0 OBVIOUS
<1>4. x \in 1..n /\ x - 1 \in 0..n BY <1>3
<1>5. x - 1 \notin Bad BY <1>2, <1>4
<1> QED BY <1>4, <1>5

\* A pass f over n places: from the base, the step of each place in turn.
IsPass(f, n, base, step) == f[0] = base /\ \A j \in 1..n : f[j] = step[j][f[j - 1]]

\* A pass over an interval exists: each step makes the next value from the one before.
LEMMA Pass ==
    ASSUME NEW n \in Nat, NEW A, NEW base \in A, NEW step \in [1..n -> [A -> A]]
    PROVE  \E f \in [0..n -> A] : IsPass(f, n, base, step)
<1> DEFINE Reaches(m) == \E f \in [0..m -> A] : f[0] = base /\ \A j \in 1..m : f[j] = step[j][f[j - 1]]
           T == {m \in 0..n : Reaches(m)}
<1>1. 0 \in T
  <2> DEFINE g == [j \in 0..0 |-> base]
  <2>1. g \in [0..0 -> A] /\ g[0] = base OBVIOUS
  <2>2. \A j \in 1..0 : g[j] = step[j][g[j - 1]] OBVIOUS
  <2> HIDE DEF g
  <2>3. Reaches(0) BY <2>1, <2>2
  <2> QED BY <2>3
<1>2. ASSUME NEW j \in 1..n, j - 1 \in T PROVE j \in T
  <2>1. PICK f \in [0..j - 1 -> A] : f[0] = base /\ \A i \in 1..j - 1 : f[i] = step[i][f[i - 1]]
    BY <1>2
  <2> DEFINE g == [i \in 0..j |-> IF i = j THEN step[j][f[j - 1]] ELSE f[i]]
  <2>2. f[j - 1] \in A OBVIOUS
  <2>3. step[j] \in [A -> A] OBVIOUS
  <2>4. step[j][f[j - 1]] \in A BY <2>2, <2>3
  <2>5. g \in [0..j -> A] BY <2>4
  <2>6. g[0] = base BY <2>1
  <2>7. ASSUME NEW i \in 1..j PROVE g[i] = step[i][g[i - 1]]
    <3>1. CASE i = j BY <3>1
    <3>2. CASE i # j BY <3>2, <2>1
    <3> QED BY <3>1, <3>2
  <2> HIDE DEF g
  <2>8. Reaches(j) BY <2>5, <2>6, <2>7
  <2>9. j \in 0..n OBVIOUS
  <2> HIDE DEF Reaches
  <2> QED BY <2>8, <2>9
<1>3. n \in T
  <2> HIDE DEF T
  <2>1. 0..n \subseteq T BY <1>1, <1>2, UpTo
  <2> QED BY <2>1
<1> QED BY <1>3 DEF IsPass

\* A reader's view and the checker's agree: the record-level threshold of
\* is_visible hides exactly the rows that some delete of a strictly higher
\* sequence number reaches (model.py lines 93-101).
LEMMA VisibleIsLive ==
    ASSUME NEW K, NEW V, NEW table \in Table(K, V), IsFiniteSet(table.dels),
           NEW k, NEW hv, NEW up
    PROVE  VisibleSet(Layout(table, k, hv, up)) = RowsOf(LiveRows(table), k)
<1> DEFINE L == Layout(table, k, hv, up)
           D == {e \in table.dels : e.key = k}
<1>1. L.dels \in SUBSET Nat BY DEF Layout, Table, Del
<1>2. IsFiniteSet(L.dels)
  <2>1. IsFiniteSet(D) BY FS_Subset
  <2>2. L.dels = {d.seq : d \in D} BY DEF Layout
  <2>3. /\ [d \in D |-> d.seq] \in [D -> L.dels]
        /\ \A n \in L.dels : \E d \in D : [e \in D |-> e.seq][d] = n
    BY <2>2
  <2> HIDE DEF D, L
  <2> QED BY <2>1, <2>3, FiniteImage
<1>3. ASSUME NEW r \in table.data, r.key = k
      PROVE  IsVisible(r.seq, L) <=> ~IsDeleted(table, r)
  <2>1. r.seq \in Nat BY DEF Table, Row
  <2>2. IsDeleted(table, r) <=> \E n \in L.dels : n > r.seq
    BY <1>3 DEF IsDeleted, Layout
  <2>3. CASE L.dels = {} BY <2>2, <2>3 DEF IsVisible
  <2>4. CASE L.dels # {}
    <3> HIDE DEF L
    <3>1. SD(L) \in L.dels /\ \A n \in L.dels : SD(L) >= n
      BY <1>1, <1>2, <2>4, MaxMin DEF SD
    <3>2. SD(L) \in Nat BY <3>1, <1>1
    <3>3. IsVisible(r.seq, L) <=> r.seq >= SD(L) BY <2>4 DEF IsVisible
    <3> QED BY <1>1, <2>1, <2>2, <3>1, <3>2, <3>3
  <2> QED BY <2>3, <2>4
<1>4. L.data = RowsOf(table.data, k) BY DEF Layout
<1> HIDE DEF L
<1>5. VisibleSet(L) = {r \in RowsOf(table.data, k) : ~IsDeleted(table, r)}
  BY <1>3, <1>4 DEF VisibleSet, RowsOf
<1> QED BY <1>5 DEF L, RowsOf, LiveRows

\* A discarded row has a strictly lower sequence number than every surviving
\* row of its key (lean/MorFaithful/GateSoundness.lean,
\* discarded_seq_lt_visible_seq).
LEMMA DiscardedBeforeSurvivor ==
    ASSUME NEW K, NEW V, NEW table \in Table(K, V),
           NEW d \in DeadRows(table), NEW s \in LiveRows(table), d.key = s.key
    PROVE  d.seq < s.seq
<1>1. d.seq \in Nat /\ s.seq \in Nat BY DEF DeadRows, LiveRows, Table, Row
<1>2. PICK e \in table.dels : e.key = d.key /\ e.seq > d.seq BY DEF DeadRows, IsDeleted
<1>3. ~(e.seq > s.seq) BY <1>2 DEF LiveRows, IsDeleted
<1>4. e.seq \in Nat BY DEF Table, Del
<1> QED BY <1>1, <1>2, <1>3, <1>4

\* The versions of finitely many rows are finitely many numbers.
LEMMA VersionsFinite ==
    ASSUME NEW K, NEW V, V \subseteq Nat \cup {NoVersion},
           NEW rows \in SUBSET Row(K, V), IsFiniteSet(rows)
    PROVE  VersionsOf(rows) \in SUBSET Nat /\ IsFiniteSet(VersionsOf(rows))
<1> DEFINE W == {r \in rows : r.ver # NoVersion}
<1>1. VersionsOf(rows) \in SUBSET Nat BY DEF VersionsOf, Row
<1>2. IsFiniteSet(W) BY FS_Subset
<1>3. /\ [r \in W |-> r.ver] \in [W -> VersionsOf(rows)]
      /\ \A v \in VersionsOf(rows) : \E r \in W : [q \in W |-> q.ver][r] = v
  BY DEF VersionsOf
<1> HIDE DEF W
<1> QED BY <1>1, <1>2, <1>3, FiniteImage

\* The verdict of a key by the rows a reader sees of it, none, one or more
\* (classify.py lines 66-114), under every command line.
LEMMA VerdictByRows ==
    ASSUME NEW K, NEW V, V \subseteq Nat \cup {NoVersion},
           NEW table \in Table(K, V), IsFiniteSet(table.data), IsFiniteSet(table.dels), NEW k,
           NEW hv \in BOOLEAN, NEW up \in BOOLEAN
    PROVE  LET Live == RowsOf(LiveRows(table), k)
               Verdict == Classify(Layout(table, k, hv, up))
           IN  /\ Live = {} =>
                     Verdict = IF RowsOf(table.data, k) = {} THEN "FAITHFUL"
                               ELSE IF up THEN "WRONGLY_SUPPRESSED_CURRENT" ELSE "NEEDS_CONTEXT"
               /\ Live # {} /\ (~\E s : Live = {s}) => Verdict = "DUPLICATE"
               /\ \A s : Live = {s} =>
                     Verdict = IF ~hv \/ s.ver = NoVersion THEN "UNDECIDABLE"
                               ELSE IF \E d \in RowsOf(table.data, k) : d.ver # NoVersion /\ d.ver > s.ver
                                    THEN "STALE_WINS" ELSE "FAITHFUL"
<1> DEFINE L == Layout(table, k, hv, up)
           Live == RowsOf(LiveRows(table), k)
           All == RowsOf(table.data, k)
<1>1. VisibleSet(L) = Live BY VisibleIsLive
<1>2. L.data = All /\ (L.hasVersion <=> hv) /\ (L.deletesPossible <=> ~up) BY DEF Layout
<1>3. All \in SUBSET Row(K, V) /\ IsFiniteSet(All) BY FS_Subset DEF RowsOf, Table
<1>4. Live \subseteq All /\ IsFiniteSet(Live) BY <1>3, FS_Subset DEF RowsOf, LiveRows
<1>5. Cardinality(Live) \in Nat BY <1>4, FS_CardinalityType
<1>6. Cardinality(Live) = 1 <=> \E s : Live = {s} BY <1>4, FS_Singleton
<1>7. Cardinality(Live) = 0 <=> Live = {} BY <1>4, FS_EmptySet
<1> HIDE DEF L, Live, All
<1>8. ASSUME Live = {}
      PROVE  Classify(L) = IF All = {} THEN "FAITHFUL"
                           ELSE IF up THEN "WRONGLY_SUPPRESSED_CURRENT" ELSE "NEEDS_CONTEXT"
  BY <1>1, <1>2, <1>7, <1>8 DEF Classify, MultPhys, ClassifyAbsent
<1>9. ASSUME Live # {}, ~\E s : Live = {s} PROVE Classify(L) = "DUPLICATE"
  BY <1>1, <1>5, <1>6, <1>7, <1>9 DEF Classify, MultPhys
<1>10. ASSUME NEW s, Live = {s}
       PROVE  Classify(L) = IF ~hv \/ s.ver = NoVersion THEN "UNDECIDABLE"
                            ELSE IF \E d \in All : d.ver # NoVersion /\ d.ver > s.ver
                                 THEN "STALE_WINS" ELSE "FAITHFUL"
  <2>1. Classify(L) = ClassifySurvivor(L) BY <1>1, <1>6, <1>10 DEF Classify, MultPhys
  <2>2. (CHOOSE r \in VisibleSet(L) : TRUE) = s BY <1>1, <1>10
  <2>3. CASE ~hv \/ s.ver = NoVersion BY <1>2, <2>1, <2>2, <2>3 DEF ClassifySurvivor
  <2>4. CASE hv /\ s.ver # NoVersion
    <3> DEFINE W == VersionsOf(All)
    <3>1. W \in SUBSET Nat /\ IsFiniteSet(W) BY <1>3, VersionsFinite
    <3>2. s \in All BY <1>4, <1>10
    <3>3. s.ver \in W BY <2>4, <3>2 DEF VersionsOf
    <3>4. W = {d.ver : d \in {r \in All : r.ver # NoVersion}} BY DEF VersionsOf
    <3>5. CurrentVersion(L) = Max(W) BY <1>2, <2>4, <3>3 DEF CurrentVersion
    <3> HIDE DEF W
    <3>6. Max(W) \in W /\ \A v \in W : Max(W) >= v BY <3>1, <3>3, MaxMin
    <3>7. Max(W) # NoVersion BY <3>1, <3>6, NoVersionAssumption
    <3>8. Classify(L) = IF s.ver = Max(W) THEN "FAITHFUL" ELSE "STALE_WINS"
      BY <1>2, <2>1, <2>2, <2>4, <3>5, <3>7 DEF ClassifySurvivor
    <3>9. s.ver # Max(W) <=> \E v \in W : v > s.ver
      <4>1. Max(W) \in Nat /\ s.ver \in Nat /\ \A v \in W : v \in Nat BY <3>1, <3>3, <3>6
      <4>2. ASSUME s.ver # Max(W) PROVE Max(W) > s.ver BY <3>3, <3>6, <4>1, <4>2
      <4>3. ASSUME NEW v \in W, v > s.ver PROVE s.ver # Max(W) BY <3>6, <4>1, <4>3
      <4> QED BY <3>6, <4>2, <4>3
    <3> QED BY <2>4, <3>4, <3>8, <3>9
  <2> QED BY <2>3, <2>4
<1> QED BY <1>8, <1>9, <1>10 DEF L, Live, All

\* The verdict STALE_WINS says: exactly one surviving row, and some row of the
\* key has a larger version (classify.py lines 101-114).
LEMMA StaleWinsMeaning ==
    ASSUME NEW K, NEW V, V \subseteq Nat \cup {NoVersion},
           NEW table \in Table(K, V), IsFiniteSet(table.data), IsFiniteSet(table.dels), NEW k
    PROVE  Classify(Layout(table, k, TRUE, FALSE)) = "STALE_WINS" <=>
              \E s : /\ RowsOf(LiveRows(table), k) = {s}
                    /\ s.ver # NoVersion
                    /\ \E d \in RowsOf(table.data, k) : d.ver # NoVersion /\ d.ver > s.ver
<1> DEFINE L == Layout(table, k, TRUE, FALSE)
           Live == RowsOf(LiveRows(table), k)
           All == RowsOf(table.data, k)
<1>1. /\ Live = {} => Classify(L) = IF All = {} THEN "FAITHFUL" ELSE "NEEDS_CONTEXT"
      /\ Live # {} /\ (~\E s : Live = {s}) => Classify(L) = "DUPLICATE"
      /\ \A s : Live = {s} =>
            Classify(L) = IF s.ver = NoVersion THEN "UNDECIDABLE"
                          ELSE IF \E d \in All : d.ver # NoVersion /\ d.ver > s.ver
                               THEN "STALE_WINS" ELSE "FAITHFUL"
  BY VerdictByRows
<1> HIDE DEF L, Live, All
<1>2. ASSUME ~\E s : Live = {s} PROVE Classify(L) # "STALE_WINS" BY <1>1, <1>2
<1>3. ASSUME NEW s, Live = {s}
      PROVE  Classify(L) = "STALE_WINS" <=>
                s.ver # NoVersion /\ \E d \in All : d.ver # NoVersion /\ d.ver > s.ver
  BY <1>1, <1>3
<1> QED BY <1>2, <1>3 DEF L, Live, All
=============================================================================
