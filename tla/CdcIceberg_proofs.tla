-------------------------- MODULE CdcIceberg_proofs --------------------------
(***************************************************************************)
(* The harness's cross-check never fails a run on Iceberg, for every        *)
(* number of keys, changes and checkpoints and under every knob.            *)
(*                                                                         *)
(* The argument: whatever the knobs did to the plan, the table is a         *)
(* function of the plan and of the number of checkpoints applied            *)
(* (TableAfter).  A row survives exactly when no later checkpoint carries   *)
(* a change of its key (LiveIs), and every run has written the version the  *)
(* oracle calls the truth and none above it (TruthIsWritten).               *)
(***************************************************************************)
EXTENDS CdcAudit, CdcPlan_proofs

Empty(c) == Rows(c) = {} /\ Deletes(c) = {}

\* The sequence number of checkpoint c, if it makes a commit.
Commits(c) == {b \in 0..c : b < c /\ ~Empty(b)}
SeqOf(c) == 1 + Cardinality(Commits(c))

Past(n) == {c \in Nat : c < n}

\* The table when the first n checkpoints have been applied, and when it has
\* then been rewritten.
TableAfter(n) ==
    [data |-> UNION {Placed(c, SeqOf(c)) : c \in Past(n)},
     dels |-> UNION {PlacedDeletes(c, SeqOf(c)) : c \in Past(n)}]

MovedTo(n, r) == [r EXCEPT !.file = <<n, 1>>, !.seq = SeqOf(n) - 1]

TableMoved(n) ==
    [data |-> {MovedTo(n, r) : r \in LiveRows(TableAfter(n))}, dels |-> TableAfter(n).dels]

-----------------------------------------------------------------------------
\* Sequence numbers.

\* Commits are numbered in order.
LEMMA SeqOfOrder ==
    ASSUME NEW c \in Nat, NEW d \in Nat
    PROVE  /\ SeqOf(c) \in Nat \ {0}
           /\ c <= d => SeqOf(c) <= SeqOf(d)
           /\ c < d /\ ~Empty(c) => SeqOf(c) < SeqOf(d)
<1>1. \A n \in Nat : IsFiniteSet(Commits(n)) /\ Cardinality(Commits(n)) \in Nat
  <2> SUFFICES ASSUME NEW n \in Nat PROVE IsFiniteSet(Commits(n)) /\ Cardinality(Commits(n)) \in Nat OBVIOUS
  <2>1. IsFiniteSet(0..n) BY FS_Interval
  <2>2. IsFiniteSet(Commits(n)) BY <2>1, FS_Subset DEF Commits
  <2> QED BY <2>2, FS_CardinalityType
<1>2. ASSUME c <= d PROVE Commits(c) \subseteq Commits(d) BY <1>2 DEF Commits
<1>3. ASSUME c <= d PROVE Cardinality(Commits(c)) <= Cardinality(Commits(d)) BY <1>1, <1>2, <1>3, FS_Subset
<1>4. ASSUME c < d, ~Empty(c) PROVE Cardinality(Commits(c)) < Cardinality(Commits(d))
  <2>1. Commits(c) \subseteq Commits(d) BY <1>2, <1>4
  <2>2. c \in Commits(d) /\ c \notin Commits(c) BY <1>4 DEF Commits
  <2>3. Cardinality(Commits(c)) <= Cardinality(Commits(d)) BY <1>3, <1>4
  <2>4. Cardinality(Commits(c)) # Cardinality(Commits(d)) BY <1>1, <2>1, <2>2, FS_Subset
  <2> QED BY <1>1, <2>3, <2>4
<1>5. SeqOf(c) \in Nat \ {0} BY <1>1 DEF SeqOf
<1>6. c <= d => SeqOf(c) <= SeqOf(d) BY <1>1, <1>3 DEF SeqOf
<1>7. c < d /\ ~Empty(c) => SeqOf(c) < SeqOf(d) BY <1>1, <1>4 DEF SeqOf
<1> QED BY <1>5, <1>6, <1>7

\* A checkpoint that makes a commit takes the next number, another one takes none.
LEMMA NextSeq ==
    ASSUME NEW c \in Nat
    PROVE  SeqOf(c + 1) = IF Empty(c) THEN SeqOf(c) ELSE SeqOf(c) + 1
<1>1. IsFiniteSet(Commits(c)) /\ Cardinality(Commits(c)) \in Nat
  <2>1. IsFiniteSet(0..c) BY FS_Interval
  <2>2. IsFiniteSet(Commits(c)) BY <2>1, FS_Subset DEF Commits
  <2> QED BY <2>2, FS_CardinalityType
<1>2. CASE Empty(c)
  <2>1. Commits(c + 1) = Commits(c) BY <1>2 DEF Commits
  <2> QED BY <1>2, <2>1 DEF SeqOf
<1>3. CASE ~Empty(c)
  <2>1. Commits(c + 1) = Commits(c) \cup {c} /\ c \notin Commits(c) BY <1>3 DEF Commits
  <2>2. Cardinality(Commits(c + 1)) = Cardinality(Commits(c)) + 1 BY <1>1, <2>1, FS_AddElement
  <2> QED BY <1>1, <1>3, <2>2 DEF SeqOf
<1> QED BY <1>2, <1>3

-----------------------------------------------------------------------------
\* The table after n checkpoints.

\* The number of the checkpoint of each change is a positive number below the end.
LEMMA CarriedIs ==
    ASSUME PlanOK, ~Planning, NEW k \in Keys
    PROVE  /\ Changes(k) \in Nat
           /\ \A j \in 1..Changes(k) : assign[k][j] \in Nat \ {0} /\ Lsn(k, j) \in Nat \ {0}
           /\ \A c \in Nat \ {0} : k \in Deletes(c) <=> \E j \in 1..Changes(k) : assign[k][j] = c
<1>1. Format = "iceberg" BY IcebergAssumption DEF PlanOK, Format
<1>2. \A c \in Nat \ {0} : k \in Deletes(c) <=> \E j \in 1..Changes(k) : assign[k][j] = c
  BY <1>1 DEF Deletes, Carried
<1> QED BY <1>2, PlanNumbers

PlacedRow(row, c) ==
    [commit |-> c, part |-> row.copy, key |-> row.key, ver |-> row.ver, file |-> <<c, 1>>, seq |-> SeqOf(c)]

\* The rows and the deletes of the table, each with where it comes from.
LEMMA TableIs ==
    ASSUME PlanOK, ~Planning, NEW n \in Nat
    PROVE  /\ \A r : r \in TableAfter(n).data <=>
                       \E c \in Nat : c < n /\ \E row \in Rows(c) : r = PlacedRow(row, c)
           /\ \A d : d \in TableAfter(n).dels <=>
                       \E k \in Keys : \E j \in 1..Changes(k) :
                          assign[k][j] < n /\ d = [key |-> k, seq |-> SeqOf(assign[k][j])]
<1>1. \A r : r \in TableAfter(n).data <=> \E c \in Past(n) : r \in Placed(c, SeqOf(c)) BY DEF TableAfter
<1>2. \A d : d \in TableAfter(n).dels <=> \E c \in Past(n) : d \in PlacedDeletes(c, SeqOf(c)) BY DEF TableAfter
<1>3. \A c, r : r \in Placed(c, SeqOf(c)) <=> \E row \in Rows(c) : r = PlacedRow(row, c)
  BY DEF Placed, PlacedRow
<1>4. \A c, d : d \in PlacedDeletes(c, SeqOf(c)) <=> \E k \in Deletes(c) : d = [key |-> k, seq |-> SeqOf(c)]
  BY DEF PlacedDeletes
<1>5. \A c \in Nat : Deletes(c) \subseteq Keys /\ (c = 0 => Deletes(c) = {}) BY DEF Deletes
<1>6. ASSUME NEW d
      PROVE  d \in TableAfter(n).dels <=>
                \E k \in Keys : \E j \in 1..Changes(k) :
                   assign[k][j] < n /\ d = [key |-> k, seq |-> SeqOf(assign[k][j])]
  <2>1. ASSUME d \in TableAfter(n).dels
        PROVE  \E k \in Keys : \E j \in 1..Changes(k) :
                  assign[k][j] < n /\ d = [key |-> k, seq |-> SeqOf(assign[k][j])]
    <3>1. PICK c \in Past(n) : \E k \in Deletes(c) : d = [key |-> k, seq |-> SeqOf(c)] BY <1>2, <1>4, <2>1
    <3>2. PICK k \in Deletes(c) : d = [key |-> k, seq |-> SeqOf(c)] BY <3>1
    <3>3. c \in Nat \ {0} /\ c < n /\ k \in Keys BY <1>5, <3>1, <3>2 DEF Past
    <3>4. PICK j \in 1..Changes(k) : assign[k][j] = c BY <3>2, <3>3, CarriedIs
    <3> QED BY <3>2, <3>3, <3>4
  <2>2. ASSUME NEW k \in Keys, NEW j \in 1..Changes(k), assign[k][j] < n,
               d = [key |-> k, seq |-> SeqOf(assign[k][j])]
        PROVE  d \in TableAfter(n).dels
    <3>1. assign[k][j] \in Nat \ {0} /\ k \in Deletes(assign[k][j]) BY CarriedIs
    <3> QED BY <1>2, <1>4, <2>2, <3>1 DEF Past
  <2> QED BY <2>1, <2>2
<1>7. \A r : r \in TableAfter(n).data <=> \E c \in Nat : c < n /\ \E row \in Rows(c) : r = PlacedRow(row, c)
  BY <1>1, <1>3 DEF Past
<1> QED BY <1>6, <1>7

\* The fields of a row of the table.
LEMMA RowFields ==
    ASSUME PlanOK, ~Planning, NEW n \in Nat, NEW r \in TableAfter(n).data
    PROVE  /\ r.key \in Keys /\ r.commit \in Nat /\ r.commit < n
           /\ r.seq = SeqOf(r.commit) /\ r.file = <<r.commit, 1>> /\ ~Empty(r.commit)
           /\ r = PlacedRow([key |-> r.key, ver |-> r.ver, copy |-> r.part], r.commit)
           /\ \/ r.commit = 0 /\ IsRead(r.key) /\ r.ver = lsns[r.key][1] /\ r.part = 1
              \/ \E j \in 1..Changes(r.key) :
                   /\ assign[r.key][j] = r.commit /\ r.ver = Lsn(r.key, j)
                   /\ (r.part = 1 /\ j \in Writes(r.key)) \/ (r.part = 2 /\ j \in copied[r.key])
<1>1. PICK c \in Nat : c < n /\ \E row \in Rows(c) : r = PlacedRow(row, c) BY TableIs
<1>2. PICK row \in Rows(c) : r = PlacedRow(row, c) BY <1>1
<1>3. r.commit = c /\ r.part = row.copy /\ r.key = row.key /\ r.ver = row.ver
      /\ r.file = <<c, 1>> /\ r.seq = SeqOf(c)
  BY <1>2 DEF PlacedRow
<1>4. PICK k \in Keys :
                \/ c = 0 /\ IsRead(k) /\ row = [key |-> k, ver |-> lsns[k][1], copy |-> 1]
                \/ \E j \in 1..Changes(k) :
                      /\ c # 0 /\ assign[k][j] = c
                      /\ \/ j \in Writes(k) /\ row = [key |-> k, ver |-> Lsn(k, j), copy |-> 1]
                         \/ j \in copied[k] /\ row = [key |-> k, ver |-> Lsn(k, j), copy |-> 2]
  BY <1>2, RowsIs
<1>5. row.key = k /\ row = [key |-> row.key, ver |-> row.ver, copy |-> row.copy] BY <1>4
<1>6. r = PlacedRow([key |-> r.key, ver |-> r.ver, copy |-> r.part], r.commit) BY <1>2, <1>3, <1>5
<1>7. ~Empty(r.commit) BY <1>2, <1>3 DEF Empty
<1>8. \/ r.commit = 0 /\ IsRead(r.key) /\ r.ver = lsns[r.key][1] /\ r.part = 1
      \/ \E j \in 1..Changes(r.key) :
           /\ assign[r.key][j] = r.commit /\ r.ver = Lsn(r.key, j)
           /\ (r.part = 1 /\ j \in Writes(r.key)) \/ (r.part = 2 /\ j \in copied[r.key])
  <2>1. r.key = k BY <1>3, <1>5
  <2>2. CASE c = 0 /\ IsRead(k) /\ row = [key |-> k, ver |-> lsns[k][1], copy |-> 1]
    BY <1>3, <2>1, <2>2
  <2>3. ASSUME NEW j \in 1..Changes(k), assign[k][j] = c,
               \/ j \in Writes(k) /\ row = [key |-> k, ver |-> Lsn(k, j), copy |-> 1]
               \/ j \in copied[k] /\ row = [key |-> k, ver |-> Lsn(k, j), copy |-> 2]
        PROVE  /\ assign[k][j] = r.commit /\ r.ver = Lsn(k, j)
               /\ (r.part = 1 /\ j \in Writes(k)) \/ (r.part = 2 /\ j \in copied[k])
    BY <1>3, <2>3
  <2> QED BY <1>4, <2>1, <2>2, <2>3
<1> QED BY <1>1, <1>3, <1>5, <1>4, <1>6, <1>7, <1>8

\* A row is deleted exactly when a later checkpoint carries a change of its key.
LEMMA DeletedIs ==
    ASSUME PlanOK, ~Planning, NEW n \in Nat, NEW r \in TableAfter(n).data
    PROVE  IsDeleted(TableAfter(n), r) <=>
             \E j \in 1..Changes(r.key) : assign[r.key][j] < n /\ assign[r.key][j] > r.commit
<1> DEFINE k == r.key
           b == r.commit
<1>1. k \in Keys /\ b \in Nat /\ r.seq = SeqOf(b) /\ ~Empty(b) BY RowFields
<1>2. IsDeleted(TableAfter(n), r) <=> \E d \in TableAfter(n).dels : d.key = k /\ d.seq > r.seq BY DEF IsDeleted
<1> HIDE DEF k, b
<1>3. \A j \in 1..Changes(k) : assign[k][j] \in Nat BY <1>1, CarriedIs
<1>4. ASSUME NEW j \in 1..Changes(k), assign[k][j] < n, assign[k][j] > b
      PROVE  IsDeleted(TableAfter(n), r)
  <2> DEFINE d == [key |-> k, seq |-> SeqOf(assign[k][j])]
  <2>1. d \in TableAfter(n).dels BY <1>1, <1>4, TableIs
  <2>2. SeqOf(b) < SeqOf(assign[k][j]) /\ SeqOf(b) \in Nat /\ SeqOf(assign[k][j]) \in Nat
    BY <1>1, <1>3, <1>4, SeqOfOrder
  <2>3. d.key = k /\ d.seq > r.seq BY <1>1, <2>2
  <2> QED BY <1>2, <2>1, <2>3
<1>5. ASSUME IsDeleted(TableAfter(n), r)
      PROVE  \E j \in 1..Changes(k) : assign[k][j] < n /\ assign[k][j] > b
  <2>1. PICK d \in TableAfter(n).dels : d.key = k /\ d.seq > r.seq BY <1>2, <1>5
  <2>2. PICK q \in Keys : \E j \in 1..Changes(q) : assign[q][j] < n /\ d = [key |-> q, seq |-> SeqOf(assign[q][j])]
    BY TableIs
  <2>3. PICK j \in 1..Changes(q) : assign[q][j] < n /\ d = [key |-> q, seq |-> SeqOf(assign[q][j])] BY <2>2
  <2>4. q = k BY <2>1, <2>3
  <2>5. SeqOf(assign[k][j]) > SeqOf(b) BY <1>1, <2>1, <2>3, <2>4
  <2>6. assign[k][j] \in Nat BY <1>3, <2>4
  <2>7. ~(assign[k][j] <= b)
    <3>1. assign[k][j] <= b => SeqOf(assign[k][j]) <= SeqOf(b) BY <1>1, <2>6, SeqOfOrder
    <3>2. SeqOf(assign[k][j]) \in Nat /\ SeqOf(b) \in Nat BY <1>1, <2>6, SeqOfOrder
    <3> QED BY <2>5, <3>1, <3>2
  <2> QED BY <1>1, <2>3, <2>4, <2>6, <2>7
<1> QED BY <1>4, <1>5 DEF k, b

\* A set of rows is finite when each key has finitely many of them.
LEMMA FiniteByKey ==
    ASSUME NEW S, \A r \in S : r.key \in Keys, \A k \in Keys : IsFiniteSet(RowsOf(S, k))
    PROVE  IsFiniteSet(S)
<1> DEFINE P == {RowsOf(S, k) : k \in Keys}
<1>1. IsFiniteSet(P)
  <2>1. /\ [k \in Keys |-> RowsOf(S, k)] \in [Keys -> P]
        /\ \A t \in P : \E k \in Keys : [q \in Keys |-> RowsOf(S, q)][k] = t
    OBVIOUS
  <2> HIDE DEF P
  <2> QED BY <2>1, KeysAssumption, FiniteImage
<1>2. S = UNION P BY DEF RowsOf
<1>3. \A t \in P : IsFiniteSet(t) OBVIOUS
<1> HIDE DEF P
<1> QED BY <1>1, <1>2, <1>3, FS_UNION

\* The table is one the adapter can read.
LEMMA TableType ==
    ASSUME PlanOK, ~Planning, NEW n \in Nat
    PROVE  /\ TableAfter(n) \in Table(Keys, Nat)
           /\ IsFiniteSet(TableAfter(n).data) /\ IsFiniteSet(TableAfter(n).dels)
<1>1. ASSUME NEW r \in TableAfter(n).data PROVE r \in Row(Keys, Nat)
  <2>1. /\ r.key \in Keys /\ r.commit \in Nat
        /\ r = PlacedRow([key |-> r.key, ver |-> r.ver, copy |-> r.part], r.commit)
        /\ \/ r.commit = 0 /\ IsRead(r.key) /\ r.ver = lsns[r.key][1] /\ r.part = 1
           \/ \E j \in 1..Changes(r.key) :
                /\ assign[r.key][j] = r.commit /\ r.ver = Lsn(r.key, j)
                /\ (r.part = 1 /\ j \in Writes(r.key)) \/ (r.part = 2 /\ j \in copied[r.key])
    BY RowFields
  <2>2. r.part \in Nat BY <2>1
  <2>3. r.ver \in Nat
    <3>1. CASE IsRead(r.key) /\ r.ver = lsns[r.key][1] BY <2>1, <3>1, ReadIs
    <3>2. CASE \E j \in 1..Changes(r.key) : r.ver = Lsn(r.key, j) BY <2>1, <3>2, CarriedIs
    <3> QED BY <2>1, <3>1, <3>2
  <2>4. SeqOf(r.commit) \in Nat BY <2>1, SeqOfOrder
  <2> QED BY <2>1, <2>2, <2>3, <2>4 DEF PlacedRow, Row, File
<1>2. ASSUME NEW d \in TableAfter(n).dels PROVE d \in Del(Keys)
  <2>1. PICK k \in Keys : \E j \in 1..Changes(k) : d = [key |-> k, seq |-> SeqOf(assign[k][j])] BY TableIs
  <2>2. PICK j \in 1..Changes(k) : d = [key |-> k, seq |-> SeqOf(assign[k][j])] BY <2>1
  <2>3. SeqOf(assign[k][j]) \in Nat BY CarriedIs, SeqOfOrder
  <2> QED BY <2>2, <2>3 DEF Del
<1>3. ASSUME NEW k \in Keys PROVE IsFiniteSet(RowsOf(TableAfter(n).data, k))
  <2> DEFINE I == (0..Changes(k)) \X {1, 2}
             At(i) == PlacedRow([key |-> k, ver |-> IF i[1] = 0 THEN lsns[k][1] ELSE Lsn(k, i[1]), copy |-> i[2]],
                                IF i[1] = 0 THEN 0 ELSE assign[k][i[1]])
             T == {At(i) : i \in I}
  <2>1. IsFiniteSet(I)
    <3>0. 0 \in Int /\ Changes(k) \in Int BY CarriedIs
    <3>1. IsFiniteSet(0..Changes(k)) BY <3>0, FS_Interval
    <3>2. IsFiniteSet({1, 2})
      <4>1. IsFiniteSet({1}) BY FS_Singleton
      <4>2. IsFiniteSet({1} \cup {2}) BY <4>1, FS_AddElement
      <4>3. {1, 2} = {1} \cup {2} OBVIOUS
      <4> QED BY <4>2, <4>3
    <3> QED BY <3>1, <3>2, FS_Product
  <2>2. IsFiniteSet(T)
    <3>1. /\ [i \in I |-> At(i)] \in [I -> T]
          /\ \A t \in T : \E i \in I : [e \in I |-> At(e)][i] = t
      OBVIOUS
    <3> HIDE DEF I, T, At
    <3> QED BY <2>1, <3>1, FiniteImage
  <2>3. ASSUME NEW r \in RowsOf(TableAfter(n).data, k) PROVE r \in T
    <3>1. /\ r.key = k
          /\ r = PlacedRow([key |-> r.key, ver |-> r.ver, copy |-> r.part], r.commit)
          /\ \/ r.commit = 0 /\ IsRead(r.key) /\ r.ver = lsns[r.key][1] /\ r.part = 1
             \/ \E j \in 1..Changes(r.key) :
                  /\ assign[r.key][j] = r.commit /\ r.ver = Lsn(r.key, j)
                  /\ (r.part = 1 /\ j \in Writes(r.key)) \/ (r.part = 2 /\ j \in copied[r.key])
      BY RowFields DEF RowsOf
    <3>2. CASE r.commit = 0 /\ IsRead(r.key) /\ r.ver = lsns[r.key][1] /\ r.part = 1
      <4>1. <<0, 1>> \in I /\ At(<<0, 1>>) = r BY <3>1, <3>2, CarriedIs
      <4> QED BY <4>1
    <3>3. CASE \E j \in 1..Changes(r.key) :
                  /\ assign[r.key][j] = r.commit /\ r.ver = Lsn(r.key, j)
                  /\ (r.part = 1 /\ j \in Writes(r.key)) \/ (r.part = 2 /\ j \in copied[r.key])
      <4>1. PICK j \in 1..Changes(k) :
                  assign[k][j] = r.commit /\ r.ver = Lsn(k, j) /\ r.part \in {1, 2}
        BY <3>1, <3>3
      <4>2. <<j, r.part>> \in I /\ j # 0 BY <4>1, CarriedIs
      <4>3. At(<<j, r.part>>) = r BY <3>1, <4>1, <4>2
      <4> QED BY <4>2, <4>3
    <3> QED BY <3>1, <3>2, <3>3
  <2> HIDE DEF T
  <2> QED BY <2>2, <2>3, FS_Subset
<1>4. ASSUME NEW k \in Keys PROVE IsFiniteSet(RowsOf(TableAfter(n).dels, k))
  <2> DEFINE I == 1..Changes(k)
             At(j) == [key |-> k, seq |-> SeqOf(assign[k][j])]
             T == {At(j) : j \in I}
  <2>0. 1 \in Int /\ Changes(k) \in Int BY CarriedIs
  <2>1. IsFiniteSet(I) BY <2>0, FS_Interval
  <2>2. IsFiniteSet(T)
    <3>1. /\ [i \in I |-> At(i)] \in [I -> T]
          /\ \A t \in T : \E i \in I : [e \in I |-> At(e)][i] = t
      OBVIOUS
    <3> HIDE DEF I, T, At
    <3> QED BY <2>1, <3>1, FiniteImage
  <2>3. ASSUME NEW d \in RowsOf(TableAfter(n).dels, k) PROVE d \in T
    <3>1. d.key = k /\ \E q \in Keys : \E j \in 1..Changes(q) : d = [key |-> q, seq |-> SeqOf(assign[q][j])]
      BY TableIs DEF RowsOf
    <3>2. PICK j \in 1..Changes(k) : d = [key |-> k, seq |-> SeqOf(assign[k][j])] BY <3>1
    <3> QED BY <3>2
  <2> HIDE DEF T
  <2> QED BY <2>2, <2>3, FS_Subset
<1>5. \A r \in TableAfter(n).data : r.key \in Keys BY RowFields
<1>6. \A d \in TableAfter(n).dels : d.key \in Keys BY <1>2 DEF Del
<1>7. IsFiniteSet(TableAfter(n).data) BY <1>3, <1>5, FiniteByKey
<1>8. IsFiniteSet(TableAfter(n).dels) BY <1>4, <1>6, FiniteByKey
<1>9. TableAfter(n) = [data |-> TableAfter(n).data, dels |-> TableAfter(n).dels] BY DEF TableAfter
<1> QED BY <1>1, <1>2, <1>7, <1>8, <1>9 DEF Table

-----------------------------------------------------------------------------
\* The end of the plan.

\* Every change of the stream is in the finished table: the version the oracle
\* calls the truth is one of the rows, and no row is newer.
LEMMA TruthIsWritten ==
    ASSUME PlanOK, ~Planning, NEW k \in Keys, Truth(k) # 0, NEW n \in Nat, n > LastCheckpoint
    PROVE  /\ \E r \in RowsOf(TableAfter(n).data, k) : r.ver = Truth(k)
           /\ \A r \in RowsOf(TableAfter(n).data, k) : r.ver \in Nat /\ r.ver <= Truth(k)
<1> DEFINE m == Changes(k)
<1>1. LastCheckpoint \in Nat /\ \A j \in 1..m : assign[k][j] <= LastCheckpoint BY LastIs
<1>2. m \in Nat /\ \A j \in 1..m : assign[k][j] \in Nat \ {0} BY CarriedIs
<1>3. /\ IsRead(k) => lsns[k][1] <= Truth(k)
      /\ \A j \in 1..m : Lsn(k, j) <= Truth(k)
      /\ m = 0 => IsRead(k) /\ lsns[k][1] = Truth(k)
      /\ m # 0 => m \in Writes(k) /\ Lsn(k, m) = Truth(k)
  BY TruthIs
<1>4. ASSUME NEW c \in Nat, c < n, NEW row \in Rows(c), row.key = k, row.ver = Truth(k)
      PROVE  \E r \in RowsOf(TableAfter(n).data, k) : r.ver = Truth(k)
  <2>1. PlacedRow(row, c) \in TableAfter(n).data BY <1>4, TableIs
  <2>2. PlacedRow(row, c).key = k /\ PlacedRow(row, c).ver = Truth(k) BY <1>4 DEF PlacedRow
  <2>3. PlacedRow(row, c) \in RowsOf(TableAfter(n).data, k) BY <2>1, <2>2 DEF RowsOf
  <2> QED BY <2>2, <2>3
<1>5. \E r \in RowsOf(TableAfter(n).data, k) : r.ver = Truth(k)
  <2>1. CASE m = 0
    <3> DEFINE row == [key |-> k, ver |-> lsns[k][1], copy |-> 1]
    <3>1. row \in Rows(0) BY <1>3, <2>1, RowsIs
    <3>2. row.key = k /\ row.ver = Truth(k) BY <1>3, <2>1
    <3>3. 0 < n BY <1>1
    <3> HIDE DEF row
    <3> QED BY <1>4, <3>1, <3>2, <3>3
  <2>2. CASE m # 0
    <3> DEFINE row == [key |-> k, ver |-> Lsn(k, m), copy |-> 1]
               c == assign[k][m]
    <3>1. m \in 1..m /\ m \in Writes(k) BY <1>2, <1>3, <2>2
    <3>2. c \in Nat \ {0} /\ c < n BY <1>1, <1>2, <3>1
    <3>3. row \in Rows(c)
      <4>1. c # 0 /\ m \in 1..Changes(k) BY <3>1, <3>2
      <4> QED BY <3>1, <3>2, <4>1, RowsIs
    <3>4. row.key = k /\ row.ver = Truth(k) BY <1>3, <2>2
    <3> HIDE DEF row, c
    <3> QED BY <1>4, <3>2, <3>3, <3>4
  <2> QED BY <2>1, <2>2
<1>6. ASSUME NEW r \in RowsOf(TableAfter(n).data, k) PROVE r.ver \in Nat /\ r.ver <= Truth(k)
  <2>1. r.key = k /\ r \in TableAfter(n).data BY DEF RowsOf
  <2>2. \/ IsRead(k) /\ r.ver = lsns[k][1]
        \/ \E j \in 1..Changes(k) : r.ver = Lsn(k, j)
    <3>1. \/ r.commit = 0 /\ IsRead(r.key) /\ r.ver = lsns[r.key][1] /\ r.part = 1
          \/ \E j \in 1..Changes(r.key) :
               /\ assign[r.key][j] = r.commit /\ r.ver = Lsn(r.key, j)
               /\ (r.part = 1 /\ j \in Writes(r.key)) \/ (r.part = 2 /\ j \in copied[r.key])
      BY <2>1, RowFields
    <3> QED BY <2>1, <3>1
  <2>3. r.ver \in Nat BY <2>2, ReadIs, CarriedIs
  <2> QED BY <1>3, <2>2, <2>3
<1> QED BY <1>5, <1>6

\* The plan frozen, so is every table it leads to.
LEMMA TablesFrozen ==
    ASSUME UNCHANGED planVars
    PROVE  /\ \A c : SeqOf(c)' = SeqOf(c)
           /\ \A n : TableAfter(n)' = TableAfter(n) /\ TableMoved(n)' = TableMoved(n)
<1>1. \A c : Rows(c)' = Rows(c) /\ Deletes(c)' = Deletes(c) BY PlanFrozen
<1>2. \A c : (Empty(c)' <=> Empty(c)) BY <1>1 DEF Empty
<1>3. \A c : SeqOf(c)' = SeqOf(c)
  <2>1. \A c : Commits(c)' = Commits(c) BY <1>2 DEF Commits
  <2> QED BY <2>1 DEF SeqOf
<1>4. \A c, s : Placed(c, s)' = Placed(c, s) BY <1>1 DEF Placed
<1>5. \A c, s : PlacedDeletes(c, s)' = PlacedDeletes(c, s) BY <1>1 DEF PlacedDeletes
<1>6. \A n : TableAfter(n)' = TableAfter(n) BY <1>3, <1>4, <1>5 DEF TableAfter, Past
<1>7. \A n : TableMoved(n)' = TableMoved(n)
  BY <1>3, <1>6 DEF TableMoved, MovedTo, LiveRows, IsDeleted
<1> QED BY <1>3, <1>6, <1>7

\* One more checkpoint.
LEMMA NextTable ==
    ASSUME PlanOK, ~Planning, NEW n \in Nat
    PROVE  /\ TableAfter(0) = EmptyTable
           /\ SeqOf(0) = 1
           /\ TableAfter(n + 1) =
                 [data |-> TableAfter(n).data \cup Placed(n, SeqOf(n)),
                  dels |-> TableAfter(n).dels \cup PlacedDeletes(n, SeqOf(n))]
           /\ Empty(n) => TableAfter(n + 1) = TableAfter(n)
<1>1. TableAfter(0) = EmptyTable
  <2>1. Past(0) = {} BY DEF Past
  <2> QED BY <2>1 DEF TableAfter, EmptyTable
<1>2. SeqOf(0) = 1
  <2>1. Commits(0) = {} BY DEF Commits
  <2>2. Cardinality({}) = 0 BY FS_EmptySet
  <2> QED BY <2>1, <2>2 DEF SeqOf
<1>3. Past(n + 1) = Past(n) \cup {n} BY DEF Past
<1>4. TableAfter(n + 1) =
         [data |-> TableAfter(n).data \cup Placed(n, SeqOf(n)),
          dels |-> TableAfter(n).dels \cup PlacedDeletes(n, SeqOf(n))]
  <2>1. UNION {Placed(c, SeqOf(c)) : c \in Past(n + 1)}
        = (UNION {Placed(c, SeqOf(c)) : c \in Past(n)}) \cup Placed(n, SeqOf(n))
    BY <1>3
  <2>2. UNION {PlacedDeletes(c, SeqOf(c)) : c \in Past(n + 1)}
        = (UNION {PlacedDeletes(c, SeqOf(c)) : c \in Past(n)}) \cup PlacedDeletes(n, SeqOf(n))
    BY <1>3
  <2> QED BY <2>1, <2>2 DEF TableAfter
<1>5. ASSUME Empty(n) PROVE TableAfter(n + 1) = TableAfter(n)
  <2>1. Placed(n, SeqOf(n)) = {} /\ PlacedDeletes(n, SeqOf(n)) = {} BY <1>5 DEF Empty, Placed, PlacedDeletes
  <2> QED BY <1>4, <2>1 DEF TableAfter
<1> QED BY <1>1, <1>2, <1>4, <1>5

-----------------------------------------------------------------------------
\* The rewritten table.

\* In the rewritten table no row is deleted any more: each has a number no delete exceeds.
LEMMA MovedIs ==
    ASSUME PlanOK, ~Planning, NEW n \in Nat
    PROVE  /\ TableMoved(n) \in Table(Keys, Nat)
           /\ IsFiniteSet(TableMoved(n).data) /\ IsFiniteSet(TableMoved(n).dels)
           /\ LiveRows(TableMoved(n)) = TableMoved(n).data
           /\ \A k : RowsOf(TableMoved(n).data, k) = {MovedTo(n, r) : r \in RowsOf(LiveRows(TableAfter(n)), k)}
           /\ \A r \in LiveRows(TableAfter(n)) :
                 /\ MovedTo(n, r).key = r.key /\ MovedTo(n, r).ver = r.ver
                 /\ MovedTo(n, r).part = r.part /\ MovedTo(n, r).commit = r.commit
<1> DEFINE T == TableAfter(n)
           M == TableMoved(n)
           L == LiveRows(T)
<1>1. T \in Table(Keys, Nat) /\ IsFiniteSet(T.data) /\ IsFiniteSet(T.dels) BY TableType
<1>2. M.data = {MovedTo(n, r) : r \in L} /\ M.dels = T.dels
      /\ M = [data |-> M.data, dels |-> M.dels]
  BY DEF TableMoved
<1>3. L \subseteq T.data BY DEF LiveRows
<1>4. SeqOf(n) \in Nat \ {0} BY SeqOfOrder
<1>5. SeqOf(n) - 1 \in Nat BY <1>4
<1>6. \A r \in T.data : r \in Row(Keys, Nat) BY <1>1 DEF Table
<1>7. ASSUME NEW r \in L
      PROVE  /\ MovedTo(n, r) \in Row(Keys, Nat) /\ MovedTo(n, r).seq = SeqOf(n) - 1
             /\ MovedTo(n, r).key = r.key /\ MovedTo(n, r).ver = r.ver
             /\ MovedTo(n, r).part = r.part /\ MovedTo(n, r).commit = r.commit
  <2>1. r \in Row(Keys, Nat) BY <1>3, <1>6
  <2>2. <<n, 1>> \in File BY DEF File
  <2> QED BY <1>5, <2>1, <2>2 DEF MovedTo, Row
<1> HIDE DEF L, T, M
<1>8. IsFiniteSet(L) BY <1>1, <1>3, FS_Subset
<1>9. IsFiniteSet(M.data)
  <2> DEFINE D == {MovedTo(n, r) : r \in L}
  <2>1. /\ [r \in L |-> MovedTo(n, r)] \in [L -> D]
        /\ \A t \in D : \E r \in L : [q \in L |-> MovedTo(n, q)][r] = t
    OBVIOUS
  <2> HIDE DEF D
  <2>2. IsFiniteSet(D) BY <1>8, <2>1, FiniteImage
  <2> QED BY <1>2, <2>2 DEF D
<1>10. M \in Table(Keys, Nat)
  <2>1. M.data \subseteq Row(Keys, Nat) BY <1>2, <1>7
  <2>2. M.dels \subseteq Del(Keys) BY <1>1, <1>2 DEF Table
  <2> QED BY <1>2, <2>1, <2>2 DEF Table
<1>11. LiveRows(M) = M.data
  <2> SUFFICES ASSUME NEW r \in M.data, NEW d \in M.dels, d.seq > r.seq PROVE FALSE
    BY DEF LiveRows, IsDeleted
  <2>1. r.seq = SeqOf(n) - 1 BY <1>2, <1>7
  <2>2. PICK k \in Keys : \E j \in 1..Changes(k) : assign[k][j] < n /\ d = [key |-> k, seq |-> SeqOf(assign[k][j])]
    BY <1>2, TableIs DEF T
  <2>3. PICK j \in 1..Changes(k) : assign[k][j] < n /\ d = [key |-> k, seq |-> SeqOf(assign[k][j])] BY <2>2
  <2> DEFINE c == assign[k][j]
  <2>4. c \in Nat \ {0} /\ k \in Deletes(c) BY CarriedIs
  <2> HIDE DEF c
  <2>5. ~Empty(c) BY <2>4 DEF Empty
  <2>6. c < n /\ d.seq = SeqOf(c) BY <2>3 DEF c
  <2>7. SeqOf(c) < SeqOf(n) /\ SeqOf(c) \in Nat BY <2>4, <2>5, <2>6, SeqOfOrder
  <2> QED BY <1>4, <2>1, <2>6, <2>7
<1>12. \A k : RowsOf(M.data, k) = {MovedTo(n, r) : r \in RowsOf(L, k)} BY <1>2, <1>7 DEF RowsOf
<1>13. IsFiniteSet(M.dels) BY <1>1, <1>2
<1> QED BY <1>7, <1>9, <1>10, <1>11, <1>12, <1>13 DEF L, T, M

-----------------------------------------------------------------------------
\* The inductive invariant: at every moment the table is the one that the plan and
\* the number of applied checkpoints determine, before or after the rewrite.
TableOK ==
    IF compacted = "rewritten" THEN CompactMode /\ table = TableMoved(next)
    ELSE table = TableAfter(next) /\ commits = SeqOf(next) - 1

IInv ==
    /\ PlanOK
    /\ next \in Nat
    /\ compacted \in {"no", "unchanged", "rewritten"}
    /\ Planning => next = 0 /\ compacted = "no" /\ table = EmptyTable /\ commits = 0
    /\ ~Planning => TableOK
    /\ compacted # "no" \/ stage \in {"ok", "raised"} => next > LastCheckpoint
    /\ NeverRaises
-----------------------------------------------------------------------------
\* The two verdicts.

Finished == ~Planning /\ next > LastCheckpoint

\* A table of a run is one the adapter can read.
LEMMA TableIsTable ==
    ASSUME IInv, ~Planning
    PROVE  table \in Table(Keys, Nat) /\ IsFiniteSet(table.data) /\ IsFiniteSet(table.dels)
<1>1. CASE compacted = "rewritten"
  <2>1. table = TableMoved(next) /\ next \in Nat /\ PlanOK BY <1>1 DEF IInv, TableOK
  <2> QED BY <2>1, MovedIs
<1>2. CASE compacted # "rewritten"
  <2>1. table = TableAfter(next) /\ next \in Nat /\ PlanOK BY <1>2 DEF IInv, TableOK
  <2> QED BY <2>1, TableType
<1> QED BY <1>1, <1>2

\* The oracle's verdict on a data-tail key, by the rows it reads.
LEMMA OracleByRows ==
    ASSUME IInv, ~Planning, NEW k \in Keys, Truth(k) # 0
    PROVE  /\ View(k) = {} => OracleVerdict(k) = "MISSING_CURRENT"
           /\ View(k) # {} /\ (~\E s : View(k) = {s}) => OracleVerdict(k) = "DUPLICATE"
           /\ \A s : View(k) = {s} =>
                 OracleVerdict(k) = IF s.ver = Truth(k) THEN "MATCH" ELSE "STALE_WINS"
<1> DEFINE V == View(k)
<1>1. IsFiniteSet(V)
  <2>1. V \subseteq table.data BY DEF View, RowsOf, LiveRows
  <2> QED BY <2>1, TableIsTable, FS_Subset
<1>2. Cardinality(V) \in Nat BY <1>1, FS_CardinalityType
<1>3. Cardinality(V) = 0 <=> V = {} BY <1>1, FS_EmptySet
<1>4. Cardinality(V) = 1 <=> \E s : V = {s} BY <1>1, FS_Singleton
<1>5. OracleVerdict(k) =
        CASE Cardinality(V) = 0 -> "MISSING_CURRENT"
          [] Cardinality(V) >= 2 -> "DUPLICATE"
          [] OTHER -> IF \E r \in V : r.ver = Truth(k) THEN "MATCH" ELSE "STALE_WINS"
  <2>1. CASE Cardinality(V) = 0 BY <2>1, <1>2 DEF OracleVerdict
  <2>2. CASE Cardinality(V) >= 2 BY <2>2, <1>2 DEF OracleVerdict
  <2>3. CASE Cardinality(V) = 1 BY <2>3, <1>2 DEF OracleVerdict
  <2> QED BY <1>2, <2>1, <2>2, <2>3
<1> HIDE DEF V
<1>6. V = {} => OracleVerdict(k) = "MISSING_CURRENT" BY <1>3, <1>5
<1>7. V # {} /\ (~\E s : V = {s}) => OracleVerdict(k) = "DUPLICATE" BY <1>2, <1>3, <1>4, <1>5
<1>8. ASSUME NEW s, V = {s}
      PROVE  OracleVerdict(k) = IF s.ver = Truth(k) THEN "MATCH" ELSE "STALE_WINS"
  <2>1. Cardinality(V) = 1 BY <1>4, <1>8
  <2> QED BY <1>5, <1>8, <2>1
<1> QED BY <1>6, <1>7, <1>8 DEF V

\* Every data-tail key of a finished run is one the checker reports on, and the
\* layout it reads says what the oracle's view says.
LEMMA LayoutOf ==
    ASSUME IInv, Finished, NEW k \in Keys, Truth(k) # 0
    PROVE  /\ k \in LayoutKeys(table)
           /\ \A r \in RowsOf(table.data, k) : r.ver \in Nat
           /\ compacted # "rewritten" =>
                 /\ \E r \in RowsOf(table.data, k) : r.ver = Truth(k)
                 /\ \A r \in RowsOf(table.data, k) : r.ver <= Truth(k)
           /\ compacted = "rewritten" => RowsOf(table.data, k) = View(k)
<1> DEFINE T == TableAfter(next)
           D == RowsOf(T.data, k)
<1>1. PlanOK /\ ~Planning /\ next \in Nat /\ next > LastCheckpoint /\ TableOK BY DEF IInv, Finished
<1>2. \E r \in D : r.ver = Truth(k) BY <1>1, TruthIsWritten
<1>3. \A r \in D : r.ver \in Nat /\ r.ver <= Truth(k) BY <1>1, TruthIsWritten
<1>4. D \subseteq T.data /\ \A r \in D : r.key = k BY DEF RowsOf
<1> HIDE DEF D, T
<1>5. CASE compacted # "rewritten"
  <2>1. table = T /\ RowsOf(table.data, k) = D BY <1>1, <1>5 DEF TableOK, T, D
  <2>2. k \in LayoutKeys(table) BY <1>2, <1>4, <2>1 DEF LayoutKeys
  <2> QED BY <1>2, <1>3, <1>5, <2>1, <2>2
<1>6. CASE compacted = "rewritten"
  <2> DEFINE M == TableMoved(next)
             L == LiveRows(T)
  <2>1. table = M BY <1>1, <1>6 DEF TableOK
  <2>2. LiveRows(M) = M.data BY <1>1, MovedIs
  <2>3. RowsOf(M.data, k) = {MovedTo(next, r) : r \in RowsOf(L, k)} BY <1>1, MovedIs DEF T
  <2>4. \A r \in L : MovedTo(next, r).ver = r.ver BY <1>1, MovedIs DEF T
  <2>5. M.dels = T.dels BY DEF TableMoved, T
  <2>6. \A r \in L : r \in T.data BY DEF LiveRows
  <2>7. \A r \in RowsOf(L, k) : r \in D BY <2>6 DEF RowsOf, D
  <2>8. View(k) = RowsOf(table.data, k) BY <2>1, <2>2 DEF View
  <2>9. PICK r \in D : r.ver = Truth(k) BY <1>2
  <2>10. k \in LayoutKeys(table)
    <3>1. CASE r \in L
      <4>1. MovedTo(next, r) \in RowsOf(M.data, k) BY <1>4, <2>3, <2>9, <3>1 DEF RowsOf
      <4>2. MovedTo(next, r) \in M.data /\ MovedTo(next, r).key = k BY <4>1 DEF RowsOf
      <4> QED BY <2>1, <4>2 DEF LayoutKeys
    <3>2. CASE r \notin L
      <4>1. IsDeleted(T, r) BY <1>4, <2>9, <3>2 DEF LiveRows
      <4>2. \E d \in T.dels : d.key = k BY <1>4, <2>9, <4>1 DEF IsDeleted
      <4> QED BY <2>1, <2>5, <4>2 DEF LayoutKeys
    <3> QED BY <3>1, <3>2
  <2> HIDE DEF M, L
  <2>11. \A q \in RowsOf(table.data, k) : q.ver \in Nat
    <3>1. \A q \in RowsOf(L, k) : q \in L BY DEF RowsOf
    <3> QED BY <1>3, <2>1, <2>3, <2>4, <2>7, <3>1
  <2> QED BY <1>6, <2>8, <2>10, <2>11
<1> QED BY <1>5, <1>6

\* The verdict of a key of a table whose rows have versions, by the rows a reader sees.
LEMMA VersionedVerdict ==
    ASSUME NEW K, NEW T \in Table(K, Nat), IsFiniteSet(T.data), IsFiniteSet(T.dels), NEW q, NEW up \in BOOLEAN
    PROVE  LET Live == RowsOf(LiveRows(T), q)
               Verdict == Classify(Layout(T, q, TRUE, up))
           IN  /\ Live = {} =>
                     Verdict = IF RowsOf(T.data, q) = {} THEN "FAITHFUL"
                               ELSE IF up THEN "WRONGLY_SUPPRESSED_CURRENT" ELSE "NEEDS_CONTEXT"
               /\ Live # {} /\ (~\E s : Live = {s}) => Verdict = "DUPLICATE"
               /\ \A s : Live = {s} =>
                     Verdict = IF ~TRUE \/ s.ver = NoVersion THEN "UNDECIDABLE"
                               ELSE IF \E d \in RowsOf(T.data, q) : d.ver # NoVersion /\ d.ver > s.ver
                                    THEN "STALE_WINS" ELSE "FAITHFUL"
<1>1. Nat \subseteq Nat \cup {NoVersion} /\ TRUE \in BOOLEAN OBVIOUS
<1> QED BY <1>1, VerdictByRows

\* How a finished run counts a data-tail key: before a rewrite the checker and the
\* oracle agree, after it they agree or the checker is fooled.
LEMMA Categories ==
    ASSUME IInv, Finished, NEW k \in Keys, Truth(k) # 0
    PROVE  IF compacted = "rewritten" /\ OracleVerdict(k) \in {"STALE_WINS", "MISSING_CURRENT"}
           THEN Category(k) = "masked" ELSE Category(k) = "agree"
<1> DEFINE V == View(k)
           D == RowsOf(table.data, k)
           O == OracleVerdict(k)
           C == CheckerVerdict(k)
<1>1. ~Planning /\ config \in Configs BY DEF IInv, PlanOK, Finished
<1>2. config.upsertOnly \in BOOLEAN BY <1>1, ConfigsAssumption DEF RunConfig
<1>3. table \in Table(Keys, Nat) /\ IsFiniteSet(table.data) /\ IsFiniteSet(table.dels) BY <1>1, TableIsTable
<1>4. /\ k \in LayoutKeys(table)
      /\ \A r \in D : r.ver \in Nat
      /\ compacted # "rewritten" =>
            /\ \E r \in D : r.ver = Truth(k)
            /\ \A r \in D : r.ver <= Truth(k)
      /\ compacted = "rewritten" => D = V
  BY LayoutOf
<1>5. V \subseteq D BY DEF View, RowsOf, LiveRows
<1>6. /\ V = {} => O = "MISSING_CURRENT"
      /\ V # {} /\ (~\E s : V = {s}) => O = "DUPLICATE"
      /\ \A s : V = {s} => O = IF s.ver = Truth(k) THEN "MATCH" ELSE "STALE_WINS"
  BY <1>1, OracleByRows
<1>7. /\ V = {} => C = IF D = {} THEN "FAITHFUL"
                       ELSE IF config.upsertOnly THEN "WRONGLY_SUPPRESSED_CURRENT" ELSE "NEEDS_CONTEXT"
      /\ V # {} /\ (~\E s : V = {s}) => C = "DUPLICATE"
      /\ \A s : V = {s} => C = IF s.ver = NoVersion THEN "UNDECIDABLE"
                               ELSE IF \E d \in D : d.ver # NoVersion /\ d.ver > s.ver
                                    THEN "STALE_WINS" ELSE "FAITHFUL"
  <2>1. C = Classify(Layout(table, k, TRUE, config.upsertOnly)) BY <1>4 DEF CheckerVerdict
  <2> DEFINE up == config.upsertOnly
             W == Classify(Layout(table, k, TRUE, up))
             Live == RowsOf(LiveRows(table), k)
  <2> HIDE DEF up
  <2>3. up \in BOOLEAN BY <1>2 DEF up
  <2>4. /\ Live = {} => W = IF D = {} THEN "FAITHFUL"
                            ELSE IF up THEN "WRONGLY_SUPPRESSED_CURRENT" ELSE "NEEDS_CONTEXT"
        /\ Live # {} /\ (~\E s : Live = {s}) => W = "DUPLICATE"
        /\ \A s : Live = {s} =>
              W = IF ~TRUE \/ s.ver = NoVersion THEN "UNDECIDABLE"
                  ELSE IF \E d \in D : d.ver # NoVersion /\ d.ver > s.ver
                       THEN "STALE_WINS" ELSE "FAITHFUL"
    BY <1>3, <2>3, VersionedVerdict
  <2>5. Live = V BY DEF View
  <2>6. C = W BY <2>1 DEF up
  <2> HIDE DEF W, Live, V, C, D
  <2> QED BY <2>4, <2>5, <2>6 DEF up
<1>8. \A r \in D : r.ver # NoVersion BY <1>4, NoVersionAssumption
<1>9. compacted = "rewritten" => CompactMode BY <1>1 DEF IInv, TableOK
<1>10. Category(k) = IF C \in Expected(O) THEN "agree"
                     ELSE IF Abstains(k) THEN "abstain"
                     ELSE IF CompactMode /\ C = "FAITHFUL" THEN "masked"
                     ELSE "disagree"
  BY DEF Category, Masked
<1>11. Abstains(k) => C \in {"UNDECIDABLE", "NEEDS_CONTEXT"} BY DEF Abstains
<1> HIDE DEF V, D, O, C
<1>12. CASE V = {}
  <2>1. O = "MISSING_CURRENT" /\ Expected(O) = {"WRONGLY_SUPPRESSED_CURRENT", "NEEDS_CONTEXT"}
    BY <1>6, <1>12 DEF Expected
  <2>2. CASE compacted = "rewritten"
    <3>1. C = "FAITHFUL" BY <1>4, <1>7, <1>12, <2>2
    <3> QED BY <1>9, <1>10, <1>11, <2>1, <2>2, <3>1 DEF O
  <2>3. CASE compacted # "rewritten"
    <3>1. D # {} BY <1>4, <2>3
    <3>2. C \in Expected(O) BY <1>7, <1>12, <2>1, <3>1
    <3> QED BY <1>10, <2>3, <3>2
  <2> QED BY <2>2, <2>3
<1>13. CASE \E s : V = {s}
  <2>1. PICK s : V = {s} BY <1>13
  <2>2. s \in D BY <1>5, <2>1
  <2>3. C = IF \E d \in D : d.ver > s.ver THEN "STALE_WINS" ELSE "FAITHFUL" BY <1>7, <1>8, <2>1, <2>2
  <2>4. O = IF s.ver = Truth(k) THEN "MATCH" ELSE "STALE_WINS" BY <1>6, <2>1
  <2>5. O = "MATCH" => Expected(O) = {"FAITHFUL"} BY DEF Expected
  <2>6. O = "STALE_WINS" => Expected(O) = {"STALE_WINS"} BY DEF Expected
  <2>7. CASE compacted = "rewritten"
    <3>1. D = {s} BY <1>4, <2>1, <2>7
    <3>2. s.ver \in Nat BY <1>4, <2>2
    <3>3. C = "FAITHFUL" BY <2>3, <3>1, <3>2
    <3> QED BY <1>9, <1>10, <1>11, <2>4, <2>5, <2>6, <2>7, <3>3 DEF O
  <2>8. CASE compacted # "rewritten"
    <3>1. PICK t \in D : t.ver = Truth(k) BY <1>4, <2>8
    <3>2. \A r \in D : r.ver \in Nat /\ r.ver <= t.ver BY <1>4, <2>8, <3>1
    <3>3. (\E d \in D : d.ver > s.ver) <=> s.ver # t.ver BY <2>2, <3>1, <3>2
    <3>4. C \in Expected(O) BY <2>3, <2>4, <2>5, <2>6, <3>1, <3>3
    <3> QED BY <1>10, <2>8, <3>4
  <2> QED BY <2>7, <2>8
<1>14. CASE V # {} /\ ~\E s : V = {s}
  <2>1. O = "DUPLICATE" /\ C = "DUPLICATE" BY <1>6, <1>7, <1>14
  <2>2. Expected(O) = {"DUPLICATE"} BY <2>1 DEF Expected
  <2> QED BY <1>10, <2>1, <2>2 DEF O
<1> QED BY <1>12, <1>13, <1>14

\* So a reconciliation never raises.
LEMMA NoDisagreement ==
    ASSUME IInv, Finished, NEW k \in Keys
    PROVE  Category(k) # "disagree"
<1>1. CASE Truth(k) = 0 BY <1>1 DEF Category
<1>2. CASE Truth(k) # 0 BY <1>2, Categories
<1> QED BY <1>1, <1>2

-----------------------------------------------------------------------------
\* The invariant holds.

\* Before the first checkpoint, whatever the plan.
LEMMA ZeroTable ==
    /\ TableAfter(0) = EmptyTable /\ SeqOf(0) = 1
    /\ TableAfter(0)' = EmptyTable /\ SeqOf(0)' = 1
<1>1. Past(0) = {} /\ Cardinality({}) = 0 BY FS_EmptySet DEF Past
<1>2. Commits(0) = {} /\ Commits(0)' = {} BY DEF Commits
<1>3. TableAfter(0) = EmptyTable /\ TableAfter(0)' = EmptyTable BY <1>1 DEF TableAfter, EmptyTable, Past
<1> QED BY <1>1, <1>2, <1>3 DEF SeqOf

\* The initial states satisfy the invariant.
LEMMA InvStarts == Init => IInv
<1> SUFFICES ASSUME Init PROVE IInv OBVIOUS
<1>1. PlanOK BY PlanStarts DEF Init
<1>2. stage = "stream" BY DEF Init, PlanInit
<1> QED BY <1>1, <1>2 DEF Init, IInv, Planning, NeverRaises

\* The stream and the plan.
LEMMA PlanStep ==
    ASSUME IInv, PlanNext, UNCHANGED <<next, commits, table, compacted>>
    PROVE  IInv'
<1>1. PlanOK' BY EmitStep, SkewStep, BuildStep DEF PlanNext, IInv
<1>2. Planning /\ stage' \in {"stream", "plan", "apply"} BY DEF PlanNext, Emit, Skew, BuildPlan, Planning
<1>3. next = 0 /\ compacted = "no" /\ table = EmptyTable /\ commits = 0 BY <1>2 DEF IInv
<1>4. next' = 0 /\ compacted' = "no" /\ table' = EmptyTable /\ commits' = 0 BY <1>3
<1>5. TableOK'
  <2>1. TableAfter(next)' = EmptyTable /\ SeqOf(next)' = 1 BY <1>4, ZeroTable
  <2> QED BY <1>4, <2>1 DEF TableOK
<1> QED BY <1>1, <1>2, <1>4, <1>5 DEF IInv, NeverRaises

\* A checkpoint.
LEMMA CommitStep == ASSUME IInv, CommitCheckpoint PROVE IInv'
<1>1. /\ stage = "apply" /\ next <= LastCheckpoint /\ next' = next + 1
      /\ UNCHANGED <<stage, compacted>> /\ UNCHANGED planVars
      /\ IF Empty(next) THEN UNCHANGED <<table, commits>>
         ELSE /\ commits' = commits + 1
              /\ table' = [data |-> table.data \cup Placed(next, commits + 1),
                           dels |-> table.dels \cup PlacedDeletes(next, commits + 1)]
  BY DEF CommitCheckpoint, Empty
<1>2. PlanOK /\ ~Planning /\ next \in Nat /\ TableOK BY <1>1 DEF IInv, Planning
<1>3. PlanOK' BY <1>1, <1>2, PlanKept
<1>4. LastCheckpoint \in Nat BY <1>2, LastIs
<1>5. compacted = "no" BY <1>1, <1>2, <1>4 DEF IInv
<1>6. table = TableAfter(next) /\ commits = SeqOf(next) - 1 BY <1>2, <1>5 DEF TableOK
<1>7. SeqOf(next) \in Nat \ {0} BY <1>2, SeqOfOrder
<1>8. commits + 1 = SeqOf(next) BY <1>6, <1>7
<1>9. table' = TableAfter(next + 1) /\ commits' = SeqOf(next + 1) - 1
  <2>1. CASE Empty(next)
    <3>1. TableAfter(next + 1) = TableAfter(next) BY <1>2, <2>1, NextTable
    <3>2. SeqOf(next + 1) = SeqOf(next) BY <1>2, <2>1, NextSeq
    <3> QED BY <1>1, <1>6, <2>1, <3>1, <3>2
  <2>2. CASE ~Empty(next)
    <3>1. TableAfter(next + 1) =
            [data |-> TableAfter(next).data \cup Placed(next, SeqOf(next)),
             dels |-> TableAfter(next).dels \cup PlacedDeletes(next, SeqOf(next))]
      BY <1>2, NextTable
    <3>2. SeqOf(next + 1) = SeqOf(next) + 1 BY <1>2, <2>2, NextSeq
    <3>3. table' = TableAfter(next + 1) BY <1>1, <1>6, <1>8, <2>2, <3>1
    <3> QED BY <1>1, <1>6, <1>7, <2>2, <3>2, <3>3
  <2> QED BY <2>1, <2>2
<1>10. TableOK'
  <2>1. TableAfter(next)' = TableAfter(next + 1) /\ SeqOf(next)' = SeqOf(next + 1) BY <1>1, TablesFrozen
  <2> QED BY <1>1, <1>5, <1>9, <2>1 DEF TableOK
<1> QED BY <1>1, <1>2, <1>3, <1>5, <1>10 DEF IInv, Planning, NeverRaises

\* The rewrite, or the finding that nothing is worth rewriting.
LEMMA CompactStep == ASSUME IInv, Compact PROVE IInv'
<1>1. /\ stage = "apply" /\ next > LastCheckpoint /\ CompactMode /\ compacted = "no"
      /\ UNCHANGED <<stage, next>> /\ UNCHANGED planVars
      /\ \/ compacted' = "unchanged" /\ UNCHANGED <<table, commits>>
         \/ compacted' = "rewritten" /\ table' = Rewritten
  BY DEF Compact
<1>2. PlanOK /\ ~Planning /\ next \in Nat /\ TableOK BY <1>1 DEF IInv, Planning
<1>3. PlanOK' BY <1>1, <1>2, PlanKept
<1>4. table = TableAfter(next) /\ commits = SeqOf(next) - 1 BY <1>1, <1>2 DEF TableOK
<1>5. TableAfter(next)' = TableAfter(next) /\ SeqOf(next)' = SeqOf(next) /\ TableMoved(next)' = TableMoved(next)
  BY <1>1, TablesFrozen
<1>6. Rewritten = TableMoved(next)
  <2> DEFINE X == {MovedTo(next, r) : r \in LiveRows(table)}
  <2>1. Rewritten = [table EXCEPT !.data = X] BY <1>4 DEF Rewritten, MovedTo
  <2>2. table = [data |-> table.data, dels |-> table.dels] BY <1>4 DEF TableAfter
  <2>3. TableMoved(next) = [data |-> X, dels |-> table.dels] BY <1>4 DEF TableMoved
  <2> HIDE DEF X
  <2> QED BY <2>1, <2>2, <2>3
<1>7. CompactMode' BY <1>1 DEF CompactMode, planVars
<1>8. TableOK' BY <1>1, <1>4, <1>5, <1>6, <1>7 DEF TableOK
<1>9. LastCheckpoint' = LastCheckpoint BY <1>1, PlanFrozen
<1> QED BY <1>1, <1>2, <1>3, <1>8, <1>9 DEF IInv, Planning, NeverRaises

\* The reconciliation.
LEMMA ReconcileStep == ASSUME IInv, Reconcile PROVE IInv'
<1>1. /\ stage = "apply" /\ next > LastCheckpoint
      /\ UNCHANGED <<next, commits, table, compacted>> /\ UNCHANGED planVars
      /\ stage' = IF \E k \in Keys : Category(k) = "disagree" THEN "raised" ELSE "ok"
  BY DEF Reconcile
<1>2. PlanOK /\ ~Planning /\ next \in Nat /\ TableOK BY <1>1 DEF IInv, Planning
<1>3. Finished BY <1>1, <1>2 DEF Finished
<1>4. stage' = "ok" BY <1>1, <1>3, NoDisagreement
<1>5. PlanOK' BY <1>1, <1>2, <1>4, PlanKept
<1>6. TableAfter(next)' = TableAfter(next) /\ SeqOf(next)' = SeqOf(next) /\ TableMoved(next)' = TableMoved(next)
  BY <1>1, TablesFrozen
<1>7. CompactMode' <=> CompactMode BY <1>1 DEF CompactMode, planVars
<1>8. TableOK' BY <1>1, <1>2, <1>6, <1>7 DEF TableOK
<1>9. LastCheckpoint' = LastCheckpoint BY <1>1, PlanFrozen
<1> QED BY <1>1, <1>2, <1>4, <1>5, <1>8, <1>9 DEF IInv, Planning, NeverRaises

\* Every step keeps the invariant.
LEMMA InvKept == IInv /\ [Next]_vars => IInv'
<1> SUFFICES ASSUME IInv, [Next]_vars PROVE IInv' OBVIOUS
<1>1. CASE PlanNext /\ UNCHANGED <<next, commits, table, compacted>> BY <1>1, PlanStep
<1>2. CASE CommitCheckpoint BY <1>2, CommitStep
<1>3. CASE Compact BY <1>3, CompactStep
<1>4. CASE Reconcile BY <1>4, ReconcileStep
<1>5. CASE UNCHANGED vars
  <2>1. UNCHANGED planVars /\ UNCHANGED <<stage, next, commits, table, compacted>> BY <1>5 DEF vars
  <2>2. PlanOK' BY <2>1, PlanKept DEF IInv
  <2>3. TableAfter(next)' = TableAfter(next) /\ SeqOf(next)' = SeqOf(next) /\ TableMoved(next)' = TableMoved(next)
    BY <2>1, TablesFrozen
  <2>4. CompactMode' <=> CompactMode BY <2>1 DEF CompactMode, planVars
  <2>5. TableOK' <=> TableOK BY <2>1, <2>3, <2>4 DEF TableOK
  <2>6. LastCheckpoint' = LastCheckpoint BY <2>1, PlanFrozen
  <2> QED BY <2>1, <2>2, <2>5, <2>6 DEF IInv, Planning, NeverRaises
<1> QED BY <1>1, <1>2, <1>3, <1>4, <1>5 DEF Next

\* A run that compacts with the audit on takes the steps of a run.
LEMMA AuditedIsRun == AuditSpec => Spec
<1>1. AuditInit => Init BY DEF AuditInit
<1>2. [AuditNext]_<<vars, auditVars>> => [Next]_vars
  BY DEF AuditNext, CompactUnaudited, CompactAudited, Next
<1> QED BY <1>1, <1>2, PTL DEF AuditSpec, Spec

\* The invariant of every run, with the audit on or off.
LEMMA InvHolds == (Spec => []IInv) /\ (AuditSpec => []IInv)
<1>1. Spec => []IInv BY InvStarts, InvKept, PTL DEF Spec
<1> QED BY <1>1, AuditedIsRun, PTL

\* NeverRaises holds for every number of keys and changes and under every knob: the
\* oracle and the checker agree on every data-tail key before a rewrite, and after
\* one the checker is at worst fooled, which check.py excepts (check.py 96-171).
THEOREM NeverRaisesHolds == (Spec => []NeverRaises) /\ (AuditSpec => []NeverRaises)
<1>1. IInv => NeverRaises BY DEF IInv
<1> QED BY <1>1, InvHolds, PTL

\* MaskingIsTotal holds: a rewrite hides every stale and every missing version, and
\* no duplicate (check.py 96-171).
THEOREM MaskingHolds == (Spec => []MaskingIsTotal) /\ (AuditSpec => []MaskingIsTotal)
<1>1. IInv => MaskingIsTotal
  <2> SUFFICES ASSUME IInv, stage = "ok", compacted = "rewritten", NEW k \in Keys, Truth(k) # 0
               PROVE  /\ Category(k) = "masked" <=> OracleVerdict(k) \in {"STALE_WINS", "MISSING_CURRENT"}
                      /\ Category(k) # "masked" => Category(k) = "agree"
    BY DEF MaskingIsTotal
  <2>1. Finished BY DEF IInv, Finished, Planning
  <2> QED BY <2>1, Categories
<1> QED BY <1>1, InvHolds, PTL

-----------------------------------------------------------------------------
\* The knobs and their violations.

\* Without out-of-order commits the last change of a key survives.
LEMMA LastSurvives ==
    ASSUME PlanOK, ~Planning, NEW k \in Keys, Truth(k) # 0, ~config.outOfOrder,
           NEW n \in Nat, n > LastCheckpoint
    PROVE  \E r \in RowsOf(LiveRows(TableAfter(n)), k) : r.ver = Truth(k)
<1> DEFINE m == Changes(k)
<1>1. m \in Nat /\ \A j \in 1..m : assign[k][j] \in Nat \ {0} BY CarriedIs
<1>2. LastCheckpoint \in Nat /\ \A j \in 1..m : assign[k][j] <= LastCheckpoint BY LastIs
<1>3. Monotone(m, assign[k]) BY DEF PlanOK, AssignOK
<1>4. /\ m = 0 => IsRead(k) /\ lsns[k][1] = Truth(k)
      /\ m # 0 => m \in Writes(k) /\ Lsn(k, m) = Truth(k)
  BY TruthIs
<1>5. ASSUME NEW c \in Nat, c < n, NEW row \in Rows(c), row.key = k, row.ver = Truth(k),
             \A j \in 1..m : ~(assign[k][j] > c)
      PROVE  \E r \in RowsOf(LiveRows(TableAfter(n)), k) : r.ver = Truth(k)
  <2> DEFINE r == PlacedRow(row, c)
  <2>1. r \in TableAfter(n).data BY <1>5, TableIs
  <2>2. r.key = k /\ r.ver = Truth(k) /\ r.commit = c BY <1>5 DEF PlacedRow
  <2> HIDE DEF r
  <2>3. ~IsDeleted(TableAfter(n), r) BY <1>5, <2>1, <2>2, DeletedIs
  <2>4. r \in RowsOf(LiveRows(TableAfter(n)), k) BY <2>1, <2>2, <2>3 DEF RowsOf, LiveRows
  <2> QED BY <2>2, <2>4
<1>6. CASE m = 0
  <2> DEFINE row == [key |-> k, ver |-> lsns[k][1], copy |-> 1]
  <2>1. row \in Rows(0) BY <1>4, <1>6, RowsIs
  <2>2. row.key = k /\ row.ver = Truth(k) BY <1>4, <1>6
  <2>3. 0 < n /\ \A j \in 1..m : ~(assign[k][j] > 0) BY <1>2, <1>6
  <2> HIDE DEF row
  <2> QED BY <1>5, <2>1, <2>2, <2>3
<1>7. CASE m # 0
  <2> DEFINE row == [key |-> k, ver |-> Lsn(k, m), copy |-> 1]
             c == assign[k][m]
  <2>1. m \in 1..m /\ m \in Writes(k) BY <1>1, <1>4, <1>7
  <2>2. c \in Nat \ {0} /\ c < n BY <1>1, <1>2, <2>1
  <2>3. row \in Rows(c)
    <3>1. c # 0 /\ m \in 1..Changes(k) BY <2>1, <2>2
    <3> QED BY <2>1, <2>2, <3>1, RowsIs
  <2>4. row.key = k /\ row.ver = Truth(k) BY <1>4, <1>7
  <2>5. ASSUME NEW j \in 1..m PROVE ~(assign[k][j] > c)
    <3>1. j <= m BY <1>1
    <3>2. assign[k][j] <= c BY <1>3, <2>1, <3>1 DEF Monotone
    <3>3. assign[k][j] \in Nat BY <1>1
    <3> QED BY <2>2, <3>2, <3>3
  <2> HIDE DEF row, c
  <2> QED BY <1>5, <2>2, <2>3, <2>4, <2>5
<1> QED BY <1>6, <1>7

\* Without co-location a key has at most one row that is not deleted.
LEMMA OneSurvives ==
    ASSUME PlanOK, ~Planning, NEW k \in Keys, NEW n \in Nat,
           ~config.schema, config.coarsening = 1, ~config.duplicates,
           NEW r \in RowsOf(LiveRows(TableAfter(n)), k), NEW s \in RowsOf(LiveRows(TableAfter(n)), k)
    PROVE  r = s
<1> DEFINE m == Changes(k)
           L == RowsOf(LiveRows(TableAfter(n)), k)
           Comes(q) == \/ q.commit = 0 /\ IsRead(k) /\ q.ver = lsns[k][1] /\ q.part = 1
                       \/ \E j \in 1..m : assign[k][j] = q.commit /\ q.ver = Lsn(k, j) /\ q.part = 1
<1>1. m \in Nat /\ \A j \in 1..m : assign[k][j] \in Nat \ {0} BY CarriedIs
<1>2. Injective(m, assign[k]) /\ copied[k] = {} BY DEF PlanOK, AssignOK, FineGrained
<1>3. ASSUME NEW q \in L
      PROVE  /\ q.key = k /\ q.commit \in Nat /\ q.commit < n /\ q \in TableAfter(n).data
             /\ ~IsDeleted(TableAfter(n), q)
             /\ q = PlacedRow([key |-> q.key, ver |-> q.ver, copy |-> q.part], q.commit)
             /\ Comes(q)
  <2>1. q.key = k /\ q \in TableAfter(n).data /\ ~IsDeleted(TableAfter(n), q) BY DEF RowsOf, LiveRows
  <2>2. /\ q.commit \in Nat /\ q.commit < n
        /\ q = PlacedRow([key |-> q.key, ver |-> q.ver, copy |-> q.part], q.commit)
        /\ \/ q.commit = 0 /\ IsRead(q.key) /\ q.ver = lsns[q.key][1] /\ q.part = 1
           \/ \E j \in 1..Changes(q.key) :
                /\ assign[q.key][j] = q.commit /\ q.ver = Lsn(q.key, j)
                /\ (q.part = 1 /\ j \in Writes(q.key)) \/ (q.part = 2 /\ j \in copied[q.key])
    BY <2>1, RowFields
  <2>3. Comes(q) BY <1>2, <2>1, <2>2
  <2> HIDE DEF Comes
  <2> QED BY <2>1, <2>2, <2>3
<1>4. ASSUME NEW q \in L, NEW t \in L PROVE ~(q.commit < t.commit)
  <2> SUFFICES ASSUME q.commit < t.commit PROVE FALSE OBVIOUS
  <2>1. q.commit \in Nat /\ t.commit \in Nat /\ t.commit < n BY <1>3
  <2>2. t.commit # 0 BY <2>1
  <2>3. Comes(t) BY <1>3
  <2>4. PICK j \in 1..m : assign[k][j] = t.commit BY <2>2, <2>3
  <2>5. q.key = k /\ q \in TableAfter(n).data /\ ~IsDeleted(TableAfter(n), q) BY <1>3
  <2>6. assign[k][j] < n /\ assign[k][j] > q.commit BY <2>1, <2>4
  <2> QED BY <2>5, <2>6, DeletedIs
<1>5. r.commit = s.commit
  <2>1. r \in L /\ s \in L OBVIOUS
  <2>2. r.commit \in Nat /\ s.commit \in Nat BY <1>3, <2>1
  <2>3. ~(r.commit < s.commit) /\ ~(s.commit < r.commit) BY <1>4, <2>1
  <2> QED BY <2>2, <2>3
<1>6. r.ver = s.ver /\ r.part = s.part
  <2>1. Comes(r) /\ Comes(s) BY <1>3
  <2>2. CASE r.commit = 0 BY <1>1, <1>5, <2>1, <2>2
  <2>3. CASE r.commit # 0
    <3>1. PICK i \in 1..m : assign[k][i] = r.commit /\ r.ver = Lsn(k, i) /\ r.part = 1 BY <2>1, <2>3
    <3>2. PICK j \in 1..m : assign[k][j] = s.commit /\ s.ver = Lsn(k, j) /\ s.part = 1 BY <1>5, <2>1, <2>3
    <3>3. i = j BY <1>2, <1>5, <3>1, <3>2 DEF Injective
    <3> QED BY <3>1, <3>2, <3>3
  <2> QED BY <2>2, <2>3
<1>7. /\ r.key = k /\ r = PlacedRow([key |-> r.key, ver |-> r.ver, copy |-> r.part], r.commit)
      /\ s.key = k /\ s = PlacedRow([key |-> s.key, ver |-> s.ver, copy |-> s.part], s.commit)
  <2>1. r \in L /\ s \in L OBVIOUS
  <2> HIDE DEF L
  <2> QED BY <1>3, <2>1
<1> QED BY <1>5, <1>6, <1>7

\* The rows a reader sees are those that survive, where the rewrite put them.
LEMMA ViewIs ==
    ASSUME IInv, ~Planning, NEW k
    PROVE  LET Survive == RowsOf(LiveRows(TableAfter(next)), k)
           IN  View(k) = IF compacted = "rewritten" THEN {MovedTo(next, r) : r \in Survive} ELSE Survive
<1>1. PlanOK /\ next \in Nat /\ TableOK BY DEF IInv
<1>2. CASE compacted = "rewritten"
  <2>1. table = TableMoved(next) BY <1>1, <1>2 DEF TableOK
  <2>2. LiveRows(TableMoved(next)) = TableMoved(next).data BY <1>1, MovedIs
  <2>3. RowsOf(TableMoved(next).data, k) = {MovedTo(next, r) : r \in RowsOf(LiveRows(TableAfter(next)), k)}
    BY <1>1, MovedIs
  <2> QED BY <1>2, <2>1, <2>2, <2>3 DEF View
<1>3. CASE compacted # "rewritten"
  <2>1. table = TableAfter(next) BY <1>1, <1>3 DEF TableOK
  <2> QED BY <1>3, <2>1 DEF View
<1> QED BY <1>2, <1>3

\* ViolationClasses holds: each knob produces its own violations and no other, in any
\* number and with rewrites or without (batching.py 96-178, verify.py 55-117).
THEOREM ViolationClassesHold == (Spec => []ViolationClasses) /\ (AuditSpec => []ViolationClasses)
<1>1. IInv => ViolationClasses
  <2> SUFFICES ASSUME IInv, stage \in {"ok", "raised"}, NEW k \in Keys
               PROVE  /\ OracleVerdict(k) \in {"STALE_WINS", "MISSING_CURRENT"} => config.outOfOrder
                      /\ OracleVerdict(k) = "DUPLICATE" =>
                            config.schema \/ config.duplicates \/ config.coarsening > 1
    BY DEF ViolationClasses
  <2>1. PlanOK /\ ~Planning /\ next \in Nat /\ next > LastCheckpoint BY DEF IInv, Planning
  <2> DEFINE Survive == RowsOf(LiveRows(TableAfter(next)), k)
             V == View(k)
  <2>2. CASE Truth(k) = 0
    <3>1. OracleVerdict(k) \in {"MATCH", "GHOST"} BY <2>2 DEF OracleVerdict
    <3> QED BY <3>1
  <2>3. CASE Truth(k) # 0
    <3>1. /\ V = {} => OracleVerdict(k) = "MISSING_CURRENT"
          /\ V # {} /\ (~\E s : V = {s}) => OracleVerdict(k) = "DUPLICATE"
          /\ \A s : V = {s} => OracleVerdict(k) = IF s.ver = Truth(k) THEN "MATCH" ELSE "STALE_WINS"
      BY <2>1, <2>3, OracleByRows
    <3>2. V = IF compacted = "rewritten" THEN {MovedTo(next, r) : r \in Survive} ELSE Survive BY <2>1, ViewIs
    <3>3. \A r \in LiveRows(TableAfter(next)) : MovedTo(next, r).ver = r.ver BY <2>1, MovedIs
    <3>4. \A r \in Survive : MovedTo(next, r).ver = r.ver BY <3>3 DEF RowsOf
    <3>5. ASSUME ~config.outOfOrder PROVE \E r \in V : r.ver = Truth(k)
      <4>1. \E r \in Survive : r.ver = Truth(k) BY <2>1, <2>3, <3>5, LastSurvives
      <4> HIDE DEF Survive, V
      <4> QED BY <3>2, <3>4, <4>1
    <3>6. ASSUME ~config.schema, ~config.duplicates, ~(config.coarsening > 1)
          PROVE  \A r, s \in V : r = s
      <4>1. config.coarsening \in Nat \ {0} BY <2>1, ConfigIs DEF PlanOK
      <4>2. config.coarsening = 1 BY <3>6, <4>1
      <4>3. \A r, s \in Survive : r = s BY <2>1, <3>6, <4>2, OneSurvives
      <4> HIDE DEF Survive, V
      <4> QED BY <3>2, <4>3
    <3> HIDE DEF Survive, V
    <3>7. OracleVerdict(k) \in {"STALE_WINS", "MISSING_CURRENT"} => config.outOfOrder
      <4> SUFFICES ASSUME ~config.outOfOrder PROVE OracleVerdict(k) \notin {"STALE_WINS", "MISSING_CURRENT"}
        OBVIOUS
      <4>1. PICK r \in V : r.ver = Truth(k) BY <3>5
      <4>2. CASE \E s : V = {s} BY <3>1, <4>1, <4>2
      <4>3. CASE ~\E s : V = {s} BY <3>1, <4>1, <4>3
      <4> QED BY <4>2, <4>3
    <3>8. OracleVerdict(k) = "DUPLICATE" => config.schema \/ config.duplicates \/ config.coarsening > 1
      <4> SUFFICES ASSUME ~config.schema, ~config.duplicates, ~(config.coarsening > 1)
                   PROVE  OracleVerdict(k) # "DUPLICATE"
        OBVIOUS
      <4>1. \A r, s \in V : r = s BY <3>6
      <4>2. CASE V = {} BY <3>1, <4>2
      <4>3. CASE V # {}
        <5>1. PICK s : s \in V BY <4>3
        <5>2. V = {s} BY <4>1, <5>1
        <5> QED BY <3>1, <5>2
      <4> QED BY <4>2, <4>3
    <3> QED BY <3>7, <3>8
  <2> QED BY <2>2, <2>3
<1> QED BY <1>1, InvHolds, PTL

-----------------------------------------------------------------------------
\* The enforced runs implement a log of versions per key.

Seen(k) == {[ver |-> r.ver, copy |-> r.part] : r \in View(k)}

LogNow == [k \in Keys |-> IF Enforced THEN LogOf(k) ELSE <<>>]

AtNow == [k \in Keys |-> IF Enforced THEN Applied(k) ELSE 0]

SeenNow == [k \in Keys |-> IF Enforced THEN Seen(k) ELSE {}]

\* Under the clean plan a key's surviving row, if it has one, is its last applied change's.
LEMMA SafeRows ==
    ASSUME PlanOK, ~Planning, Enforced, NEW k \in Keys, NEW n \in Nat \ {0}
    PROVE  LET S == RowsOf(LiveRows(TableAfter(n)), k)
               m == Reached(n, k)
           IN  /\ m \in 0..Changes(k)
               /\ \A r \in S : /\ r.part = 1
                               /\ m = 0 => IsRead(k) /\ r.ver = lsns[k][1]
                               /\ m # 0 => m \in Writes(k) /\ r.ver = Lsn(k, m)
               /\ IF m = 0 THEN IsRead(k) => S # {} ELSE m \in Writes(k) => S # {}
<1> DEFINE S == RowsOf(LiveRows(TableAfter(n)), k)
           m == Reached(n, k)
           C == Changes(k)
<1>1. C \in Nat BY CarriedIs
<1>2. \A j \in 1..C : assign[k][j] = j
  <2>1. assign[k] = CleanAssign(C) BY DEF PlanOK, AssignOK, Perturbed
  <2> QED BY <2>1 DEF CleanAssign
<1>3. copied[k] = {} BY DEF PlanOK, AssignOK, Perturbed
<1>4. m = IF n - 1 <= C THEN n - 1 ELSE C BY DEF Reached
<1> HIDE DEF C, m
<1>5. m \in 0..C /\ m <= n - 1 /\ \A j \in 1..C : j < n => j <= m BY <1>1, <1>4
<1>6. ASSUME NEW r \in TableAfter(n).data, r.key = k
      PROVE  /\ IsDeleted(TableAfter(n), r) <=> r.commit < m
             /\ r.commit \in 0..m /\ r.part = 1
             /\ r.commit = 0 => IsRead(k) /\ r.ver = lsns[k][1]
             /\ r.commit # 0 => r.commit \in Writes(k) /\ r.ver = Lsn(k, r.commit)
  <2>1. /\ r.commit \in Nat /\ r.commit < n
        /\ \/ r.commit = 0 /\ IsRead(k) /\ r.ver = lsns[k][1] /\ r.part = 1
           \/ \E j \in 1..C :
                /\ assign[k][j] = r.commit /\ r.ver = Lsn(k, j)
                /\ (r.part = 1 /\ j \in Writes(k)) \/ (r.part = 2 /\ j \in copied[k])
    BY <1>6, RowFields DEF C
  <2>2. CASE r.commit = 0 BY <1>1, <1>2, <1>3, <1>5, <1>6, <2>1, <2>2, DeletedIs DEF C
  <2>3. CASE r.commit # 0
    <3>1. PICK j \in 1..C : /\ assign[k][j] = r.commit /\ r.ver = Lsn(k, j)
                            /\ (r.part = 1 /\ j \in Writes(k)) \/ (r.part = 2 /\ j \in copied[k])
      BY <2>1, <2>3
    <3>2. r.commit = j /\ r.ver = Lsn(k, j) /\ r.part = 1 /\ j \in Writes(k) BY <1>2, <1>3, <3>1
    <3>3. IsDeleted(TableAfter(n), r) <=> \E i \in 1..C : i < n /\ i > j
      <4>1. IsDeleted(TableAfter(n), r) <=>
              \E i \in 1..Changes(r.key) : assign[r.key][i] < n /\ assign[r.key][i] > r.commit
        BY DeletedIs
      <4>2. IsDeleted(TableAfter(n), r) <=> \E i \in 1..C : assign[k][i] < n /\ assign[k][i] > j
        BY <1>6, <3>2, <4>1 DEF C
      <4> QED BY <1>2, <4>2
    <3>4. j <= m BY <1>5, <2>1, <3>2
    <3>5. (\E i \in 1..C : i < n /\ i > j) <=> j < m
      <4>1. ASSUME NEW i \in 1..C, i < n, i > j PROVE j < m BY <1>1, <1>5, <4>1
      <4>2. ASSUME j < m PROVE m \in 1..C /\ m < n /\ m > j BY <1>1, <1>5, <4>2
      <4> QED BY <4>1, <4>2
    <3> QED BY <1>1, <1>5, <2>3, <3>2, <3>3, <3>4, <3>5
  <2> QED BY <2>2, <2>3
<1>7. ASSUME NEW r \in S
      PROVE  /\ r.part = 1
             /\ m = 0 => IsRead(k) /\ r.ver = lsns[k][1]
             /\ m # 0 => m \in Writes(k) /\ r.ver = Lsn(k, m)
  <2>1. r \in TableAfter(n).data /\ r.key = k /\ ~IsDeleted(TableAfter(n), r) BY DEF RowsOf, LiveRows
  <2>2. r.commit = m BY <1>1, <1>5, <1>6, <2>1
  <2> QED BY <1>6, <2>1, <2>2
<1>8. ASSUME NEW row \in Rows(m), row.key = k PROVE S # {}
  <2> DEFINE r == PlacedRow(row, m)
  <2>1. m \in Nat /\ m < n BY <1>1, <1>5
  <2>2. r \in TableAfter(n).data BY <2>1, TableIs
  <2>3. r.key = k /\ r.commit = m BY <1>8 DEF PlacedRow
  <2> HIDE DEF r
  <2>4. ~IsDeleted(TableAfter(n), r) BY <1>6, <2>1, <2>2, <2>3
  <2>5. r \in S BY <2>2, <2>3, <2>4 DEF RowsOf, LiveRows
  <2> QED BY <2>5
<1>9. ASSUME m = 0, IsRead(k) PROVE S # {}
  <2> DEFINE row == [key |-> k, ver |-> lsns[k][1], copy |-> 1]
  <2>1. row \in Rows(0) BY <1>9, RowsIs
  <2>2. row.key = k OBVIOUS
  <2> HIDE DEF row, S
  <2> QED BY <1>8, <1>9, <2>1, <2>2
<1>10. ASSUME m # 0, m \in Writes(k) PROVE S # {}
  <2> DEFINE row == [key |-> k, ver |-> Lsn(k, m), copy |-> 1]
  <2>1. m \in 1..C /\ assign[k][m] = m /\ m \in Nat BY <1>1, <1>2, <1>5, <1>10
  <2>2. row \in Rows(m) BY <1>10, <2>1, RowsIs DEF C
  <2>3. row.key = k OBVIOUS
  <2> HIDE DEF row, S
  <2> QED BY <1>8, <2>2, <2>3
<1> HIDE DEF S
<1> QED BY <1>5, <1>7, <1>9, <1>10 DEF S, m, C

\* What is applied, in numbers.
LEMMA AppliedIs ==
    ASSUME PlanOK, NEW k \in Keys, next \in Nat, Planning => next = 0
    PROVE  /\ Applied(k) = Prefix(next, k)
           /\ Len(lsns[k]) \in Nat /\ Prefix(next, k) \in 0..Len(lsns[k])
<1>1. LsnsOK(k) BY DEF PlanOK
<1>2. Len(lsns[k]) \in Nat BY <1>1, LenProperties DEF LsnsOK
<1>3. CASE next = 0 BY <1>2, <1>3 DEF Applied, Prefix
<1>4. CASE next # 0
  <2>1. ~Planning /\ next - 1 \in Nat BY <1>4
  <2>2. Changes(k) \in Nat BY <2>1, PlanNumbers
  <2>3. Min({next - 1, Changes(k)}) = Reached(next, k) BY <2>1, <2>2, MinOfTwo DEF Reached
  <2>4. Applied(k) = Prefix(next, k) BY <1>4, <2>3 DEF Applied, Prefix
  <2> QED BY <1>2, <2>1, <2>4, PrefixIn
<1> QED BY <1>3, <1>4

\* A reader sees the version the applied prefix of the log ends with.
LEMMA SafeView ==
    ASSUME IInv, Enforced, NEW k \in Keys
    PROVE  Seen(k) = IF Applied(k) = 0 THEN {} ELSE SafeLog!Shown(LogOf(k)[Applied(k)])
<1>1. PlanOK /\ next \in Nat /\ (Planning => next = 0) BY DEF IInv
<1>2. Applied(k) = Prefix(next, k) BY <1>1, AppliedIs
<1>3. CASE next = 0
  <2>1. Applied(k) = 0 BY <1>2, <1>3 DEF Prefix
  <2>2. View(k) = {}
    <3>1. CASE Planning BY <3>1 DEF IInv, EmptyTable, View, RowsOf, LiveRows
    <3>2. CASE ~Planning
      <4>1. LastCheckpoint \in Nat BY <1>1, <3>2, LastIs
      <4>2. compacted # "rewritten" BY <1>3, <3>2, <4>1 DEF IInv
      <4>3. table = EmptyTable BY <1>3, <3>2, <4>2, ZeroTable DEF IInv, TableOK
      <4> QED BY <4>3 DEF EmptyTable, View, RowsOf, LiveRows
    <3> QED BY <3>1, <3>2
  <2> QED BY <2>1, <2>2 DEF Seen
<1>4. CASE next # 0
  <2> DEFINE S == RowsOf(LiveRows(TableAfter(next)), k)
             m == Reached(next, k)
             a == Applied(k)
             C == Changes(k)
  <2>1. ~Planning /\ next \in Nat \ {0} BY <1>1, <1>4
  <2>2. /\ m \in 0..C
        /\ \A r \in S : /\ r.part = 1
                        /\ m = 0 => IsRead(k) /\ r.ver = lsns[k][1]
                        /\ m # 0 => m \in Writes(k) /\ r.ver = Lsn(k, m)
        /\ IF m = 0 THEN IsRead(k) => S # {} ELSE m \in Writes(k) => S # {}
    BY <1>1, <2>1, SafeRows
  <2>3. a = IF IsRead(k) THEN 1 + m ELSE m BY <1>2, <1>4 DEF Prefix
  <2>4. Seen(k) = {[ver |-> r.ver, copy |-> r.part] : r \in S}
    <3>1. View(k) = IF compacted = "rewritten" THEN {MovedTo(next, r) : r \in S} ELSE S BY <2>1, ViewIs
    <3>2. \A r \in LiveRows(TableAfter(next)) : MovedTo(next, r).ver = r.ver /\ MovedTo(next, r).part = r.part
      BY <1>1, <2>1, MovedIs
    <3>3. \A r \in S : MovedTo(next, r).ver = r.ver /\ MovedTo(next, r).part = r.part BY <3>2 DEF RowsOf
    <3> HIDE DEF S
    <3>4. CASE compacted = "rewritten"
      <4>1. View(k) = {MovedTo(next, r) : r \in S} BY <3>1, <3>4
      <4> QED BY <3>3, <4>1 DEF Seen
    <3>5. CASE compacted # "rewritten" BY <3>1, <3>5 DEF Seen
    <3> QED BY <3>4, <3>5
  <2>5. HistoryOK(history[k]) /\ LsnsOK(k) /\ Len(lsns[k]) = Len(history[k])
    BY <1>1, <2>1 DEF PlanOK, Planning
  <2>6. /\ C \in Nat
        /\ \A j \in 1..C : Index(k, j) \in 1..Len(history[k]) /\ Op(k, j) \in {"c", "u", "d"}
        /\ Len(history[k]) = IF IsRead(k) THEN C + 1 ELSE C
    BY <2>5, ChangesIs
  <2>7. \A i \in 1..Len(lsns[k]) : LogOf(k)[i] = IF history[k][i] = "d" THEN 0 ELSE lsns[k][i] BY DEF LogOf
  <2>8. \A i \in 1..Len(lsns[k]) : lsns[k][i] # 0 BY <2>5, ElementOfSeq DEF LsnsOK
  <2> HIDE DEF S, m, a, C
  <2>9. CASE m = 0 /\ ~IsRead(k)
    <3>1. a = 0 /\ S = {} BY <2>2, <2>3, <2>9
    <3> QED BY <2>4, <3>1 DEF a
  <2>10. CASE m = 0 /\ IsRead(k)
    <3>1. a = 1 /\ 1 \in 1..Len(lsns[k]) /\ history[k][1] = "r" BY <2>3, <2>5, <2>6, <2>10 DEF IsRead
    <3>2. LogOf(k)[a] = lsns[k][1] /\ lsns[k][1] # 0 BY <2>7, <2>8, <3>1
    <3>3. S # {} /\ \A r \in S : r.part = 1 /\ r.ver = lsns[k][1] BY <2>2, <2>10
    <3>4. Seen(k) = {[ver |-> lsns[k][1], copy |-> 1]} BY <2>4, <3>3
    <3> QED BY <3>1, <3>2, <3>4 DEF a, SafeLog!Shown
  <2>11. CASE m # 0
    <3>1. m \in 1..C BY <2>2, <2>6, <2>11
    <3>2. a = Index(k, m) /\ a \in 1..Len(lsns[k]) /\ a # 0
      <4>1. a = Index(k, m) BY <2>2, <2>3, <2>6 DEF Index
      <4>2. Index(k, m) \in 1..Len(lsns[k]) BY <2>5, <2>6, <3>1
      <4> QED BY <4>1, <4>2
    <3>3. m \in Writes(k) <=> history[k][a] # "d"
      <4>1. Op(k, m) = history[k][a] /\ Op(k, m) \in {"c", "u", "d"} BY <2>6, <3>1, <3>2 DEF Op
      <4>2. m \in Writes(k) <=> Op(k, m) \in {"c", "u"} BY <3>1 DEF Writes, C
      <4> QED BY <4>1, <4>2
    <3>4. CASE history[k][a] = "d"
      <4>1. S = {} BY <2>2, <2>11, <3>3, <3>4
      <4>2. LogOf(k)[a] = 0 BY <2>7, <3>2, <3>4
      <4> QED BY <2>4, <3>2, <4>1, <4>2 DEF a, SafeLog!Shown
    <3>5. CASE history[k][a] # "d"
      <4>1. S # {} /\ \A r \in S : r.part = 1 /\ r.ver = Lsn(k, m) BY <2>2, <2>11, <3>3, <3>5
      <4>2. Seen(k) = {[ver |-> Lsn(k, m), copy |-> 1]} BY <2>4, <4>1
      <4>3. LogOf(k)[a] = Lsn(k, m) /\ Lsn(k, m) # 0 BY <2>7, <2>8, <3>2, <3>5 DEF Lsn
      <4> QED BY <3>2, <4>2, <4>3 DEF a, SafeLog!Shown
    <3> QED BY <3>4, <3>5
  <2> QED BY <2>9, <2>10, <2>11
<1> QED BY <1>3, <1>4

\* The abstract state is a function of the configuration, the stream and the view.
LEMMA Stutter ==
    ASSUME UNCHANGED <<config, history>>,
           Enforced => \A k \in Keys : lsns'[k] = lsns[k] /\ Applied(k)' = Applied(k) /\ Seen(k)' = Seen(k)
    PROVE  LogNow' = LogNow /\ AtNow' = AtNow /\ SeenNow' = SeenNow
<1>1. Enforced' <=> Enforced BY DEF Enforced
<1>2. CASE ~Enforced BY <1>1, <1>2 DEF LogNow, AtNow, SeenNow
<1>3. CASE Enforced
  <2>1. \A k \in Keys : LogOf(k)' = LogOf(k) BY <1>3 DEF LogOf
  <2> QED BY <1>1, <1>3, <2>1 DEF LogNow, AtNow, SeenNow
<1> QED BY <1>2, <1>3

\* Nothing has been applied while the stream is made and planned.
LEMMA PlanningShows ==
    /\ Planning /\ next = 0 /\ table = EmptyTable => \A k : Applied(k) = 0 /\ Seen(k) = {}
    /\ (Planning /\ next = 0 /\ table = EmptyTable => \A k : Applied(k) = 0 /\ Seen(k) = {})'
BY DEF Applied, Seen, View, RowsOf, LiveRows, EmptyTable

\* The source says something new about one key.
LEMMA EmitRecords ==
    ASSUME IInv, NEW k \in Keys, Emit(k), UNCHANGED <<next, commits, table, compacted>>, Enforced
    PROVE  /\ \A q \in Keys \ {k} : LogNow'[q] = LogNow[q]
           /\ Len(LogNow'[k]) = Len(LogNow[k]) + 1
           /\ SubSeq(LogNow'[k], 1, Len(LogNow[k])) = LogNow[k]
           /\ AtNow' = AtNow /\ SeenNow' = SeenNow
<1>1. UNCHANGED <<config, history, stage>> /\ Planning BY DEF Emit, Planning
<1>2. PlanOK BY DEF IInv
<1>3. Enforced' BY <1>1 DEF Enforced
<1>4. LogNow = [q \in Keys |-> LogOf(q)] /\ LogNow' = [q \in Keys |-> LogOf(q)'] BY <1>3 DEF LogNow
<1>5. /\ \A q \in Keys \ {k} : LogOf(q)' = LogOf(q)
      /\ Len(LogOf(k)') = Len(LogOf(k)) + 1
      /\ SubSeq(LogOf(k)', 1, Len(LogOf(k))) = LogOf(k)
  BY <1>2, LogGrows
<1>6. \A q : Applied(q) = 0 /\ Seen(q) = {} BY <1>1, PlanningShows DEF IInv
<1>7. \A q : Applied(q)' = 0 /\ Seen(q)' = {}
  <2>1. Planning' /\ next' = 0 /\ table' = EmptyTable BY <1>1 DEF IInv, Planning
  <2> QED BY <2>1, PlanningShows
<1>8. AtNow' = AtNow /\ SeenNow' = SeenNow BY <1>3, <1>6, <1>7 DEF AtNow, SeenNow
<1> QED BY <1>4, <1>5, <1>8

\* What an enforced run shows, as a state predicate.
SafeReading ==
    Enforced => \A k \in Keys :
        /\ Applied(k) = Prefix(next, k) /\ Prefix(next, k) \in 0..Len(lsns[k])
        /\ Seen(k) = IF Applied(k) = 0 THEN {} ELSE SafeLog!Shown(LogOf(k)[Applied(k)])

\* The invariant says what an enforced run shows.
LEMMA ReadingHolds == IInv => SafeReading
<1> SUFFICES ASSUME IInv, Enforced, NEW k \in Keys
             PROVE  /\ Applied(k) = Prefix(next, k) /\ Prefix(next, k) \in 0..Len(lsns[k])
                    /\ Seen(k) = IF Applied(k) = 0 THEN {} ELSE SafeLog!Shown(LogOf(k)[Applied(k)])
  BY DEF SafeReading
<1>1. PlanOK /\ next \in Nat /\ (Planning => next = 0) BY DEF IInv
<1> QED BY <1>1, AppliedIs, SafeView

\* A checkpoint of the clean plan moves some keys on by one version.
LEMMA CommitApplies ==
    ASSUME IInv, SafeReading, SafeReading', CommitCheckpoint, Enforced
    PROVE  \E moved \in SUBSET Keys :
              /\ \A k \in moved : AtNow[k] < Len(LogNow[k])
              /\ AtNow' = [k \in Keys |-> IF k \in moved THEN AtNow[k] + 1 ELSE AtNow[k]]
              /\ SeenNow' = [k \in Keys |-> IF k \in moved THEN SafeLog!Shown(LogNow[k][AtNow[k] + 1]) ELSE SeenNow[k]]
              /\ LogNow' = LogNow
<1>1. /\ stage = "apply" /\ next' = next + 1 /\ UNCHANGED <<config, history, lsns>> /\ UNCHANGED planVars
  BY DEF CommitCheckpoint, planVars
<1>2. PlanOK /\ ~Planning /\ next \in Nat BY <1>1 DEF IInv, Planning
<1>3. Enforced' BY <1>1 DEF Enforced
<1>4. \A k \in Keys : LogOf(k)' = LogOf(k) BY <1>1 DEF LogOf
<1> DEFINE moved == {k \in Keys : IF next = 0 THEN IsRead(k) ELSE next <= Changes(k)}
<1>5. ASSUME NEW k \in Keys
      PROVE  /\ Applied(k)' = IF k \in moved THEN Applied(k) + 1 ELSE Applied(k)
             /\ Applied(k) \in Nat
             /\ k \in moved => Applied(k) < Len(LogOf(k))
  <2>1. Applied(k) = Prefix(next, k) /\ Prefix(next, k) \in 0..Len(lsns[k]) BY DEF SafeReading
  <2>2. Applied(k)' = Prefix(next, k)' /\ Prefix(next, k)' \in 0..Len(lsns'[k]) BY <1>3 DEF SafeReading
  <2>3. Prefix(next, k)' = Prefix(next + 1, k)
    <3>1. Changes(k)' = Changes(k) /\ (IsRead(k)' <=> IsRead(k)) BY <1>1, PlanFrozen
    <3> QED BY <1>1, <3>1 DEF Prefix, Reached
  <2>4. Changes(k) \in Nat BY <1>2, CarriedIs
  <2>5. Prefix(next + 1, k) = IF k \in moved THEN Prefix(next, k) + 1 ELSE Prefix(next, k)
    BY <1>2, <2>4 DEF Prefix, Reached
  <2>6. Len(LogOf(k)) = Len(lsns[k]) /\ Len(lsns[k]) \in Nat BY <1>2, LogShape
  <2> HIDE DEF moved
  <2> QED BY <1>1, <2>1, <2>2, <2>3, <2>5, <2>6
<1>6. ASSUME NEW k \in Keys
      PROVE  Seen(k)' = IF k \in moved THEN SafeLog!Shown(LogOf(k)[Applied(k) + 1]) ELSE Seen(k)
  <2>1. Seen(k) = IF Applied(k) = 0 THEN {} ELSE SafeLog!Shown(LogOf(k)[Applied(k)]) BY DEF SafeReading
  <2>2. Seen(k)' = IF Applied(k)' = 0 THEN {} ELSE SafeLog!Shown(LogOf(k)[Applied(k)'])
    BY <1>3, <1>4 DEF SafeReading, SafeLog!Shown
  <2>3. /\ Applied(k)' = IF k \in moved THEN Applied(k) + 1 ELSE Applied(k)
        /\ Applied(k) \in Nat
    BY <1>5
  <2> HIDE DEF moved
  <2> QED BY <2>1, <2>2, <2>3
<1>7. /\ LogNow = [k \in Keys |-> LogOf(k)] /\ LogNow' = [k \in Keys |-> LogOf(k)']
      /\ AtNow = [k \in Keys |-> Applied(k)] /\ AtNow' = [k \in Keys |-> Applied(k)']
      /\ SeenNow = [k \in Keys |-> Seen(k)] /\ SeenNow' = [k \in Keys |-> Seen(k)']
  BY <1>3 DEF LogNow, AtNow, SeenNow
<1>8. moved \in SUBSET Keys OBVIOUS
<1> HIDE DEF moved
<1>9. LogNow' = LogNow BY <1>4, <1>7
<1>10. \A k \in moved : AtNow[k] < Len(LogNow[k]) BY <1>5, <1>7, <1>8
<1>11. AtNow' = [k \in Keys |-> IF k \in moved THEN AtNow[k] + 1 ELSE AtNow[k]] BY <1>5, <1>7
<1>12. SeenNow' = [k \in Keys |-> IF k \in moved THEN SafeLog!Shown(LogNow[k][AtNow[k] + 1]) ELSE SeenNow[k]]
  BY <1>6, <1>7
<1> QED BY <1>8, <1>9, <1>10, <1>11, <1>12

\* No other step of an enforced run, and no step of another run, shows anything new.
LEMMA ElseStutters ==
    ASSUME IInv, SafeReading, SafeReading', [Next]_vars,
           Enforced => ~CommitCheckpoint /\ ~\E k \in Keys : Emit(k)
    PROVE  LogNow' = LogNow /\ AtNow' = AtNow /\ SeenNow' = SeenNow
<1>1. UNCHANGED <<config, history>>
  BY DEF vars, planVars, Next, PlanNext, Emit, Skew, BuildPlan, CommitCheckpoint, Compact, Reconcile
<1>2. ASSUME Enforced, NEW k \in Keys PROVE lsns'[k] = lsns[k] /\ Applied(k)' = Applied(k) /\ Seen(k)' = Seen(k)
  <2>1. UNCHANGED <<lsns, next>>
    BY <1>2 DEF vars, planVars, Next, PlanNext, Skew, BuildPlan, Compact, Reconcile
  <2>2. Applied(k)' = Applied(k) BY <1>1, <2>1 DEF Applied, Changes, IsRead
  <2>3. LogOf(k)' = LogOf(k) BY <1>1, <2>1 DEF LogOf
  <2>4. Enforced' BY <1>1, <1>2 DEF Enforced
  <2>5. Seen(k) = IF Applied(k) = 0 THEN {} ELSE SafeLog!Shown(LogOf(k)[Applied(k)]) BY <1>2 DEF SafeReading
  <2>6. Seen(k)' = IF Applied(k)' = 0 THEN {} ELSE SafeLog!Shown(LogOf(k)[Applied(k)])
    BY <2>2, <2>3, <2>4 DEF SafeReading, SafeLog!Shown
  <2> QED BY <2>1, <2>2, <2>5, <2>6
<1> QED BY <1>1, <1>2, Stutter

\* FollowsUpsertLog holds: the enforced write path implements the per-key log it
\* promises, with rewrites and without, for every stream (batching.py 96-178, runner.py
\* 60-133): each commit shows the next version of the keys it moves, and skips none.
THEOREM EnforcedRunsFollowTheLog == (Spec => FollowsUpsertLog) /\ (AuditSpec => FollowsUpsertLog)
<1>1. Init => SafeLog!LogInit
  <2> SUFFICES ASSUME Init PROVE SafeLog!LogInit OBVIOUS
  <2>1. \A k \in Keys : lsns[k] = <<>> BY DEF Init, PlanInit
  <2>2. Planning /\ next = 0 /\ table = EmptyTable BY DEF Init, PlanInit, Planning
  <2>3. \A k : Applied(k) = 0 /\ Seen(k) = {} BY <2>2, PlanningShows
  <2>4. \A k \in Keys : LogOf(k) = <<>>
    <3> SUFFICES ASSUME NEW k \in Keys PROVE LogOf(k) = <<>> OBVIOUS
    <3>1. Len(lsns[k]) = 0 BY <2>1, EmptySeq
    <3>2. PlanOK BY InvStarts DEF IInv
    <3>3. LogOf(k) \in Seq(Nat) /\ Len(LogOf(k)) = 0 BY <3>1, <3>2, LogShape
    <3> QED BY <3>3, EmptySeq
  <2>5. /\ LogNow = [k \in Keys |-> <<>>] /\ AtNow = [k \in Keys |-> 0] /\ SeenNow = [k \in Keys |-> {}]
    BY <2>3, <2>4 DEF LogNow, AtNow, SeenNow
  <2> QED BY <2>5 DEF SafeLog!LogInit, LogNow, AtNow, SeenNow, LogOf, Seen
<1>2. IInv /\ SafeReading /\ SafeReading' /\ [Next]_vars => [SafeLog!LogNext]_SafeLog!logVars
  <2> SUFFICES ASSUME IInv, SafeReading, SafeReading', [Next]_vars
               PROVE  SafeLog!LogNext \/ UNCHANGED SafeLog!logVars
    OBVIOUS
  <2>1. CASE Enforced /\ CommitCheckpoint
    <3>1. PICK moved \in SUBSET Keys :
              /\ \A k \in moved : AtNow[k] < Len(LogNow[k])
              /\ AtNow' = [k \in Keys |-> IF k \in moved THEN AtNow[k] + 1 ELSE AtNow[k]]
              /\ SeenNow' = [k \in Keys |-> IF k \in moved THEN SafeLog!Shown(LogNow[k][AtNow[k] + 1]) ELSE SeenNow[k]]
              /\ LogNow' = LogNow
      BY <2>1, CommitApplies
    <3>2. SafeLog!Apply(moved) BY <3>1 DEF SafeLog!Apply, LogNow, AtNow, SeenNow, LogOf, Seen
    <3> QED BY <3>2 DEF SafeLog!LogNext
  <2>2. CASE Enforced /\ \E k \in Keys : Emit(k)
    <3>1. PICK k \in Keys : Emit(k) BY <2>2
    <3>2. UNCHANGED <<next, commits, table, compacted>>
      BY <3>1 DEF vars, Next, Emit, CommitCheckpoint, Compact, Reconcile
    <3>3. /\ \A q \in Keys \ {k} : LogNow'[q] = LogNow[q]
          /\ Len(LogNow'[k]) = Len(LogNow[k]) + 1
          /\ SubSeq(LogNow'[k], 1, Len(LogNow[k])) = LogNow[k]
          /\ AtNow' = AtNow /\ SeenNow' = SeenNow
      BY <2>2, <3>1, <3>2, EmitRecords
    <3>4. SafeLog!Record(k) BY <3>3 DEF SafeLog!Record, LogNow, AtNow, SeenNow, LogOf, Seen
    <3> QED BY <3>4 DEF SafeLog!LogNext
  <2>3. CASE Enforced => ~CommitCheckpoint /\ ~\E k \in Keys : Emit(k)
    <3>1. LogNow' = LogNow /\ AtNow' = AtNow /\ SeenNow' = SeenNow BY <2>3, ElseStutters
    <3> QED BY <3>1 DEF SafeLog!logVars, LogNow, AtNow, SeenNow, LogOf, Seen
  <2> QED BY <2>1, <2>2, <2>3
<1>3. Spec => FollowsUpsertLog
  BY <1>1, <1>2, InvHolds, ReadingHolds, PTL DEF Spec, FollowsUpsertLog, SafeLog!LogSpec
<1> QED BY <1>3, AuditedIsRun, PTL

-----------------------------------------------------------------------------
\* What an audited compaction says of one key.

\* One row of a key is served although the table has a younger version of it.
StaleRows(t, k) ==
    \E s : RowsOf(LiveRows(t), k) = {s} /\ \E d \in RowsOf(t.data, k) : d.ver > s.ver

\* The finite tables whose rows have an ordering value, which the audit reads.
Audits(t) == t \in Table(Keys, Nat) /\ IsFiniteSet(t.data)

\* A nonempty finite set of rows, by its versions.
LEMMA VersionsAre ==
    ASSUME NEW rows \in SUBSET Row(Keys, Nat), IsFiniteSet(rows), rows # {}
    PROVE  /\ VersionsOf(rows) = {r.ver : r \in rows} /\ VersionsOf(rows) # {}
           /\ \E r \in rows : r.ver = Max(VersionsOf(rows))
           /\ \A r \in rows : r.ver \in Nat /\ r.ver <= Max(VersionsOf(rows))
           /\ \E r \in rows : r.ver = Min(VersionsOf(rows))
           /\ \A r \in rows : Min(VersionsOf(rows)) <= r.ver
<1>1. \A r \in rows : r.ver \in Nat BY DEF Row
<1>2. VersionsOf(rows) = {r.ver : r \in rows} BY <1>1, NoVersionAssumption DEF VersionsOf
<1>3. VersionsOf(rows) # {} BY <1>2
<1>4. VersionsOf(rows) \in SUBSET Nat /\ IsFiniteSet(VersionsOf(rows)) BY VersionsFinite
<1>5. /\ Max(VersionsOf(rows)) \in VersionsOf(rows)
      /\ \A v \in VersionsOf(rows) : Max(VersionsOf(rows)) >= v
      /\ Min(VersionsOf(rows)) \in VersionsOf(rows)
      /\ \A v \in VersionsOf(rows) : Min(VersionsOf(rows)) <= v
  BY <1>3, <1>4, MaxMin
<1>6. \A r \in rows : r.ver \in VersionsOf(rows) BY <1>2
<1>7. \A v \in VersionsOf(rows) : \E r \in rows : r.ver = v BY <1>2
<1> HIDE DEF VersionsOf
<1>8. \A r \in rows : r.ver <= Max(VersionsOf(rows)) BY <1>1, <1>4, <1>5, <1>6
<1> QED BY <1>1, <1>2, <1>3, <1>5, <1>6, <1>7, <1>8

\* The rows of a key in a group, split by the delete filter, are rows of the table.
LEMMA GroupKeyRows ==
    ASSUME NEW t, Audits(t), NEW g, NEW k
    PROVE  LET Dead == RowsOf(GroupRows(t, g), k) \cap DeadRows(t)
               Live == RowsOf(GroupRows(t, g), k) \cap LiveRows(t)
           IN  /\ Dead \in SUBSET Row(Keys, Nat) /\ IsFiniteSet(Dead)
               /\ Live \in SUBSET Row(Keys, Nat) /\ IsFiniteSet(Live)
               /\ DeadIn(t, g, k) = VersionsOf(Dead) /\ LiveIn(t, g, k) = Live
               /\ VersionsOf({}) = {}
<1> DEFINE Dead == RowsOf(GroupRows(t, g), k) \cap DeadRows(t)
           Live == RowsOf(GroupRows(t, g), k) \cap LiveRows(t)
<1>1. Dead \subseteq t.data /\ Live \subseteq t.data BY DEF DeadRows, LiveRows
<1>2. t.data \subseteq Row(Keys, Nat) BY DEF Audits, Table
<1>3. IsFiniteSet(Dead) /\ IsFiniteSet(Live) BY <1>1, FS_Subset DEF Audits
<1>4. VersionsOf({}) = {} BY DEF VersionsOf
<1> QED BY <1>1, <1>2, <1>3, <1>4 DEF DeadIn, LiveIn

\* A group flags a key when it discards a row younger than the one row it keeps of it.
LEMMA FlagMeans ==
    ASSUME NEW t, Audits(t), NEW g, NEW k
    PROVE  StaleWin(t, g, k, TRUE) <=>
              \E s : /\ RowsOf(GroupRows(t, g), k) \cap LiveRows(t) = {s}
                     /\ \E d \in RowsOf(GroupRows(t, g), k) \cap DeadRows(t) : d.ver > s.ver
<1> DEFINE Dead == RowsOf(GroupRows(t, g), k) \cap DeadRows(t)
           Live == RowsOf(GroupRows(t, g), k) \cap LiveRows(t)
<1>1. /\ Dead \in SUBSET Row(Keys, Nat) /\ IsFiniteSet(Dead)
      /\ Live \in SUBSET Row(Keys, Nat) /\ IsFiniteSet(Live)
      /\ DeadIn(t, g, k) = VersionsOf(Dead) /\ LiveIn(t, g, k) = Live
      /\ VersionsOf({}) = {}
  BY GroupKeyRows
<1> HIDE DEF Dead, Live
<1>2. Cardinality(Live) = 1 <=> \E s : Live = {s} BY <1>1, FS_Singleton
<1>3. StaleWin(t, g, k, TRUE) <=>
         /\ VersionsOf(Dead) # {} /\ Live # {}
         /\ Max(VersionsOf(Dead)) > Max(VersionsOf(Live))
         /\ Cardinality(Live) = 1
  BY <1>1 DEF StaleWin
<1>4. ASSUME NEW s, Live = {s}, Dead # {}
      PROVE  Max(VersionsOf(Dead)) > Max(VersionsOf(Live)) <=> \E d \in Dead : d.ver > s.ver
  <2>1. Max(VersionsOf(Live)) = s.ver /\ s.ver \in Nat BY <1>1, <1>4, VersionsAre
  <2>2. PICK d \in Dead : d.ver = Max(VersionsOf(Dead)) BY <1>1, <1>4, VersionsAre
  <2>3. \A r \in Dead : r.ver \in Nat /\ r.ver <= Max(VersionsOf(Dead)) BY <1>1, <1>4, VersionsAre
  <2> QED BY <2>1, <2>2, <2>3
<1>5. Dead # {} => VersionsOf(Dead) # {} BY <1>1, VersionsAre
<1>6. StaleWin(t, g, k, TRUE) <=> \E s : Live = {s} /\ \E d \in Dead : d.ver > s.ver
  <2>1. ASSUME StaleWin(t, g, k, TRUE) PROVE \E s : Live = {s} /\ \E d \in Dead : d.ver > s.ver
    <3>1. PICK s : Live = {s} BY <1>2, <1>3, <2>1
    <3>2. Dead # {} BY <1>1, <1>3, <2>1
    <3> QED BY <1>3, <1>4, <2>1, <3>1, <3>2
  <2>2. ASSUME NEW s, Live = {s}, NEW d \in Dead, d.ver > s.ver PROVE StaleWin(t, g, k, TRUE)
    <3>1. Dead # {} /\ Live # {} BY <2>2
    <3>2. Max(VersionsOf(Dead)) > Max(VersionsOf(Live)) BY <1>4, <2>2, <3>1
    <3> QED BY <1>2, <1>3, <1>5, <2>2, <3>1, <3>2
  <2> QED BY <2>1, <2>2
<1> QED BY <1>6 DEF Dead, Live

\* A group that has every row of a key judges it as the whole table would, and one that
\* has none of them does not flag it.
LEMMA WholeKey ==
    ASSUME NEW t, Audits(t), NEW g, NEW k
    PROVE  /\ (\A r \in RowsOf(t.data, k) : r.file \in g) =>
                 (k \in FlaggedIn(t, g, TRUE) <=> StaleRows(t, k))
           /\ (\A r \in RowsOf(t.data, k) : r.file \notin g) => k \notin FlaggedIn(t, g, TRUE)
<1>1. k \in FlaggedIn(t, g, TRUE) <=>
         /\ \E r \in GroupRows(t, g) : r.key = k
         /\ StaleWin(t, g, k, TRUE)
  BY DEF FlaggedIn
<1>2. ASSUME \A r \in RowsOf(t.data, k) : r.file \in g
      PROVE  k \in FlaggedIn(t, g, TRUE) <=> StaleRows(t, k)
  <2>1. RowsOf(GroupRows(t, g), k) = RowsOf(t.data, k) BY <1>2 DEF RowsOf, GroupRows
  <2>2. RowsOf(GroupRows(t, g), k) \cap LiveRows(t) = RowsOf(LiveRows(t), k)
    BY <2>1 DEF RowsOf, LiveRows
  <2>3. ASSUME NEW s, RowsOf(LiveRows(t), k) = {s}, NEW d \in RowsOf(t.data, k), d.ver > s.ver
        PROVE  d \in RowsOf(GroupRows(t, g), k) \cap DeadRows(t)
    <3>1. s \in RowsOf(LiveRows(t), k) BY <2>3
    <3>2. s \in t.data /\ d \in t.data BY <3>1 DEF RowsOf, LiveRows
    <3>3. s.ver \in Nat /\ d.ver \in Nat BY <3>2 DEF Audits, Table, Row
    <3>4. d # s BY <2>3, <3>3
    <3>5. d \notin LiveRows(t) BY <2>3, <3>4 DEF RowsOf
    <3> QED BY <2>1, <3>2, <3>5 DEF LiveRows, DeadRows
  <2>4. \A d \in RowsOf(GroupRows(t, g), k) \cap DeadRows(t) : d \in RowsOf(t.data, k) BY <2>1
  <2>5. StaleWin(t, g, k, TRUE) <=> StaleRows(t, k) BY <2>2, <2>3, <2>4, FlagMeans DEF StaleRows
  <2>6. StaleRows(t, k) => \E r \in GroupRows(t, g) : r.key = k BY <2>1 DEF StaleRows, RowsOf
  <2> QED BY <1>1, <2>5, <2>6
<1>3. ASSUME \A r \in RowsOf(t.data, k) : r.file \notin g PROVE k \notin FlaggedIn(t, g, TRUE)
  BY <1>1, <1>3 DEF RowsOf, GroupRows
<1> QED BY <1>2, <1>3

\* The gate lets through no group that flags a key: what it keeps of the key lies at a
\* higher sequence number than what it discards, which is younger.
LEMMA GateClearsNone ==
    ASSUME NEW t, Audits(t), NEW g, NEW k \in FlaggedIn(t, g, TRUE)
    PROVE  MayContainStaleWins(t, g)
<1>1. StaleWin(t, g, k, TRUE) BY DEF FlaggedIn
<1>2. PICK s : /\ RowsOf(GroupRows(t, g), k) \cap LiveRows(t) = {s}
               /\ \E d \in RowsOf(GroupRows(t, g), k) \cap DeadRows(t) : d.ver > s.ver
  BY <1>1, FlagMeans
<1>3. PICK d \in RowsOf(GroupRows(t, g), k) \cap DeadRows(t) : d.ver > s.ver BY <1>2
<1>4. /\ s \in GroupRows(t, g) /\ s \in LiveRows(t) /\ d \in GroupRows(t, g) /\ d \in DeadRows(t)
      /\ d.key = s.key /\ s \in t.data /\ d \in t.data
  BY <1>2, <1>3 DEF RowsOf, GroupRows
<1>5. d.seq < s.seq BY <1>4, DiscardedBeforeSurvivor DEF Audits
<1> DEFINE R(q) == {r \in GroupRows(t, g) : r.seq = q}
<1>6. ASSUME NEW q
      PROVE  /\ SeqSpan(t, g, q) = {r.ver : r \in R(q)}
             /\ R(q) \in SUBSET Row(Keys, Nat) /\ IsFiniteSet(R(q))
  <2>1. R(q) \subseteq t.data BY DEF GroupRows
  <2> HIDE DEF R
  <2>2. R(q) \in SUBSET Row(Keys, Nat) /\ IsFiniteSet(R(q)) BY <2>1, FS_Subset DEF Audits, Table
  <2> QED BY <2>2 DEF SeqSpan, R
<1>7. s \in R(s.seq) /\ d \in R(d.seq) BY <1>4
<1> HIDE DEF R
<1>8. /\ SeqSpan(t, g, s.seq) = VersionsOf(R(s.seq)) /\ Min(VersionsOf(R(s.seq))) <= s.ver
      /\ Min(VersionsOf(R(s.seq))) \in Nat
  BY <1>6, <1>7, VersionsAre
<1>9. /\ SeqSpan(t, g, d.seq) = VersionsOf(R(d.seq)) /\ d.ver <= Max(VersionsOf(R(d.seq)))
      /\ Max(VersionsOf(R(d.seq))) \in Nat
  BY <1>6, <1>7, VersionsAre
<1>10. s.ver \in Nat /\ d.ver \in Nat BY <1>4 DEF Audits, Table, Row
<1>11. Min(SeqSpan(t, g, s.seq)) < Max(SeqSpan(t, g, d.seq)) BY <1>3, <1>8, <1>9, <1>10
<1>12. d.seq \in SeqsOf(t, g) /\ s.seq \in SeqsOf(t, g) BY <1>4 DEF SeqsOf
<1> QED BY <1>5, <1>11, <1>12 DEF MayContainStaleWins

\* Where the stream ends with a delete, the last checkpoint of the key is the delete's or
\* that of the change before it.  A row that outlives the delete is therefore of that
\* change, the youngest the key ever had: no row of such a key is stale.
LEMMA LiveComesLast ==
    ASSUME PlanOK, ~Planning, NEW k \in Keys, Truth(k) = 0, ~config.schema, config.coarsening = 1,
           NEW n \in Nat, n > LastCheckpoint,
           NEW r \in RowsOf(LiveRows(TableAfter(n)), k), NEW q \in RowsOf(TableAfter(n).data, k)
    PROVE  q.ver <= r.ver
<1> DEFINE m == Changes(k)
           last == Len(history[k])
           At(i) == lsns[k][i]
           Comes(t) == \/ t.commit = 0 /\ IsRead(k) /\ t.ver = At(1)
                       \/ \E j \in 1..m : assign[k][j] = t.commit /\ t.ver = Lsn(k, j) /\ j \in Writes(k)
<1>1. /\ HistoryOK(history[k]) /\ AssignOK(k) /\ LsnsOK(k) /\ Len(lsns[k]) = last
      /\ m \in Nat /\ \A j \in 1..m : Index(k, j) \in 1..last
      /\ last = IF IsRead(k) THEN m + 1 ELSE m
      /\ history[k] = <<>> => m = 0
  BY ChangesIs DEF PlanOK, Planning
<1>2. /\ Late(m, assign[k]) /\ copied[k] \subseteq Writes(k)
      /\ \A j \in 1..m : assign[k][j] \in Nat \ {0} /\ assign[k][j] <= LastCheckpoint
      /\ LastCheckpoint \in Nat
  BY <1>1, CarriedIs, LastIs DEF AssignOK, FineGrained
<1>3. /\ \A i \in 1..last : At(i) \in Nat
      /\ \A i, j \in 1..last : i < j => At(i) < At(j)
  BY <1>1, ElementOfSeq DEF LsnsOK
<1>4. ASSUME NEW t \in RowsOf(TableAfter(n).data, k) PROVE Comes(t) /\ t.commit \in Nat
  <2>1. t.key = k /\ t \in TableAfter(n).data BY DEF RowsOf
  <2>2. /\ t.commit \in Nat
        /\ \/ t.commit = 0 /\ IsRead(t.key) /\ t.ver = lsns[t.key][1] /\ t.part = 1
           \/ \E j \in 1..Changes(t.key) :
                /\ assign[t.key][j] = t.commit /\ t.ver = Lsn(t.key, j)
                /\ (t.part = 1 /\ j \in Writes(t.key)) \/ (t.part = 2 /\ j \in copied[t.key])
    BY <2>1, RowFields
  <2> QED BY <1>2, <2>1, <2>2
<1>5. r \in TableAfter(n).data /\ r.key = k /\ ~IsDeleted(TableAfter(n), r)
      /\ r \in RowsOf(TableAfter(n).data, k)
  BY DEF RowsOf, LiveRows
<1>6. \A j \in 1..m : ~(assign[k][j] > r.commit)
  <2>1. ~\E j \in 1..m : assign[k][j] < n /\ assign[k][j] > r.commit BY <1>5, DeletedIs
  <2> QED BY <1>2, <2>1
<1>7. Comes(r) /\ Comes(q) /\ r.commit \in Nat BY <1>4, <1>5
<1> HIDE DEF m, last, At
<1>8. history[k] # <<>> BY <1>1, <1>7 DEF IsRead
<1>9. history[k][last] = "d"
  <2>1. history[k][last] = "d" \/ Truth(k) = At(last) BY <1>8 DEF Truth, last, At
  <2>2. last # 0
    <3>1. history[k] \in Seq(Operations) BY <1>1 DEF HistoryOK
    <3> QED BY <1>8, <3>1, EmptySeq DEF last
  <2>3. At(last) # 0
    <3>1. last \in 1..last BY <1>1, <2>2
    <3>2. lsns[k] \in Seq(Nat \ {0}) /\ last \in 1..Len(lsns[k]) BY <1>1, <3>1 DEF LsnsOK
    <3> QED BY <3>2, ElementOfSeq DEF At
  <2> QED BY <2>1, <2>3
<1>10. m >= 1
  <2>1. m = 0 => IsRead(k) /\ last = 1 BY <1>1, <1>7
  <2>2. IsRead(k) => history[k][1] = "r" BY DEF IsRead
  <2> QED BY <1>1, <1>9, <2>1, <2>2
<1>11. m \notin Writes(k)
  <2>1. Index(k, m) = last BY <1>1 DEF Index
  <2> QED BY <1>9, <2>1 DEF Writes, Op
<1>12. PICK j \in 1..m : assign[k][j] = r.commit /\ r.ver = Lsn(k, j) /\ j \in Writes(k)
  <2>1. r.commit # 0
    <3>1. 1 \in 1..m BY <1>1, <1>10
    <3> QED BY <1>2, <1>6, <3>1
  <2> QED BY <1>7, <2>1
<1>13. j = m - 1
  <2>1. j # m /\ j < m BY <1>1, <1>11, <1>12
  <2>2. m \in 1..m /\ m - 1 \in 1..m BY <1>1, <2>1
  <2>3. ~(assign[k][m] > assign[k][j]) /\ ~(assign[k][m - 1] > assign[k][j]) BY <1>6, <1>12, <2>2
  <2>4. assign[k][m] \in Nat /\ assign[k][m - 1] \in Nat /\ assign[k][j] \in Nat BY <1>2, <2>2
  <2>5. ~(j < m - 1) BY <1>2, <2>3, <2>4 DEF Late
  <2> QED BY <1>1, <2>1, <2>5
<1>14. r.ver = At(Index(k, m - 1)) /\ Index(k, m - 1) \in 1..last BY <1>1, <1>12, <1>13 DEF Lsn, At
<1>15. PICK i \in 1..last : q.ver = At(i) /\ i <= Index(k, m - 1)
  <2>1. CASE IsRead(k) /\ q.ver = At(1)
    <3>1. 1 \in 1..last /\ 1 <= Index(k, m - 1) BY <1>1, <1>12, <1>13, <2>1 DEF Index
    <3> QED BY <2>1, <3>1
  <2>2. CASE \E i \in 1..m : q.ver = Lsn(k, i) /\ i \in Writes(k)
    <3>1. PICK i \in 1..m : q.ver = Lsn(k, i) /\ i \in Writes(k) BY <2>2
    <3>2. i <= m - 1 BY <1>1, <1>11, <3>1
    <3>3. q.ver = At(Index(k, i)) BY <3>1 DEF Lsn, At
    <3>4. Index(k, i) \in 1..last BY <1>1
    <3>5. Index(k, i) <= Index(k, m - 1) BY <1>1, <3>2 DEF Index
    <3> QED BY <3>3, <3>4, <3>5
  <2> QED BY <1>7, <2>1, <2>2
<1>16. CASE i = Index(k, m - 1) BY <1>3, <1>14, <1>15, <1>16
<1>17. CASE i # Index(k, m - 1)
  <2>1. i < Index(k, m - 1) BY <1>1, <1>14, <1>15, <1>17
  <2>2. At(i) < At(Index(k, m - 1)) /\ At(i) \in Nat /\ At(Index(k, m - 1)) \in Nat BY <1>3, <1>14, <2>1
  <2> QED BY <1>14, <1>15, <2>2
<1> QED BY <1>16, <1>17

\* With the knobs of the audit studies the layout knows what the stream knows: a row is
\* stale by the rows of the table exactly when it is stale by the ground truth.
LEMMA StaleByLayout ==
    ASSUME PlanOK, ~Planning, NEW k \in Keys, ~config.schema, config.coarsening = 1,
           NEW n \in Nat, n > LastCheckpoint
    PROVE  StaleRows(TableAfter(n), k) <=>
              Truth(k) # 0 /\ \E s : RowsOf(LiveRows(TableAfter(n)), k) = {s} /\ s.ver # Truth(k)
<1> DEFINE D == RowsOf(TableAfter(n).data, k)
           L == RowsOf(LiveRows(TableAfter(n)), k)
<1>1. L \subseteq D BY DEF RowsOf, LiveRows
<1>2. \A r \in D : r.ver \in Nat BY TableType DEF RowsOf, Table, Row
<1>3. StaleRows(TableAfter(n), k) <=> \E s : L = {s} /\ \E d \in D : d.ver > s.ver BY DEF StaleRows
<1>4. CASE Truth(k) = 0
  <2>1. \A s \in L, d \in D : d.ver <= s.ver BY <1>4, LiveComesLast
  <2> HIDE DEF D, L
  <2> QED BY <1>1, <1>2, <1>3, <1>4, <2>1
<1>5. CASE Truth(k) # 0
  <2>1. (\E r \in D : r.ver = Truth(k)) /\ \A r \in D : r.ver \in Nat /\ r.ver <= Truth(k)
    BY <1>5, TruthIsWritten
  <2> HIDE DEF D, L
  <2>2. ASSUME NEW s, L = {s} PROVE (\E d \in D : d.ver > s.ver) <=> s.ver # Truth(k)
    <3>1. s \in D BY <1>1, <2>2
    <3> QED BY <2>1, <3>1
  <2>3. (\E s : L = {s} /\ \E d \in D : d.ver > s.ver) <=> \E s : L = {s} /\ s.ver # Truth(k) BY <2>2
  <2> QED BY <1>3, <1>5, <2>3 DEF L
<1> QED BY <1>4, <1>5

\* So the oracle, reading the rewritten table, calls a key stale exactly when the layout
\* the rewrite read says so.
LEMMA OracleByLayout ==
    ASSUME IInv, ~Planning, next > LastCheckpoint, compacted = "rewritten",
           NEW k \in Keys, ~config.schema, config.coarsening = 1
    PROVE  OracleVerdict(k) = "STALE_WINS" <=> StaleRows(TableAfter(next), k)
<1> DEFINE L == RowsOf(LiveRows(TableAfter(next)), k)
           V == View(k)
<1>1. PlanOK /\ next \in Nat BY DEF IInv
<1>2. V = {MovedTo(next, r) : r \in L} BY ViewIs
<1>3. \A r \in L : MovedTo(next, r).ver = r.ver BY <1>1, MovedIs DEF RowsOf
<1>4. \A r, s \in L : MovedTo(next, r) = MovedTo(next, s) => r = s
  <2> SUFFICES ASSUME NEW r \in L, NEW s \in L, MovedTo(next, r) = MovedTo(next, s) PROVE r = s OBVIOUS
  <2>1. r \in LiveRows(TableAfter(next)) /\ s \in LiveRows(TableAfter(next)) BY DEF RowsOf
  <2>2. r.ver = s.ver /\ r.key = s.key /\ r.part = s.part /\ r.commit = s.commit BY <1>1, <2>1, MovedIs
  <2>3. r \in TableAfter(next).data /\ s \in TableAfter(next).data BY <2>1 DEF LiveRows
  <2>4. /\ r = PlacedRow([key |-> r.key, ver |-> r.ver, copy |-> r.part], r.commit)
        /\ s = PlacedRow([key |-> s.key, ver |-> s.ver, copy |-> s.part], s.commit)
    BY <1>1, <2>3, RowFields
  <2> QED BY <2>2, <2>4
<1>5. /\ Truth(k) = 0 => OracleVerdict(k) \in {"MATCH", "GHOST"}
      /\ Truth(k) # 0 =>
            /\ V = {} => OracleVerdict(k) = "MISSING_CURRENT"
            /\ V # {} /\ (~\E s : V = {s}) => OracleVerdict(k) = "DUPLICATE"
            /\ \A s : V = {s} => OracleVerdict(k) = IF s.ver = Truth(k) THEN "MATCH" ELSE "STALE_WINS"
  <2>1. Truth(k) = 0 => OracleVerdict(k) \in {"MATCH", "GHOST"} BY DEF OracleVerdict
  <2>2. Truth(k) # 0 =>
            /\ V = {} => OracleVerdict(k) = "MISSING_CURRENT"
            /\ V # {} /\ (~\E s : V = {s}) => OracleVerdict(k) = "DUPLICATE"
            /\ \A s : V = {s} => OracleVerdict(k) = IF s.ver = Truth(k) THEN "MATCH" ELSE "STALE_WINS"
    BY OracleByRows
  <2> QED BY <2>1, <2>2
<1>6. StaleRows(TableAfter(next), k) <=> Truth(k) # 0 /\ \E s : L = {s} /\ s.ver # Truth(k)
  BY <1>1, StaleByLayout
<1> HIDE DEF L, V
<1>7. ASSUME NEW s, L = {s} PROVE V = {MovedTo(next, s)} /\ MovedTo(next, s).ver = s.ver
  <2>1. s \in L BY <1>7
  <2> QED BY <1>2, <1>3, <1>7, <2>1
<1>8. ASSUME NEW t, V = {t} PROVE \E s : L = {s} /\ t = MovedTo(next, s)
  <2>1. PICK s \in L : t = MovedTo(next, s) BY <1>2, <1>8
  <2>2. \A r \in L : r = s BY <1>2, <1>4, <1>8, <2>1
  <2> QED BY <2>1, <2>2
<1>9. ASSUME OracleVerdict(k) = "STALE_WINS" PROVE Truth(k) # 0 /\ \E s : L = {s} /\ s.ver # Truth(k)
  <2>1. Truth(k) # 0 BY <1>5, <1>9
  <2>2. PICK t : V = {t} BY <1>5, <1>9, <2>1
  <2>3. t.ver # Truth(k) BY <1>5, <1>9, <2>1, <2>2
  <2>4. PICK s : L = {s} /\ t = MovedTo(next, s) BY <1>8, <2>2
  <2>5. s.ver = t.ver BY <1>7, <2>4
  <2> QED BY <2>1, <2>3, <2>4, <2>5
<1>10. ASSUME Truth(k) # 0, NEW s, L = {s}, s.ver # Truth(k) PROVE OracleVerdict(k) = "STALE_WINS"
  BY <1>5, <1>7, <1>10
<1> QED BY <1>6, <1>9, <1>10

-----------------------------------------------------------------------------
\* The audit studies.

\* A file is in one group at most.
Apart(plan) == \A g, h \in plan : g = h \/ g \cap h = {}

\* The planner puts no file into two groups.
LEMMA PlansApart ==
    ASSUME NEW files, NEW cap, NEW plan \in Plans(files, cap, 1, 2)
    PROVE  Apart(plan)
<1> DEFINE Parts(a) == {{f \in files : a[f] = i} : i \in 1..2} \ {{}}
           places == IF Cardinality(files) <= 2 * cap THEN [files -> 1..2] ELSE {}
           packed == IF Cardinality(files) <= cap THEN {{files}}
                     ELSE {Parts(a) : a \in {b \in places :
                               \A i \in 1..2 : Cardinality({f \in files : b[f] = i}) <= cap}}
<1>1. PICK p \in packed : plan = {g \in p : Cardinality(g) >= 1} BY DEF Plans
<1>2. CASE p = {files} BY <1>1, <1>2 DEF Apart
<1>3. CASE \E a : p = Parts(a)
  <2>1. PICK a : p = Parts(a) BY <1>3
  <2>2. ASSUME NEW g \in p, NEW h \in p, g \cap h # {} PROVE g = h
    <3>1. PICK i \in 1..2 : g = {f \in files : a[f] = i} BY <2>1
    <3>2. PICK j \in 1..2 : h = {f \in files : a[f] = j} BY <2>1
    <3>3. PICK f : f \in g /\ f \in h BY <2>2
    <3>4. i = j BY <3>1, <3>2, <3>3
    <3> QED BY <3>1, <3>2, <3>4
  <2> HIDE DEF Parts
  <2> QED BY <1>1, <2>2 DEF Apart
<1>4. p = {files} \/ \E a : p = Parts(a)
  <2> HIDE DEF Parts
  <2> QED BY <1>1
<1> QED BY <1>2, <1>3, <1>4

\* What a summary says, for each kind of run.
LEMMA SummaryIs ==
    ASSUME NEW t, NEW plan, NEW o \in StudyOptions, NEW s, s = Summary(t, plan, o)
    PROVE  /\ s.decided => s.present
           /\ s.present => /\ plan # {} /\ (s.crossGroup <=> o.cross)
                           /\ o.cross => Captured(s) = FlaggedIn(t, UNION plan, TRUE)
                           /\ ~o.cross /\ Cardinality(plan) <= 1 => s.decided
                           /\ ~o.cross /\ s.decided =>
                                 Captured(s) = UNION {FlaggedIn(t, g, TRUE) : g \in Audited(t, plan, o)}
<1>1. o \in Options /\ o.guard = TRUE BY CdcAuditAssumption DEF Options
<1>2. o.cross \in BOOLEAN /\ o.failClosed \in BOOLEAN BY <1>1 DEF Options
<1>3. CASE plan = {} BY <1>3 DEF Summary, NoSummary
<1>4. CASE plan # {}
  <2> DEFINE decided == o.cross \/ ~o.failClosed \/ Cardinality(plan) <= 1
             flagged == UNION {FlaggedIn(t, g, o.guard) : g \in Audited(t, plan, o)}
             whole == FlaggedIn(t, UNION plan, TRUE)
  <2>1. /\ s.present = TRUE /\ s.decided = decided /\ s.crossGroup = o.cross
        /\ s.keys = IF decided THEN flagged ELSE {}
        /\ s.crossKeys = IF o.cross THEN whole ELSE {}
    BY <1>4 DEF Summary
  <2>2. flagged = UNION {FlaggedIn(t, g, TRUE) : g \in Audited(t, plan, o)} BY <1>1
  <2> HIDE DEF flagged, whole
  <2>3. Captured(s) = IF o.cross THEN whole ELSE IF decided THEN flagged ELSE {} BY <1>2, <2>1 DEF Captured
  <2> QED BY <1>2, <1>4, <2>1, <2>2, <2>3 DEF whole
<1> QED BY <1>3, <1>4

\* The summary, when there is one, is that of the table the plan leads to.
AuditOK ==
    /\ summary.decided => summary.present
    /\ summary.present =>
          /\ ~Planning /\ next > LastCheckpoint /\ compacted = "rewritten"
          /\ scanned = TableAfter(next)
          /\ UNION groups = FilesOf(scanned) /\ Apart(groups)
          /\ \E o \in StudyOptions : summary = Summary(scanned, groups, o)

\* Every step of a run keeps that.
LEMMA AuditKept == IInv /\ AuditOK /\ [AuditNext]_<<vars, auditVars>> => AuditOK'
<1> SUFFICES ASSUME IInv, AuditOK, [AuditNext]_<<vars, auditVars>> PROVE AuditOK' OBVIOUS
<1>1. CASE CompactAudited
  <2>1. /\ stage = "apply" /\ compacted = "no" /\ next > LastCheckpoint
        /\ UNCHANGED <<stage, next>> /\ UNCHANGED planVars
    BY <1>1 DEF CompactAudited, Compact
  <2>2. compacted' = "rewritten" /\ scanned' = table BY <1>1 DEF CompactAudited
  <2>3. PICK o \in StudyOptions, cap \in {GroupCap, Cardinality(FilesOf(table))} :
           \E plan \in Plans(FilesOf(table), cap, 1, 2) :
              UNION plan = FilesOf(table) /\ groups' = plan /\ summary' = Summary(table, plan, o)
    BY <1>1 DEF CompactAudited
  <2>4. /\ UNION groups' = FilesOf(table) /\ summary' = Summary(table, groups', o)
        /\ groups' \in Plans(FilesOf(table), cap, 1, 2)
    BY <2>3
  <2>5. Apart(groups') BY <2>4, PlansApart
  <2>6. table = TableAfter(next) BY <2>1 DEF IInv, TableOK, Planning
  <2>7. TableAfter(next)' = table /\ LastCheckpoint' = LastCheckpoint BY <2>1, <2>6, PlanFrozen, TablesFrozen
  <2>8. summary'.decided => summary'.present BY <2>4, SummaryIs
  <2>9. UNION groups' = FilesOf(scanned') /\ summary' = Summary(scanned', groups', o) BY <2>2, <2>4
  <2>10. AuditOK' <=>
           /\ summary'.decided => summary'.present
           /\ summary'.present =>
                /\ ~Planning' /\ next' > LastCheckpoint' /\ compacted' = "rewritten"
                /\ scanned' = TableAfter(next)'
                /\ UNION groups' = FilesOf(scanned') /\ Apart(groups')
                /\ \E q \in StudyOptions : summary' = Summary(scanned', groups', q)
    BY DEF AuditOK, Apart, FilesOf, Summary, Audited, MayContainStaleWins, SeqsOf, SeqSpan, GroupRows,
           FlaggedIn, StaleWin, DeadIn, LiveIn, DeadRows, LiveRows, IsDeleted, RowsOf, VersionsOf, NoSummary
  <2> QED BY <2>1, <2>2, <2>5, <2>7, <2>8, <2>9, <2>10 DEF Planning
<1>2. CASE UNCHANGED auditVars /\ [Next]_vars
  <2>1. UNCHANGED <<groups, scanned, summary>> BY <1>2 DEF auditVars
  <2>2. CASE ~summary.present BY <2>1, <2>2 DEF AuditOK
  <2>3. CASE summary.present
    <3>1. /\ ~Planning /\ next > LastCheckpoint /\ compacted = "rewritten" /\ PlanOK /\ next \in Nat
          /\ scanned = TableAfter(next)
      BY <2>3 DEF AuditOK, IInv
    <3>2. LastCheckpoint \in Nat BY <3>1, LastIs
    <3>3. ~PlanNext BY <3>1 DEF PlanNext, Emit, Skew, BuildPlan, Planning
    <3>4. ~CommitCheckpoint BY <3>1, <3>2 DEF CommitCheckpoint
    <3>5. ~Compact BY <3>1 DEF Compact
    <3>6. Reconcile \/ UNCHANGED vars BY <1>2, <3>3, <3>4, <3>5 DEF Next
    <3>7. UNCHANGED planVars /\ UNCHANGED <<next, compacted>> /\ ~Planning'
      BY <3>1, <3>6 DEF Reconcile, vars, Planning
    <3>8. TableAfter(next)' = TableAfter(next) /\ LastCheckpoint' = LastCheckpoint BY <3>7, PlanFrozen, TablesFrozen
    <3> QED BY <2>1, <2>3, <3>1, <3>7, <3>8 DEF AuditOK
  <2> QED BY <2>2, <2>3
<1>3. CompactAudited \/ (UNCHANGED auditVars /\ [Next]_vars)
  BY DEF AuditNext, CompactUnaudited, Next, vars
<1> QED BY <1>1, <1>2, <1>3

\* A run's audit, when it says something, judges the table the plan leads to.
LEMMA AuditHolds == AuditSpec => []AuditOK
<1>1. AuditInit => AuditOK BY DEF AuditInit, AuditOK, NoSummary
<1> QED BY <1>1, AuditKept, InvHolds, PTL DEF AuditSpec

\* Where the audit does not abstain it judges each key its groups do not separate as the
\* oracle does; merged over the groups, it judges every key as the oracle does.
LEMMA JudgedAlike ==
    ASSUME IInv, AuditOK, StudyKnobs, summary.present, NEW k
    PROVE  /\ k \in OracleStale <=> k \in Keys /\ StaleRows(scanned, k)
           /\ CrossGroupRun => (k \in Captured(summary) <=> k \in OracleStale)
           /\ MultigroupRun => Captured(summary) \subseteq Keys
           /\ MultigroupRun /\ k \in Keys \ StraddlingKeys => (k \in Captured(summary) <=> k \in OracleStale)
<1>1. /\ ~Planning /\ next > LastCheckpoint /\ compacted = "rewritten" /\ PlanOK /\ next \in Nat
      /\ scanned = TableAfter(next) /\ UNION groups = FilesOf(scanned) /\ Apart(groups)
  BY DEF AuditOK, IInv
<1>2. PICK o \in StudyOptions : summary = Summary(scanned, groups, o) BY DEF AuditOK
<1>3. /\ groups # {} /\ (summary.crossGroup <=> o.cross)
      /\ o.cross => Captured(summary) = FlaggedIn(scanned, UNION groups, TRUE)
      /\ ~o.cross /\ summary.decided =>
            Captured(summary) = UNION {FlaggedIn(scanned, g, TRUE) : g \in Audited(scanned, groups, o)}
  BY <1>2, SummaryIs
<1>4. Audits(scanned) BY <1>1, TableType DEF Audits
<1>5. k \in OracleStale <=> k \in Keys /\ StaleRows(scanned, k)
  <2>1. ASSUME k \in Keys PROVE OracleVerdict(k) = "STALE_WINS" <=> StaleRows(scanned, k)
    BY <1>1, <2>1, OracleByLayout DEF StudyKnobs
  <2> QED BY <2>1 DEF OracleStale
<1>6. \A g : FlaggedIn(scanned, g, TRUE) \subseteq Keys
  BY <1>4 DEF FlaggedIn, GroupRows, Audits, Table, Row
<1>7. ASSUME CrossGroupRun PROVE k \in Captured(summary) <=> k \in OracleStale
  <2>1. Captured(summary) = FlaggedIn(scanned, UNION groups, TRUE) BY <1>3, <1>7 DEF CrossGroupRun
  <2>2. \A r \in RowsOf(scanned.data, k) : r.file \in UNION groups BY <1>1 DEF FilesOf, RowsOf
  <2>3. k \in FlaggedIn(scanned, UNION groups, TRUE) <=> StaleRows(scanned, k) BY <1>4, <2>2, WholeKey
  <2> QED BY <1>5, <1>6, <2>1, <2>3
<1>8. ASSUME MultigroupRun
      PROVE  Captured(summary) = UNION {FlaggedIn(scanned, g, TRUE) : g \in Audited(scanned, groups, o)}
  BY <1>3, <1>8 DEF MultigroupRun
<1>9. ASSUME MultigroupRun, k \in Keys \ StraddlingKeys
      PROVE  k \in Captured(summary) <=> k \in OracleStale
  <2>1. PICK g \in groups : {r.file : r \in RowsOf(scanned.data, k)} \subseteq g
    BY <1>9 DEF StraddlingKeys, Straddles
  <2>2. \A r \in RowsOf(scanned.data, k) : r.file \in g BY <2>1
  <2>3. k \in FlaggedIn(scanned, g, TRUE) <=> StaleRows(scanned, k) BY <1>4, <2>2, WholeKey
  <2>4. ASSUME NEW h \in groups, h # g PROVE k \notin FlaggedIn(scanned, h, TRUE)
    <3>1. g \cap h = {} BY <1>1, <2>4 DEF Apart
    <3>2. \A r \in RowsOf(scanned.data, k) : r.file \notin h BY <2>2, <3>1
    <3> QED BY <1>4, <3>2, WholeKey
  <2>5. Audited(scanned, groups, o) \subseteq groups BY DEF Audited
  <2>6. k \in FlaggedIn(scanned, g, TRUE) => g \in Audited(scanned, groups, o)
    BY <1>4, GateClearsNone DEF Audited
  <2>7. k \in Captured(summary) <=> k \in FlaggedIn(scanned, g, TRUE) BY <1>8, <1>9, <2>4, <2>5, <2>6
  <2> QED BY <1>5, <1>9, <2>3, <2>7
<1>10. MultigroupRun => Captured(summary) \subseteq Keys BY <1>6, <1>8
<1> QED BY <1>5, <1>7, <1>9, <1>10

\* AuditMatchesOracle holds: the verdict of the snapshot summary is the oracle's set of
\* stale wins for one group and for keys merged over the groups, none on a clean stream,
\* and group by group it errs on straddling keys only (cost-study/studies/audit; the
\* patched SparkBinPackFileRewriteRunner and RewriteDataFilesSparkAction).
THEOREM StudiesMatchOracle == AuditSpec => []AuditMatchesOracle
<1>1. IInv /\ AuditOK => AuditMatchesOracle
  <2> SUFFICES ASSUME IInv, AuditOK PROVE AuditMatchesOracle OBVIOUS
  <2>1. ASSUME CrossGroupRun PROVE CrossGroupChecks
    <3>1. StudyKnobs /\ summary.present BY <2>1 DEF CrossGroupRun
    <3>2. \A k : k \in Captured(summary) <=> k \in OracleStale BY <2>1, <3>1, JudgedAlike
    <3> QED BY <3>2 DEF CrossGroupChecks, FalsePositives, Missed
  <2>2. ASSUME MultigroupRun PROVE MultigroupChecks
    <3>1. StudyKnobs /\ summary.present BY <2>2 DEF MultigroupRun, AuditOK
    <3>2. \A k \in Keys \ StraddlingKeys : k \in Captured(summary) <=> k \in OracleStale
      BY <2>2, <3>1, JudgedAlike
    <3>3. Captured(summary) \subseteq Keys BY <2>2, <3>1, JudgedAlike
    <3>4. OracleStale \subseteq Keys BY DEF OracleStale
    <3> QED BY <3>2, <3>3, <3>4 DEF MultigroupChecks, FalsePositives, Missed
  <2>3. ASSUME ExactRun PROVE Captured(summary) = OracleStale
    <3>1. StudyKnobs /\ summary.present /\ groups = {FilesOf(scanned)} /\ ~summary.crossGroup
      BY <2>3 DEF ExactRun
    <3>2. PICK o \in StudyOptions : summary = Summary(scanned, groups, o) BY <3>1 DEF AuditOK
    <3>3. Cardinality(groups) <= 1
      <4>1. Cardinality(groups) = 1 BY <3>1, FS_Singleton
      <4> QED BY <4>1
    <3>4. summary.decided BY <3>1, <3>2, <3>3, SummaryIs
    <3>5. MultigroupRun BY <3>1, <3>4 DEF MultigroupRun
    <3>6. StraddlingKeys = {}
      <4>1. \A k : {r.file : r \in RowsOf(scanned.data, k)} \subseteq FilesOf(scanned) BY DEF RowsOf, FilesOf
      <4> QED BY <3>1, <4>1 DEF StraddlingKeys, Straddles
    <3>7. FalsePositives \cup Missed = {} BY <2>2, <3>5, <3>6 DEF MultigroupChecks
    <3> QED BY <3>7 DEF FalsePositives, Missed
  <2>4. ASSUME CleanRun PROVE OracleStale = {}
    <3>1. ExactRun /\ ~config.outOfOrder BY <2>4 DEF CleanRun
    <3>2. StudyKnobs /\ summary.present BY <3>1 DEF ExactRun
    <3>3. ~Planning /\ next > LastCheckpoint /\ PlanOK /\ next \in Nat /\ scanned = TableAfter(next)
      BY <3>2 DEF AuditOK, IInv
    <3>4. SUFFICES ASSUME NEW k \in OracleStale PROVE FALSE OBVIOUS
    <3>5. k \in Keys /\ StaleRows(scanned, k) BY <3>2, JudgedAlike
    <3>6. Truth(k) # 0 /\ \E s : RowsOf(LiveRows(TableAfter(next)), k) = {s} /\ s.ver # Truth(k)
      BY <3>2, <3>3, <3>5, StaleByLayout DEF StudyKnobs
    <3>7. \E r \in RowsOf(LiveRows(TableAfter(next)), k) : r.ver = Truth(k)
      BY <3>1, <3>3, <3>5, <3>6, LastSurvives
    <3> QED BY <3>6, <3>7
  <2>5. ExactRun => ExactChecks BY <2>3 DEF ExactChecks, FalsePositives, Missed
  <2>6. CleanRun => CleanChecks BY <2>3, <2>4 DEF CleanRun, CleanChecks
  <2> QED BY <2>1, <2>2, <2>5, <2>6 DEF AuditMatchesOracle
<1>2. AuditSpec => []IInv BY InvHolds
<1> QED BY <1>1, <1>2, AuditHolds, PTL
==============================================================================
