-------------------------- MODULE CdcArbiters_proofs --------------------------
(***************************************************************************)
(* The harness's runs on Hudi and Delta, for any keys, streams and knobs:   *)
(* which keys Hudi's precombine leaves stale, what Delta's MERGE and DELETE *)
(* lose, and that enforced Delta implements the per-key log.                *)
(*                                                                         *)
(* The argument: what Hudi shows is a function of the stream (HudiShows),   *)
(* because its plan is never disturbed; what Delta shows of a key is decided*)
(* by the last checkpoint applied that carries a change of it (DeltaShows). *)
(***************************************************************************)
EXTENDS CdcArbiters, CdcPlan_proofs

-----------------------------------------------------------------------------
\* The rows and deletes of one key.

VersionsIn(rows) == {r.ver : r \in rows}

\* The versions of a key that a checkpoint carries.
LEMMA KeyRows ==
    ASSUME PlanOK, ~Planning, NEW k \in Keys, NEW c \in Nat
    PROVE  /\ c = 0 => VersionsIn(RowsOfKey(Rows(c), k)) = IF IsRead(k) THEN {lsns[k][1]} ELSE {}
           /\ c # 0 => VersionsIn(RowsOfKey(Rows(c), k)) = {Lsn(k, j) : j \in Carried(k, c) \cap Writes(k)}
           /\ RowsOfKey(Rows(c), k) = {} <=> VersionsIn(RowsOfKey(Rows(c), k)) = {}
<1> DEFINE R == RowsOfKey(Rows(c), k)
<1>1. \A row : row \in R <=>
                \/ c = 0 /\ IsRead(k) /\ row = [key |-> k, ver |-> lsns[k][1], copy |-> 1]
                \/ \E j \in 1..Changes(k) :
                      /\ c # 0 /\ assign[k][j] = c
                      /\ \/ j \in Writes(k) /\ row = [key |-> k, ver |-> Lsn(k, j), copy |-> 1]
                         \/ j \in copied[k] /\ row = [key |-> k, ver |-> Lsn(k, j), copy |-> 2]
  <2> SUFFICES ASSUME NEW row
               PROVE  row \in R <=>
                        \/ c = 0 /\ IsRead(k) /\ row = [key |-> k, ver |-> lsns[k][1], copy |-> 1]
                        \/ \E j \in 1..Changes(k) :
                              /\ c # 0 /\ assign[k][j] = c
                              /\ \/ j \in Writes(k) /\ row = [key |-> k, ver |-> Lsn(k, j), copy |-> 1]
                                 \/ j \in copied[k] /\ row = [key |-> k, ver |-> Lsn(k, j), copy |-> 2]
    OBVIOUS
  <2>1. row \in R <=> row \in Rows(c) /\ row.key = k BY DEF RowsOfKey
  <2> HIDE DEF R
  <2> QED BY <2>1, RowsIs
<1>2. copied[k] \subseteq Writes(k) BY DEF PlanOK, AssignOK
<1>3. \A v : v \in VersionsIn(R) <=> \E row \in R : row.ver = v BY DEF VersionsIn
<1>4. R = {} <=> VersionsIn(R) = {} BY DEF VersionsIn
<1> HIDE DEF R
<1>5. CASE c = 0
  <2> DEFINE row == [key |-> k, ver |-> lsns[k][1], copy |-> 1]
  <2>1. \A q : q \in R <=> IsRead(k) /\ q = row BY <1>1, <1>5
  <2>2. row.ver = lsns[k][1] OBVIOUS
  <2> HIDE DEF row
  <2>3. VersionsIn(R) = IF IsRead(k) THEN {lsns[k][1]} ELSE {} BY <1>3, <2>1, <2>2
  <2> QED BY <1>4, <1>5, <2>3 DEF R
<1>6. CASE c # 0
  <2>1. ASSUME NEW v \in VersionsIn(R) PROVE \E j \in Carried(k, c) \cap Writes(k) : v = Lsn(k, j)
    <3>1. PICK row \in R : row.ver = v BY <1>3
    <3>2. PICK j \in 1..Changes(k) :
              /\ assign[k][j] = c
              /\ \/ j \in Writes(k) /\ row = [key |-> k, ver |-> Lsn(k, j), copy |-> 1]
                 \/ j \in copied[k] /\ row = [key |-> k, ver |-> Lsn(k, j), copy |-> 2]
      BY <1>1, <1>6, <3>1
    <3>3. j \in Writes(k) /\ row.ver = Lsn(k, j) BY <1>2, <3>2
    <3> QED BY <3>1, <3>2, <3>3 DEF Carried
  <2>2. ASSUME NEW j \in Carried(k, c) \cap Writes(k) PROVE Lsn(k, j) \in VersionsIn(R)
    <3> DEFINE row == [key |-> k, ver |-> Lsn(k, j), copy |-> 1]
    <3>1. j \in 1..Changes(k) /\ assign[k][j] = c /\ j \in Writes(k) BY DEF Carried
    <3>2. row \in R BY <1>1, <1>6, <3>1
    <3>3. row.ver = Lsn(k, j) OBVIOUS
    <3> HIDE DEF row
    <3> QED BY <1>3, <3>2, <3>3
  <2>3. VersionsIn(R) = {Lsn(k, j) : j \in Carried(k, c) \cap Writes(k)} BY <2>1, <2>2
  <2> QED BY <1>4, <1>6, <2>3 DEF R
<1> QED BY <1>5, <1>6

\* The formats that upsert delete only where the stream does.
LEMMA KeyDeletes ==
    ASSUME Format # "iceberg", NEW k \in Keys, NEW c \in Nat
    PROVE  k \in Deletes(c) <=> c # 0 /\ \E j \in Carried(k, c) : Op(k, j) = "d"
BY DEF Deletes

\* A change writes a row or deletes its key.
LEMMA WritesOrDeletes ==
    ASSUME PlanOK, NEW k \in Keys, NEW j \in 1..Changes(k)
    PROVE  j \in Writes(k) <=> Op(k, j) # "d"
<1>1. HistoryOK(history[k]) BY DEF PlanOK
<1>2. Op(k, j) \in {"c", "u", "d"} BY <1>1, ChangesIs
<1> QED BY <1>2 DEF Writes

\* Every operation of a key is its snapshot read or one of its changes.
LEMMA PlaceIs ==
    ASSUME PlanOK, ~Planning, NEW k \in Keys, NEW i \in 1..Len(history[k])
    PROVE  \/ IsRead(k) /\ i = 1
           \/ \E j \in 1..Changes(k) : i = Index(k, j)
<1>1. HistoryOK(history[k]) BY DEF PlanOK
<1>2. Changes(k) \in Nat /\ Len(history[k]) = IF IsRead(k) THEN Changes(k) + 1 ELSE Changes(k)
  BY <1>1, ChangesIs
<1>3. CASE IsRead(k) /\ i # 1
  <2>1. i - 1 \in 1..Changes(k) /\ i = Index(k, i - 1) BY <1>2, <1>3 DEF Index
  <2> QED BY <2>1
<1>4. CASE ~IsRead(k)
  <2>1. i \in 1..Changes(k) /\ i = Index(k, i) BY <1>2, <1>4 DEF Index
  <2> QED BY <2>1
<1> QED BY <1>3, <1>4

\* The versions the stream gives a key: its snapshot read's and its writes'.
LEMMA VersionsAre ==
    ASSUME PlanOK, ~Planning, NEW k \in Keys
    PROVE  /\ \A v : v \in Versions(k) <=>
                       \/ IsRead(k) /\ v = lsns[k][1]
                       \/ \E j \in Writes(k) : v = Lsn(k, j)
           /\ Versions(k) \subseteq 1..clock /\ IsFiniteSet(Versions(k))
<1>1. HistoryOK(history[k]) /\ LsnsOK(k) /\ Len(lsns[k]) = Len(history[k]) /\ clock \in Nat
  BY DEF PlanOK, Planning
<1>2. \A j \in 1..Changes(k) : Index(k, j) \in 1..Len(history[k]) BY <1>1, ChangesIs
<1>3. DOMAIN history[k] = 1..Len(history[k]) BY <1>1, LenProperties DEF HistoryOK
<1>4. \A v : v \in Versions(k) <=> \E i \in 1..Len(history[k]) : history[k][i] # "d" /\ v = lsns[k][i]
  BY <1>3 DEF Versions
<1>5. ASSUME NEW v, v \in Versions(k)
      PROVE  /\ \/ IsRead(k) /\ v = lsns[k][1]
                \/ \E j \in Writes(k) : v = Lsn(k, j)
             /\ v \in 1..clock
  <2>1. PICK i \in 1..Len(history[k]) : history[k][i] # "d" /\ v = lsns[k][i] BY <1>4, <1>5
  <2>2. v \in Nat \ {0} /\ v <= clock BY <1>1, <2>1, ElementOfSeq DEF LsnsOK
  <2>3. CASE IsRead(k) /\ i = 1 BY <1>1, <2>1, <2>2, <2>3
  <2>4. ASSUME NEW j \in 1..Changes(k), i = Index(k, j) PROVE j \in Writes(k) /\ v = Lsn(k, j)
    <3>1. Op(k, j) # "d" /\ v = Lsn(k, j) BY <2>1, <2>4 DEF Op, Lsn
    <3> QED BY <3>1, WritesOrDeletes
  <2> QED BY <1>1, <2>2, <2>3, <2>4, PlaceIs
<1>6. ASSUME IsRead(k) PROVE lsns[k][1] \in Versions(k)
  <2>1. 1 \in 1..Len(history[k]) BY <1>6, ReadIs
  <2>2. history[k][1] # "d" BY <1>6 DEF IsRead
  <2> QED BY <1>4, <2>1, <2>2
<1>7. ASSUME NEW j \in Writes(k) PROVE Lsn(k, j) \in Versions(k)
  <2>1. j \in 1..Changes(k) /\ Op(k, j) # "d" BY DEF Writes
  <2> QED BY <1>2, <1>4, <2>1 DEF Op, Lsn
<1>8. IsFiniteSet(Versions(k))
  <2>1. 1 \in Int /\ clock \in Int BY <1>1
  <2>2. IsFiniteSet(1..clock) BY <2>1, FS_Interval
  <2> QED BY <1>5, <2>2, FS_Subset
<1> QED BY <1>5, <1>6, <1>7, <1>8

-----------------------------------------------------------------------------
\* Hudi.

\* The timestamp of a version is a number.
LEMMA PrecombineIs ==
    ASSUME PlanOK, ~Planning, NEW k \in Keys, NEW v \in Versions(k)
    PROVE  Precombine(v) \in Nat /\ v \in Nat \ {0}
<1>1. v \in 1..clock /\ clock \in Nat BY VersionsAre DEF PlanOK
<1>2. ts \in [1..clock -> Nat] BY DEF PlanOK, Planning
<1> QED BY <1>1, <1>2 DEF Precombine

\* Precombine keeps the latest version, the later written one of a tie, and the
\* harness predicts that one.
LEMMA WinnerIs ==
    ASSUME PlanOK, ~Planning, NEW k \in Keys, Versions(k) # {}
    PROVE  /\ Winner(Versions(k)) \in Versions(k)
           /\ \A w \in Versions(k) \ {Winner(Versions(k))} : Outranks(Winner(Versions(k)), w)
           /\ Predicted(k) = Winner(Versions(k))
<1> DEFINE V == Versions(k)
           P == {Precombine(v) : v \in V}
           p == Max(P)
           T == {v \in V : Precombine(v) = p}
           b == Max(T)
<1>1. \A v \in V : Precombine(v) \in Nat /\ v \in Nat BY PrecombineIs
<1>2. IsFiniteSet(V) BY VersionsAre
<1>3. p \in P /\ \A y \in P : p >= y
  <2>1. /\ [v \in V |-> Precombine(v)] \in [V -> P]
        /\ \A y \in P : \E v \in V : [w \in V |-> Precombine(w)][v] = y
    OBVIOUS
  <2>2. P \in SUBSET Nat BY <1>1
  <2>3. P # {} OBVIOUS
  <2> HIDE DEF V, P
  <2>4. IsFiniteSet(P) BY <1>2, <2>1, FiniteImage
  <2> QED BY <2>2, <2>3, <2>4, MaxMin
<1>4. \A v \in V : Precombine(v) \in P OBVIOUS
<1>5. \E v \in V : Precombine(v) = p BY <1>3
<1> HIDE DEF V, P, p
<1>6. T \in SUBSET Nat /\ T # {} /\ IsFiniteSet(T)
  <2>1. T \subseteq V OBVIOUS
  <2> QED BY <1>1, <1>2, <1>5, <2>1, FS_Subset
<1>7. b \in T /\ \A y \in T : b >= y
  <2> HIDE DEF T
  <2> QED BY <1>6, MaxMin
<1> HIDE DEF b
<1>8. b \in V /\ Precombine(b) = p BY <1>7
<1>9. ASSUME NEW w \in V \ {b} PROVE Outranks(b, w)
  <2>1. p >= Precombine(w) /\ Precombine(w) \in Nat /\ p \in Nat /\ w \in Nat /\ b \in Nat
    BY <1>1, <1>3, <1>4, <1>8
  <2>2. CASE Precombine(w) = p
    <3>1. w \in T BY <2>2
    <3>2. b >= w /\ b # w BY <1>7, <3>1
    <3> QED BY <1>8, <2>1, <2>2, <3>2 DEF Outranks
  <2>3. CASE Precombine(w) # p BY <1>8, <2>1, <2>3 DEF Outranks
  <2> QED BY <2>2, <2>3
<1>10. Winner(V) \in V /\ \A w \in V \ {Winner(V)} : Outranks(Winner(V), w)
  <2>1. \E v \in V : \A w \in V \ {v} : Outranks(v, w) BY <1>8, <1>9
  <2> QED BY <2>1 DEF Winner
<1>11. Winner(V) = b
  <2> SUFFICES ASSUME Winner(V) # b PROVE FALSE OBVIOUS
  <2>1. PICK w : w = Winner(V) OBVIOUS
  <2>2. Outranks(b, w) /\ Outranks(w, b) /\ w \in V BY <1>8, <1>9, <1>10, <2>1
  <2>3. Precombine(w) \in Nat /\ Precombine(b) \in Nat /\ w \in Nat /\ b \in Nat BY <1>1, <1>8, <2>2
  <2> QED BY <2>2, <2>3 DEF Outranks
<1>12. Predicted(k) = b BY DEF Predicted, V, P, p, T, b
<1> QED BY <1>10, <1>11, <1>12 DEF V

\* The bulk upsert carries every version of a key, and nothing else.
LEMMA AllRowsOfKey ==
    ASSUME PlanOK, ~Planning, NEW k \in Keys
    PROVE  /\ VersionsIn(RowsOfKey(AllRows, k)) = Versions(k)
           /\ RowsOfKey(AllRows, k) = {} <=> Versions(k) = {}
<1>1. LastCheckpoint \in Nat /\ \A j \in 1..Changes(k) : assign[k][j] \in 1..LastCheckpoint
  BY LastIs, PlanNumbers
<1>2. \A row : row \in RowsOfKey(AllRows, k) <=> \E c \in Checkpoints : row \in RowsOfKey(Rows(c), k)
  BY DEF RowsOfKey, AllRows
<1>3. \A c \in Checkpoints : c \in Nat BY <1>1 DEF Checkpoints
<1>4. \A v : v \in VersionsIn(RowsOfKey(AllRows, k)) <=>
               \E c \in Checkpoints : v \in VersionsIn(RowsOfKey(Rows(c), k))
  BY <1>2 DEF VersionsIn
<1>5. ASSUME NEW v, v \in VersionsIn(RowsOfKey(AllRows, k)) PROVE v \in Versions(k)
  <2>1. PICK c \in Checkpoints : v \in VersionsIn(RowsOfKey(Rows(c), k)) BY <1>4, <1>5
  <2>2. c \in Nat BY <1>3
  <2>3. \/ IsRead(k) /\ v = lsns[k][1]
        \/ \E j \in Writes(k) : v = Lsn(k, j)
    <3>1. CASE c = 0
      <4>1. v \in IF IsRead(k) THEN {lsns[k][1]} ELSE {} BY <2>1, <2>2, <3>1, KeyRows
      <4> QED BY <4>1
    <3>2. CASE c # 0
      <4>1. v \in {Lsn(k, j) : j \in Carried(k, c) \cap Writes(k)} BY <2>1, <2>2, <3>2, KeyRows
      <4> QED BY <4>1
    <3> QED BY <3>1, <3>2
  <2> QED BY <2>3, VersionsAre
<1>6. ASSUME NEW v \in Versions(k) PROVE v \in VersionsIn(RowsOfKey(AllRows, k))
  <2>1. CASE IsRead(k) /\ v = lsns[k][1]
    <3>1. 0 \in Checkpoints /\ v \in VersionsIn(RowsOfKey(Rows(0), k)) BY <1>1, <2>1, KeyRows DEF Checkpoints
    <3> QED BY <1>4, <3>1
  <2>2. ASSUME NEW j \in Writes(k), v = Lsn(k, j) PROVE v \in VersionsIn(RowsOfKey(AllRows, k))
    <3> DEFINE c == assign[k][j]
    <3>1. j \in 1..Changes(k) BY DEF Writes
    <3>2. c \in Checkpoints /\ c # 0 /\ c \in Nat BY <1>1, <3>1 DEF Checkpoints
    <3>3. j \in Carried(k, c) \cap Writes(k) BY <3>1 DEF Carried
    <3> HIDE DEF c
    <3>4. v \in VersionsIn(RowsOfKey(Rows(c), k)) BY <2>2, <3>2, <3>3, KeyRows
    <3> QED BY <1>4, <3>2, <3>4
  <2> QED BY <2>1, <2>2, VersionsAre
<1>7. RowsOfKey(AllRows, k) = {} <=> VersionsIn(RowsOfKey(AllRows, k)) = {} BY DEF VersionsIn
<1> QED BY <1>5, <1>6, <1>7

\* An undisturbed plan: checkpoint j carries a key's j-th change. Hudi's always is.
LEMMA CleanPlan ==
    ASSUME PlanOK, ~Planning, ~Perturbed, NEW k \in Keys
    PROVE  /\ Changes(k) \in Nat
           /\ \A j \in 1..Changes(k) : assign[k][j] = j
           /\ \A c : Carried(k, c) = IF c \in 1..Changes(k) THEN {c} ELSE {}
<1>1. Changes(k) \in Nat BY PlanNumbers
<1>2. assign[k] = CleanAssign(Changes(k)) BY DEF PlanOK, AssignOK
<1>3. \A j \in 1..Changes(k) : assign[k][j] = j BY <1>2 DEF CleanAssign
<1>4. \A c : Carried(k, c) = IF c \in 1..Changes(k) THEN {c} ELSE {} BY <1>3 DEF Carried
<1> QED BY <1>1, <1>3, <1>4

\* Which keys the delete commit takes, and what the truth of the others is.
LEMMA TailsAre ==
    ASSUME PlanOK, ~Planning, Format = "hudi", NEW k \in Keys
    PROVE  /\ Truth(k) = 0 => Versions(k) = {} \/ k \in TerminallyDeleted
           /\ Truth(k) # 0 => /\ k \notin TerminallyDeleted
                              /\ Truth(k) \in Versions(k)
                              /\ \A v \in Versions(k) : v <= Truth(k)
<1> DEFINE n == Changes(k)
           last == Len(history[k])
<1>1. ~Perturbed BY DEF Perturbed
<1>2. n \in Nat /\ \A c : Carried(k, c) = IF c \in 1..n THEN {c} ELSE {} BY <1>1, CleanPlan
<1>3. LastCheckpoint \in Nat /\ \A j \in 1..n : j <= LastCheckpoint
  BY <1>1, <1>2, LastIs, CleanPlan
<1>4. \A c : c \in DeleteCheckpoints(k) <=> c \in 1..n /\ Op(k, c) = "d"
  <2> SUFFICES ASSUME NEW c PROVE c \in DeleteCheckpoints(k) <=> c \in 1..n /\ Op(k, c) = "d" OBVIOUS
  <2>1. c \in DeleteCheckpoints(k) <=> c \in 0..LastCheckpoint /\ k \in Deletes(c)
    BY DEF DeleteCheckpoints, Checkpoints
  <2>2. c \in 0..LastCheckpoint => c \in Nat BY <1>3
  <2>3. c \in 1..n => c \in 0..LastCheckpoint /\ c # 0 BY <1>2, <1>3
  <2>4. c \in 0..LastCheckpoint => (k \in Deletes(c) <=> c # 0 /\ \E j \in Carried(k, c) : Op(k, j) = "d")
    BY <2>2, KeyDeletes
  <2> HIDE DEF n
  <2> QED BY <1>2, <2>1, <2>3, <2>4
<1>5. \A d : d \in DataCheckpoints(k) <=> (d = 0 /\ IsRead(k)) \/ (d \in 1..n /\ d \in Writes(k))
  <2> SUFFICES ASSUME NEW d
               PROVE  d \in DataCheckpoints(k) <=> (d = 0 /\ IsRead(k)) \/ (d \in 1..n /\ d \in Writes(k))
    OBVIOUS
  <2>1. d \in DataCheckpoints(k) <=> d \in 0..LastCheckpoint /\ RowsOfKey(Rows(d), k) # {}
    BY DEF DataCheckpoints, Checkpoints
  <2>2. d \in 0..LastCheckpoint => d \in Nat BY <1>3
  <2>3. d \in 1..n => d \in 0..LastCheckpoint /\ d # 0 BY <1>2, <1>3
  <2>4. 0 \in 0..LastCheckpoint BY <1>3
  <2>5. d = 0 => (RowsOfKey(Rows(d), k) # {} <=> IsRead(k)) BY KeyRows
  <2>6. d \in 0..LastCheckpoint /\ d # 0 =>
            (RowsOfKey(Rows(d), k) # {} <=> Carried(k, d) \cap Writes(k) # {})
    <3> SUFFICES ASSUME d \in 0..LastCheckpoint, d # 0
                 PROVE  RowsOfKey(Rows(d), k) # {} <=> Carried(k, d) \cap Writes(k) # {}
      OBVIOUS
    <3>1. VersionsIn(RowsOfKey(Rows(d), k)) = {Lsn(k, j) : j \in Carried(k, d) \cap Writes(k)}
      BY <2>2, KeyRows
    <3>2. RowsOfKey(Rows(d), k) = {} <=> VersionsIn(RowsOfKey(Rows(d), k)) = {} BY <2>2, KeyRows
    <3> QED BY <3>1, <3>2
  <2> HIDE DEF n
  <2> QED BY <1>2, <2>1, <2>3, <2>4, <2>5, <2>6
<1>6. \A j \in 1..n : j \in Writes(k) <=> Op(k, j) # "d" BY WritesOrDeletes
<1>7. k \in TerminallyDeleted <=> \E c \in DeleteCheckpoints(k) : \A d \in DataCheckpoints(k) : c > d
  BY DEF TerminallyDeleted
<1>8. HistoryOK(history[k]) /\ LsnsOK(k) /\ Len(lsns[k]) = last BY DEF PlanOK, Planning
<1>9. last = IF IsRead(k) THEN n + 1 ELSE n BY <1>8, ChangesIs
<1>10. ASSUME Truth(k) = 0 PROVE Versions(k) = {} \/ k \in TerminallyDeleted
  <2>1. CASE history[k] = <<>>
    <3>1. last = 0 BY <2>1, EmptySeq
    <3>2. n = 0 /\ ~IsRead(k) BY <1>2, <1>9, <3>1
    <3>3. \A v : v \notin Versions(k) BY <3>2, VersionsAre DEF Writes
    <3> QED BY <3>3
  <2>2. CASE history[k] # <<>>
    <3>1. last \in Nat \ {0} BY <1>8, <2>2, EmptySeq DEF HistoryOK
    <3>2. last \in 1..last BY <3>1
    <3>3. lsns[k][last] # 0 BY <1>8, <3>2, ElementOfSeq DEF LsnsOK
    <3>4. history[k][last] = "d" BY <1>10, <2>2, <3>3 DEF Truth
    <3>5. n # 0
      <4>1. n = 0 => IsRead(k) /\ last = 1 BY <1>2, <1>9, <3>1
      <4> QED BY <3>4, <4>1 DEF IsRead
    <3>6. n \in 1..n /\ Index(k, n) = last BY <1>2, <1>9, <3>5 DEF Index
    <3>7. Op(k, n) = "d" BY <3>4, <3>6 DEF Op
    <3>8. n \in DeleteCheckpoints(k) BY <1>4, <3>6, <3>7
    <3>9. \A d \in DataCheckpoints(k) : n > d
      <4> SUFFICES ASSUME NEW d \in DataCheckpoints(k) PROVE n > d OBVIOUS
      <4>1. CASE d = 0 BY <1>2, <3>5, <4>1
      <4>2. CASE d \in 1..n /\ d \in Writes(k)
        <5>1. d # n BY <1>6, <3>7, <4>2
        <5> HIDE DEF n
        <5> QED BY <1>2, <4>2, <5>1
      <4> QED BY <1>5, <4>1, <4>2
    <3> QED BY <1>7, <3>8, <3>9
  <2> QED BY <2>1, <2>2
<1>11. ASSUME Truth(k) # 0
       PROVE  /\ k \notin TerminallyDeleted
              /\ Truth(k) \in Versions(k)
              /\ \A v \in Versions(k) : v <= Truth(k)
  <2>1. /\ IsRead(k) => lsns[k][1] <= Truth(k)
        /\ \A j \in 1..n : Lsn(k, j) <= Truth(k)
        /\ n = 0 => IsRead(k) /\ lsns[k][1] = Truth(k)
        /\ n # 0 => n \in Writes(k) /\ Lsn(k, n) = Truth(k)
    BY <1>11, TruthIs
  <2>2. Truth(k) \in Versions(k) BY <2>1, VersionsAre
  <2>3. \A v \in Versions(k) : v <= Truth(k) BY <2>1, VersionsAre DEF Writes
  <2>4. k \notin TerminallyDeleted
    <3> SUFFICES ASSUME NEW c \in DeleteCheckpoints(k), \A d \in DataCheckpoints(k) : c > d PROVE FALSE
      BY <1>7
    <3>1. c \in 1..n /\ Op(k, c) = "d" BY <1>4
    <3>2. n # 0 /\ n \in 1..n BY <1>2, <3>1
    <3>3. n \in DataCheckpoints(k) BY <1>5, <2>1, <3>2
    <3>4. c > n BY <3>3
    <3> HIDE DEF n
    <3> QED BY <1>2, <3>1, <3>4
  <2> QED BY <2>2, <2>3, <2>4
<1> QED BY <1>10, <1>11

-----------------------------------------------------------------------------
\* The invariant: what the table shows is a function of the plan and of what has
\* been applied of it.

\* Hudi, after its bulk upsert and after its delete commit.
HudiShows(n, k) ==
    IF Versions(k) = {} \/ (n = 2 /\ k \in TerminallyDeleted) THEN 0 ELSE Winner(Versions(k))

\* Delta: a checkpoint that carries a change of a key decides what is shown of it.
Touches(c, k) == k \in Deletes(c) \/ RowsOfKey(Rows(c), k) # {}

DeltaValue(c, k) == IF k \in Deletes(c) THEN 0 ELSE LastRow(RowsOfKey(Rows(c), k))

\* v is what the first n checkpoints leave of a key.
DeltaShows(n, k, v) ==
    \/ v = 0 /\ \A c \in Nat : c < n => ~Touches(c, k)
    \/ \E c \in Nat : /\ c < n /\ Touches(c, k) /\ v = DeltaValue(c, k)
                      /\ \A d \in Nat : c < d /\ d < n => ~Touches(d, k)

\* Between the MERGE and the DELETE of a checkpoint.
HalfApplied(k) == merged /\ RowsOfKey(Rows(next), k) # {}

TableShows ==
    /\ Format = "hudi" /\ ~Planning =>
           next \in 0..2 /\ (next # 0 => \A k \in Keys : shown[k] = HudiShows(next, k))
    /\ Format = "delta" /\ ~Planning =>
           \A k \in Keys : IF HalfApplied(k) THEN shown[k] = LastRow(RowsOfKey(Rows(next), k))
                           ELSE DeltaShows(next, k, shown[k])

ArbInv ==
    /\ PlanOK /\ next \in Nat /\ merged \in BOOLEAN
    /\ Planning => next = 0 /\ ~merged /\ shown = [k \in Keys |-> 0]
    /\ merged => stage = "apply" /\ Format = "delta" /\ next <= LastCheckpoint
    /\ ~Planning /\ stage # "apply" => Applied
    /\ stage # "raised"
    /\ TableShows

\* The plan frozen, so is what it leads to.
LEMMA ShowsFrozen ==
    ASSUME UNCHANGED planVars
    PROVE  /\ \A k : RowsOfKey(AllRows, k)' = RowsOfKey(AllRows, k)
           /\ \A n, k : HudiShows(n, k)' = HudiShows(n, k)
           /\ \A n, k, v : DeltaShows(n, k, v)' <=> DeltaShows(n, k, v)
           /\ (Format = "hudi")' <=> Format = "hudi"
           /\ (Format = "delta")' <=> Format = "delta"
<1>1. UNCHANGED <<config, history, lsns, ts>> BY DEF planVars
<1>2. /\ LastCheckpoint' = LastCheckpoint
      /\ \A c : Rows(c)' = Rows(c) /\ Deletes(c)' = Deletes(c)
  BY PlanFrozen
<1>3. Checkpoints' = Checkpoints BY <1>2 DEF Checkpoints
<1>4. \A c, k : RowsOfKey(Rows(c), k)' = RowsOfKey(Rows(c), k) BY <1>2 DEF RowsOfKey
<1>5. AllRows' = AllRows BY <1>2, <1>3 DEF AllRows
<1>6. \A k : Versions(k)' = Versions(k) BY <1>1 DEF Versions
<1>7. \A k : Winner(Versions(k))' = Winner(Versions(k)) BY <1>1, <1>6 DEF Winner, Outranks, Precombine, Enforced
<1>8. TerminallyDeleted' = TerminallyDeleted
  BY <1>2, <1>3, <1>4 DEF TerminallyDeleted, DeleteCheckpoints, DataCheckpoints
<1>9. \A k : RowsOfKey(AllRows, k)' = RowsOfKey(AllRows, k) BY <1>5 DEF RowsOfKey
<1>10. \A n, k : HudiShows(n, k)' = HudiShows(n, k) BY <1>6, <1>7, <1>8 DEF HudiShows
<1>11. \A c, k : (Touches(c, k)' <=> Touches(c, k)) BY <1>2, <1>4 DEF Touches
<1>12. \A c, k : DeltaValue(c, k)' = DeltaValue(c, k) BY <1>2, <1>4 DEF DeltaValue, LastRow
<1>13. \A n, k, v : (DeltaShows(n, k, v)' <=> DeltaShows(n, k, v)) BY <1>11, <1>12 DEF DeltaShows
<1>14. /\ (Format = "hudi")' <=> Format = "hudi"
       /\ (Format = "delta")' <=> Format = "delta"
  BY <1>1 DEF Format
<1> QED BY <1>9, <1>10, <1>13, <1>14

\* The first state.
LEMMA ArbStarts == Init => ArbInv
<1> SUFFICES ASSUME Init PROVE ArbInv OBVIOUS
<1>1. PlanOK BY PlanStarts DEF Init
<1>2. stage = "stream" BY DEF Init, PlanInit
<1>3. Planning BY <1>2 DEF Planning
<1> QED BY <1>1, <1>2, <1>3 DEF Init, ArbInv, TableShows

\* The stream and the plan.
LEMMA PlanStep ==
    ASSUME ArbInv, PlanNext, UNCHANGED <<next, merged, shown>>
    PROVE  ArbInv'
<1>1. PlanOK' BY EmitStep, SkewStep, BuildStep DEF PlanNext, ArbInv
<1>2. Planning /\ stage' \in {"stream", "plan", "apply"} BY DEF PlanNext, Emit, Skew, BuildPlan, Planning
<1>3. next = 0 /\ merged = FALSE /\ shown = [k \in Keys |-> 0] BY <1>2 DEF ArbInv
<1>4. next' = 0 /\ merged' = FALSE /\ shown' = [k \in Keys |-> 0] BY <1>3
<1>5. ASSUME NEW k \in Keys PROVE ~HalfApplied(k)' /\ DeltaShows(next, k, shown[k])'
  <2>1. ~HalfApplied(k)' BY <1>4 DEF HalfApplied
  <2>2. shown'[k] = 0 /\ \A c \in Nat : ~(c < next') BY <1>4
  <2> QED BY <2>1, <2>2 DEF DeltaShows
<1>6. TableShows' BY <1>4, <1>5 DEF TableShows
<1> QED BY <1>1, <1>2, <1>4, <1>6 DEF ArbInv, Planning

\* Hudi's data commit.
LEMMA UpsertStep == ASSUME ArbInv, BulkUpsert PROVE ArbInv'
<1>1. /\ Format = "hudi" /\ stage = "apply" /\ next = 0 /\ next' = 1
      /\ UNCHANGED <<stage, merged>> /\ UNCHANGED planVars
  BY DEF BulkUpsert
<1>2. PlanOK /\ ~Planning /\ ~merged /\ merged \in BOOLEAN BY <1>1 DEF ArbInv, Planning
<1>3. PlanOK' BY <1>1, <1>2, PlanKept
<1>4. Format' = "hudi" BY <1>1, ShowsFrozen
<1>5. ASSUME NEW k \in Keys PROVE shown'[k] = HudiShows(next, k)'
  <2>1. shown'[k] = IF RowsOfKey(AllRows, k) = {} THEN 0 ELSE Winner(VersionsIn(RowsOfKey(AllRows, k)))
    BY DEF BulkUpsert, VersionsIn
  <2>2. shown'[k] = HudiShows(1, k) BY <1>2, <2>1, AllRowsOfKey DEF HudiShows
  <2> QED BY <1>1, <2>2, ShowsFrozen
<1>6. TableShows' BY <1>1, <1>4, <1>5 DEF TableShows
<1> QED BY <1>1, <1>2, <1>3, <1>6 DEF ArbInv, Planning

\* Hudi's delete commit.
LEMMA TailsStep == ASSUME ArbInv, DeleteTails PROVE ArbInv'
<1>1. /\ Format = "hudi" /\ stage = "apply" /\ next = 1 /\ next' = 2
      /\ UNCHANGED <<stage, merged>> /\ UNCHANGED planVars
      /\ shown' = [k \in Keys |-> IF k \in TerminallyDeleted THEN 0 ELSE shown[k]]
  BY DEF DeleteTails
<1>2. PlanOK /\ ~Planning /\ ~merged /\ merged \in BOOLEAN BY <1>1 DEF ArbInv, Planning
<1>3. PlanOK' BY <1>1, <1>2, PlanKept
<1>4. Format' = "hudi" BY <1>1, ShowsFrozen
<1>5. ASSUME NEW k \in Keys PROVE shown'[k] = HudiShows(next, k)'
  <2>1. shown[k] = HudiShows(1, k) BY <1>1, <1>2 DEF ArbInv, TableShows
  <2>2. shown'[k] = HudiShows(2, k) BY <1>1, <2>1 DEF HudiShows
  <2> QED BY <1>1, <2>2, ShowsFrozen
<1>6. TableShows' BY <1>1, <1>4, <1>5 DEF TableShows
<1> QED BY <1>1, <1>2, <1>3, <1>6 DEF ArbInv, Planning

\* Delta's MERGE.
LEMMA MergeStep == ASSUME ArbInv, MergeData PROVE ArbInv'
<1>1. /\ Format = "delta" /\ stage = "apply" /\ next <= LastCheckpoint /\ ~merged /\ merged' = TRUE
      /\ UNCHANGED <<stage, next>> /\ UNCHANGED planVars
      /\ shown' = [k \in Keys |-> IF RowsOfKey(Rows(next), k) = {} THEN shown[k]
                                  ELSE LastRow(RowsOfKey(Rows(next), k))]
  BY DEF MergeData
<1>2. PlanOK /\ ~Planning /\ next \in Nat BY <1>1 DEF ArbInv, Planning
<1>3. PlanOK' BY <1>1, <1>2, PlanKept
<1>4. Format' = "delta" /\ LastCheckpoint' = LastCheckpoint BY <1>1, ShowsFrozen, PlanFrozen
<1>5. ASSUME NEW k \in Keys
      PROVE  IF HalfApplied(k)' THEN shown'[k] = LastRow(RowsOfKey(Rows(next), k))'
             ELSE DeltaShows(next, k, shown[k])'
  <2>1. RowsOfKey(Rows(next), k)' = RowsOfKey(Rows(next), k) BY <1>1, PlanFrozen DEF RowsOfKey
  <2>2. LastRow(RowsOfKey(Rows(next), k))' = LastRow(RowsOfKey(Rows(next), k)) BY <2>1 DEF LastRow
  <2>3. HalfApplied(k)' <=> RowsOfKey(Rows(next), k) # {} BY <1>1, <2>1 DEF HalfApplied
  <2>4. CASE RowsOfKey(Rows(next), k) # {} BY <1>1, <2>2, <2>3, <2>4
  <2>5. CASE RowsOfKey(Rows(next), k) = {}
    <3>1. shown'[k] = shown[k] BY <1>1, <2>5
    <3>2. DeltaShows(next, k, shown[k]) BY <1>1, <1>2 DEF ArbInv, TableShows, HalfApplied
    <3>3. DeltaShows(next, k, shown[k])' <=> DeltaShows(next', k, shown'[k])
      BY <1>1, ShowsFrozen
    <3> QED BY <1>1, <2>3, <2>5, <3>1, <3>2, <3>3
  <2> QED BY <2>4, <2>5
<1>6. TableShows' BY <1>4, <1>5 DEF TableShows
<1> QED BY <1>1, <1>2, <1>3, <1>4, <1>6 DEF ArbInv, Planning

\* Delta's DELETE: the checkpoint is done.
LEMMA DeleteStep == ASSUME ArbInv, DeleteKeys PROVE ArbInv'
<1>1. /\ merged /\ next' = next + 1 /\ merged' = FALSE
      /\ UNCHANGED stage /\ UNCHANGED planVars
      /\ shown' = [k \in Keys |-> IF k \in Deletes(next) THEN 0 ELSE shown[k]]
  BY DEF DeleteKeys
<1>2. PlanOK /\ stage = "apply" /\ ~Planning /\ next \in Nat /\ Format = "delta" BY <1>1 DEF ArbInv, Planning
<1>3. PlanOK' BY <1>1, <1>2, PlanKept
<1>4. Format' = "delta" BY <1>1, <1>2, ShowsFrozen
<1>5. ASSUME NEW k \in Keys PROVE ~HalfApplied(k)' /\ DeltaShows(next, k, shown[k])'
  <2>1. ~HalfApplied(k)' BY <1>1 DEF HalfApplied
  <2>2. IF RowsOfKey(Rows(next), k) # {} THEN shown[k] = LastRow(RowsOfKey(Rows(next), k))
        ELSE DeltaShows(next, k, shown[k])
    BY <1>1, <1>2 DEF ArbInv, TableShows, HalfApplied
  <2>3. shown'[k] = IF k \in Deletes(next) THEN 0 ELSE shown[k] BY <1>1
  <2>4. \A d \in Nat : ~(next < d /\ d < next + 1) BY <1>2
  <2>5. DeltaShows(next + 1, k, shown'[k])
    <3>1. CASE Touches(next, k)
      <4>1. shown'[k] = DeltaValue(next, k) BY <2>2, <2>3, <3>1 DEF Touches, DeltaValue
      <4>2. next < next + 1 BY <1>2
      <4> QED BY <1>2, <2>4, <3>1, <4>1, <4>2 DEF DeltaShows
    <3>2. CASE ~Touches(next, k)
      <4>1. shown'[k] = shown[k] /\ DeltaShows(next, k, shown[k]) BY <2>2, <2>3, <3>2 DEF Touches
      <4>2. \A c \in Nat : c < next + 1 <=> c < next \/ c = next BY <1>2
      <4>3. CASE shown[k] = 0 /\ \A c \in Nat : c < next => ~Touches(c, k)
        BY <3>2, <4>1, <4>2, <4>3 DEF DeltaShows
      <4>4. CASE \E c \in Nat : /\ c < next /\ Touches(c, k) /\ shown[k] = DeltaValue(c, k)
                                /\ \A d \in Nat : c < d /\ d < next => ~Touches(d, k)
        BY <3>2, <4>1, <4>2, <4>4 DEF DeltaShows
      <4> QED BY <4>1, <4>3, <4>4 DEF DeltaShows
    <3> QED BY <3>1, <3>2
  <2> QED BY <1>1, <2>1, <2>5, ShowsFrozen
<1>6. TableShows' BY <1>4, <1>5 DEF TableShows
<1>7. next' \in Nat BY <1>1, <1>2
<1> QED BY <1>1, <1>2, <1>3, <1>6, <1>7 DEF ArbInv, Planning

\* The harness predicts the winner it reads back.
LEMMA PredictsWinner ==
    ASSUME ArbInv, stage = "apply", Applied, NEW k \in Keys
    PROVE  ~Disagrees(k)
<1> SUFFICES ASSUME Format = "hudi", Truth(k) # 0, shown[k] # 0 PROVE shown[k] = Predicted(k)
  BY DEF Disagrees
<1>1. PlanOK /\ ~Planning /\ next = 2 BY DEF ArbInv, Planning, Applied
<1>2. shown[k] = HudiShows(2, k) BY <1>1 DEF ArbInv, TableShows
<1>3. Truth(k) \in Versions(k) /\ k \notin TerminallyDeleted BY <1>1, TailsAre
<1>4. shown[k] = Winner(Versions(k)) BY <1>2, <1>3 DEF HudiShows
<1> QED BY <1>1, <1>3, <1>4, WinnerIs

\* A step that leaves the table alone, once there is a plan.
LEMMA TableKept ==
    ASSUME ArbInv, UNCHANGED planVars, UNCHANGED <<next, merged, shown>>,
           stage' = stage \/ (stage = "apply" /\ stage' = "ok" /\ Applied)
    PROVE  ArbInv'
<1>1. PlanOK' BY PlanKept DEF ArbInv, Planning
<1>2. LastCheckpoint' = LastCheckpoint BY PlanFrozen
<1>3. /\ (Format = "hudi")' <=> Format = "hudi"
      /\ (Format = "delta")' <=> Format = "delta"
  BY ShowsFrozen
<1>4. Applied' <=> Applied BY <1>2, <1>3 DEF Applied
<1>5. (Planning' <=> Planning) BY DEF Planning
<1>6. \A k : (HalfApplied(k)' <=> HalfApplied(k))
             /\ LastRow(RowsOfKey(Rows(next), k))' = LastRow(RowsOfKey(Rows(next), k))
             /\ (DeltaShows(next, k, shown[k])' <=> DeltaShows(next, k, shown[k]))
             /\ HudiShows(next, k)' = HudiShows(next, k)
  <2> SUFFICES ASSUME NEW k
               PROVE  /\ HalfApplied(k)' <=> HalfApplied(k)
                      /\ LastRow(RowsOfKey(Rows(next), k))' = LastRow(RowsOfKey(Rows(next), k))
                      /\ DeltaShows(next, k, shown[k])' <=> DeltaShows(next, k, shown[k])
                      /\ HudiShows(next, k)' = HudiShows(next, k)
    OBVIOUS
  <2>1. RowsOfKey(Rows(next), k)' = RowsOfKey(Rows(next), k) BY PlanFrozen DEF RowsOfKey
  <2>2. LastRow(RowsOfKey(Rows(next), k))' = LastRow(RowsOfKey(Rows(next), k)) BY <2>1 DEF LastRow
  <2> QED BY <2>1, <2>2, ShowsFrozen DEF HalfApplied
<1>7. TableShows' <=> TableShows BY <1>3, <1>5, <1>6 DEF TableShows
<1>8. merged => stage' = "apply"
  <2>1. PlanOK /\ (merged => stage = "apply" /\ Format = "delta" /\ next <= LastCheckpoint) /\ next \in Nat
    BY DEF ArbInv
  <2> SUFFICES ASSUME merged, Applied PROVE FALSE BY <2>1
  <2>2. ~Planning BY <2>1 DEF Planning
  <2>3. LastCheckpoint \in Nat BY <2>1, <2>2, LastIs
  <2>4. next > LastCheckpoint /\ next <= LastCheckpoint BY <2>1 DEF Applied
  <2> QED BY <2>1, <2>3, <2>4
<1> QED BY <1>1, <1>2, <1>3, <1>4, <1>5, <1>7, <1>8 DEF ArbInv

\* Every step keeps the invariant.
LEMMA ArbKept == ArbInv /\ [Next]_vars => ArbInv'
<1> SUFFICES ASSUME ArbInv, [Next]_vars PROVE ArbInv' OBVIOUS
<1>1. CASE PlanNext /\ UNCHANGED <<next, merged, shown>> BY <1>1, PlanStep
<1>2. CASE BulkUpsert BY <1>2, UpsertStep
<1>3. CASE DeleteTails BY <1>3, TailsStep
<1>4. CASE MergeData BY <1>4, MergeStep
<1>5. CASE DeleteKeys BY <1>5, DeleteStep
<1>6. CASE Reconcile
  <2>1. stage = "apply" /\ Applied /\ UNCHANGED planVars /\ UNCHANGED <<next, merged, shown>>
    BY <1>6 DEF Reconcile
  <2>2. \A k \in Keys : ~Disagrees(k) BY <2>1, PredictsWinner
  <2>3. stage' = "ok" BY <1>6, <2>2 DEF Reconcile
  <2> QED BY <2>1, <2>3, TableKept
<1>7. CASE UNCHANGED vars BY <1>7, TableKept DEF vars
<1> QED BY <1>1, <1>2, <1>3, <1>4, <1>5, <1>6, <1>7 DEF Next

\* The invariant of every run.
LEMMA ArbHolds == Spec => []ArbInv
BY ArbStarts, ArbKept, PTL DEF Spec

-----------------------------------------------------------------------------
\* What the oracle finds on Hudi.

\* StaleExactlyWhenOvertaken holds for every stream and every skew (the timestamps of
\* imperfections.py 20-33, the two writes of hudi_driver.py 124-148, the prediction and the
\* cross-check of check.py 192-250).
THEOREM StaleWhenOvertaken == Spec => []StaleExactlyWhenOvertaken
<1>1. ArbInv => StaleExactlyWhenOvertaken
  <2> SUFFICES ASSUME ArbInv, Done, Format = "hudi", NEW k \in Keys
               PROVE  /\ OracleVerdict(k) \in {"MATCH", "STALE_WINS"}
                      /\ OracleVerdict(k) = "STALE_WINS" <=>
                             ~Enforced /\ Truth(k) # 0 /\ Overtaken(k)
    BY DEF StaleExactlyWhenOvertaken, ArbInv
  <2> DEFINE V == Versions(k)
             W == Winner(V)
             T == Truth(k)
  <2>1. PlanOK /\ ~Planning /\ next = 2 BY DEF ArbInv, Done, Planning, Applied
  <2>2. shown[k] = HudiShows(2, k) BY <2>1 DEF ArbInv, TableShows
  <2>3. CASE T = 0
    <3>1. shown[k] = 0 BY <2>1, <2>2, <2>3, TailsAre DEF HudiShows
    <3> QED BY <2>3, <3>1 DEF OracleVerdict
  <2>4. CASE T # 0
    <3>1. k \notin TerminallyDeleted /\ T \in V /\ \A v \in V : v <= T BY <2>1, <2>4, TailsAre
    <3>2. W \in V /\ \A w \in V \ {W} : Outranks(W, w) BY <2>1, <3>1, WinnerIs
    <3>3. shown[k] = W BY <2>2, <3>1 DEF HudiShows
    <3>4. \A v \in V : v \in Nat \ {0} /\ Precombine(v) \in Nat BY <2>1, PrecombineIs
    <3>5. /\ OracleVerdict(k) \in {"MATCH", "STALE_WINS"}
          /\ OracleVerdict(k) = "STALE_WINS" <=> W # T
      BY <2>4, <3>2, <3>3, <3>4 DEF OracleVerdict
    <3> HIDE DEF W
    <3>6. ASSUME W # T PROVE ~Enforced /\ Overtaken(k)
      <4>1. Outranks(W, T) /\ W <= T /\ W \in Nat /\ T \in Nat BY <3>1, <3>2, <3>4, <3>6
      <4>2. W < T BY <3>6, <4>1
      <4>3. Precombine(W) > Precombine(T) BY <4>1, <4>2 DEF Outranks
      <4>4. ~Enforced BY <4>1, <4>2, <4>3 DEF Precombine
      <4>5. ts[W] > ts[T] BY <4>3, <4>4 DEF Precombine
      <4> QED BY <3>2, <4>2, <4>4, <4>5 DEF Overtaken
    <3>7. ASSUME ~Enforced, Overtaken(k) PROVE W # T
      <4>1. PICK v \in V : v < T /\ ts[v] > ts[T] BY <3>7 DEF Overtaken
      <4>2. Precombine(v) > Precombine(T) BY <3>7, <4>1 DEF Precombine
      <4>3. v \in Nat /\ T \in Nat /\ Precombine(v) \in Nat /\ Precombine(T) \in Nat BY <3>1, <3>4, <4>1
      <4>4. ~Outranks(T, v) BY <4>2, <4>3 DEF Outranks
      <4>5. v # T BY <4>1, <4>3
      <4> QED BY <3>2, <4>1, <4>4, <4>5
    <3> QED BY <2>4, <3>5, <3>6, <3>7
  <2> QED BY <2>3, <2>4
<1> QED BY <1>1, ArbHolds, PTL

-----------------------------------------------------------------------------
\* What the oracle finds on Delta.

\* The checkpoints that decide what Delta shows of a key.
LEMMA TouchesIs ==
    ASSUME PlanOK, ~Planning, Format # "iceberg", NEW k \in Keys, NEW c \in Nat
    PROVE  Touches(c, k) <=> (c = 0 /\ IsRead(k)) \/ (c # 0 /\ Carried(k, c) # {})
<1>1. CASE c = 0
  <2>1. k \notin Deletes(c) BY <1>1 DEF Deletes
  <2>2. VersionsIn(RowsOfKey(Rows(c), k)) = IF IsRead(k) THEN {lsns[k][1]} ELSE {} BY <1>1, KeyRows
  <2>3. RowsOfKey(Rows(c), k) = {} <=> VersionsIn(RowsOfKey(Rows(c), k)) = {} BY KeyRows
  <2> QED BY <1>1, <2>1, <2>2, <2>3 DEF Touches
<1>2. CASE c # 0
  <2>1. k \in Deletes(c) <=> \E j \in Carried(k, c) : Op(k, j) = "d" BY <1>2, KeyDeletes
  <2>2. VersionsIn(RowsOfKey(Rows(c), k)) = {Lsn(k, j) : j \in Carried(k, c) \cap Writes(k)} BY <1>2, KeyRows
  <2>3. RowsOfKey(Rows(c), k) # {} <=> \E j \in Carried(k, c) : j \in Writes(k)
    <3>1. RowsOfKey(Rows(c), k) = {} <=> VersionsIn(RowsOfKey(Rows(c), k)) = {} BY KeyRows
    <3> QED BY <2>2, <3>1
  <2>4. \A j \in Carried(k, c) : j \in Writes(k) <=> Op(k, j) # "d" BY WritesOrDeletes DEF Carried
  <2> QED BY <1>2, <2>1, <2>3, <2>4 DEF Touches
<1> QED BY <1>1, <1>2

\* A key of which nothing newer is carried by the checkpoint that decides it shows its
\* truth, unless that checkpoint deletes it too.
LEMMA DecidedBy ==
    ASSUME PlanOK, ~Planning, Format = "delta", NEW k \in Keys,
           NEW m, m = Changes(k), m # 0, Truth(k) # 0
    PROVE  LET c == assign[k][m]
           IN  IF \E j \in Carried(k, c) : Op(k, j) = "d" THEN DeltaValue(c, k) = 0
               ELSE DeltaValue(c, k) = Truth(k)
<1> DEFINE c == assign[k][m]
           S == VersionsIn(RowsOfKey(Rows(c), k))
<1>1. m \in Nat /\ (\A j \in 1..m : Lsn(k, j) \in Nat) /\ m \in 1..m /\ c \in Nat \ {0} BY PlanNumbers
<1>2. m \in Writes(k) /\ Lsn(k, m) = Truth(k) /\ \A j \in 1..m : Lsn(k, j) <= Truth(k) BY TruthIs
<1>3. m \in Carried(k, c) BY <1>1 DEF Carried
<1> HIDE DEF c
<1>4. k \in Deletes(c) <=> \E j \in Carried(k, c) : Op(k, j) = "d" BY <1>1, KeyDeletes
<1>5. S = {Lsn(k, j) : j \in Carried(k, c) \cap Writes(k)} BY <1>1, KeyRows
<1>6. LastRow(RowsOfKey(Rows(c), k)) = Max(S) BY DEF LastRow, VersionsIn
<1>7. \A y \in S : y \in Nat /\ y <= Truth(k)
  <2> HIDE DEF S
  <2>1. \A j \in Carried(k, c) : j \in 1..m BY DEF Carried
  <2> QED BY <1>1, <1>2, <1>5, <2>1
<1>8. Truth(k) \in S BY <1>2, <1>3, <1>5
<1> HIDE DEF S
<1>9. Max(S) = Truth(k) BY <1>7, <1>8, MaxIs
<1> QED BY <1>4, <1>6, <1>9 DEF DeltaValue, c

\* DeltaLosesOnlyReinserts holds for every stream, duplicates and schema flushes: a MERGE
\* then a DELETE per checkpoint (delta_driver.py 82-93) never shows an older version, and
\* hides a live key only when a flush put its delete and its reinsert into one checkpoint
\* (batching.py 55-76).
THEOREM DeltaLosesOnly == Spec => []DeltaLosesOnlyReinserts
<1>1. ArbInv => DeltaLosesOnlyReinserts
  <2> SUFFICES ASSUME ArbInv, Done, Format = "delta", ~config.outOfOrder, NEW k \in Keys
               PROVE  /\ OracleVerdict(k) \in {"MATCH", "MISSING_CURRENT"}
                      /\ OracleVerdict(k) = "MISSING_CURRENT" =>
                             config.schema /\ \E i \in DOMAIN history[k] : history[k][i] = "d"
    BY DEF DeltaLosesOnlyReinserts
  <2> DEFINE n == Changes(k)
             last == Len(history[k])
             c == assign[k][n]
  <2>1. PlanOK /\ ~Planning /\ next \in Nat /\ next > LastCheckpoint /\ ~merged
    <3>1. PlanOK /\ ~Planning /\ next \in Nat /\ next > LastCheckpoint
      BY DEF ArbInv, Done, Planning, Applied
    <3>2. ~merged BY DEF ArbInv, Done
    <3> QED BY <3>1, <3>2
  <2>2. DeltaShows(next, k, shown[k]) BY <2>1 DEF ArbInv, TableShows, HalfApplied
  <2>3. LastCheckpoint \in Nat /\ \A j \in 1..n : assign[k][j] <= LastCheckpoint BY <2>1, LastIs
  <2>4. n \in Nat /\ \A j \in 1..n : assign[k][j] \in Nat \ {0} BY <2>1, PlanNumbers
  <2>5. Monotone(n, assign[k]) /\ (~config.schema => Injective(n, assign[k]))
    BY <2>1 DEF PlanOK, AssignOK, FineGrained
  <2>6. \A e \in Nat : Touches(e, k) <=> (e = 0 /\ IsRead(k)) \/ (e # 0 /\ Carried(k, e) # {})
    BY <2>1, TouchesIs
  <2>7. HistoryOK(history[k]) /\ LsnsOK(k) /\ Len(lsns[k]) = last BY <2>1 DEF PlanOK, Planning
  <2>8. /\ last = IF IsRead(k) THEN n + 1 ELSE n
        /\ \A j \in 1..n : Index(k, j) \in 1..last
    BY <2>7, ChangesIs
  <2>9. DOMAIN history[k] = 1..last /\ last \in Nat BY <2>7, LenProperties DEF HistoryOK
  <2> HIDE DEF n, last
  <2>10. CASE n = 0
    <3>1. \A e \in Nat : Touches(e, k) => e = 0 /\ IsRead(k) BY <2>4, <2>6, <2>10 DEF Carried, n
    <3>2. CASE IsRead(k)
      <4>1. Touches(0, k) /\ 0 < next BY <2>1, <2>3, <2>6, <3>2
      <4>2. shown[k] = DeltaValue(0, k)
        <5>1. ~\A e \in Nat : e < next => ~Touches(e, k) BY <4>1
        <5>2. PICK e \in Nat : Touches(e, k) /\ shown[k] = DeltaValue(e, k)
          BY <2>2, <5>1 DEF DeltaShows
        <5> QED BY <3>1, <5>2
      <4>3. VersionsIn(RowsOfKey(Rows(0), k)) = {lsns[k][1]} BY <2>1, <3>2, KeyRows
      <4>4. lsns[k][1] \in Nat \ {0} BY <2>1, <3>2, ReadIs
      <4>5. Max({lsns[k][1]}) = lsns[k][1] BY <4>4, MaxIs
      <4>6. DeltaValue(0, k) = lsns[k][1] BY <4>3, <4>5 DEF DeltaValue, LastRow, VersionsIn, Deletes
      <4>7. last = 1 BY <2>8, <2>10, <3>2
      <4>8. Truth(k) = lsns[k][1] BY <3>2, <4>7 DEF Truth, IsRead, last
      <4> QED BY <4>2, <4>4, <4>6, <4>8 DEF OracleVerdict
    <3>3. CASE ~IsRead(k)
      <4>1. shown[k] = 0 BY <2>2, <3>1, <3>3 DEF DeltaShows
      <4>2. Len(history[k]) = 0 BY <2>8, <2>10, <3>3 DEF last
      <4>3. history[k] = <<>> BY <2>7, <4>2, EmptySeq DEF HistoryOK
      <4>4. Truth(k) = 0 BY <4>3 DEF Truth
      <4> QED BY <4>1, <4>4 DEF OracleVerdict
    <3> QED BY <3>2, <3>3
  <2>11. CASE n # 0
    <3>1. n \in 1..n /\ c \in Nat \ {0} /\ c < next BY <2>1, <2>3, <2>4, <2>11
    <3>2. n \in Carried(k, c) BY <3>1 DEF Carried, n
    <3>3. Touches(c, k) BY <2>6, <3>1, <3>2
    <3>4. \A e \in Nat : Touches(e, k) => e <= c
      <4> SUFFICES ASSUME NEW e \in Nat, Touches(e, k), e # 0 PROVE e <= c BY <3>1
      <4>1. PICK j \in Carried(k, e) : TRUE BY <2>6
      <4>2. j \in 1..n /\ assign[k][j] = e BY DEF Carried, n
      <4>3. j <= n BY <2>4, <4>2
      <4> QED BY <2>5, <3>1, <4>2, <4>3 DEF Monotone
    <3>5. shown[k] = DeltaValue(c, k)
      <4>1. ~\A e \in Nat : e < next => ~Touches(e, k) BY <3>1, <3>3
      <4>2. PICK e \in Nat : /\ e < next /\ Touches(e, k) /\ shown[k] = DeltaValue(e, k)
                             /\ \A d \in Nat : e < d /\ d < next => ~Touches(d, k)
        BY <2>2, <4>1 DEF DeltaShows
      <4>3. ~(e < c) BY <3>1, <3>3, <4>2
      <4>4. e = c BY <3>1, <3>4, <4>2, <4>3
      <4> QED BY <4>2, <4>4
    <3>6. CASE Truth(k) = 0
      <4>1. last \in 1..last /\ Index(k, n) = last
        <5>1. Index(k, n) = last BY <2>8, <2>4 DEF Index
        <5> QED BY <2>8, <3>1, <5>1
      <4>2. history[k] # <<>> BY <2>9, <4>1, EmptySeq DEF last
      <4>3. lsns[k][last] # 0 BY <2>7, <4>1, ElementOfSeq DEF LsnsOK
      <4>4. history[k][last] = "d" BY <3>6, <4>2, <4>3 DEF Truth, last
      <4>5. Op(k, n) = "d" BY <4>1, <4>4 DEF Op
      <4>6. k \in Deletes(c) BY <3>1, <3>2, <4>5, KeyDeletes
      <4>7. shown[k] = 0 BY <3>5, <4>6 DEF DeltaValue
      <4> QED BY <3>6, <4>7 DEF OracleVerdict
    <3>7. CASE Truth(k) # 0
      <4>1. IF \E j \in Carried(k, c) : Op(k, j) = "d" THEN shown[k] = 0 ELSE shown[k] = Truth(k)
        BY <2>1, <2>11, <3>5, <3>7, DecidedBy DEF n
      <4>2. CASE \E j \in Carried(k, c) : Op(k, j) = "d"
        <5>1. PICK j \in Carried(k, c) : Op(k, j) = "d" BY <4>2
        <5>2. j \in 1..n /\ assign[k][j] = c BY DEF Carried, n
        <5>3. n \in Writes(k) BY <2>1, <2>11, <3>7, TruthIs DEF n
        <5>4. j # n BY <5>1, <5>3 DEF Writes
        <5>5. config.schema BY <2>5, <3>1, <5>2, <5>4 DEF Injective
        <5>6. Index(k, j) \in DOMAIN history[k] /\ history[k][Index(k, j)] = "d"
          BY <2>8, <2>9, <5>1, <5>2 DEF Op
        <5> QED BY <3>7, <4>1, <4>2, <5>5, <5>6 DEF OracleVerdict
      <4>3. CASE ~\E j \in Carried(k, c) : Op(k, j) = "d" BY <3>7, <4>1, <4>3 DEF OracleVerdict
      <4> QED BY <4>2, <4>3
    <3> QED BY <3>6, <3>7
  <2> QED BY <2>10, <2>11
<1> QED BY <1>1, ArbHolds, PTL

-----------------------------------------------------------------------------
\* Enforced Delta implements a log of versions per key.

\* The next checkpoint's MERGE moves the key on.
Moves(k) == IF next = 0 THEN IsRead(k) ELSE next <= Changes(k) /\ Op(k, next) # "d"

\* The prefix of the log that is applied, the MERGE of a checkpoint counted.
HalfPrefix(k) == IF merged /\ Moves(k) THEN Prefix(next + 1, k) ELSE Prefix(next, k)

Level(n, k) == IF Prefix(n, k) = 0 THEN 0 ELSE LogOf(k)[Prefix(n, k)]

\* What is applied, in numbers.
LEMMA AppliedOpsIs ==
    ASSUME ArbInv, NEW k \in Keys
    PROVE  AppliedOps(k) = HalfPrefix(k)
<1>1. /\ PlanOK /\ next \in Nat /\ merged \in BOOLEAN /\ HistoryOK(history[k])
      /\ Planning => next = 0 /\ ~merged
  BY DEF ArbInv, PlanOK
<1>2. Changes(k) \in Nat BY <1>1, ChangesIs
<1> DEFINE step == IF next = 0 \/ ~merged THEN next
                   ELSE next + (IF Changes(k) >= next /\ Op(k, next) # "d" THEN 1 ELSE 0)
           before == IF step = 0 THEN 0 ELSE step - 1
<1>3. step \in Nat /\ before \in Nat /\ (step = 0 <=> next = 0) BY <1>1
<1>4. AppliedOps(k) = IF IsRead(k) THEN (IF step = 0 /\ ~merged THEN 0 ELSE 1 + Min({Changes(k), before}))
                      ELSE Min({Changes(k), before})
  BY DEF AppliedOps
<1>5. Min({Changes(k), before}) = IF Changes(k) <= before THEN Changes(k) ELSE before
  <2> HIDE DEF before
  <2> QED BY <1>2, <1>3, MinOfTwo
<1>6. CASE next = 0
  <2>1. step = 0 /\ before = 0 BY <1>6
  <2>2. Min({Changes(k), before}) = 0
    <3> HIDE DEF before
    <3> QED BY <1>2, <1>5, <2>1
  <2>3. Prefix(0, k) = 0 /\ Prefix(1, k) = IF IsRead(k) THEN 1 ELSE 0 BY <1>2 DEF Prefix, Reached
  <2>4. AppliedOps(k) = IF IsRead(k) /\ merged THEN 1 ELSE 0
    <3> HIDE DEF step, before
    <3> QED BY <1>4, <2>1, <2>2
  <2>5. next + 1 = 1 BY <1>6
  <2> QED BY <1>6, <2>3, <2>4, <2>5 DEF HalfPrefix, Moves
<1>7. CASE next # 0
  <2>1. step = IF merged /\ Moves(k) THEN next + 1 ELSE next BY <1>1, <1>2, <1>7 DEF Moves
  <2>2. step # 0 /\ before = step - 1 BY <1>3, <1>7
  <2>3. HalfPrefix(k) = Prefix(step, k) BY <2>1 DEF HalfPrefix
  <2> HIDE DEF step, before
  <2>4. Min({Changes(k), before}) = Reached(step, k) BY <1>2, <1>3, <1>5, <2>2 DEF Reached
  <2> QED BY <1>4, <2>2, <2>3, <2>4 DEF Prefix
<1> QED BY <1>6, <1>7

\* One more checkpoint of a clean plan applies at most one more version of a key.
LEMMA PrefixStep ==
    ASSUME PlanOK, ~Planning, NEW k \in Keys, NEW n \in Nat
    PROVE  /\ Prefix(n, k) \in Nat
           /\ Prefix(n + 1, k) = IF (IF n = 0 THEN IsRead(k) ELSE n <= Changes(k)) THEN Prefix(n, k) + 1
                                 ELSE Prefix(n, k)
<1>1. Changes(k) \in Nat BY PlanNumbers
<1> QED BY <1>1 DEF Prefix, Reached

\* What a checkpoint of an enforced run makes of a key.
LEMMA SafeValue ==
    ASSUME PlanOK, ~Planning, Promised, NEW k \in Keys, NEW c \in Nat
    PROVE  /\ Touches(c, k) <=> IF c = 0 THEN IsRead(k) ELSE c <= Changes(k)
           /\ Touches(c, k) => DeltaValue(c, k) = Level(c + 1, k)
           /\ RowsOfKey(Rows(c), k) # {} <=> IF c = 0 THEN IsRead(k) ELSE c <= Changes(k) /\ Op(k, c) # "d"
           /\ RowsOfKey(Rows(c), k) # {} => LastRow(RowsOfKey(Rows(c), k)) = Level(c + 1, k)
<1> DEFINE n == Changes(k)
           S == VersionsIn(RowsOfKey(Rows(c), k))
           last == Len(history[k])
<1>1. Format = "delta" /\ ~Perturbed BY DEF Promised, Perturbed
<1>2. n \in Nat /\ \A d : Carried(k, d) = IF d \in 1..n THEN {d} ELSE {} BY <1>1, CleanPlan
<1>3. Touches(c, k) <=> (c = 0 /\ IsRead(k)) \/ (c # 0 /\ Carried(k, c) # {}) BY <1>1, TouchesIs
<1>4. LastRow(RowsOfKey(Rows(c), k)) = Max(S) BY DEF LastRow, VersionsIn
<1>5. RowsOfKey(Rows(c), k) = {} <=> S = {} BY KeyRows
<1>6. /\ HistoryOK(history[k]) /\ LsnsOK(k) /\ Len(lsns[k]) = last
  BY DEF PlanOK, Planning
<1>7. /\ last = IF IsRead(k) THEN n + 1 ELSE n
      /\ \A j \in 1..n : Index(k, j) \in 1..last
  BY <1>6, ChangesIs
<1>8. \A i \in 1..last : /\ LogOf(k)[i] = IF history[k][i] = "d" THEN 0 ELSE lsns[k][i]
                         /\ lsns[k][i] \in Nat \ {0}
  BY <1>6, LogShape, ElementOfSeq DEF LsnsOK
<1>9. CASE c = 0
  <2>1. S = IF IsRead(k) THEN {lsns[k][1]} ELSE {} BY <1>9, KeyRows
  <2>2. k \notin Deletes(c) BY <1>9 DEF Deletes
  <2>3. ASSUME IsRead(k) PROVE Max(S) = Level(c + 1, k)
    <3>1. 1 \in 1..last /\ history[k][1] = "r" BY <1>2, <1>7, <2>3 DEF IsRead
    <3>2. Max({lsns[k][1]}) = lsns[k][1] BY <1>8, <3>1, MaxIs
    <3>3. c + 1 = 1 /\ Prefix(1, k) = 1 BY <1>2, <1>9, <2>3 DEF Prefix, Reached
    <3> QED BY <1>8, <2>1, <2>3, <3>1, <3>2, <3>3 DEF Level
  <2> HIDE DEF S
  <2> QED BY <1>3, <1>4, <1>5, <1>9, <2>1, <2>2, <2>3 DEF DeltaValue, S
<1>10. CASE c # 0 /\ c <= n
  <2>1. c \in 1..n BY <1>2, <1>10
  <2>2. Carried(k, c) = {c} BY <1>2, <2>1
  <2>3. S = {Lsn(k, j) : j \in {c} \cap Writes(k)} BY <1>10, <2>2, KeyRows
  <2>4. k \in Deletes(c) <=> Op(k, c) = "d" BY <1>1, <1>10, <2>2, KeyDeletes
  <2>5. c \in Writes(k) <=> Op(k, c) # "d" BY <2>1, WritesOrDeletes
  <2>6. Prefix(c + 1, k) = Index(k, c) /\ Index(k, c) # 0
    <3>1. Reached(c + 1, k) = c BY <1>2, <1>10 DEF Reached
    <3>2. c + 1 # 0 BY <2>1
    <3>3. Prefix(c + 1, k) = IF IsRead(k) THEN 1 + c ELSE c BY <3>1, <3>2 DEF Prefix
    <3> QED BY <1>10, <3>3 DEF Index
  <2>7. Level(c + 1, k) = IF Op(k, c) = "d" THEN 0 ELSE Lsn(k, c)
    <3>1. Index(k, c) \in 1..last BY <1>7, <2>1
    <3> QED BY <1>8, <2>6, <3>1 DEF Level, Op, Lsn
  <2>8. ASSUME Op(k, c) # "d" PROVE S = {Lsn(k, c)} /\ Max(S) = Lsn(k, c)
    <3>1. S = {Lsn(k, c)} BY <2>3, <2>5, <2>8
    <3>2. Lsn(k, c) \in Nat BY <2>1, PlanNumbers
    <3> HIDE DEF S
    <3> QED BY <3>1, <3>2, MaxIs
  <2>9. Op(k, c) = "d" => S = {} BY <2>3, <2>5
  <2> HIDE DEF S
  <2> QED BY <1>3, <1>4, <1>5, <1>10, <2>1, <2>2, <2>4, <2>7, <2>8, <2>9 DEF DeltaValue, S
<1>11. CASE c # 0 /\ ~(c <= n)
  <2>1. Carried(k, c) = {} BY <1>2, <1>11
  <2>2. S = {} BY <1>11, <2>1, KeyRows
  <2> QED BY <1>3, <1>5, <1>11, <2>1, <2>2
<1> QED BY <1>9, <1>10, <1>11

\* What an enforced run shows of a key between two checkpoints.
LEMMA SafeShows ==
    ASSUME PlanOK, ~Planning, Promised, NEW k \in Keys, NEW n \in Nat, NEW v, DeltaShows(n, k, v)
    PROVE  v = Level(n, k)
<1> DEFINE C == Changes(k)
<1>1. C \in Nat BY PlanNumbers
<1>2. \A c \in Nat : Touches(c, k) <=> IF c = 0 THEN IsRead(k) ELSE c <= C BY SafeValue
<1> HIDE DEF C
<1>3. ASSUME v = 0, \A c \in Nat : c < n => ~Touches(c, k) PROVE Prefix(n, k) = 0
  <2>1. CASE n = 0 BY <2>1 DEF Prefix
  <2>2. CASE n # 0
    <3>1. ~IsRead(k) BY <1>2, <1>3, <2>2
    <3>2. n = 1 \/ C = 0
      <4>1. n > 1 => ~(1 <= C) BY <1>2, <1>3
      <4> QED BY <1>1, <2>2, <4>1
    <3> QED BY <1>1, <2>2, <3>1, <3>2 DEF Prefix, Reached, C
  <2> QED BY <2>1, <2>2
<1>4. ASSUME NEW c \in Nat, c < n, Touches(c, k), v = DeltaValue(c, k),
             \A d \in Nat : c < d /\ d < n => ~Touches(d, k)
      PROVE  v = Level(n, k)
  <2>1. v = Level(c + 1, k) BY <1>4, SafeValue
  <2>2. c <= C BY <1>1, <1>2, <1>4
  <2>3. n = c + 1 \/ c = C
    <3>1. c + 1 \in Nat /\ c < c + 1 /\ c + 1 # 0 OBVIOUS
    <3>2. c + 1 < n => ~(c + 1 <= C) BY <1>2, <1>4, <3>1
    <3> QED BY <1>1, <1>4, <2>2, <3>2
  <2>4. Prefix(n, k) = Prefix(c + 1, k) BY <1>1, <1>4, <2>2, <2>3 DEF Prefix, Reached, C
  <2> QED BY <2>1, <2>4 DEF Level
<1>5. \/ v = 0 /\ \A c \in Nat : c < n => ~Touches(c, k)
      \/ \E c \in Nat : /\ c < n /\ Touches(c, k) /\ v = DeltaValue(c, k)
                        /\ \A d \in Nat : c < d /\ d < n => ~Touches(d, k)
  BY DEF DeltaShows
<1> QED BY <1>3, <1>4, <1>5 DEF Level

LogNow == [k \in Keys |-> IF Promised THEN LogOf(k) ELSE <<>>]

AtNow == [k \in Keys |-> IF Promised THEN AppliedOps(k) ELSE 0]

ShownNow == [k \in Keys |-> IF Promised /\ shown[k] # 0 THEN {[ver |-> shown[k], copy |-> 1]} ELSE {}]

\* What an enforced run shows, as a state predicate.
SafeReading ==
    Promised => \A k \in Keys :
        /\ AppliedOps(k) = HalfPrefix(k) /\ AppliedOps(k) \in 0..Len(LogOf(k))
        /\ shown[k] = IF AppliedOps(k) = 0 THEN 0 ELSE LogOf(k)[AppliedOps(k)]

\* The invariant says what an enforced run shows.
LEMMA ReadingHolds == ArbInv => SafeReading
<1> SUFFICES ASSUME ArbInv, Promised, NEW k \in Keys
             PROVE  /\ AppliedOps(k) = HalfPrefix(k) /\ AppliedOps(k) \in 0..Len(LogOf(k))
                    /\ shown[k] = IF AppliedOps(k) = 0 THEN 0 ELSE LogOf(k)[AppliedOps(k)]
  BY DEF SafeReading
<1>1. PlanOK /\ next \in Nat /\ Format = "delta" BY DEF ArbInv, Promised
<1>2. AppliedOps(k) = HalfPrefix(k) BY AppliedOpsIs
<1>3. Len(LogOf(k)) = Len(lsns[k]) /\ Len(lsns[k]) \in Nat BY <1>1, LogShape
<1>4. CASE Planning
  <2>1. next = 0 /\ ~merged /\ shown[k] = 0 BY <1>4 DEF ArbInv
  <2>2. HalfPrefix(k) = 0 BY <2>1 DEF HalfPrefix, Prefix
  <2> QED BY <1>2, <1>3, <2>1, <2>2
<1>5. CASE ~Planning
  <2>1. RowsOfKey(Rows(next), k) # {} <=> Moves(k) BY <1>1, <1>5, SafeValue DEF Moves
  <2>2. IF HalfApplied(k) THEN shown[k] = LastRow(RowsOfKey(Rows(next), k))
        ELSE DeltaShows(next, k, shown[k])
    BY <1>1, <1>5 DEF ArbInv, TableShows
  <2>3. CASE HalfApplied(k)
    <3>1. merged /\ Moves(k) BY <2>1, <2>3 DEF HalfApplied
    <3>2. shown[k] = Level(next + 1, k) BY <1>1, <1>5, <2>1, <2>2, <2>3, <3>1, SafeValue
    <3>3. AppliedOps(k) = Prefix(next + 1, k) BY <1>2, <3>1 DEF HalfPrefix
    <3>4. Prefix(next + 1, k) \in 0..Len(lsns[k])
      <4>1. next + 1 \in Nat BY <1>1
      <4> QED BY <1>1, <1>5, <4>1, PrefixIn
    <3> QED BY <1>2, <1>3, <3>2, <3>3, <3>4 DEF Level
  <2>4. CASE ~HalfApplied(k)
    <3>1. ~(merged /\ Moves(k)) BY <2>1, <2>4 DEF HalfApplied
    <3>2. shown[k] = Level(next, k) BY <1>1, <1>5, <2>2, <2>4, SafeShows
    <3>3. AppliedOps(k) = Prefix(next, k) BY <1>2, <3>1 DEF HalfPrefix
    <3>4. Prefix(next, k) \in 0..Len(lsns[k]) BY <1>1, <1>5, PrefixIn
    <3> QED BY <1>2, <1>3, <3>2, <3>3, <3>4 DEF Level
  <2> QED BY <2>3, <2>4
<1> QED BY <1>4, <1>5

\* Each of Delta's two commits moves a key on by one version or not at all.
LEMMA OneOn ==
    ASSUME ArbInv, SafeReading, SafeReading', MergeData \/ DeleteKeys, Promised, NEW k \in Keys
    PROVE  AppliedOps(k)' = AppliedOps(k) \/ AppliedOps(k)' = AppliedOps(k) + 1
<1>1. stage = "apply" /\ UNCHANGED planVars /\ PlanOK /\ ~Planning /\ next \in Nat /\ UNCHANGED config
  BY DEF MergeData, DeleteKeys, ArbInv, Planning, planVars
<1>2. Promised' BY <1>1 DEF Promised, Format, Enforced
<1>3. AppliedOps(k) = HalfPrefix(k) /\ AppliedOps(k)' = HalfPrefix(k)' BY <1>2 DEF SafeReading
<1>4. Prefix(next + 1, k)' = Prefix(next' + 1, k) /\ Prefix(next, k)' = Prefix(next', k)
  <2>1. Changes(k)' = Changes(k) /\ (IsRead(k)' <=> IsRead(k)) BY <1>1, PlanFrozen
  <2> QED BY <2>1 DEF Prefix, Reached
<1>5. Prefix(next, k) \in Nat /\ (Prefix(next + 1, k) = Prefix(next, k) + 1 \/ Prefix(next + 1, k) = Prefix(next, k))
  BY <1>1, PrefixStep
<1>6. Prefix(next + 1, k) = Prefix(next, k) + 1 \/ Prefix(next + 1, k) = Prefix(next, k) BY <1>5
<1>7. CASE MergeData
  <2>1. ~merged /\ next' = next BY <1>7 DEF MergeData
  <2>2. HalfPrefix(k) = Prefix(next, k) BY <2>1 DEF HalfPrefix
  <2>3. HalfPrefix(k)' = Prefix(next, k) \/ HalfPrefix(k)' = Prefix(next + 1, k) BY <1>4, <2>1 DEF HalfPrefix
  <2> QED BY <1>3, <1>6, <2>2, <2>3
<1>8. CASE DeleteKeys
  <2>1. merged /\ merged' = FALSE /\ next' = next + 1 BY <1>8 DEF DeleteKeys
  <2>2. HalfPrefix(k) = Prefix(next, k) \/ HalfPrefix(k) = Prefix(next + 1, k) BY DEF HalfPrefix
  <2>3. HalfPrefix(k)' = Prefix(next + 1, k) BY <1>4, <2>1 DEF HalfPrefix
  <2> QED BY <1>3, <1>6, <2>2, <2>3
<1> QED BY <1>7, <1>8

\* A commit of an enforced run is a commit of the log.
LEMMA CommitApplies ==
    ASSUME ArbInv, SafeReading, SafeReading', MergeData \/ DeleteKeys, Promised
    PROVE  \E moved \in SUBSET Keys :
              /\ \A k \in moved : AtNow[k] < Len(LogNow[k])
              /\ AtNow' = [k \in Keys |-> IF k \in moved THEN AtNow[k] + 1 ELSE AtNow[k]]
              /\ ShownNow' = [k \in Keys |-> IF k \in moved THEN SafeLog!Shown(LogNow[k][AtNow[k] + 1]) ELSE ShownNow[k]]
              /\ LogNow' = LogNow
<1>1. UNCHANGED <<config, history, lsns>> /\ PlanOK BY DEF MergeData, DeleteKeys, planVars, ArbInv
<1>2. Promised' BY <1>1 DEF Promised, Format, Enforced
<1>3. \A k \in Keys : LogOf(k)' = LogOf(k) BY <1>1 DEF LogOf
<1> DEFINE moved == {k \in Keys : AppliedOps(k)' = AppliedOps(k) + 1}
           View(k) == IF shown[k] # 0 THEN {[ver |-> shown[k], copy |-> 1]} ELSE {}
<1>4. ASSUME NEW k \in Keys
      PROVE  /\ AppliedOps(k)' = IF k \in moved THEN AppliedOps(k) + 1 ELSE AppliedOps(k)
             /\ k \in moved => AppliedOps(k) < Len(LogOf(k))
             /\ View(k)' = IF k \in moved THEN SafeLog!Shown(LogOf(k)[AppliedOps(k) + 1]) ELSE View(k)
  <2>1. AppliedOps(k)' = IF k \in moved THEN AppliedOps(k) + 1 ELSE AppliedOps(k) BY OneOn
  <2>2. Len(LogOf(k)) \in Nat BY <1>1, LogShape
  <2>3. /\ AppliedOps(k) \in 0..Len(LogOf(k))
        /\ shown[k] = IF AppliedOps(k) = 0 THEN 0 ELSE LogOf(k)[AppliedOps(k)]
    BY DEF SafeReading
  <2>4. /\ AppliedOps(k)' \in 0..Len(LogOf(k))
        /\ shown'[k] = IF AppliedOps(k)' = 0 THEN 0 ELSE LogOf(k)[AppliedOps(k)']
    BY <1>2, <1>3 DEF SafeReading
  <2> HIDE DEF moved
  <2>5. k \in moved => AppliedOps(k) < Len(LogOf(k)) BY <2>1, <2>2, <2>3, <2>4
  <2>6. CASE k \in moved
    <3>1. AppliedOps(k)' = AppliedOps(k) + 1 /\ AppliedOps(k) + 1 # 0 BY <2>1, <2>3, <2>6
    <3>2. shown'[k] = LogOf(k)[AppliedOps(k) + 1] BY <2>4, <3>1
    <3> QED BY <2>1, <2>5, <2>6, <3>2 DEF SafeLog!Shown
  <2>7. CASE k \notin moved
    <3>1. shown'[k] = shown[k] BY <2>1, <2>3, <2>4, <2>7
    <3> QED BY <2>1, <2>7, <3>1
  <2> QED BY <2>6, <2>7
<1>5. /\ LogNow = [k \in Keys |-> LogOf(k)] /\ LogNow' = [k \in Keys |-> LogOf(k)']
      /\ AtNow = [k \in Keys |-> AppliedOps(k)] /\ AtNow' = [k \in Keys |-> AppliedOps(k)']
      /\ ShownNow = [k \in Keys |-> View(k)] /\ ShownNow' = [k \in Keys |-> View(k)']
  BY <1>2 DEF LogNow, AtNow, ShownNow
<1>6. moved \in SUBSET Keys OBVIOUS
<1> HIDE DEF moved, View
<1>7. LogNow' = LogNow BY <1>3, <1>5
<1>8. \A k \in moved : AtNow[k] < Len(LogNow[k]) BY <1>4, <1>5, <1>6
<1>9. AtNow' = [k \in Keys |-> IF k \in moved THEN AtNow[k] + 1 ELSE AtNow[k]] BY <1>4, <1>5
<1>10. ShownNow' = [k \in Keys |-> IF k \in moved THEN SafeLog!Shown(LogNow[k][AtNow[k] + 1]) ELSE ShownNow[k]]
  BY <1>4, <1>5
<1> QED BY <1>6, <1>7, <1>8, <1>9, <1>10

\* The source says something new about one key.
LEMMA EmitRecords ==
    ASSUME ArbInv, SafeReading, SafeReading', NEW k \in Keys, Emit(k),
           UNCHANGED <<next, merged, shown>>, Promised
    PROVE  /\ \A q \in Keys \ {k} : LogNow'[q] = LogNow[q]
           /\ Len(LogNow'[k]) = Len(LogNow[k]) + 1
           /\ SubSeq(LogNow'[k], 1, Len(LogNow[k])) = LogNow[k]
           /\ AtNow' = AtNow /\ ShownNow' = ShownNow
<1>1. UNCHANGED <<config, history, stage>> /\ Planning BY DEF Emit, Planning
<1>2. PlanOK /\ next = 0 /\ ~merged BY <1>1 DEF ArbInv
<1>3. Promised' BY <1>1 DEF Promised, Format, Enforced
<1>4. LogNow = [q \in Keys |-> LogOf(q)] /\ LogNow' = [q \in Keys |-> LogOf(q)'] BY <1>3 DEF LogNow
<1>5. /\ \A q \in Keys \ {k} : LogOf(q)' = LogOf(q)
      /\ Len(LogOf(k)') = Len(LogOf(k)) + 1
      /\ SubSeq(LogOf(k)', 1, Len(LogOf(k))) = LogOf(k)
  BY <1>2, LogGrows
<1>6. \A q \in Keys : AppliedOps(q) = 0 /\ AppliedOps(q)' = 0
  <2> SUFFICES ASSUME NEW q \in Keys PROVE AppliedOps(q) = 0 /\ AppliedOps(q)' = 0 OBVIOUS
  <2>1. AppliedOps(q) = HalfPrefix(q) /\ AppliedOps(q)' = HalfPrefix(q)' BY <1>3 DEF SafeReading
  <2>2. HalfPrefix(q) = 0 BY <1>2 DEF HalfPrefix, Prefix
  <2>3. HalfPrefix(q)' = 0 BY <1>2 DEF HalfPrefix, Prefix
  <2> QED BY <2>1, <2>2, <2>3
<1>7. AtNow' = AtNow BY <1>3, <1>6 DEF AtNow
<1>8. ShownNow' = ShownNow BY <1>3 DEF ShownNow
<1> QED BY <1>4, <1>5, <1>7, <1>8

\* No other step of an enforced run, and no step of another run, shows anything new.
LEMMA ElseStutters ==
    ASSUME ArbInv, [Next]_vars, Promised => ~MergeData /\ ~DeleteKeys /\ ~\E k \in Keys : Emit(k)
    PROVE  LogNow' = LogNow /\ AtNow' = AtNow /\ ShownNow' = ShownNow
<1>1. UNCHANGED <<config, history>>
  BY DEF vars, planVars, Next, PlanNext, Emit, Skew, BuildPlan, BulkUpsert, DeleteTails, MergeData,
         DeleteKeys, Reconcile
<1>2. Promised' <=> Promised BY <1>1 DEF Promised, Format, Enforced
<1>3. CASE ~Promised BY <1>2, <1>3 DEF LogNow, AtNow, ShownNow
<1>4. CASE Promised
  <2>1. Format = "delta" BY <1>4 DEF Promised
  <2>2. UNCHANGED <<lsns, next, merged, shown>>
    BY <1>4, <2>1 DEF vars, planVars, Next, PlanNext, Skew, BuildPlan, BulkUpsert, DeleteTails, Reconcile
  <2>3. \A k \in Keys : LogOf(k)' = LogOf(k) BY <1>1, <2>2 DEF LogOf
  <2>4. \A k \in Keys : AppliedOps(k)' = AppliedOps(k)
    BY <1>1, <2>2 DEF AppliedOps, Changes, IsRead, Op, Index
  <2> QED BY <1>2, <1>4, <2>2, <2>3, <2>4 DEF LogNow, AtNow, ShownNow
<1> QED BY <1>3, <1>4

\* DeltaFollowsUpsertLog holds: an enforced run on Delta implements the per-key log,
\* although a checkpoint takes two commits (delta_driver.py 82-93): a reader
\* between them sees some keys moved on by one version, and none lost or turned back.
THEOREM EnforcedDeltaFollowsTheLog == Spec => DeltaFollowsUpsertLog
<1>1. Init => SafeLog!LogInit
  <2> SUFFICES ASSUME Init PROVE SafeLog!LogInit OBVIOUS
  <2>1. ArbInv /\ SafeReading BY ArbStarts, ReadingHolds
  <2>2. (\A k \in Keys : lsns[k] = <<>>) /\ next = 0 /\ ~merged /\ shown = [k \in Keys |-> 0]
    BY DEF Init, PlanInit
  <2>3. \A k \in Keys : LogOf(k) = <<>>
    <3> SUFFICES ASSUME NEW k \in Keys PROVE LogOf(k) = <<>> OBVIOUS
    <3>1. Len(lsns[k]) = 0 BY <2>2, EmptySeq
    <3>2. LogOf(k) \in Seq(Nat) /\ Len(LogOf(k)) = 0 BY <2>1, <3>1, LogShape DEF ArbInv
    <3> QED BY <3>2, EmptySeq
  <2>4. \A k \in Keys : Promised => AppliedOps(k) = 0 BY <2>1, <2>2 DEF SafeReading, HalfPrefix, Prefix
  <2>5. /\ LogNow = [k \in Keys |-> <<>>] /\ AtNow = [k \in Keys |-> 0] /\ ShownNow = [k \in Keys |-> {}]
    BY <2>2, <2>3, <2>4 DEF LogNow, AtNow, ShownNow
  <2> QED BY <2>5 DEF SafeLog!LogInit, LogNow, AtNow, ShownNow, LogOf
<1>2. ArbInv /\ SafeReading /\ SafeReading' /\ [Next]_vars => [SafeLog!LogNext]_SafeLog!logVars
  <2> SUFFICES ASSUME ArbInv, SafeReading, SafeReading', [Next]_vars
               PROVE  SafeLog!LogNext \/ UNCHANGED SafeLog!logVars
    OBVIOUS
  <2>1. CASE Promised /\ (MergeData \/ DeleteKeys)
    <3>1. PICK moved \in SUBSET Keys :
              /\ \A k \in moved : AtNow[k] < Len(LogNow[k])
              /\ AtNow' = [k \in Keys |-> IF k \in moved THEN AtNow[k] + 1 ELSE AtNow[k]]
              /\ ShownNow' = [k \in Keys |-> IF k \in moved THEN SafeLog!Shown(LogNow[k][AtNow[k] + 1]) ELSE ShownNow[k]]
              /\ LogNow' = LogNow
      BY <2>1, CommitApplies
    <3>2. SafeLog!Apply(moved) BY <3>1 DEF SafeLog!Apply, LogNow, AtNow, ShownNow, LogOf
    <3> QED BY <3>2 DEF SafeLog!LogNext
  <2>2. CASE Promised /\ \E k \in Keys : Emit(k)
    <3>1. PICK k \in Keys : Emit(k) BY <2>2
    <3>2. UNCHANGED <<next, merged, shown>>
      <4>1. stage = "stream" BY <3>1 DEF Emit
      <4>2. ~merged BY <4>1 DEF ArbInv
      <4>3. [Next]_vars OBVIOUS
      <4> QED BY <4>1, <4>2, <4>3 DEF vars, Next, BulkUpsert, DeleteTails, MergeData, DeleteKeys, Reconcile
    <3>3. /\ \A q \in Keys \ {k} : LogNow'[q] = LogNow[q]
          /\ Len(LogNow'[k]) = Len(LogNow[k]) + 1
          /\ SubSeq(LogNow'[k], 1, Len(LogNow[k])) = LogNow[k]
          /\ AtNow' = AtNow /\ ShownNow' = ShownNow
      BY <2>2, <3>1, <3>2, EmitRecords
    <3>4. SafeLog!Record(k) BY <3>3 DEF SafeLog!Record, LogNow, AtNow, ShownNow, LogOf
    <3> QED BY <3>4 DEF SafeLog!LogNext
  <2>3. CASE Promised => ~MergeData /\ ~DeleteKeys /\ ~\E k \in Keys : Emit(k)
    <3>1. LogNow' = LogNow /\ AtNow' = AtNow /\ ShownNow' = ShownNow BY <2>3, ElseStutters
    <3> QED BY <3>1 DEF SafeLog!logVars, LogNow, AtNow, ShownNow, LogOf
  <2> QED BY <2>1, <2>2, <2>3
<1> QED BY <1>1, <1>2, ArbHolds, ReadingHolds, PTL DEF Spec, DeltaFollowsUpsertLog, SafeLog!LogSpec
==============================================================================
