----------------------------- MODULE Reports_proofs -----------------------------
(***************************************************************************)
(* The two programs that are run over and over and leave a report: mor-    *)
(* check on tables of any size, with any number of key columns and any     *)
(* versions, and the harness's resumable sweep over any list of            *)
(* configurations, started and killed any number of times.                 *)
(*                                                                         *)
(* mor-check: a clean exit certifies what a reader gets, more context      *)
(* overturns no verdict that settles a key, the metadata screen reports    *)
(* what it says, and only a lost hint makes the checker read an old table. *)
(* The sweep: a success is the last record of its configuration, a sweep   *)
(* that ends has a record of every configuration save for the two that a   *)
(* torn line can cost, and the CSV file follows the JSONL file.            *)
(***************************************************************************)
EXTENDS CheckerCases, Sweep, LayoutLemmas, SequenceTheorems

-----------------------------------------------------------------------------
\* The invariant.

AnyVersion == Nat \cup {NoVersion}

Ids == {Id(n) : n \in Nat}

\* The key tuples of the table: the scripts have one key column.
TableKeys == IF script = "free" THEN Keys ELSE Ids

Commits(K) ==
    {c \in [rows : SUBSET [part : Nat, key : K, ver : AnyVersion], deletes : SUBSET K] :
        IsFiniteSet(c.rows) /\ IsFiniteSet(c.deletes)}

\* A file is named for its commit, so its rows share a sequence number.
FilesOK(T) == \A r \in T.data : r.file = <<r.seq, r.part>>

CasesTables(K) ==
    {T \in Table(K, AnyVersion) : IsFiniteSet(T.data) /\ IsFiniteSet(T.dels) /\ FilesOK(T)}

CasesTypeOK ==
    /\ script \in DOMAIN Scripts \cup {"free"}
    /\ plan \in Seq(Commits(TableKeys))
    /\ metadata \in Seq(CasesTables(TableKeys)) /\ metadata # <<>>
    /\ hint \in 0..Len(metadata)
    /\ checked.of \in 0..Len(metadata)

\* A report is of the metadata file it names, found through the hint, and a script
\* commits nothing after its check.
ReportOK ==
    checked.of # 0 =>
        /\ plan = <<>>
        /\ checked.options \in Options
        /\ checked.of = ResolveMetadata(DOMAIN metadata, hint)
        /\ checked.report = BuildReport(metadata[checked.of], checked.options)

CasesInv == CasesTypeOK /\ ReportOK

-----------------------------------------------------------------------------
\* The scripts.

\* Sets of up to three elements are finite.
LEMMA SmallSets ==
    ASSUME NEW a, NEW b, NEW c
    PROVE  IsFiniteSet({}) /\ IsFiniteSet({a}) /\ IsFiniteSet({a, b}) /\ IsFiniteSet({a, b, c})
<1>1. IsFiniteSet({}) /\ IsFiniteSet({a}) BY FS_EmptySet, FS_Singleton
<1>2. IsFiniteSet({a} \cup {b}) BY <1>1, FS_AddElement
<1>3. IsFiniteSet(({a} \cup {b}) \cup {c}) BY <1>2, FS_AddElement
<1>4. {a, b} = {a} \cup {b} /\ {a, b, c} = ({a} \cup {b}) \cup {c} OBVIOUS
<1> QED BY <1>1, <1>2, <1>3, <1>4

RowSets == {R \in SUBSET (Nat \X Nat) : IsFiniteSet(R)}

\* A batch of finitely many rows is a commit that a script may make.
LEMMA BatchIsCommit ==
    ASSUME NEW part \in Nat, NEW rows \in RowSets
    PROVE  Batch(part, rows) \in Commits(Ids)
<1> DEFINE R == {Written(part, r[1], r[2]) : r \in rows}
           D == {Id(r[1]) : r \in rows}
<1>1. IsFiniteSet(rows) /\ \A r \in rows : r[1] \in Nat /\ r[2] \in Nat BY DEF RowSets
<1>2. R \in SUBSET [part : Nat, key : Ids, ver : AnyVersion] BY <1>1 DEF Written, Ids, AnyVersion
<1>3. D \in SUBSET Ids BY <1>1 DEF Ids
<1>4. IsFiniteSet(R)
  <2> DEFINE f == [r \in rows |-> Written(part, r[1], r[2])]
  <2>1. f \in [rows -> R] /\ \A t \in R : \E r \in rows : f[r] = t OBVIOUS
  <2> HIDE DEF f, R
  <2> QED BY <1>1, <2>1, FiniteImage
<1>5. IsFiniteSet(D)
  <2> DEFINE f == [r \in rows |-> Id(r[1])]
  <2>1. f \in [rows -> D] /\ \A t \in D : \E r \in rows : f[r] = t OBVIOUS
  <2> HIDE DEF f, D
  <2> QED BY <1>1, <2>1, FiniteImage
<1>6. Batch(part, rows) = [rows |-> R, deletes |-> D] BY DEF Batch, DeltaCommit
<1> HIDE DEF R, D
<1> QED BY <1>2, <1>3, <1>4, <1>5, <1>6 DEF Commits

\* After the fix: a commit per batch.
LEMMA PostFixIsPlan ==
    ASSUME NEW batches \in Seq(RowSets)
    PROVE  PostFix(batches) \in Seq(Commits(Ids))
<1>1. DOMAIN batches = 1..Len(batches) /\ Len(batches) \in Nat OBVIOUS
<1>2. ASSUME NEW i \in 1..Len(batches) PROVE Batch(1, batches[i]) \in Commits(Ids)
  <2>1. batches[i] \in RowSets BY <1>2
  <2> QED BY <2>1, BatchIsCommit
<1>3. PostFix(batches) = [i \in 1..Len(batches) |-> Batch(1, batches[i])] BY <1>1 DEF PostFix
<1>4. PostFix(batches) \in [1..Len(batches) -> Commits(Ids)] BY <1>2, <1>3
<1> QED BY <1>1, <1>4, SeqDef

\* Before it: one commit for all.
LEMMA PreFixIsPlan ==
    ASSUME NEW batches \in Seq(RowSets)
    PROVE  PreFix(batches) \in Seq(Commits(Ids))
<1> DEFINE n == Len(batches)
           numbered == [i \in 1..n |-> Batch(i, batches[i])]
           Rows == {c.rows : c \in Range(numbered)}
           Dels == {c.deletes : c \in Range(numbered)}
<1>1. DOMAIN batches = 1..n /\ n \in Nat OBVIOUS
<1>2. \A i \in 1..n : numbered[i] \in Commits(Ids)
  <2> SUFFICES ASSUME NEW i \in 1..n PROVE Batch(i, batches[i]) \in Commits(Ids) OBVIOUS
  <2>1. batches[i] \in RowSets /\ i \in Nat OBVIOUS
  <2> QED BY <2>1, BatchIsCommit
<1>3. PreFix(batches) = <<[rows |-> UNION Rows, deletes |-> UNION Dels]>>
  BY <1>1 DEF PreFix, DeltaCommit
<1>4. IsFiniteSet(1..n)
  <2>1. 1 \in Int /\ n \in Int BY <1>1
  <2> QED BY <2>1, FS_Interval
<1>5. DOMAIN numbered = 1..n OBVIOUS
<1> HIDE DEF numbered
<1>6. \A c \in Range(numbered) : c \in Commits(Ids) BY <1>2, <1>5 DEF Range
<1>7. IsFiniteSet(Rows)
  <2> DEFINE f == [i \in 1..n |-> numbered[i].rows]
  <2>1. f \in [1..n -> Rows] /\ \A t \in Rows : \E i \in 1..n : f[i] = t BY <1>5 DEF Range
  <2> HIDE DEF f, Rows
  <2> QED BY <1>4, <2>1, FiniteImage
<1>8. IsFiniteSet(Dels)
  <2> DEFINE f == [i \in 1..n |-> numbered[i].deletes]
  <2>1. f \in [1..n -> Dels] /\ \A t \in Dels : \E i \in 1..n : f[i] = t BY <1>5 DEF Range
  <2> HIDE DEF f, Dels
  <2> QED BY <1>4, <2>1, FiniteImage
<1>9. \A t \in Rows : IsFiniteSet(t) /\ t \in SUBSET [part : Nat, key : Ids, ver : AnyVersion]
  BY <1>6 DEF Commits
<1>10. \A t \in Dels : IsFiniteSet(t) /\ t \in SUBSET Ids BY <1>6 DEF Commits
<1> HIDE DEF Rows, Dels
<1>11. IsFiniteSet(UNION Rows) /\ IsFiniteSet(UNION Dels) BY <1>7, <1>8, <1>9, <1>10, FS_UNION
<1>12. [rows |-> UNION Rows, deletes |-> UNION Dels] \in Commits(Ids) BY <1>9, <1>10, <1>11 DEF Commits
<1> QED BY <1>3, <1>12

\* Every script is a sequence of finite commits with one key column.
LEMMA ScriptsArePlans == \A name \in DOMAIN Scripts : Scripts[name] \in Seq(Commits(Ids))
<1>1. \A p, q, r \in Nat \X Nat : {p} \in RowSets /\ {p, q} \in RowSets /\ {p, q, r} \in RowSets
  BY SmallSets DEF RowSets
<1>2. <<1, 1>> \in Nat \X Nat /\ <<1, 2>> \in Nat \X Nat /\ <<2, 2>> \in Nat \X Nat
      /\ <<3, 3>> \in Nat \X Nat /\ <<1, 4>> \in Nat \X Nat /\ <<2, 5>> \in Nat \X Nat
      /\ <<1, 6>> \in Nat \X Nat /\ <<3, 7>> \in Nat \X Nat
  OBVIOUS
<1>3. BadEqualSeq \in Seq(Commits(Ids))
  <2>1. {<<1, 1>>, <<1, 2>>} \in RowSets BY <1>1, <1>2
  <2>2. Batch(1, {<<1, 1>>, <<1, 2>>}) \in Commits(Ids) BY <2>1, BatchIsCommit
  <2> QED BY <2>2 DEF BadEqualSeq
<1>4. \A v \in Nat, ks \in SUBSET {Id(1)} :
          DeltaCommit({Written(1, 1, v)}, ks) \in Commits(Ids) /\ DeltaCommit({}, ks) \in Commits(Ids)
  <2> SUFFICES ASSUME NEW v \in Nat, NEW ks \in SUBSET {Id(1)}
               PROVE  DeltaCommit({Written(1, 1, v)}, ks) \in Commits(Ids) /\ DeltaCommit({}, ks) \in Commits(Ids)
    OBVIOUS
  <2>1. IsFiniteSet({Written(1, 1, v)}) /\ IsFiniteSet({}) /\ IsFiniteSet({Id(1)}) BY SmallSets
  <2>2. IsFiniteSet(ks) BY <2>1, FS_Subset
  <2>3. Written(1, 1, v) \in [part : Nat, key : Ids, ver : AnyVersion] BY DEF Written, Ids, AnyVersion
  <2>4. ks \in SUBSET Ids BY DEF Ids
  <2> QED BY <2>1, <2>2, <2>3, <2>4 DEF DeltaCommit, Commits
<1>5. GoodAscending \in Seq(Commits(Ids)) BY <1>4 DEF GoodAscending
<1>6. WronglySuppressed \in Seq(Commits(Ids)) BY <1>4 DEF WronglySuppressed
<1>7. RealWorldUpserts \in Seq(Commits(Ids))
  <2>1. /\ {<<1, 1>>, <<2, 2>>, <<3, 3>>} \in RowSets
        /\ {<<1, 4>>, <<2, 5>>} \in RowSets /\ {<<1, 6>>, <<3, 7>>} \in RowSets
    BY <1>1, <1>2
  <2>2. <<{<<1, 1>>, <<2, 2>>, <<3, 3>>}, {<<1, 4>>, <<2, 5>>}, {<<1, 6>>, <<3, 7>>}>> \in Seq(RowSets)
    BY <2>1
  <2> QED BY <2>2, PostFixIsPlan DEF RealWorldUpserts
<1>8. SchemaSplit \in Seq(RowSets)
  <2>1. {<<1, 1>>} \in RowSets /\ {<<1, 2>>} \in RowSets BY <1>1, <1>2
  <2> QED BY <2>1 DEF SchemaSplit
<1>9. PreFix(SchemaSplit) \in Seq(Commits(Ids)) /\ PostFix(SchemaSplit) \in Seq(Commits(Ids))
  BY <1>8, PreFixIsPlan, PostFixIsPlan
<1> QED BY <1>3, <1>5, <1>6, <1>7, <1>9 DEF Scripts

-----------------------------------------------------------------------------
\* The directory.

\* A commit adds a metadata file with a finite table in it.
LEMMA SnapshotAdded ==
    ASSUME CasesTypeOK, NEW commit \in Commits(TableKeys), AddSnapshot(commit), script' = script
    PROVE  /\ metadata' \in Seq(CasesTables(TableKeys'))
           /\ Len(metadata') = Len(metadata) + 1 /\ metadata' # <<>>
           /\ \A n \in DOMAIN metadata : metadata'[n] = metadata[n]
           /\ hint' \in 0..Len(metadata')
<1> DEFINE K == TableKeys
           id == Len(metadata)
           add(r) == [commit |-> id, part |-> r.part, key |-> r.key, ver |-> r.ver,
                      file |-> <<id, r.part>>, seq |-> id]
           del(k) == [key |-> k, seq |-> id]
           added == {add(r) : r \in commit.rows}
           deleted == {del(k) : k \in commit.deletes}
           T == [data |-> Table0.data \cup added, dels |-> Table0.dels \cup deleted]
<1>1. metadata' = Append(metadata, T) /\ hint' \in IF hint = 0 THEN {0} ELSE {hint, id + 1}
  BY DEF AddSnapshot
<1>2. /\ metadata \in Seq(CasesTables(K)) /\ id \in Nat /\ id \in 1..id /\ hint \in 0..id
  BY DEF CasesTypeOK
<1>3. Table0 \in CasesTables(K)
  <2> HIDE DEF K
  <2> QED BY <1>2 DEF Table0
<1>4. /\ commit.rows \in SUBSET [part : Nat, key : K, ver : AnyVersion] /\ IsFiniteSet(commit.rows)
      /\ commit.deletes \in SUBSET K /\ IsFiniteSet(commit.deletes)
  BY DEF Commits
<1>5. added \in SUBSET Row(K, AnyVersion) /\ \A r \in added : r.file = <<r.seq, r.part>>
  <2> HIDE DEF K
  <2> QED BY <1>2, <1>4 DEF Row, File
<1>6. deleted \in SUBSET Del(K)
  <2> HIDE DEF K
  <2> QED BY <1>2, <1>4 DEF Del
<1>7. IsFiniteSet(added)
  <2> DEFINE f == [r \in commit.rows |-> add(r)]
  <2>1. f \in [commit.rows -> added] /\ \A t \in added : \E r \in commit.rows : f[r] = t OBVIOUS
  <2> HIDE DEF f, added
  <2> QED BY <1>4, <2>1, FiniteImage
<1>8. IsFiniteSet(deleted)
  <2> DEFINE f == [k \in commit.deletes |-> del(k)]
  <2>1. f \in [commit.deletes -> deleted] /\ \A t \in deleted : \E k \in commit.deletes : f[k] = t OBVIOUS
  <2> HIDE DEF f, deleted
  <2> QED BY <1>4, <2>1, FiniteImage
<1> HIDE DEF added, deleted, K
<1>9. T \in CasesTables(K)
  <2>1. /\ Table0.data \in SUBSET Row(K, AnyVersion) /\ Table0.dels \in SUBSET Del(K)
        /\ IsFiniteSet(Table0.data) /\ IsFiniteSet(Table0.dels)
        /\ \A r \in Table0.data : r.file = <<r.seq, r.part>>
    BY <1>3 DEF CasesTables, Table, FilesOK
  <2>2. IsFiniteSet(Table0.data \cup added) /\ IsFiniteSet(Table0.dels \cup deleted)
    BY <1>7, <1>8, <2>1, FS_Union
  <2> QED BY <1>5, <1>6, <2>1, <2>2 DEF CasesTables, Table, FilesOK
<1>10. TableKeys' = K BY DEF TableKeys, K
<1> HIDE DEF T
<1>11. /\ metadata' \in Seq(CasesTables(K)) /\ Len(metadata') = id + 1
       /\ \A n \in 1..id : metadata'[n] = metadata[n]
  <2> HIDE DEF id
  <2>1. id = Len(metadata) BY DEF id
  <2> QED BY <1>1, <1>2, <1>9, <2>1
<1>12. metadata' # <<>> BY <1>2, <1>11
<1>13. hint' \in 0..id + 1
  <2> HIDE DEF id
  <2> QED BY <1>1, <1>2
<1>14. DOMAIN metadata = 1..id BY <1>2
<1> QED BY <1>10, <1>11, <1>12, <1>13, <1>14

\* What is committed to a free table is a finite commit.
LEMMA FreeCommit ==
    ASSUME NEW n, NEW d, NEW rows \in kSubset(n, [part : 1..MaxParts, key : Keys, ver : Versions]),
           NEW deletes \in kSubset(d, Keys)
    PROVE  DeltaCommit(rows, deletes) \in Commits(Keys)
<1> DEFINE All == [part : 1..MaxParts, key : Keys, ver : Versions]
           Triples == ((1..MaxParts) \X Keys) \X Versions
           f == [t \in Triples |-> [part |-> t[1][1], key |-> t[1][2], ver |-> t[2]]]
<1>1. rows \in SUBSET All /\ deletes \in SUBSET Keys BY DEF kSubset
<1>2. IsFiniteSet(Triples)
  <2>1. 1 \in Int /\ MaxParts \in Int BY CasesAssumption
  <2>2. IsFiniteSet(1..MaxParts) BY <2>1, FS_Interval
  <2>3. IsFiniteSet((1..MaxParts) \X Keys) BY <2>2, CasesAssumption, FS_Product
  <2> QED BY <2>3, CasesAssumption, FS_Product
<1>3. IsFiniteSet(All)
  <2>1. f \in [Triples -> All] OBVIOUS
  <2>2. ASSUME NEW t \in All PROVE \E s \in Triples : f[s] = t
    <3>1. t.part \in 1..MaxParts /\ t.key \in Keys /\ t.ver \in Versions OBVIOUS
    <3>2. <<<<t.part, t.key>>, t.ver>> \in Triples BY <3>1
    <3>3. f[<<<<t.part, t.key>>, t.ver>>] = [part |-> t.part, key |-> t.key, ver |-> t.ver] BY <3>2
    <3>4. t = [part |-> t.part, key |-> t.key, ver |-> t.ver] OBVIOUS
    <3> QED BY <3>2, <3>3, <3>4
  <2> HIDE DEF f, All, Triples
  <2> QED BY <1>2, <2>1, <2>2, FiniteImage
<1>4. IsFiniteSet(rows) /\ IsFiniteSet(deletes)
  <2> HIDE DEF All
  <2> QED BY <1>1, <1>3, CasesAssumption, FS_Subset
<1>5. rows \in SUBSET [part : Nat, key : Keys, ver : AnyVersion]
  <2>1. All \subseteq [part : Nat, key : Keys, ver : AnyVersion]
    <3>1. 1..MaxParts \subseteq Nat /\ Versions \subseteq AnyVersion BY CasesAssumption DEF AnyVersion
    <3> QED BY <3>1
  <2> QED BY <1>1, <2>1
<1> QED BY <1>1, <1>4, <1>5 DEF DeltaCommit, Commits

\* The checker reads a metadata file that is there.
LEMMA ResolvedIsThere ==
    ASSUME CasesTypeOK
    PROVE  LET n == ResolveMetadata(DOMAIN metadata, hint)
           IN  n \in 1..Len(metadata) /\ n = IF hint = 0 THEN Len(metadata) ELSE hint
<1>1. DOMAIN metadata = 1..Len(metadata) /\ Len(metadata) \in Nat \ {0} BY DEF CasesTypeOK
<1>2. CASE hint # 0
  <2>1. hint \in 1..Len(metadata) BY <1>2 DEF CasesTypeOK
  <2> QED BY <1>1, <1>2, <2>1 DEF ResolveMetadata
<1>3. CASE hint = 0
  <2>1. hint \notin 1..Len(metadata) BY <1>3
  <2> DEFINE S == 1..Len(metadata)
  <2>2. IsFiniteSet(S)
    <3>1. 1 \in Int /\ Len(metadata) \in Int BY <1>1
    <3> QED BY <3>1, FS_Interval
  <2>3. S \in SUBSET Nat /\ S # {} /\ Len(metadata) \in S BY <1>1
  <2>4. Max(S) \in S /\ Max(S) >= Len(metadata)
    <3> HIDE DEF S
    <3> QED BY <2>2, <2>3, MaxMin
  <2>5. Max(S) = Len(metadata) BY <1>1, <2>4
  <2> QED BY <1>1, <1>3, <2>1, <2>3, <2>5 DEF ResolveMetadata
<1> QED BY <1>2, <1>3

\* Tables grow by finite commits and a report is of the table it names.
THEOREM CasesInvariant == Spec => []CasesInv
<1>1. Init => CasesInv
  <2> SUFFICES ASSUME Init PROVE CasesInv OBVIOUS
  <2>1. script \in DOMAIN Scripts \cup {"free"} BY DEF Init
  <2>2. script # "free" => script \in DOMAIN Scripts /\ plan = Scripts[script] BY DEF Init
  <2>3. script = "free" => plan = <<>>
    <3>1. "free" \notin DOMAIN Scripts BY DEF Scripts
    <3> QED BY <3>1 DEF Init
  <2>4. plan \in Seq(Commits(TableKeys))
    <3>1. CASE script = "free" BY <2>3, <3>1
    <3>2. CASE script # "free" BY <2>2, <3>2, ScriptsArePlans DEF TableKeys
    <3> QED BY <3>1, <3>2
  <2>5. EmptyTable \in CasesTables(TableKeys)
    BY FS_EmptySet DEF EmptyTable, CasesTables, Table, FilesOK
  <2>6. metadata = <<EmptyTable>> /\ hint \in {0, 1} BY DEF Init
  <2>7. checked.of = 0 BY DEF Init, NotChecked
  <2> QED BY <2>1, <2>4, <2>5, <2>6, <2>7 DEF CasesInv, CasesTypeOK, ReportOK
<1>2. CasesInv /\ [Next]_vars => CasesInv'
  <2> SUFFICES ASSUME CasesInv, [Next]_vars PROVE CasesInv' OBVIOUS
  <2>0. CasesTypeOK /\ ReportOK BY DEF CasesInv
  <2>1. CASE Commit
    <3>1. PICK n, d : \E rows \in kSubset(n, [part : 1..MaxParts, key : Keys, ver : Versions]),
                         deletes \in kSubset(d, Keys) : AddSnapshot(DeltaCommit(rows, deletes))
      BY <2>1 DEF Commit
    <3>2. PICK rows \in kSubset(n, [part : 1..MaxParts, key : Keys, ver : Versions]),
               deletes \in kSubset(d, Keys) : AddSnapshot(DeltaCommit(rows, deletes))
      BY <3>1
    <3>3. script = "free" /\ script' = script /\ plan' = plan /\ checked' = NotChecked BY <2>1 DEF Commit
    <3>4. DeltaCommit(rows, deletes) \in Commits(TableKeys) BY <3>3, FreeCommit DEF TableKeys
    <3>5. /\ metadata' \in Seq(CasesTables(TableKeys')) /\ metadata' # <<>>
          /\ Len(metadata') = Len(metadata) + 1 /\ hint' \in 0..Len(metadata')
      BY <2>0, <3>2, <3>3, <3>4, SnapshotAdded
    <3>6. checked'.of = 0 BY <3>3 DEF NotChecked
    <3>7. TableKeys' = TableKeys BY <3>3 DEF TableKeys
    <3>8. Len(metadata') \in Nat BY <3>5
    <3>9. CasesTypeOK' BY <2>0, <3>3, <3>5, <3>6, <3>7, <3>8 DEF CasesTypeOK
    <3> QED BY <3>6, <3>9 DEF CasesInv, ReportOK
  <2>2. CASE ScriptCommit
    <3>1. plan # <<>> /\ AddSnapshot(Head(plan)) /\ plan' = Tail(plan) /\ script' = script /\ checked' = checked
      BY <2>2 DEF ScriptCommit
    <3> DEFINE C == Commits(TableKeys)
    <3>2. plan \in Seq(C) BY <2>0 DEF CasesTypeOK
    <3>3. Head(plan) \in C /\ Tail(plan) \in Seq(C)
      <4> HIDE DEF C
      <4> QED BY <3>1, <3>2
    <3>4. /\ metadata' \in Seq(CasesTables(TableKeys')) /\ metadata' # <<>>
          /\ Len(metadata') = Len(metadata) + 1 /\ hint' \in 0..Len(metadata')
      BY <2>0, <3>1, <3>3, SnapshotAdded
    <3>5. checked'.of = 0 BY <2>0, <3>1 DEF ReportOK
    <3>6. TableKeys' = TableKeys BY <3>1 DEF TableKeys
    <3>7. Len(metadata') \in Nat BY <3>4
    <3>8. CasesTypeOK' BY <2>0, <3>1, <3>3, <3>4, <3>5, <3>6, <3>7 DEF CasesTypeOK
    <3> QED BY <3>5, <3>8 DEF CasesInv, ReportOK
  <2>3. ASSUME NEW options \in CommandLines, Check(options) PROVE CasesInv'
    <3> DEFINE n == ResolveMetadata(DOMAIN metadata, hint)
    <3>1. /\ plan = <<>> /\ script' = script /\ plan' = plan /\ metadata' = metadata /\ hint' = hint
          /\ checked' = [of |-> n, options |-> options, report |-> BuildReport(metadata[n], options)]
      BY <2>3 DEF Check
    <3>2. n \in 1..Len(metadata) BY <2>0, ResolvedIsThere
    <3> HIDE DEF n
    <3>3. checked'.of = n /\ checked'.options = options /\ checked'.report = BuildReport(metadata[n], options)
      BY <3>1
    <3>4. TableKeys' = TableKeys BY <3>1 DEF TableKeys
    <3>5. CasesTypeOK' BY <2>0, <3>1, <3>2, <3>3, <3>4 DEF CasesTypeOK
    <3>6. ReportOK' BY <3>1, <3>3, CasesAssumption DEF ReportOK, n
    <3> QED BY <3>5, <3>6 DEF CasesInv
  <2>4. CASE UNCHANGED vars
    <3>1. TableKeys' = TableKeys BY <2>4 DEF vars, TableKeys
    <3> QED BY <2>0, <2>4, <3>1 DEF vars, CasesInv, CasesTypeOK, ReportOK
  <2> QED BY <2>1, <2>2, <2>3, <2>4 DEF Next
<1> QED BY <1>1, <1>2, PTL DEF Spec

-----------------------------------------------------------------------------
\* The properties.

\* What is checked is not the newest table only if a hint names another
\* (adapters/iceberg.py:34-61).
THEOREM StaleByHint == Spec => []StaleOnlyByHint
<1>1. CasesInv => StaleOnlyByHint
  <2> SUFFICES ASSUME CasesInv, Done, checked.of # Len(metadata) PROVE hint # 0 /\ checked.of = hint
    BY DEF StaleOnlyByHint
  <2> QED BY ResolvedIsThere DEF CasesInv, ReportOK, Done
<1> QED BY <1>1, CasesInvariant, PTL

\* The table a report is of.
LEMMA SeenIsTable ==
    ASSUME CasesInv, Done
    PROVE  /\ Seen \in CasesTables(TableKeys) /\ Seen \in Table(TableKeys, AnyVersion)
           /\ IsFiniteSet(Seen.data) /\ IsFiniteSet(Seen.dels)
           /\ checked.options \in Options
           /\ checked.report = BuildReport(Seen, checked.options)
<1>1. checked.of \in 1..Len(metadata) /\ metadata \in Seq(CasesTables(TableKeys))
  BY DEF CasesInv, CasesTypeOK, Done
<1>2. Seen \in CasesTables(TableKeys) BY <1>1 DEF Seen
<1>3. checked.options \in Options /\ checked.report = BuildReport(Seen, checked.options)
  BY DEF CasesInv, ReportOK, Done, Seen
<1> QED BY <1>2, <1>3 DEF CasesTables

\* A key's verdict by the rows a reader sees of it.
LEMMA VerdictIs ==
    ASSUME NEW K, NEW T \in Table(K, AnyVersion), IsFiniteSet(T.data), IsFiniteSet(T.dels), NEW k,
           NEW o \in Options
    PROVE  LET Live == RowsOf(LiveRows(T), k)
           IN  /\ Live = {} =>
                     Verdict(T, k, o) = IF RowsOf(T.data, k) = {} THEN "FAITHFUL"
                                        ELSE IF o.upsertOnly THEN "WRONGLY_SUPPRESSED_CURRENT"
                                        ELSE "NEEDS_CONTEXT"
               /\ Live # {} /\ (~\E s : Live = {s}) => Verdict(T, k, o) = "DUPLICATE"
               /\ \A s : Live = {s} =>
                     Verdict(T, k, o) =
                         IF ~o.hasVersion \/ s.ver = NoVersion THEN "UNDECIDABLE"
                         ELSE IF \E d \in RowsOf(T.data, k) : d.ver # NoVersion /\ d.ver > s.ver
                              THEN "STALE_WINS" ELSE "FAITHFUL"
<1>1. o.hasVersion \in BOOLEAN /\ o.upsertOnly \in BOOLEAN BY DEF Options
<1>2. AnyVersion \subseteq Nat \cup {NoVersion} BY DEF AnyVersion
<1>3. Verdict(T, k, o) = Classify(Layout(T, k, o.hasVersion, o.upsertOnly)) BY DEF Verdict, KeyLayout
<1> DEFINE Live == RowsOf(LiveRows(T), k)
           All == RowsOf(T.data, k)
           C(hv, up) == Classify(Layout(T, k, hv, up))
           Absent(up) == IF All = {} THEN "FAITHFUL"
                         ELSE IF up THEN "WRONGLY_SUPPRESSED_CURRENT" ELSE "NEEDS_CONTEXT"
           One(hv, s) == IF ~hv \/ s.ver = NoVersion THEN "UNDECIDABLE"
                         ELSE IF \E d \in All : d.ver # NoVersion /\ d.ver > s.ver
                              THEN "STALE_WINS" ELSE "FAITHFUL"
           ByRows(hv, up) ==
               /\ Live = {} => C(hv, up) = Absent(up)
               /\ Live # {} /\ (~\E s : Live = {s}) => C(hv, up) = "DUPLICATE"
               /\ \A s : Live = {s} => C(hv, up) = One(hv, s)
<1>4. \A hv, up \in BOOLEAN : ByRows(hv, up)
  <2>1. \A up \in BOOLEAN : ByRows(TRUE, up)
    <3> SUFFICES ASSUME NEW up \in BOOLEAN PROVE ByRows(TRUE, up) OBVIOUS
    <3>1. TRUE \in BOOLEAN OBVIOUS
    <3> QED BY <1>2, <3>1, VerdictByRows
  <2>2. \A up \in BOOLEAN : ByRows(FALSE, up)
    <3> SUFFICES ASSUME NEW up \in BOOLEAN PROVE ByRows(FALSE, up) OBVIOUS
    <3>1. FALSE \in BOOLEAN OBVIOUS
    <3> QED BY <1>2, <3>1, VerdictByRows
  <2> HIDE DEF ByRows
  <2> QED BY <2>1, <2>2
<1>5. ByRows(o.hasVersion, o.upsertOnly)
  <2> HIDE DEF ByRows
  <2> QED BY <1>1, <1>4
<1>6. Verdict(T, k, o) = C(o.hasVersion, o.upsertOnly) BY <1>3
<1> HIDE DEF Live, All, C
<1> QED BY <1>5, <1>6 DEF Live, All

\* The exit code by the verdicts of the keys (report.py:201-211).
LEMMA ExitIs ==
    ASSUME NEW T, IsFiniteSet(T.data), IsFiniteSet(T.dels), NEW o
    PROVE  BuildReport(T, o).exit =
               IF \E k \in LayoutKeys(T) : Verdict(T, k, o) \in Violations THEN 2
               ELSE IF \E k \in LayoutKeys(T) : Verdict(T, k, o) \in {"UNDECIDABLE", "NEEDS_CONTEXT"}
                    THEN 1 ELSE 0
<1> DEFINE With(v) == {l \in LayoutKeys(T) : Verdict(T, l, o) = v}
           counts == Counts(T, o)
<1>1. IsFiniteSet(LayoutKeys(T))
  <2> DEFINE D == {r.key : r \in T.data}
             E == {d.key : d \in T.dels}
             f == [r \in T.data |-> r.key]
             g == [d \in T.dels |-> d.key]
  <2>1. f \in [T.data -> D] /\ \A t \in D : \E r \in T.data : f[r] = t OBVIOUS
  <2>2. g \in [T.dels -> E] /\ \A t \in E : \E d \in T.dels : g[d] = t OBVIOUS
  <2>3. LayoutKeys(T) = D \cup E BY DEF LayoutKeys
  <2> HIDE DEF D, E, f, g
  <2>4. IsFiniteSet(D) /\ IsFiniteSet(E) BY <2>1, <2>2, FiniteImage
  <2> QED BY <2>3, <2>4, FS_Union
<1>2. \A v \in Verdicts : counts[v] = Cardinality(With(v)) BY DEF Counts
<1>3. \A v : IsFiniteSet(With(v)) BY <1>1, FS_Subset
<1>4. \A v : With(v) # {} <=> \E k \in LayoutKeys(T) : Verdict(T, k, o) = v OBVIOUS
<1> HIDE DEF With, counts
<1>5. \A v \in Verdicts : counts[v] \in Nat /\ (counts[v] > 0 <=> With(v) # {})
  BY <1>2, <1>3, FS_CardinalityType, FS_EmptySet
<1>6. Violations \cup {"UNDECIDABLE", "NEEDS_CONTEXT"} \subseteq Verdicts BY DEF Violations, Verdicts
<1>7. (\E v \in Violations : counts[v] > 0) <=> \E k \in LayoutKeys(T) : Verdict(T, k, o) \in Violations
  BY <1>4, <1>5, <1>6
<1>8. counts["UNDECIDABLE"] + counts["NEEDS_CONTEXT"] > 0
          <=> \E k \in LayoutKeys(T) : Verdict(T, k, o) \in {"UNDECIDABLE", "NEEDS_CONTEXT"}
  <2>1. counts["UNDECIDABLE"] \in Nat /\ counts["NEEDS_CONTEXT"] \in Nat BY <1>5, <1>6
  <2>2. counts["UNDECIDABLE"] + counts["NEEDS_CONTEXT"] > 0
            <=> counts["UNDECIDABLE"] > 0 \/ counts["NEEDS_CONTEXT"] > 0
    BY <2>1
  <2> QED BY <1>4, <1>5, <1>6, <2>2
<1>9. BuildReport(T, o).exit = ExitCode(counts) BY DEF BuildReport, counts
<1> QED BY <1>7, <1>8, <1>9 DEF ExitCode

\* The exit code is 0 only if every key the checker reports on is certified.
LEMMA CleanExit ==
    ASSUME NEW T, IsFiniteSet(T.data), IsFiniteSet(T.dels), NEW o,
           BuildReport(T, o).exit = 0, NEW k \in LayoutKeys(T)
    PROVE  Verdict(T, k, o) \notin Violations \cup {"UNDECIDABLE", "NEEDS_CONTEXT"}
BY ExitIs

\* Exit code 0 certifies that a reader gets one row of every key that has data, with the
\* largest version stored for it (cli.py:8-9, report.py:24-29).
THEOREM CleanExitIsFaithful == Spec => []CleanIsFaithful
<1>1. CasesInv => CleanIsFaithful
  <2> SUFFICES ASSUME CasesInv, Done, checked.report.exit = 0, NEW k \in {r.key : r \in Seen.data}
               PROVE  \E r \in LiveRows(Seen) :
                          /\ {q \in LiveRows(Seen) : q.key = k} = {r}
                          /\ \A q \in RowsOf(Seen.data, k) : q.ver # NoVersion => q.ver <= r.ver
    BY DEF CleanIsFaithful
  <2> DEFINE o == checked.options
             Live == RowsOf(LiveRows(Seen), k)
  <2>1. /\ Seen \in Table(TableKeys, AnyVersion)
        /\ IsFiniteSet(Seen.data) /\ IsFiniteSet(Seen.dels) /\ o \in Options
        /\ BuildReport(Seen, o).exit = 0
    BY SeenIsTable
  <2>2. k \in LayoutKeys(Seen) BY DEF LayoutKeys
  <2>3. Verdict(Seen, k, o) \notin {"DUPLICATE", "WRONGLY_SUPPRESSED_CURRENT", "STALE_WINS",
                                    "UNDECIDABLE", "NEEDS_CONTEXT"}
    BY <2>1, <2>2, CleanExit DEF Violations
  <2>4. RowsOf(Seen.data, k) # {} BY DEF RowsOf
  <2> HIDE DEF o, Live
  <2>5. /\ Live = {} => Verdict(Seen, k, o) \in {"WRONGLY_SUPPRESSED_CURRENT", "NEEDS_CONTEXT"}
        /\ Live # {} /\ (~\E s : Live = {s}) => Verdict(Seen, k, o) = "DUPLICATE"
        /\ \A s : Live = {s} =>
              Verdict(Seen, k, o) =
                  IF ~o.hasVersion \/ s.ver = NoVersion THEN "UNDECIDABLE"
                  ELSE IF \E d \in RowsOf(Seen.data, k) : d.ver # NoVersion /\ d.ver > s.ver
                       THEN "STALE_WINS" ELSE "FAITHFUL"
    BY <2>1, <2>4, VerdictIs DEF Live
  <2>6. PICK s : Live = {s} BY <2>3, <2>5
  <2>7. s.ver # NoVersion /\ ~\E d \in RowsOf(Seen.data, k) : d.ver # NoVersion /\ d.ver > s.ver
    BY <2>3, <2>5, <2>6
  <2>8. s \in LiveRows(Seen) /\ {q \in LiveRows(Seen) : q.key = k} = {s} BY <2>6 DEF Live, RowsOf
  <2>9. \A q \in Seen.data : q.ver \in Nat \cup {NoVersion} BY <2>1 DEF Table, Row, AnyVersion
  <2>10. \A q \in RowsOf(Seen.data, k) : q.ver # NoVersion => q.ver <= s.ver
    <3> SUFFICES ASSUME NEW q \in RowsOf(Seen.data, k), q.ver # NoVersion PROVE q.ver <= s.ver
      OBVIOUS
    <3>1. q \in Seen.data /\ s \in Seen.data BY <2>8 DEF RowsOf, LiveRows
    <3>2. q.ver \in Nat /\ s.ver \in Nat BY <2>7, <2>9, <3>1
    <3> QED BY <2>7, <3>2
  <2> QED BY <2>8, <2>10
<1> QED BY <1>1, CasesInvariant, PTL

\* A version column or an upsert-only assertion settles open verdicts and overturns
\* none (core/classify.py:36-48).
THEOREM ContextSettles == Spec => []ContextOnlySettles
<1>1. CasesInv => ContextOnlySettles
  <2> SUFFICES ASSUME CasesInv, Done, NEW k \in LayoutKeys(Seen), NEW more \in Options,
                      checked.options.hasVersion => more.hasVersion,
                      checked.options.upsertOnly => more.upsertOnly,
                      Verdict(Seen, k, checked.options) \notin {"UNDECIDABLE", "NEEDS_CONTEXT"}
               PROVE  Verdict(Seen, k, more) = Verdict(Seen, k, checked.options)
    BY DEF ContextOnlySettles
  <2> DEFINE o == checked.options
             Live == RowsOf(LiveRows(Seen), k)
             Newer(s) == \E d \in RowsOf(Seen.data, k) : d.ver # NoVersion /\ d.ver > s.ver
             Absent(p) == IF RowsOf(Seen.data, k) = {} THEN "FAITHFUL"
                          ELSE IF p.upsertOnly THEN "WRONGLY_SUPPRESSED_CURRENT" ELSE "NEEDS_CONTEXT"
             One(p, s) == IF ~p.hasVersion \/ s.ver = NoVersion THEN "UNDECIDABLE"
                          ELSE IF Newer(s) THEN "STALE_WINS" ELSE "FAITHFUL"
  <2>1. /\ Seen \in Table(TableKeys, AnyVersion)
        /\ IsFiniteSet(Seen.data) /\ IsFiniteSet(Seen.dels) /\ o \in Options
    BY SeenIsTable
  <2>2. \A p \in {o, more} :
            /\ Live = {} => Verdict(Seen, k, p) = Absent(p)
            /\ Live # {} /\ (~\E s : Live = {s}) => Verdict(Seen, k, p) = "DUPLICATE"
            /\ \A s : Live = {s} => Verdict(Seen, k, p) = One(p, s)
    <3> SUFFICES ASSUME NEW p \in Options
                 PROVE  /\ Live = {} => Verdict(Seen, k, p) = Absent(p)
                        /\ Live # {} /\ (~\E s : Live = {s}) => Verdict(Seen, k, p) = "DUPLICATE"
                        /\ \A s : Live = {s} => Verdict(Seen, k, p) = One(p, s)
      BY <2>1
    <3> QED BY <2>1, VerdictIs
  <2>3. CASE Live = {}
    <3>1. Absent(o) # "NEEDS_CONTEXT" => Absent(more) = Absent(o) OBVIOUS
    <3> HIDE DEF Absent, One, Live, o
    <3>2. Verdict(Seen, k, o) = Absent(o) /\ Verdict(Seen, k, more) = Absent(more) BY <2>2, <2>3
    <3> QED BY <3>1, <3>2 DEF o
  <2>4. CASE Live # {} /\ ~\E s : Live = {s}
    <3> HIDE DEF Absent, One, Live, o
    <3>1. Verdict(Seen, k, o) = "DUPLICATE" /\ Verdict(Seen, k, more) = "DUPLICATE" BY <2>2, <2>4
    <3> QED BY <3>1 DEF o
  <2>5. ASSUME NEW s, Live = {s} PROVE Verdict(Seen, k, more) = Verdict(Seen, k, o)
    <3>1. One(o, s) # "UNDECIDABLE" => One(more, s) = One(o, s)
      <4> HIDE DEF Newer
      <4> QED OBVIOUS
    <3> HIDE DEF Absent, One, Live, o
    <3>2. Verdict(Seen, k, o) = One(o, s) /\ Verdict(Seen, k, more) = One(more, s) BY <2>2, <2>5
    <3> QED BY <3>1, <3>2 DEF o
  <2> QED BY <2>3, <2>4, <2>5
<1> QED BY <1>1, CasesInvariant, PTL

\* Identifiers have one column.
LEMMA IdColumns == \A k, l \in Ids : k \in [DOMAIN l -> Nat \cup {NullValue}]
<1> SUFFICES ASSUME NEW m \in Nat, NEW n \in Nat
             PROVE  <<m>> \in [DOMAIN <<n>> -> Nat \cup {NullValue}]
  BY DEF Ids, Id
<1>1. DOMAIN <<n>> = {1} /\ DOMAIN <<m>> = {1} OBVIOUS
<1> QED BY <1>1

\* Rows whose keys have the same columns, and in a file the same sequence number.
LEMMA ScreenFinds ==
    ASSUME NEW K, \A k, l \in K : k \in [DOMAIN l -> Nat \cup {NullValue}], NEW T \in CasesTables(K)
    PROVE  /\ \A f \in HighCandidates(T) :
                  \/ \E r \in FileRows(T, f) : \E c \in DOMAIN r.key : r.key[c] = NullValue
                  \/ \E r, q \in FileRows(T, f) : r # q /\ r.key = q.key
           /\ \A r, q \in T.data :
                  /\ r.key = q.key /\ r.seq = q.seq /\ r.file # q.file
                  /\ \A c \in DOMAIN r.key : r.key[c] # NullValue
                  => {r.file, q.file} \subseteq Screen(T)
<1>1. /\ \A r \in T.data : r.key \in K /\ r.seq \in Nat /\ r.file = <<r.seq, r.part>>
      /\ IsFiniteSet(T.data)
  BY DEF CasesTables, Table, Row, FilesOK
<1>2. \A r, q \in T.data : DOMAIN r.key = DOMAIN q.key /\ r.key \in [DOMAIN r.key -> Nat \cup {NullValue}]
  BY <1>1
<1>3. \A r \in T.data : DOMAIN r.key = KeyColumns(T) BY <1>2 DEF KeyColumns
<1>4. ASSUME NEW f PROVE FileRows(T, f) \subseteq T.data /\ IsFiniteSet(FileRows(T, f))
  BY <1>1, FS_Subset DEF FileRows
<1>5. ASSUME NEW f, NEW c \in KeyColumns(T)
      PROVE  Bounded(T, f, c) \in SUBSET Nat /\ IsFiniteSet(Bounded(T, f, c))
  <2> DEFINE V == {r.key[c] : r \in FileRows(T, f)}
             g == [r \in FileRows(T, f) |-> r.key[c]]
  <2>1. \A r \in FileRows(T, f) : r.key[c] \in Nat \cup {NullValue} BY <1>2, <1>3, <1>4
  <2>2. g \in [FileRows(T, f) -> V] /\ \A t \in V : \E r \in FileRows(T, f) : g[r] = t OBVIOUS
  <2>3. Bounded(T, f, c) = V \ {NullValue} BY DEF Bounded
  <2>4. V \subseteq Nat \cup {NullValue} BY <2>1
  <2> HIDE DEF V, g
  <2>5. IsFiniteSet(V) BY <1>4, <2>2, FiniteImage
  <2>6. IsFiniteSet(V \ {NullValue}) BY <2>5, FS_Difference
  <2> QED BY <2>3, <2>4, <2>6
<1>6. ASSUME NEW f \in HighCandidates(T),
             \A r \in FileRows(T, f) : \A c \in DOMAIN r.key : r.key[c] # NullValue
      PROVE  \E r, q \in FileRows(T, f) : r # q /\ r.key = q.key
  <2> DEFINE F == FileRows(T, f)
  <2>1. Cardinality(F) >= 2 /\ \A c \in KeyColumns(T) : Cardinality(Bounded(T, f, c)) = 1
    BY DEF HighCandidates, KeyBoundsCollapsed
  <2>2. \E r, q \in F : r # q
    <3>1. IsFiniteSet(F) /\ Cardinality(F) \in Nat BY <1>4, FS_CardinalityType
    <3>2. F # {} /\ ~\E s : F = {s}
      <4> HIDE DEF F
      <4> QED BY <2>1, <3>1, FS_EmptySet, FS_Singleton
    <3>3. PICK r \in F : TRUE BY <3>2
    <3>4. F # {r} BY <3>2
    <3>5. \E q \in F : q # r BY <3>4
    <3> QED BY <3>5
  <2>3. PICK r \in F, q \in F : r # q BY <2>2
  <2>4. r \in T.data /\ q \in T.data BY <1>4
  <2>5. ASSUME NEW c \in KeyColumns(T) PROVE r.key[c] = q.key[c]
    <3>1. r.key[c] # NullValue /\ q.key[c] # NullValue BY <1>3, <1>6, <2>4
    <3>2. r.key[c] \in Bounded(T, f, c) /\ q.key[c] \in Bounded(T, f, c) BY <3>1 DEF Bounded
    <3>3. \E v : Bounded(T, f, c) = {v} BY <1>5, <2>1, FS_Singleton
    <3> QED BY <3>2, <3>3
  <2>6. r.key = q.key
    <3>1. /\ r.key \in [KeyColumns(T) -> Nat \cup {NullValue}]
          /\ q.key \in [KeyColumns(T) -> Nat \cup {NullValue}]
      BY <1>2, <1>3, <2>4
    <3> QED BY <2>5, <3>1
  <2> QED BY <2>3, <2>6
<1>7. ASSUME NEW r \in T.data, NEW q \in T.data, r.key = q.key, r.seq = q.seq, r.file # q.file,
             \A c \in DOMAIN r.key : r.key[c] # NullValue
      PROVE  {r.file, q.file} \subseteq Screen(T)
  <2> DEFINE f == r.file
             g == q.file
             pair == {f, g}
  <2>1. r \in FileRows(T, f) /\ q \in FileRows(T, g) /\ pair \subseteq DataFiles(T)
    BY DEF FileRows, DataFiles
  <2>2. Cardinality(pair) = 2
    <3>1. IsFiniteSet({f}) /\ Cardinality({f}) = 1 BY FS_Singleton
    <3>2. Cardinality({f} \cup {g}) = Cardinality({f}) + 1 BY <1>7, <3>1, FS_AddElement
    <3>3. {f} \cup {g} = pair OBVIOUS
    <3> QED BY <3>1, <3>2, <3>3
  <2>3. \A h, x : x \in FileRows(T, h) => FileSeq(T, h) = x.seq
    <3> SUFFICES ASSUME NEW h, NEW x \in FileRows(T, h) PROVE FileSeq(T, h) = x.seq OBVIOUS
    <3>1. PICK y \in FileRows(T, h) : FileSeq(T, h) = y.seq BY DEF FileSeq
    <3>2. x \in T.data /\ y \in T.data /\ x.file = y.file BY DEF FileRows
    <3>3. x.file = <<x.seq, x.part>> /\ y.file = <<y.seq, y.part>> BY <1>1, <3>2
    <3>5. x.file[1] = x.seq /\ y.file[1] = y.seq BY <3>3
    <3>4. x.seq = y.seq BY <3>2, <3>5
    <3> QED BY <3>1, <3>4
  <2>4. FileSeq(T, f) = FileSeq(T, g) BY <1>7, <2>1, <2>3
  <2>5. KeyBoundsOverlap(T, f, g)
    <3> SUFFICES ASSUME NEW c \in KeyColumns(T)
                 PROVE  /\ Max(Bounded(T, f, c)) >= Min(Bounded(T, g, c))
                        /\ Max(Bounded(T, g, c)) >= Min(Bounded(T, f, c))
      BY DEF KeyBoundsOverlap
    <3> DEFINE v == r.key[c]
               B == Bounded(T, f, c)
               C == Bounded(T, g, c)
    <3>1. v # NullValue BY <1>3, <1>7
    <3>2. v \in B /\ v \in C BY <1>7, <2>1, <3>1 DEF Bounded
    <3>3. B \in SUBSET Nat /\ IsFiniteSet(B) /\ C \in SUBSET Nat /\ IsFiniteSet(C) BY <1>5
    <3> HIDE DEF B, C, v
    <3>4. /\ Max(B) \in B /\ Max(C) \in C /\ Min(B) \in B /\ Min(C) \in C
          /\ Max(B) >= v /\ Max(C) >= v /\ Min(B) <= v /\ Min(C) <= v
      BY <3>2, <3>3, MaxMin
    <3>5. v \in Nat /\ Max(B) \in Nat /\ Max(C) \in Nat /\ Min(B) \in Nat /\ Min(C) \in Nat
      BY <3>2, <3>3, <3>4
    <3>6. Max(B) >= Min(C) /\ Max(C) >= Min(B) BY <3>4, <3>5
    <3> QED BY <3>6 DEF B, C
  <2> HIDE DEF f, g
  <2>6. f # g BY <1>7 DEF f, g
  <2>7. pair \in MediumCandidates(T)
    <3>1. pair \in kSubset(2, DataFiles(T)) BY <2>1, <2>2 DEF kSubset
    <3> QED BY <2>4, <2>5, <2>6, <3>1 DEF MediumCandidates
  <2>8. pair \subseteq Screen(T) BY <2>7 DEF Screen
  <2> QED BY <2>8 DEF f, g
<1> QED BY <1>6, <1>7

\* What the metadata screen calls a HIGH candidate holds two rows of one key, nulls apart,
\* and two rows of one key in two files at one sequence number are always among its
\* candidates (adapters/iceberg.py:149-161, 181-187).
THEOREM ScreenSound == Spec => []ScreenIsSound
<1>1. CasesInv => ScreenIsSound
  <2> SUFFICES ASSUME CasesInv, Done PROVE ScreenIsSound BY DEF ScreenIsSound
  <2>1. Seen \in CasesTables(TableKeys) BY SeenIsTable
  <2>2. \A k, l \in TableKeys : k \in [DOMAIN l -> Nat \cup {NullValue}]
    <3>1. CASE script = "free" BY <3>1, CasesAssumption DEF TableKeys
    <3>2. CASE script # "free" BY <3>2, IdColumns DEF TableKeys
    <3> QED BY <3>1, <3>2
  <2> HIDE DEF Seen
  <2>3. /\ \A f \in HighCandidates(Seen) :
               \/ \E r \in FileRows(Seen, f) : \E c \in DOMAIN r.key : r.key[c] = NullValue
               \/ \E r, q \in FileRows(Seen, f) : r # q /\ r.key = q.key
        /\ \A r, q \in Seen.data :
               /\ r.key = q.key /\ r.seq = q.seq /\ r.file # q.file
               /\ \A c \in DOMAIN r.key : r.key[c] # NullValue
               => {r.file, q.file} \subseteq Screen(Seen)
    BY <2>1, <2>2, ScreenFinds
  <2> QED BY <2>3 DEF ScreenIsSound
<1> QED BY <1>1, CasesInvariant, PTL

-----------------------------------------------------------------------------
\* The scripts' tables.

\* A row of the i-th commit, as AddSnapshot adds it.
RowAt(i, r) ==
    [commit |-> i, part |-> r.part, key |-> r.key, ver |-> r.ver, file |-> <<i, r.part>>, seq |-> i]

DelAt(i, k) == [key |-> k, seq |-> i]

\* What the first n commits of a sequence of commits leave.
WrittenBy(S, n) ==
    [data |-> UNION {{RowAt(i, r) : r \in S[i].rows} : i \in 1..n},
     dels |-> UNION {{DelAt(i, k) : k \in S[i].deletes} : i \in 1..n}]

\* The table of a script is what the commits it made leave, and it has the rest to make.
ScriptFollowed ==
    script # "free" =>
        /\ Len(Scripts[script]) = Len(metadata) - 1 + Len(plan)
        /\ \A i \in DOMAIN plan : plan[i] = Scripts[script][Len(metadata) - 1 + i]
        /\ Table0 = WrittenBy(Scripts[script], Len(metadata) - 1)

\* The rows and deletes of a table that commits leave.
LEMMA WrittenIs ==
    ASSUME NEW S, NEW n
    PROVE  /\ \A r : r \in WrittenBy(S, n).data <=> \E i \in 1..n : \E q \in S[i].rows : r = RowAt(i, q)
           /\ \A d : d \in WrittenBy(S, n).dels <=> \E i \in 1..n : \E k \in S[i].deletes : d = DelAt(i, k)
<1> DEFINE R(i) == {RowAt(i, r) : r \in S[i].rows}
           D(i) == {DelAt(i, k) : k \in S[i].deletes}
<1>1. \A i, r : r \in R(i) <=> \E q \in S[i].rows : r = RowAt(i, q) OBVIOUS
<1>2. \A i, d : d \in D(i) <=> \E k \in S[i].deletes : d = DelAt(i, k) OBVIOUS
<1>3. WrittenBy(S, n).data = UNION {R(i) : i \in 1..n} /\ WrittenBy(S, n).dels = UNION {D(i) : i \in 1..n}
  BY DEF WrittenBy
<1> HIDE DEF R, D
<1> QED BY <1>1, <1>2, <1>3

\* One commit more.
LEMMA WrittenMore ==
    ASSUME NEW S, NEW n \in Nat
    PROVE  WrittenBy(S, n + 1) =
               [data |-> WrittenBy(S, n).data \cup {RowAt(n + 1, r) : r \in S[n + 1].rows},
                dels |-> WrittenBy(S, n).dels \cup {DelAt(n + 1, k) : k \in S[n + 1].deletes}]
<1> DEFINE R(i) == {RowAt(i, r) : r \in S[i].rows}
           D(i) == {DelAt(i, k) : k \in S[i].deletes}
<1>1. 1..(n + 1) = (1..n) \cup {n + 1} OBVIOUS
<1>2. UNION {R(i) : i \in 1..(n + 1)} = (UNION {R(i) : i \in 1..n}) \cup R(n + 1)
  <2> HIDE DEF R
  <2> QED BY <1>1
<1>3. UNION {D(i) : i \in 1..(n + 1)} = (UNION {D(i) : i \in 1..n}) \cup D(n + 1)
  <2> HIDE DEF D
  <2> QED BY <1>1
<1> QED BY <1>2, <1>3 DEF WrittenBy

\* A script's commits are made one after the other (build_fixtures.py:125-201).
LEMMA ScriptsFollowed == Spec => []ScriptFollowed
<1>1. Init => ScriptFollowed
  <2> SUFFICES ASSUME Init, script # "free" PROVE ScriptFollowed BY DEF ScriptFollowed
  <2>1. plan = Scripts[script] /\ metadata = <<EmptyTable>> /\ script \in DOMAIN Scripts BY DEF Init
  <2>2. Scripts[script] \in Seq(Commits(Ids)) BY <2>1, ScriptsArePlans
  <2>3. Len(metadata) = 1 /\ Table0 = EmptyTable BY <2>1 DEF Table0
  <2>4. WrittenBy(Scripts[script], 0) = EmptyTable
    <3>1. 1..0 = {} OBVIOUS
    <3> QED BY <3>1 DEF WrittenBy, EmptyTable
  <2>5. Len(plan) \in Nat /\ DOMAIN plan = 1..Len(plan) BY <2>1, <2>2
  <2> QED BY <2>1, <2>3, <2>4, <2>5 DEF ScriptFollowed
<1>2. CasesInv /\ ScriptFollowed /\ [Next]_vars => ScriptFollowed'
  <2> SUFFICES ASSUME CasesInv, ScriptFollowed, [Next]_vars, script' # "free" PROVE ScriptFollowed'
    BY DEF ScriptFollowed
  <2>1. CASE ScriptCommit
    <3> DEFINE S == Scripts[script]
               n == Len(metadata) - 1
    <3>1. plan # <<>> /\ AddSnapshot(Head(plan)) /\ plan' = Tail(plan) /\ script' = script
      BY <2>1 DEF ScriptCommit
    <3>2. plan \in Seq(Commits(TableKeys)) /\ Len(metadata) \in Nat \ {0} BY DEF CasesInv, CasesTypeOK
    <3>3. /\ Len(S) = n + Len(plan) /\ (\A i \in DOMAIN plan : plan[i] = S[n + i])
          /\ Table0 = WrittenBy(S, n)
      BY <3>1 DEF ScriptFollowed
    <3>4. n \in Nat /\ n + 1 = Len(metadata) BY <3>2
    <3>5. Head(plan) = S[n + 1]
      <4>1. 1 \in DOMAIN plan /\ Head(plan) = plan[1] BY <3>1, <3>2
      <4> QED BY <3>3, <4>1
    <3>6. metadata' = Append(metadata, [data |-> Table0.data \cup {RowAt(n + 1, r) : r \in S[n + 1].rows},
                                        dels |-> Table0.dels \cup {DelAt(n + 1, k) : k \in S[n + 1].deletes}])
      BY <3>1, <3>4, <3>5 DEF AddSnapshot, RowAt, DelAt
    <3>7. metadata' = Append(metadata, WrittenBy(S, n + 1)) BY <3>3, <3>4, <3>6, WrittenMore
    <3>8. metadata \in Seq(CasesTables(TableKeys)) BY DEF CasesInv, CasesTypeOK
    <3> HIDE DEF S
    <3>9. Len(metadata') = n + 2 /\ metadata'[n + 2] = WrittenBy(S, n + 1) BY <3>4, <3>7, <3>8
    <3>10. Len(plan') = Len(plan) - 1 /\ \A i \in DOMAIN plan' : plan'[i] = S[n + 1 + i]
      <4>1. Len(plan') = Len(plan) - 1 /\ DOMAIN plan' = 1..(Len(plan) - 1) BY <3>1, <3>2
      <4>2. \A i \in 1..(Len(plan) - 1) : plan'[i] = plan[i + 1] /\ i + 1 \in DOMAIN plan /\ i \in Nat
        BY <3>1, <3>2
      <4>3. \A i \in 1..(Len(plan) - 1) : n + (i + 1) = n + 1 + i BY <3>4
      <4> QED BY <3>3, <4>1, <4>2, <4>3
    <3>11. Table0' = WrittenBy(S, n + 1) BY <3>9 DEF Table0
    <3>12. Len(metadata') - 1 = n + 1 /\ Len(S) = n + 1 + Len(plan') BY <3>2, <3>3, <3>4, <3>9, <3>10
    <3>13. Scripts[script'] = S BY <3>1 DEF S
    <3> HIDE DEF n
    <3> QED BY <3>10, <3>11, <3>12, <3>13 DEF ScriptFollowed
  <2>2. CASE \E options \in CommandLines : Check(options)
    BY <2>2 DEF Check, ScriptFollowed, Table0
  <2>3. CASE UNCHANGED vars BY <2>3 DEF vars, ScriptFollowed, Table0
  <2>4. CASE Commit BY <2>4 DEF Commit
  <2> QED BY <2>1, <2>2, <2>3, <2>4 DEF Next
<1> QED BY <1>1, <1>2, CasesInvariant, PTL DEF Spec

\* Two rows of a key are served: a violation, whatever the options.
LEMMA DuplicateExits ==
    ASSUME NEW K, NEW T \in CasesTables(K), NEW o \in Options,
           NEW r \in LiveRows(T), NEW s \in LiveRows(T), r # s, r.key = s.key
    PROVE  BuildReport(T, o).exit = 2
<1> DEFINE Live == RowsOf(LiveRows(T), r.key)
<1>1. T \in Table(K, AnyVersion) /\ IsFiniteSet(T.data) /\ IsFiniteSet(T.dels) BY DEF CasesTables
<1>2. r \in Live /\ s \in Live BY DEF RowsOf
<1>3. r.key \in LayoutKeys(T) BY DEF LiveRows, LayoutKeys
<1>4. Live # {} /\ ~\E x : Live = {x}
  <2> HIDE DEF Live
  <2> QED BY <1>2
<1>5. Verdict(T, r.key, o) = "DUPLICATE" BY <1>1, <1>4, VerdictIs
<1> QED BY <1>1, <1>3, <1>5, ExitIs DEF Violations

\* A table of one key column without nulls, whose files hold no key twice and have a
\* sequence number each, is no candidate of the screen.
LEMMA QuietScreen ==
    ASSUME NEW T \in CasesTables(Ids),
           \A r, q \in T.data : r.seq = q.seq => r.part = q.part,
           \A r, q \in T.data : r.file = q.file /\ r.key = q.key => r = q
    PROVE  Screen(T) = {}
<1>1. \A k, l \in Ids : k \in [DOMAIN l -> Nat \cup {NullValue}] BY IdColumns
<1>2. \A r \in T.data : r.key \in Ids /\ r.file = <<r.seq, r.part>> BY DEF CasesTables, Table, Row, FilesOK
<1>3. HighCandidates(T) = {}
  <2> SUFFICES ASSUME NEW f \in HighCandidates(T) PROVE FALSE OBVIOUS
  <2>1. \/ \E r \in FileRows(T, f) : \E c \in DOMAIN r.key : r.key[c] = NullValue
        \/ \E r, q \in FileRows(T, f) : r # q /\ r.key = q.key
    BY <1>1, ScreenFinds
  <2>2. \A r \in FileRows(T, f) : r \in T.data /\ r.file = f BY DEF FileRows
  <2>3. \A k \in Ids : \A c \in DOMAIN k : k[c] \in Nat BY DEF Ids, Id
  <2> QED BY <1>2, <2>1, <2>2, <2>3, NullValueAssumption
<1>4. MediumCandidates(T) = {}
  <2> SUFFICES ASSUME NEW f \in DataFiles(T), NEW g \in DataFiles(T), FileSeq(T, f) = FileSeq(T, g)
               PROVE  f = g
    BY DEF MediumCandidates, kSubset
  <2>1. \A h \in DataFiles(T) : \E x \in T.data : x.file = h /\ FileSeq(T, h) = x.seq
    <3> SUFFICES ASSUME NEW h \in DataFiles(T) PROVE \E x \in T.data : x.file = h /\ FileSeq(T, h) = x.seq
      OBVIOUS
    <3>1. FileRows(T, h) # {} BY DEF DataFiles, FileRows
    <3>2. PICK y \in FileRows(T, h) : FileSeq(T, h) = y.seq BY <3>1 DEF FileSeq
    <3> QED BY <3>2 DEF FileRows
  <2>2. PICK x \in T.data : x.file = f /\ FileSeq(T, f) = x.seq BY <2>1
  <2>3. PICK y \in T.data : y.file = g /\ FileSeq(T, g) = y.seq BY <2>1
  <2>4. x.seq = y.seq /\ x.part = y.part BY <2>2, <2>3
  <2> QED BY <1>2, <2>2, <2>3, <2>4
<1> QED BY <1>3, <1>4 DEF Screen

\* What commits leave is a table.
LEMMA WrittenTable ==
    ASSUME NEW S \in Seq(Commits(Ids))
    PROVE  WrittenBy(S, Len(S)) \in CasesTables(Ids)
<1> DEFINE n == Len(S)
           T == WrittenBy(S, n)
           R(i) == {RowAt(i, r) : r \in S[i].rows}
           D(i) == {DelAt(i, k) : k \in S[i].deletes}
           Rows == {R(i) : i \in 1..n}
           Dels == {D(i) : i \in 1..n}
<1>1. n \in Nat /\ \A i \in 1..n : S[i] \in Commits(Ids) OBVIOUS
<1>2. \A i \in 1..n : /\ IsFiniteSet(S[i].rows) /\ IsFiniteSet(S[i].deletes)
                      /\ S[i].rows \in SUBSET [part : Nat, key : Ids, ver : AnyVersion]
                      /\ S[i].deletes \in SUBSET Ids
  BY <1>1 DEF Commits
<1>3. ASSUME NEW i \in 1..n PROVE IsFiniteSet(R(i)) /\ IsFiniteSet(D(i))
  <2> DEFINE f == [r \in S[i].rows |-> RowAt(i, r)]
             g == [k \in S[i].deletes |-> DelAt(i, k)]
  <2>1. f \in [S[i].rows -> R(i)] /\ \A t \in R(i) : \E r \in S[i].rows : f[r] = t OBVIOUS
  <2>2. g \in [S[i].deletes -> D(i)] /\ \A t \in D(i) : \E k \in S[i].deletes : g[k] = t OBVIOUS
  <2> HIDE DEF f, g, R, D
  <2> QED BY <1>2, <2>1, <2>2, FiniteImage
<1>4. T.data = UNION Rows /\ T.dels = UNION Dels BY DEF WrittenBy
<1>5. IsFiniteSet(T.data) /\ IsFiniteSet(T.dels)
  <2> DEFINE f == [i \in 1..n |-> R(i)]
             g == [i \in 1..n |-> D(i)]
  <2>1. f \in [1..n -> Rows] /\ \A t \in Rows : \E i \in 1..n : f[i] = t OBVIOUS
  <2>2. g \in [1..n -> Dels] /\ \A t \in Dels : \E i \in 1..n : g[i] = t OBVIOUS
  <2>3. (\A t \in Rows : IsFiniteSet(t)) /\ \A t \in Dels : IsFiniteSet(t) BY <1>3
  <2>4. IsFiniteSet(1..n)
    <3>1. 1 \in Int /\ n \in Int BY <1>1
    <3> QED BY <3>1, FS_Interval
  <2> HIDE DEF f, g, Rows, Dels, T
  <2>5. IsFiniteSet(Rows) /\ IsFiniteSet(Dels) BY <2>1, <2>2, <2>4, FiniteImage
  <2>6. IsFiniteSet(UNION Rows) /\ IsFiniteSet(UNION Dels) BY <2>3, <2>5, FS_UNION
  <2> QED BY <1>4, <2>6
<1>6. ASSUME NEW r \in T.data PROVE r \in Row(Ids, AnyVersion) /\ r.file = <<r.seq, r.part>>
  <2>1. PICK i \in 1..n : \E q \in S[i].rows : r = RowAt(i, q) BY WrittenIs
  <2>2. PICK q \in S[i].rows : r = RowAt(i, q) BY <2>1
  <2>3. q.part \in Nat /\ q.key \in Ids /\ q.ver \in AnyVersion /\ i \in Nat BY <1>1, <1>2
  <2>4. <<i, q.part>> \in Nat \X Nat BY <2>3
  <2> QED BY <2>2, <2>3, <2>4 DEF RowAt, Row, File
<1>7. ASSUME NEW d \in T.dels PROVE d \in Del(Ids)
  <2>1. PICK i \in 1..n : \E k \in S[i].deletes : d = DelAt(i, k) BY WrittenIs
  <2>2. PICK k \in S[i].deletes : d = DelAt(i, k) BY <2>1
  <2>3. k \in Ids /\ i \in Nat BY <1>1, <1>2
  <2> QED BY <2>2, <2>3 DEF DelAt, Del
<1>8. T = [data |-> T.data, dels |-> T.dels] BY DEF WrittenBy
<1> HIDE DEF T
<1>9. T \in Table(Ids, AnyVersion) BY <1>6, <1>7, <1>8 DEF Table
<1> QED BY <1>5, <1>6, <1>9 DEF CasesTables, FilesOK, T

\* A writer of upserts that commits one file of rows at a time, no key twice in it: a key
\* that was written before is deleted with the commit that writes it again, a later version.
Upserts(S) ==
    \A i \in DOMAIN S :
        /\ \A r \in S[i].rows : r.part = 1 /\ r.ver \in Nat
        /\ \A r, q \in S[i].rows : r.key = q.key => r = q
        /\ \A k \in S[i].deletes : \E r \in S[i].rows : r.key = k
        /\ \A j \in 1..i - 1 : \A r \in S[j].rows, q \in S[i].rows :
               r.key = q.key => q.key \in S[i].deletes /\ r.ver < q.ver

\* Of every key of its table one row is served, the latest version.
LEMMA UpsertServed ==
    ASSUME NEW S \in Seq(Commits(Ids)), Upserts(S), NEW k \in LayoutKeys(WrittenBy(S, Len(S)))
    PROVE  \E s : /\ RowsOf(LiveRows(WrittenBy(S, Len(S))), k) = {s} /\ s.ver \in Nat
                  /\ \A d \in RowsOf(WrittenBy(S, Len(S)).data, k) : d.ver <= s.ver
<1> DEFINE n == Len(S)
           T == WrittenBy(S, n)
           At == {i \in 1..n : \E q \in S[i].rows : q.key = k}
<1>1. n \in Nat /\ DOMAIN S = 1..n OBVIOUS
<1>2. /\ \A r : r \in T.data <=> \E i \in 1..n : \E q \in S[i].rows : r = RowAt(i, q)
      /\ \A d : d \in T.dels <=> \E i \in 1..n : \E l \in S[i].deletes : d = DelAt(i, l)
  BY WrittenIs
<1> HIDE DEF T
<1>3. At # {}
  <2>1. CASE \E r \in T.data : r.key = k
    <3>1. PICK r \in T.data : r.key = k BY <2>1
    <3>2. PICK i \in 1..n : \E q \in S[i].rows : r = RowAt(i, q) BY <1>2
    <3> QED BY <3>1, <3>2 DEF RowAt
  <2>2. CASE \E d \in T.dels : d.key = k
    <3>1. PICK d \in T.dels : d.key = k BY <2>2
    <3>2. PICK i \in 1..n : \E l \in S[i].deletes : d = DelAt(i, l) BY <1>2
    <3>3. k \in S[i].deletes BY <3>1, <3>2 DEF DelAt
    <3>4. \E r \in S[i].rows : r.key = k BY <1>1, <3>3 DEF Upserts
    <3> QED BY <3>4
  <2> QED BY <2>1, <2>2 DEF LayoutKeys, T
<1>4. PICK m \in At : \A i \in At : i <= m
  <2>1. At \subseteq Nat /\ IsFiniteSet(At)
    <3>1. 1 \in Int /\ n \in Int BY <1>1
    <3>2. IsFiniteSet(1..n) BY <3>1, FS_Interval
    <3>3. At \subseteq 1..n OBVIOUS
    <3> QED BY <3>2, <3>3, FS_Subset
  <2> HIDE DEF At
  <2>2. Max(At) \in At /\ \A i \in At : Max(At) >= i BY <1>3, <2>1, MaxMin
  <2>3. \A i \in At : i <= Max(At) BY <2>1, <2>2
  <2> QED BY <2>2, <2>3
<1>5. m \in 1..n /\ m \in Nat BY <1>1
<1>6. PICK q \in S[m].rows : q.key = k BY <1>4
<1> DEFINE s == RowAt(m, q)
<1>7. s \in T.data /\ s.key = k /\ s.seq = m /\ s.ver = q.ver /\ q.ver \in Nat
  <2>1. q.ver \in Nat BY <1>1, <1>5 DEF Upserts
  <2> QED BY <1>2, <1>5, <1>6, <2>1 DEF RowAt
<1>8. \A d \in T.dels : d.key = k => d.seq \in 1..m
  <2> SUFFICES ASSUME NEW d \in T.dels, d.key = k PROVE d.seq \in 1..m OBVIOUS
  <2>1. PICK i \in 1..n : \E l \in S[i].deletes : d = DelAt(i, l) BY <1>2
  <2>2. k \in S[i].deletes /\ d.seq = i BY <2>1 DEF DelAt
  <2>3. \E r \in S[i].rows : r.key = k BY <1>1, <2>2 DEF Upserts
  <2>4. i \in At /\ i <= m BY <1>4, <2>3
  <2> QED BY <1>5, <2>1, <2>2, <2>4
<1>9. s \in RowsOf(LiveRows(T), k)
  <2>1. \A d \in T.dels : d.key = k => ~(d.seq > m) BY <1>5, <1>8
  <2> HIDE DEF s
  <2> QED BY <1>7, <2>1 DEF RowsOf, LiveRows, IsDeleted
<1>10. ASSUME NEW r \in T.data, r.key = k
       PROVE  r.ver <= s.ver /\ (r = s \/ \E d \in T.dels : d.key = k /\ d.seq > r.seq)
  <2>1. PICK i \in 1..n : \E p \in S[i].rows : r = RowAt(i, p) BY <1>2
  <2>2. PICK p \in S[i].rows : r = RowAt(i, p) BY <2>1
  <2>3. p.key = k /\ r.seq = i /\ r.ver = p.ver BY <1>10, <2>2 DEF RowAt
  <2>4. i \in At /\ i <= m /\ i \in Nat BY <1>4, <2>3
  <2>5. CASE i = m
    <3>1. p = q BY <1>1, <1>5, <1>6, <2>3, <2>5 DEF Upserts
    <3>2. r = s /\ r.ver = s.ver BY <2>2, <2>5, <3>1
    <3> QED BY <1>7, <3>2
  <2>6. CASE i # m
    <3>1. i \in 1..m - 1 /\ m \in DOMAIN S BY <1>1, <1>5, <2>4, <2>6
    <3>2. k \in S[m].deletes /\ p.ver < q.ver BY <1>6, <2>3, <3>1 DEF Upserts
    <3>3. DelAt(m, k) \in T.dels BY <1>2, <1>5, <3>2
    <3>4. DelAt(m, k).key = k /\ DelAt(m, k).seq = m /\ m > r.seq BY <1>5, <2>3, <2>4, <2>6 DEF DelAt
    <3>5. p.ver \in Nat BY <1>1 DEF Upserts
    <3>6. r.ver <= s.ver BY <1>7, <2>3, <3>2, <3>5
    <3> QED BY <3>3, <3>4, <3>6
  <2> QED BY <2>5, <2>6
<1> HIDE DEF s
<1>11. ASSUME NEW r \in RowsOf(LiveRows(T), k) PROVE r = s
  <2>1. r \in T.data /\ r.key = k /\ ~\E d \in T.dels : d.key = k /\ d.seq > r.seq
    BY DEF RowsOf, LiveRows, IsDeleted
  <2> QED BY <1>10, <2>1
<1>12. RowsOf(LiveRows(T), k) = {s} BY <1>9, <1>11
<1>13. \A d \in RowsOf(T.data, k) : d.ver <= s.ver BY <1>10 DEF RowsOf
<1>14. s.ver \in Nat BY <1>7
<1> QED BY <1>12, <1>13, <1>14 DEF T

\* So the checker certifies it, given the version column, and the screen is quiet.
LEMMA UpsertsExit ==
    ASSUME NEW S \in Seq(Commits(Ids)), Upserts(S), NEW o \in Options,
           NEW w \in DOMAIN S, S[w].rows # {}
    PROVE  /\ BuildReport(WrittenBy(S, Len(S)), o).exit = IF o.hasVersion THEN 0 ELSE 1
           /\ Screen(WrittenBy(S, Len(S))) = {}
<1> DEFINE n == Len(S)
           T == WrittenBy(S, n)
<1>1. n \in Nat /\ DOMAIN S = 1..n OBVIOUS
<1>2. T \in CasesTables(Ids) BY WrittenTable
<1>3. \A r : r \in T.data <=> \E i \in 1..n : \E q \in S[i].rows : r = RowAt(i, q) BY WrittenIs
<1>4. \A k \in LayoutKeys(T) :
          \E s : /\ RowsOf(LiveRows(T), k) = {s} /\ s.ver \in Nat
                 /\ \A d \in RowsOf(T.data, k) : d.ver <= s.ver
  BY UpsertServed
<1> HIDE DEF T
<1>5. T \in Table(Ids, AnyVersion) /\ IsFiniteSet(T.data) /\ IsFiniteSet(T.dels) BY <1>2 DEF CasesTables
<1>6. ASSUME NEW k \in LayoutKeys(T)
      PROVE  Verdict(T, k, o) = IF o.hasVersion THEN "FAITHFUL" ELSE "UNDECIDABLE"
  <2>1. PICK s : /\ RowsOf(LiveRows(T), k) = {s} /\ s.ver \in Nat
                 /\ \A d \in RowsOf(T.data, k) : d.ver <= s.ver
    BY <1>4
  <2>2. Verdict(T, k, o) =
            IF ~o.hasVersion \/ s.ver = NoVersion THEN "UNDECIDABLE"
            ELSE IF \E d \in RowsOf(T.data, k) : d.ver # NoVersion /\ d.ver > s.ver
                 THEN "STALE_WINS" ELSE "FAITHFUL"
    BY <1>5, <2>1, VerdictIs
  <2>3. s.ver # NoVersion BY <2>1, NoVersionAssumption
  <2>4. ~\E d \in RowsOf(T.data, k) : d.ver # NoVersion /\ d.ver > s.ver
    <3> SUFFICES ASSUME NEW d \in RowsOf(T.data, k), d.ver # NoVersion PROVE ~(d.ver > s.ver) OBVIOUS
    <3>1. d.ver \in Nat BY <1>5 DEF RowsOf, Table, Row, AnyVersion
    <3>2. d.ver <= s.ver BY <2>1
    <3> QED BY <2>1, <3>1, <3>2
  <2>5. o.hasVersion \in BOOLEAN BY DEF Options
  <2> QED BY <2>2, <2>3, <2>4, <2>5
<1>7. LayoutKeys(T) # {}
  <2>1. PICK q \in S[w].rows : TRUE OBVIOUS
  <2>2. RowAt(w, q) \in T.data BY <1>1, <1>3, <2>1
  <2> QED BY <2>2 DEF LayoutKeys
<1>8. BuildReport(T, o).exit = IF o.hasVersion THEN 0 ELSE 1
  <2>1. o.hasVersion \in BOOLEAN BY DEF Options
  <2>2. CASE o.hasVersion
    <3>1. \A k \in LayoutKeys(T) : Verdict(T, k, o) \notin Violations \cup {"UNDECIDABLE", "NEEDS_CONTEXT"}
      BY <1>6, <2>2 DEF Violations
    <3> QED BY <1>5, <2>2, <3>1, ExitIs
  <2>3. CASE ~o.hasVersion
    <3>1. \A k \in LayoutKeys(T) : Verdict(T, k, o) = "UNDECIDABLE" BY <1>6, <2>3
    <3>2. "UNDECIDABLE" \notin Violations BY DEF Violations
    <3> QED BY <1>5, <1>7, <2>3, <3>1, <3>2, ExitIs
  <2> QED BY <2>2, <2>3
<1>9. Screen(T) = {}
  <2>1. ASSUME NEW r \in T.data
        PROVE  /\ r.seq \in 1..n /\ r.part = 1 /\ r.file = <<r.seq, 1>>
               /\ \E q \in S[r.seq].rows : r = RowAt(r.seq, q)
    <3>1. PICK i \in 1..n : \E q \in S[i].rows : r = RowAt(i, q) BY <1>3
    <3>2. PICK q \in S[i].rows : r = RowAt(i, q) BY <3>1
    <3>3. q.part = 1 BY <1>1 DEF Upserts
    <3>4. r.seq = i /\ r.part = 1 /\ r.file = <<i, 1>> BY <3>2, <3>3 DEF RowAt
    <3> QED BY <3>1, <3>4
  <2>2. ASSUME NEW r \in T.data, NEW t \in T.data, r.file = t.file, r.key = t.key PROVE r = t
    <3>1. PICK p \in S[r.seq].rows : r = RowAt(r.seq, p) BY <2>1
    <3>2. PICK q \in S[t.seq].rows : t = RowAt(t.seq, q) BY <2>1
    <3>3. r.file = <<r.seq, 1>> /\ t.file = <<t.seq, 1>> /\ r.seq \in 1..n BY <2>1
    <3>4. r.file[1] = r.seq /\ t.file[1] = t.seq BY <3>3
    <3>5. r.seq = t.seq BY <2>2, <3>4
    <3>6. p.key = r.key /\ q.key = t.key BY <3>1, <3>2 DEF RowAt
    <3>7. p = q BY <1>1, <2>2, <3>3, <3>5, <3>6 DEF Upserts
    <3> QED BY <3>1, <3>2, <3>5, <3>7
  <2>3. \A r, t \in T.data : r.seq = t.seq => r.part = t.part BY <2>1
  <2> QED BY <1>2, <2>2, <2>3, QuietScreen
<1> QED BY <1>8, <1>9 DEF T

\* Batches <<id, version>> that say a key once each, later ones with later versions.
Rising(batches) ==
    \A i \in DOMAIN batches :
        /\ \A p, q \in batches[i] : p[1] = q[1] => p = q
        /\ \A j \in 1..i - 1 : \A p \in batches[j], q \in batches[i] : p[1] = q[1] => p[2] < q[2]

\* The rows and deletes of a batch.
LEMMA BatchIs ==
    ASSUME NEW part, NEW rows
    PROVE  /\ \A r : r \in Batch(part, rows).rows <=> \E p \in rows : r = Written(part, p[1], p[2])
           /\ \A k : k \in Batch(part, rows).deletes <=> \E p \in rows : k = Id(p[1])
BY DEF Batch, DeltaCommit

\* Identifiers of different numbers differ.
LEMMA IdsDiffer == \A m, n : Id(m) = Id(n) => m = n
<1> SUFFICES ASSUME NEW m, NEW n, Id(m) = Id(n) PROVE m = n OBVIOUS
<1>1. Id(m)[1] = m /\ Id(n)[1] = n BY DEF Id
<1> QED BY <1>1

\* After the fix there are as many commits as batches.
LEMMA PostFixLength == \A batches \in Seq(RowSets) : Len(PostFix(batches)) = Len(batches)
<1> SUFFICES ASSUME NEW batches \in Seq(RowSets) PROVE Len(PostFix(batches)) = Len(batches) OBVIOUS
<1>1. DOMAIN batches = 1..Len(batches) /\ Len(batches) \in Nat OBVIOUS
<1>2. DOMAIN PostFix(batches) = 1..Len(batches) BY <1>1 DEF PostFix
<1>3. PostFix(batches) \in Seq(Commits(Ids)) BY PostFixIsPlan
<1>4. DOMAIN PostFix(batches) = 1..Len(PostFix(batches)) /\ Len(PostFix(batches)) \in Nat BY <1>3
<1> QED BY <1>1, <1>2, <1>4

\* The fixed connector, whatever it is given: every batch a commit of its own, so mor-check
\* certifies the table and the screen is quiet (realworld/REPORT.md, FLINK-38450 after the
\* fix; realworld/generators).
THEOREM PostFixIsFaithful ==
    ASSUME NEW batches \in Seq(RowSets), Rising(batches), NEW w \in DOMAIN batches, batches[w] # {},
           NEW o \in Options
    PROVE  LET T == WrittenBy(PostFix(batches), Len(batches))
           IN  BuildReport(T, o).exit = (IF o.hasVersion THEN 0 ELSE 1) /\ Screen(T) = {}
<1> DEFINE S == PostFix(batches)
<1>1. S \in Seq(Commits(Ids)) BY PostFixIsPlan
<1>2. DOMAIN batches = 1..Len(batches) /\ Len(batches) \in Nat OBVIOUS
<1>3. S = [i \in 1..Len(batches) |-> Batch(1, batches[i])] BY <1>2 DEF PostFix
<1>4. DOMAIN S = 1..Len(batches) /\ \A i \in 1..Len(batches) : S[i] = Batch(1, batches[i]) BY <1>3
<1> HIDE DEF S
<1>5. Len(S) = Len(batches) BY PostFixLength DEF S
<1>6. \A i \in DOMAIN S : /\ \A r : r \in S[i].rows <=> \E p \in batches[i] : r = Written(1, p[1], p[2])
                          /\ \A k : k \in S[i].deletes <=> \E p \in batches[i] : k = Id(p[1])
  BY <1>4, BatchIs
<1>7. \A i \in DOMAIN S : batches[i] \subseteq Nat \X Nat BY <1>4, <1>2 DEF RowSets
<1>8. Upserts(S)
  <2> SUFFICES ASSUME NEW i \in DOMAIN S
               PROVE  /\ \A r \in S[i].rows : r.part = 1 /\ r.ver \in Nat
                      /\ \A r, q \in S[i].rows : r.key = q.key => r = q
                      /\ \A k \in S[i].deletes : \E r \in S[i].rows : r.key = k
                      /\ \A j \in 1..i - 1 : \A r \in S[j].rows, q \in S[i].rows :
                             r.key = q.key => q.key \in S[i].deletes /\ r.ver < q.ver
    BY DEF Upserts
  <2>1. \A m : \A r \in S[m].rows : m \in DOMAIN S => 
            \E p \in batches[m] : r = Written(1, p[1], p[2]) /\ r.part = 1 /\ r.key = Id(p[1]) /\ r.ver = p[2]
    BY <1>6 DEF Written
  <2>2. i \in DOMAIN batches /\ i \in Nat BY <1>2, <1>4
  <2>3. ASSUME NEW r \in S[i].rows PROVE r.part = 1 /\ r.ver \in Nat BY <1>7, <2>1
  <2>4. ASSUME NEW r \in S[i].rows, NEW q \in S[i].rows, r.key = q.key PROVE r = q
    <3>1. PICK p \in batches[i] : r = Written(1, p[1], p[2]) /\ r.key = Id(p[1]) BY <2>1
    <3>2. PICK t \in batches[i] : q = Written(1, t[1], t[2]) /\ q.key = Id(t[1]) BY <2>1
    <3>3. p[1] = t[1] BY <2>4, <3>1, <3>2, IdsDiffer
    <3>4. p = t BY <2>2, <3>3 DEF Rising
    <3> QED BY <3>1, <3>2, <3>4
  <2>5. ASSUME NEW k \in S[i].deletes PROVE \E r \in S[i].rows : r.key = k
    <3>1. PICK p \in batches[i] : k = Id(p[1]) BY <1>6
    <3>2. Written(1, p[1], p[2]) \in S[i].rows /\ Written(1, p[1], p[2]).key = Id(p[1])
      BY <1>6 DEF Written
    <3> QED BY <3>1, <3>2
  <2>6. ASSUME NEW j \in 1..i - 1, NEW r \in S[j].rows, NEW q \in S[i].rows, r.key = q.key
        PROVE  q.key \in S[i].deletes /\ r.ver < q.ver
    <3>1. j \in DOMAIN S BY <1>2, <1>4, <2>2
    <3>2. PICK p \in batches[j] : r.key = Id(p[1]) /\ r.ver = p[2] BY <2>1, <3>1
    <3>3. PICK t \in batches[i] : q.key = Id(t[1]) /\ q.ver = t[2] BY <2>1
    <3>4. p[1] = t[1] BY <2>6, <3>2, <3>3, IdsDiffer
    <3>5. p[2] < t[2] BY <2>2, <3>4 DEF Rising
    <3>6. q.key \in S[i].deletes BY <1>6, <3>3
    <3> QED BY <3>2, <3>3, <3>5, <3>6
  <2> QED BY <2>3, <2>4, <2>5, <2>6
<1>9. w \in DOMAIN S /\ S[w].rows # {}
  <2>1. w \in DOMAIN S BY <1>2, <1>4
  <2>2. PICK p \in batches[w] : TRUE OBVIOUS
  <2>3. Written(1, p[1], p[2]) \in S[w].rows BY <1>6, <2>1, <2>2
  <2> QED BY <2>1, <2>3
<1>10. /\ BuildReport(WrittenBy(S, Len(S)), o).exit = IF o.hasVersion THEN 0 ELSE 1
       /\ Screen(WrittenBy(S, Len(S))) = {}
  BY <1>1, <1>8, <1>9, UpsertsExit
<1> QED BY <1>5, <1>10 DEF S

\* The connector before the fix: a key in two batches of one checkpoint is served twice, so
\* mor-check reports a violation whatever the options, and the screen has the two files
\* (realworld/REPORT.md, FLINK-38450).
THEOREM PreFixDuplicates ==
    ASSUME NEW batches \in Seq(RowSets), NEW i \in DOMAIN batches, NEW j \in DOMAIN batches, i # j,
           NEW p \in batches[i], NEW q \in batches[j], p[1] = q[1], NEW o \in Options
    PROVE  LET T == WrittenBy(PreFix(batches), 1)
           IN  BuildReport(T, o).exit = 2 /\ {<<1, i>>, <<1, j>>} \subseteq Screen(T)
<1> DEFINE numbered == [m \in DOMAIN batches |-> Batch(m, batches[m])]
           Rows == UNION {c.rows : c \in Range(numbered)}
           S == PreFix(batches)
           T == WrittenBy(S, 1)
           r == RowAt(1, Written(i, p[1], p[2]))
           s == RowAt(1, Written(j, q[1], q[2]))
<1>1. S = <<[rows |-> Rows, deletes |-> UNION {c.deletes : c \in Range(numbered)}]>>
  BY DEF PreFix, DeltaCommit
<1>2. S \in Seq(Commits(Ids)) BY PreFixIsPlan
<1>3. Len(S) = 1 /\ S[1].rows = Rows BY <1>1
<1>4. \A m \in DOMAIN batches : \A t \in batches[m] : Written(m, t[1], t[2]) \in Rows
  <2> SUFFICES ASSUME NEW m \in DOMAIN batches, NEW t \in batches[m] PROVE Written(m, t[1], t[2]) \in Rows
    OBVIOUS
  <2>1. Written(m, t[1], t[2]) \in Batch(m, batches[m]).rows BY BatchIs
  <2>2. numbered[m] = Batch(m, batches[m]) /\ numbered[m] \in Range(numbered) BY DEF Range
  <2> HIDE DEF numbered
  <2> QED BY <2>1, <2>2
<1> HIDE DEF Rows, S
<1>5. T \in CasesTables(Ids) BY <1>2, <1>3, WrittenTable
<1>6. /\ \A x : x \in T.data <=> \E m \in 1..1 : \E y \in S[m].rows : x = RowAt(m, y)
      /\ \A d : d \in T.dels <=> \E m \in 1..1 : \E k \in S[m].deletes : d = DelAt(m, k)
  BY WrittenIs
<1> HIDE DEF T
<1>7. r \in T.data /\ s \in T.data BY <1>3, <1>4, <1>6
<1>8. /\ r.key = Id(p[1]) /\ s.key = Id(p[1]) /\ r.seq = 1 /\ s.seq = 1
      /\ r.file = <<1, i>> /\ s.file = <<1, j>>
  BY DEF RowAt, Written
<1>9. r.file # s.file
  <2>1. r.file[2] = i /\ s.file[2] = j BY <1>8
  <2> QED BY <2>1
<1> HIDE DEF r, s
<1>10. \A d \in T.dels : d.seq = 1 BY <1>6 DEF DelAt
<1>11. r \in LiveRows(T) /\ s \in LiveRows(T)
  <2>1. ~(1 > 1) OBVIOUS
  <2> QED BY <1>7, <1>8, <1>10, <2>1 DEF LiveRows, IsDeleted
<1>12. BuildReport(T, o).exit = 2 BY <1>5, <1>8, <1>9, <1>11, DuplicateExits
<1>13. {r.file, s.file} \subseteq Screen(T)
  <2>1. \A k, l \in Ids : k \in [DOMAIN l -> Nat \cup {NullValue}] BY IdColumns
  <2>2. \A c \in DOMAIN r.key : r.key[c] # NullValue
    <3>1. p[1] \in Nat BY DEF RowSets
    <3>2. DOMAIN Id(p[1]) = {1} /\ Id(p[1])[1] = p[1] BY DEF Id
    <3> QED BY <1>8, <3>1, <3>2, NullValueAssumption
  <2> QED BY <1>5, <1>7, <1>8, <1>9, <2>1, <2>2, ScreenFinds
<1> QED BY <1>8, <1>12, <1>13 DEF T, S

\* One file with two versions of one key is a HIGH candidate of the screen, and a violation.
LEMMA EqualSeqExits ==
    ASSUME NEW o \in Options
    PROVE  LET T == WrittenBy(BadEqualSeq, Len(BadEqualSeq))
           IN  BuildReport(T, o).exit = 2 /\ Screen(T) # {}
<1> DEFINE S == BadEqualSeq
           T == WrittenBy(S, Len(S))
           r == RowAt(1, Written(1, 1, 1))
           s == RowAt(1, Written(1, 1, 2))
<1>1. S \in Seq(Commits(Ids))
  <2>1. "bad_equal_seq" \in DOMAIN Scripts /\ Scripts["bad_equal_seq"] = S BY DEF Scripts
  <2> QED BY <2>1, ScriptsArePlans
<1>2. Len(S) = 1 /\ S[1] = Batch(1, {<<1, 1>>, <<1, 2>>}) BY DEF BadEqualSeq
<1>3. \A x : x \in S[1].rows <=> x \in {Written(1, 1, 1), Written(1, 1, 2)}
  <2> DEFINE pairs == {<<1, 1>>, <<1, 2>>}
  <2>1. S[1] = Batch(1, pairs) BY <1>2
  <2> HIDE DEF S, pairs
  <2>2. \A x : x \in Batch(1, pairs).rows <=> \E p \in pairs : x = Written(1, p[1], p[2]) BY BatchIs
  <2>3. \A x : x \in S[1].rows <=> \E p \in pairs : x = Written(1, p[1], p[2]) BY <2>1, <2>2
  <2> QED BY <2>3 DEF pairs
<1>4. T \in CasesTables(Ids) BY <1>1, WrittenTable
<1>5. /\ \A x : x \in T.data <=> \E m \in 1..Len(S) : \E y \in S[m].rows : x = RowAt(m, y)
      /\ \A d : d \in T.dels <=> \E m \in 1..Len(S) : \E k \in S[m].deletes : d = DelAt(m, k)
  BY WrittenIs
<1> HIDE DEF S, T
<1>6. 1..Len(S) = {1} BY <1>2
<1>7. \A x : x \in T.data <=> x \in {r, s} BY <1>3, <1>5, <1>6
<1>8. \A d \in T.dels : d.seq = 1 BY <1>5, <1>6 DEF DelAt
<1>9. /\ r.key = Id(1) /\ s.key = Id(1) /\ r.seq = 1 /\ s.seq = 1 /\ r.ver = 1 /\ s.ver = 2
      /\ r.file = <<1, 1>> /\ s.file = <<1, 1>>
  BY DEF RowAt, Written
<1> HIDE DEF r, s
<1>10. r # s BY <1>9
<1>11. r \in LiveRows(T) /\ s \in LiveRows(T)
  <2>1. ~(1 > 1) OBVIOUS
  <2> QED BY <1>7, <1>8, <1>9, <2>1 DEF LiveRows, IsDeleted
<1>12. BuildReport(T, o).exit = 2 BY <1>4, <1>9, <1>10, <1>11, DuplicateExits
<1>13. <<1, 1>> \in HighCandidates(T)
  <2>1. FileRows(T, <<1, 1>>) = {r, s} BY <1>7, <1>9 DEF FileRows
  <2>2. Cardinality({r, s}) >= 2
    <3>1. IsFiniteSet({r}) /\ Cardinality({r}) = 1 BY FS_Singleton
    <3>2. Cardinality({r} \cup {s}) = Cardinality({r}) + 1 BY <1>10, <3>1, FS_AddElement
    <3>3. {r} \cup {s} = {r, s} OBVIOUS
    <3> QED BY <3>1, <3>2, <3>3
  <2>3. \A c \in KeyColumns(T) : c = 1
    <3>1. \A x \in T.data : x.key = Id(1) BY <1>7, <1>9
    <3>2. DOMAIN Id(1) = {1} BY DEF Id
    <3> QED BY <3>1, <3>2 DEF KeyColumns
  <2>4. Bounded(T, <<1, 1>>, 1) = {1}
    <3>1. Id(1)[1] = 1 /\ 1 # NullValue BY NullValueAssumption DEF Id
    <3>2. r.key[1] = 1 /\ s.key[1] = 1 BY <1>9, <3>1
    <3> QED BY <2>1, <3>1, <3>2 DEF Bounded
  <2>5. Cardinality({1}) = 1 BY FS_Singleton
  <2>6. <<1, 1>> \in DataFiles(T) BY <1>7, <1>9 DEF DataFiles
  <2> QED BY <2>1, <2>2, <2>3, <2>4, <2>5, <2>6 DEF HighCandidates, KeyBoundsCollapsed
<1> QED BY <1>12, <1>13 DEF Screen, T, S

\* A row and a later delete of its key: absent, which only the upsert-only assertion makes a
\* violation.
LEMMA SuppressedExits ==
    ASSUME NEW o \in Options
    PROVE  LET T == WrittenBy(WronglySuppressed, Len(WronglySuppressed))
           IN  BuildReport(T, o).exit = (IF o.upsertOnly THEN 2 ELSE 1) /\ Screen(T) = {}
<1> DEFINE S == WronglySuppressed
           T == WrittenBy(S, Len(S))
           r == RowAt(1, Written(1, 1, 1))
           d == DelAt(2, Id(1))
<1>1. S \in Seq(Commits(Ids))
  <2>1. "wrongly_suppressed" \in DOMAIN Scripts /\ Scripts["wrongly_suppressed"] = S BY DEF Scripts
  <2> QED BY <2>1, ScriptsArePlans
<1>2. /\ Len(S) = 2 /\ S[1].rows = {Written(1, 1, 1)} /\ S[1].deletes = {}
      /\ S[2].rows = {} /\ S[2].deletes = {Id(1)}
  BY DEF WronglySuppressed, DeltaCommit
<1>3. T \in CasesTables(Ids) BY <1>1, WrittenTable
<1>4. /\ \A x : x \in T.data <=> \E m \in 1..Len(S) : \E y \in S[m].rows : x = RowAt(m, y)
      /\ \A x : x \in T.dels <=> \E m \in 1..Len(S) : \E k \in S[m].deletes : x = DelAt(m, k)
  BY WrittenIs
<1> HIDE DEF S, T
<1>5. 1..Len(S) = {1, 2} BY <1>2
<1>6. \A x : x \in T.data <=> x = r BY <1>2, <1>4, <1>5
<1>7. \A x : x \in T.dels <=> x = d BY <1>2, <1>4, <1>5
<1>8. r.key = Id(1) /\ r.seq = 1 /\ d.key = Id(1) /\ d.seq = 2 BY DEF RowAt, Written, DelAt
<1> HIDE DEF r, d
<1>9. LiveRows(T) = {}
  <2>1. d \in T.dels /\ d.seq > r.seq BY <1>7, <1>8
  <2> QED BY <1>6, <1>8, <2>1 DEF LiveRows, IsDeleted
<1>10. LayoutKeys(T) = {Id(1)}
  <2>1. r \in T.data /\ T.data = {r} /\ T.dels = {d} BY <1>6, <1>7
  <2> QED BY <1>8, <2>1 DEF LayoutKeys
<1>11. T \in Table(Ids, AnyVersion) /\ IsFiniteSet(T.data) /\ IsFiniteSet(T.dels) BY <1>3 DEF CasesTables
<1>12. Verdict(T, Id(1), o) = IF o.upsertOnly THEN "WRONGLY_SUPPRESSED_CURRENT" ELSE "NEEDS_CONTEXT"
  <2>1. RowsOf(LiveRows(T), Id(1)) = {} BY <1>9 DEF RowsOf
  <2>2. RowsOf(T.data, Id(1)) # {} BY <1>6, <1>8 DEF RowsOf
  <2> QED BY <1>11, <2>1, <2>2, VerdictIs
<1>13. BuildReport(T, o).exit = IF o.upsertOnly THEN 2 ELSE 1
  <2>1. o.upsertOnly \in BOOLEAN BY DEF Options
  <2>2. CASE o.upsertOnly
    <3>1. Verdict(T, Id(1), o) = "WRONGLY_SUPPRESSED_CURRENT" BY <1>12, <2>2
    <3> QED BY <1>10, <1>11, <2>2, <3>1, ExitIs DEF Violations
  <2>3. CASE ~o.upsertOnly
    <3>1. Verdict(T, Id(1), o) = "NEEDS_CONTEXT" BY <1>12, <2>3
    <3>2. "NEEDS_CONTEXT" \notin Violations BY DEF Violations
    <3> QED BY <1>10, <1>11, <2>3, <3>1, <3>2, ExitIs
  <2> QED BY <2>1, <2>2, <2>3
<1>14. Screen(T) = {} BY <1>3, <1>6, QuietScreen
<1> QED BY <1>13, <1>14 DEF T, S

\* The fixture whose second write of the key comes a commit later, with its delete.
LEMMA AscendingExits ==
    ASSUME NEW o \in Options
    PROVE  LET T == WrittenBy(GoodAscending, Len(GoodAscending))
           IN  BuildReport(T, o).exit = (IF o.hasVersion THEN 0 ELSE 1) /\ Screen(T) = {}
<1> DEFINE S == GoodAscending
<1>1. S \in Seq(Commits(Ids))
  <2>1. "good_ascending" \in DOMAIN Scripts /\ Scripts["good_ascending"] = S BY DEF Scripts
  <2> QED BY <2>1, ScriptsArePlans
<1>2. /\ Len(S) = 2 /\ S[1].rows = {Written(1, 1, 1)} /\ S[1].deletes = {}
      /\ S[2].rows = {Written(1, 1, 2)} /\ S[2].deletes = {Id(1)}
  BY DEF GoodAscending, DeltaCommit
<1>3. DOMAIN S = {1, 2} BY DEF GoodAscending
<1> HIDE DEF S
<1>4. /\ Written(1, 1, 1).part = 1 /\ Written(1, 1, 1).key = Id(1) /\ Written(1, 1, 1).ver = 1
      /\ Written(1, 1, 2).part = 1 /\ Written(1, 1, 2).key = Id(1) /\ Written(1, 1, 2).ver = 2
  BY DEF Written
<1>5. Upserts(S)
  <2> SUFFICES ASSUME NEW i \in {1, 2}
               PROVE  /\ \A r \in S[i].rows : r.part = 1 /\ r.ver \in Nat
                      /\ \A r, q \in S[i].rows : r.key = q.key => r = q
                      /\ \A k \in S[i].deletes : \E r \in S[i].rows : r.key = k
                      /\ \A j \in 1..i - 1 : \A r \in S[j].rows, q \in S[i].rows :
                             r.key = q.key => q.key \in S[i].deletes /\ r.ver < q.ver
    BY <1>3 DEF Upserts
  <2>1. CASE i = 1
    <3>1. 1..(1 - 1) = {} OBVIOUS
    <3> QED BY <1>2, <1>4, <2>1, <3>1
  <2>2. CASE i = 2
    <3>1. 1..(2 - 1) = {1} OBVIOUS
    <3>2. \A r \in S[1].rows, q \in S[2].rows : q.key \in S[2].deletes /\ r.ver < q.ver BY <1>2, <1>4
    <3> QED BY <1>2, <1>4, <2>2, <3>1, <3>2
  <2> QED BY <2>1, <2>2
<1>6. 1 \in DOMAIN S /\ S[1].rows # {} BY <1>2, <1>3
<1>7. /\ BuildReport(WrittenBy(S, Len(S)), o).exit = IF o.hasVersion THEN 0 ELSE 1
      /\ Screen(WrittenBy(S, Len(S))) = {}
  BY <1>1, <1>5, <1>6, UpsertsExit
<1> QED BY <1>7 DEF S

\* The batches of the real-writer table and of the schema split rise.
LEMMA BatchesRise ==
    /\ <<{<<1, 1>>, <<2, 2>>, <<3, 3>>}, {<<1, 4>>, <<2, 5>>}, {<<1, 6>>, <<3, 7>>}>> \in Seq(RowSets)
    /\ Rising(<<{<<1, 1>>, <<2, 2>>, <<3, 3>>}, {<<1, 4>>, <<2, 5>>}, {<<1, 6>>, <<3, 7>>}>>)
    /\ SchemaSplit \in Seq(RowSets) /\ Rising(SchemaSplit)
<1>1. \A p, q, r \in Nat \X Nat : {p} \in RowSets /\ {p, q} \in RowSets /\ {p, q, r} \in RowSets
  BY SmallSets DEF RowSets
<1>2. <<1, 1>> \in Nat \X Nat /\ <<1, 2>> \in Nat \X Nat /\ <<2, 2>> \in Nat \X Nat
      /\ <<3, 3>> \in Nat \X Nat /\ <<1, 4>> \in Nat \X Nat /\ <<2, 5>> \in Nat \X Nat
      /\ <<1, 6>> \in Nat \X Nat /\ <<3, 7>> \in Nat \X Nat
  OBVIOUS
<1> DEFINE A == {<<1, 1>>, <<2, 2>>, <<3, 3>>}
           B == {<<1, 4>>, <<2, 5>>}
           C == {<<1, 6>>, <<3, 7>>}
           bs == <<A, B, C>>
<1>3. A \in RowSets /\ B \in RowSets /\ C \in RowSets BY <1>1, <1>2
<1>4. /\ \A p, q \in A : p[1] = q[1] => p = q
      /\ \A p, q \in B : p[1] = q[1] => p = q
      /\ \A p, q \in C : p[1] = q[1] => p = q
  OBVIOUS
<1>5. /\ \A p \in A, q \in B : p[2] < q[2]
      /\ \A p \in A, q \in C : p[2] < q[2]
      /\ \A p \in B, q \in C : p[2] < q[2]
  OBVIOUS
<1> HIDE DEF A, B, C
<1>6. DOMAIN bs = {1, 2, 3} /\ bs[1] = A /\ bs[2] = B /\ bs[3] = C /\ bs \in Seq(RowSets) BY <1>3
<1> HIDE DEF bs
<1>7. 1..(1 - 1) = {} /\ 1..(2 - 1) = {1} /\ 1..(3 - 1) = {1, 2} OBVIOUS
<1>8. Rising(bs)
  <2> SUFFICES ASSUME NEW i \in {1, 2, 3}
               PROVE  /\ \A p, q \in bs[i] : p[1] = q[1] => p = q
                      /\ \A j \in 1..i - 1 : \A p \in bs[j], q \in bs[i] : p[1] = q[1] => p[2] < q[2]
    BY <1>6 DEF Rising
  <2>1. CASE i = 1 BY <1>4, <1>6, <1>7, <2>1
  <2>2. CASE i = 2 BY <1>4, <1>5, <1>6, <1>7, <2>2
  <2>3. CASE i = 3 BY <1>4, <1>5, <1>6, <1>7, <2>3
  <2> QED BY <2>1, <2>2, <2>3
<1>9. SchemaSplit \in Seq(RowSets)
  <2>1. {<<1, 1>>} \in RowSets /\ {<<1, 2>>} \in RowSets BY <1>1, <1>2
  <2> QED BY <2>1 DEF SchemaSplit
<1>10. Rising(SchemaSplit)
  <2>1. DOMAIN SchemaSplit = {1, 2} /\ SchemaSplit[1] = {<<1, 1>>} /\ SchemaSplit[2] = {<<1, 2>>}
    BY DEF SchemaSplit
  <2> SUFFICES ASSUME NEW i \in {1, 2}
               PROVE  /\ \A p, q \in SchemaSplit[i] : p[1] = q[1] => p = q
                      /\ \A j \in 1..i - 1 : \A p \in SchemaSplit[j], q \in SchemaSplit[i] :
                             p[1] = q[1] => p[2] < q[2]
    BY <2>1 DEF Rising
  <2>2. CASE i = 1 BY <1>7, <2>1, <2>2
  <2>3. CASE i = 2 BY <1>7, <2>1, <2>3
  <2> QED BY <2>2, <2>3
<1> QED BY <1>6, <1>8, <1>9, <1>10 DEF bs, A, B, C

\* What mor-check says of each script's table, for every command line.
LEMMA ScriptVerdicts ==
    ASSUME NEW name \in DOMAIN Scripts, NEW o \in Options
    PROVE  LET T == WrittenBy(Scripts[name], Len(Scripts[name]))
           IN  /\ BuildReport(T, o).exit = ExpectedExit(name, o)
               /\ Screen(T) # {} <=> name \in {"bad_equal_seq", "tier2_pre"}
<1>1. name \in {"bad_equal_seq", "good_ascending", "wrongly_suppressed", "upserts", "tier2_pre", "tier2_post"}
  BY DEF Scripts
<1>2. CASE name = "bad_equal_seq"
  <2>1. Scripts[name] = BadEqualSeq BY <1>2 DEF Scripts
  <2>2. ExpectedExit(name, o) = 2 BY <1>2 DEF ExpectedExit
  <2> QED BY <1>2, <2>1, <2>2, EqualSeqExits
<1>3. CASE name = "good_ascending"
  <2>1. Scripts[name] = GoodAscending BY <1>3 DEF Scripts
  <2>2. ExpectedExit(name, o) = IF o.hasVersion THEN 0 ELSE 1 BY <1>3 DEF ExpectedExit
  <2> QED BY <1>3, <2>1, <2>2, AscendingExits
<1>4. CASE name = "wrongly_suppressed"
  <2>1. Scripts[name] = WronglySuppressed BY <1>4 DEF Scripts
  <2>2. ExpectedExit(name, o) = IF o.upsertOnly THEN 2 ELSE 1 BY <1>4 DEF ExpectedExit
  <2> QED BY <1>4, <2>1, <2>2, SuppressedExits
<1>5. CASE name = "upserts"
  <2> DEFINE bs == <<{<<1, 1>>, <<2, 2>>, <<3, 3>>}, {<<1, 4>>, <<2, 5>>}, {<<1, 6>>, <<3, 7>>}>>
  <2>1. Scripts[name] = PostFix(bs) BY <1>5 DEF Scripts, RealWorldUpserts
  <2>2. ExpectedExit(name, o) = IF o.hasVersion THEN 0 ELSE 1 BY <1>5 DEF ExpectedExit
  <2>3. bs \in Seq(RowSets) /\ Rising(bs) BY BatchesRise
  <2>4. 1 \in DOMAIN bs /\ bs[1] # {}
    <3>1. 1 \in DOMAIN bs /\ <<1, 1>> \in bs[1] OBVIOUS
    <3> HIDE DEF bs
    <3> QED BY <3>1
  <2> HIDE DEF bs
  <2>5. Len(PostFix(bs)) = Len(bs) BY <2>3, PostFixLength
  <2> QED BY <1>5, <2>1, <2>2, <2>3, <2>4, <2>5, PostFixIsFaithful
<1>6. CASE name = "tier2_pre"
  <2>1. Scripts[name] = PreFix(SchemaSplit) BY <1>6 DEF Scripts
  <2>2. ExpectedExit(name, o) = 2 BY <1>6 DEF ExpectedExit
  <2>3. Len(PreFix(SchemaSplit)) = 1 BY DEF PreFix
  <2>4. /\ 1 \in DOMAIN SchemaSplit /\ 2 \in DOMAIN SchemaSplit
        /\ <<1, 1>> \in SchemaSplit[1] /\ <<1, 2>> \in SchemaSplit[2]
    BY DEF SchemaSplit
  <2>5. <<1, 1>>[1] = <<1, 2>>[1] /\ 1 # 2 OBVIOUS
  <2>6. /\ BuildReport(WrittenBy(PreFix(SchemaSplit), 1), o).exit = 2
        /\ {<<1, 1>>, <<1, 2>>} \subseteq Screen(WrittenBy(PreFix(SchemaSplit), 1))
    BY <2>4, <2>5, BatchesRise, PreFixDuplicates
  <2> QED BY <1>6, <2>1, <2>2, <2>3, <2>6
<1>7. CASE name = "tier2_post"
  <2>1. Scripts[name] = PostFix(SchemaSplit) BY <1>7 DEF Scripts
  <2>2. ExpectedExit(name, o) = IF o.hasVersion THEN 0 ELSE 1 BY <1>7 DEF ExpectedExit
  <2>3. 1 \in DOMAIN SchemaSplit /\ SchemaSplit[1] # {}
    <3>1. 1 \in DOMAIN SchemaSplit /\ <<1, 1>> \in SchemaSplit[1] BY DEF SchemaSplit
    <3> QED BY <3>1
  <2>4. Len(PostFix(SchemaSplit)) = Len(SchemaSplit) BY BatchesRise, PostFixLength
  <2> QED BY <1>7, <2>1, <2>2, <2>3, <2>4, BatchesRise, PostFixIsFaithful
<1> QED BY <1>1, <1>2, <1>3, <1>4, <1>5, <1>6, <1>7

\* Every script's table gets the exit code its author wrote down, in each mode, and the
\* screen is quiet on the healthy ones and not on the FLINK-38450 ones
\* (build_fixtures.py:125-201, tests/test_fixtures.py, realworld/REPORT.md).
THEOREM ScriptsChecked == Spec => []ScriptsAsExpected
<1>1. CasesInv /\ ScriptFollowed => ScriptsAsExpected
  <2> SUFFICES ASSUME CasesInv, ScriptFollowed, Done, script # "free", checked.of = Len(metadata)
               PROVE  /\ checked.report.exit = ExpectedExit(script, checked.options)
                      /\ checked.report.screened # {} <=> script \in {"bad_equal_seq", "tier2_pre"}
    BY DEF ScriptsAsExpected
  <2> DEFINE T == WrittenBy(Scripts[script], Len(Scripts[script]))
  <2>1. checked.options \in Options /\ checked.report = BuildReport(Seen, checked.options) BY SeenIsTable
  <2>2. plan = <<>> BY DEF CasesInv, ReportOK, Done
  <2>3. Len(metadata) - 1 = Len(Scripts[script])
    <3>1. Len(metadata) \in Nat /\ Len(plan) = 0 BY <2>2 DEF CasesInv, CasesTypeOK
    <3>2. Len(Scripts[script]) = Len(metadata) - 1 + Len(plan) BY DEF ScriptFollowed
    <3> QED BY <3>1, <3>2
  <2>4. Seen = T BY <2>3 DEF Seen, Table0, ScriptFollowed
  <2>5. script \in DOMAIN Scripts BY DEF CasesInv, CasesTypeOK
  <2> HIDE DEF T
  <2>6. /\ BuildReport(T, checked.options).exit = ExpectedExit(script, checked.options)
        /\ Screen(T) # {} <=> script \in {"bad_equal_seq", "tier2_pre"}
    BY <2>1, <2>5, ScriptVerdicts DEF T
  <2>7. BuildReport(T, checked.options).screened = Screen(T) BY DEF BuildReport
  <2> QED BY <2>1, <2>4, <2>6, <2>7
<1> QED BY <1>1, CasesInvariant, ScriptsFollowed, PTL

-----------------------------------------------------------------------------
\* The sweep.

Lines == Records \cup {Garbage}

Listed == Recorded("ok") \cup Recorded("failed")

Sweeping == {"loop", "append", "csv"}

-----------------------------------------------------------------------------
\* The invariants.

TypeOK ==
    /\ pc \in Sweeping \cup {"down", "done"}
    /\ seen \in SUBSET Hashes
    /\ pos \in Nat \ {0}
    /\ record \in Lines
    /\ jsonl \in Seq(Lines)
    /\ newline \in BOOLEAN
    /\ ~newline => jsonl # <<>>

\* What is about to be appended is the record of the configuration at hand, which
\* the sweep does not skip.
AtHand ==
    pc = "append" =>
        /\ pos <= Len(ConfigList)
        /\ record \in Records /\ record.hash = ConfigList[pos] /\ record.hash \notin seen

\* A running sweep skips every configuration that has succeeded.
KnowsSuccess == pc \in Sweeping => Recorded("ok") \subseteq seen

\* What a sweep is through with it has seen.
Passed ==
    /\ pc \in Sweeping \cup {"done"} =>
           \A i \in DOMAIN ConfigList : i < pos => ConfigList[i] \in seen
    /\ pc \in {"csv", "done"} => pos > Len(ConfigList)

\* What a sweep has seen is recorded, except for the one record that was on the torn
\* line and the one written onto it.
SeenIsListed ==
    pc \in Sweeping \cup {"done"} =>
        /\ \E lost, over : seen \ Listed \subseteq {lost, over}
        /\ ~newline \/ Garbage \notin ToSet(jsonl) => seen \subseteq Listed

IInv == TypeOK /\ AtHand /\ KnowsSuccess /\ SuccessEndsWork /\ Passed /\ SeenIsListed

-----------------------------------------------------------------------------
\* Lemmas.

\* A torn line is nobody's record.
LEMMA GarbageIs == Garbage.hash = "" /\ Garbage.status \notin {"ok", "failed"}
BY DEF Garbage

\* A line with a status is the record of a configuration.
LEMMA LineIs ==
    ASSUME NEW line \in Lines
    PROVE  line.status \in {"ok", "failed"} =>
               line \in Records /\ line.hash \in Hashes /\ line.hash # ""
<1>1. "" \notin Hashes BY SweepAssumption DEF Hashes
<1>2. CASE line \in Records BY <1>1, <1>2 DEF Records
<1>3. CASE line = Garbage BY <1>3 DEF Garbage
<1> QED BY <1>2, <1>3 DEF Lines

\* What it means that a configuration has a record.
LEMMA RecordedIs ==
    ASSUME NEW status, NEW h
    PROVE  h \in Recorded(status) <=>
               \E i \in DOMAIN jsonl : jsonl[i].status = status /\ jsonl[i].hash = h
BY DEF Recorded, ToSet

\* Text at the end of the file is a line of its own, or spoils the torn one.
LEMMA ExtendedIs ==
    ASSUME jsonl \in Seq(Lines), newline \in BOOLEAN, ~newline => jsonl # <<>>,
           NEW line \in Lines
    PROVE  LET j == Extended(line)
               n == Len(jsonl)
           IN  /\ j \in Seq(Lines) /\ j # <<>>
               /\ newline => /\ Len(j) = n + 1 /\ j[n + 1] = line
                             /\ \A i \in 1..n : j[i] = jsonl[i]
               /\ ~newline => /\ Len(j) = n /\ n \in 1..n /\ j[n] = Garbage
                              /\ \A i \in 1..n - 1 : j[i] = jsonl[i]
<1>1. Garbage \in Lines BY DEF Lines
<1>2. CASE newline
  <2>1. Extended(line) = Append(jsonl, line) BY <1>2 DEF Extended
  <2> QED BY <1>2, <2>1
<1>3. CASE ~newline
  <2>1. Extended(line) = [jsonl EXCEPT ![Len(jsonl)] = Garbage] BY <1>3 DEF Extended
  <2>2. Len(jsonl) \in Nat /\ Len(jsonl) # 0 BY <1>3
  <2>3. Len(jsonl) \in 1..Len(jsonl) BY <2>2
  <2> QED BY <1>1, <1>3, <2>1, <2>2, <2>3
<1> QED BY <1>2, <1>3

\* Only the record appended can be new among the successes.
LEMMA SuccessAfter ==
    ASSUME TypeOK, NEW line \in Lines, jsonl' = Extended(line)
    PROVE  /\ Recorded("ok")' \subseteq Recorded("ok") \cup {line.hash}
           /\ line = Garbage => Recorded("ok")' \subseteq Recorded("ok")
<1>1. SUFFICES ASSUME NEW h \in Recorded("ok")'
      PROVE  h \in Recorded("ok") \/ (line # Garbage /\ h = line.hash)
  OBVIOUS
<1>2. PICK i \in DOMAIN jsonl' : jsonl'[i].status = "ok" /\ jsonl'[i].hash = h
  BY <1>1 DEF Recorded, ToSet
<1>3. jsonl' \in Seq(Lines) /\ jsonl \in Seq(Lines) /\ Len(jsonl) \in Nat
  BY ExtendedIs DEF TypeOK
<1>4. i \in 1..Len(jsonl') BY <1>3
<1>5. jsonl'[i] = line \/ jsonl'[i] = Garbage \/ (i \in DOMAIN jsonl /\ jsonl'[i] = jsonl[i])
  <2>1. CASE newline
    <3>1. /\ Len(jsonl') = Len(jsonl) + 1 /\ jsonl'[Len(jsonl) + 1] = line
          /\ \A l \in 1..Len(jsonl) : jsonl'[l] = jsonl[l]
      BY <2>1, ExtendedIs DEF TypeOK
    <3> QED BY <1>3, <1>4, <3>1
  <2>2. CASE ~newline
    <3>1. /\ Len(jsonl') = Len(jsonl) /\ jsonl'[Len(jsonl)] = Garbage
          /\ \A l \in 1..Len(jsonl) - 1 : jsonl'[l] = jsonl[l]
      BY <2>2, ExtendedIs DEF TypeOK
    <3> QED BY <1>3, <1>4, <3>1
  <2> QED BY <2>1, <2>2 DEF TypeOK
<1> QED BY <1>2, <1>5, GarbageIs, RecordedIs

\* A record of a configuration without a success breaks no earlier one.
LEMMA SuccessStep ==
    ASSUME TypeOK, SuccessEndsWork, NEW line \in Lines, jsonl' = Extended(line),
           line # Garbage => line.hash \notin Recorded("ok")
    PROVE  SuccessEndsWork'
<1>1. SUFFICES ASSUME NEW i \in DOMAIN jsonl', NEW j \in DOMAIN jsonl', i # j,
                      jsonl'[i].status = "ok", jsonl'[j].hash = jsonl'[i].hash
               PROVE  j < i
  BY DEF SuccessEndsWork
<1>2. jsonl' \in Seq(Lines) /\ jsonl \in Seq(Lines) BY ExtendedIs DEF TypeOK
<1>3. /\ jsonl'[i] \in Lines /\ jsonl'[i] # Garbage
      /\ jsonl'[i].hash # "" /\ jsonl'[j].hash # ""
  <2>1. jsonl'[i] \in Lines BY <1>2
  <2>2. jsonl'[i] # Garbage BY <1>1, GarbageIs
  <2> QED BY <1>1, <2>1, <2>2, LineIs
<1>4. jsonl'[j] # Garbage BY <1>3, GarbageIs
<1>5. i \in 1..Len(jsonl') /\ j \in 1..Len(jsonl') /\ Len(jsonl) \in Nat BY <1>1, <1>2
<1>6. CASE newline
  <2>1. /\ Len(jsonl') = Len(jsonl) + 1 /\ jsonl'[Len(jsonl) + 1] = line
        /\ \A l \in 1..Len(jsonl) : jsonl'[l] = jsonl[l]
    BY <1>6, ExtendedIs DEF TypeOK
  <2>2. CASE i = Len(jsonl) + 1 BY <1>1, <1>5, <2>1, <2>2
  <2>3. CASE i # Len(jsonl) + 1
    <3>1. i \in DOMAIN jsonl /\ jsonl[i] = jsonl'[i] BY <1>2, <1>5, <2>1, <2>3
    <3>2. jsonl[i].hash \in Recorded("ok") BY <1>1, <3>1, RecordedIs
    <3>3. j # Len(jsonl) + 1
      <4>1. SUFFICES ASSUME j = Len(jsonl) + 1 PROVE FALSE OBVIOUS
      <4>2. jsonl'[j] = line BY <2>1, <4>1
      <4> QED BY <1>1, <1>4, <3>1, <3>2, <4>2
    <3>4. j \in DOMAIN jsonl /\ jsonl[j] = jsonl'[j] BY <1>2, <1>5, <2>1, <3>3
    <3> QED BY <1>1, <3>1, <3>4 DEF SuccessEndsWork
  <2> QED BY <2>2, <2>3
<1>7. CASE ~newline
  <2>1. /\ Len(jsonl') = Len(jsonl) /\ jsonl'[Len(jsonl)] = Garbage
        /\ \A l \in 1..Len(jsonl) - 1 : jsonl'[l] = jsonl[l]
    BY <1>7, ExtendedIs DEF TypeOK
  <2>2. i # Len(jsonl) /\ j # Len(jsonl) BY <1>3, <1>4, <2>1
  <2>3. /\ i \in DOMAIN jsonl /\ jsonl[i] = jsonl'[i]
        /\ j \in DOMAIN jsonl /\ jsonl[j] = jsonl'[j]
    BY <1>2, <1>5, <2>1, <2>2
  <2> QED BY <1>1, <2>3 DEF SuccessEndsWork
<1> QED BY <1>6, <1>7 DEF TypeOK

\* What is recorded after an append: with a whole last line everything that was, and
\* the new record; onto a torn one, everything but what was on it, and garbage.
LEMMA ListedAfter ==
    ASSUME TypeOK, NEW line \in Records, jsonl' = Extended(line)
    PROVE  /\ newline => Listed \cup {line.hash} \subseteq Listed'
           /\ newline /\ Garbage \notin ToSet(jsonl)' => Garbage \notin ToSet(jsonl)
           /\ ~newline => /\ Garbage \in ToSet(jsonl)'
                          /\ \E lost : Listed \subseteq Listed' \cup {lost}
<1>1. line \in Lines /\ line.status \in {"ok", "failed"} BY DEF Lines, Records
<1>2. jsonl' \in Seq(Lines) /\ jsonl \in Seq(Lines) /\ Len(jsonl) \in Nat
  BY <1>1, ExtendedIs DEF TypeOK
<1>3. ASSUME NEW i \in DOMAIN jsonl', jsonl'[i].status \in {"ok", "failed"}
      PROVE  jsonl'[i].hash \in Listed'
  BY <1>3 DEF Listed, Recorded, ToSet
<1>4. ASSUME NEW h \in Listed
      PROVE  \E i \in DOMAIN jsonl : jsonl[i].status \in {"ok", "failed"} /\ jsonl[i].hash = h
  BY <1>4, RecordedIs DEF Listed
<1>5. CASE newline
  <2>1. /\ Len(jsonl') = Len(jsonl) + 1 /\ jsonl'[Len(jsonl) + 1] = line
        /\ \A l \in 1..Len(jsonl) : jsonl'[l] = jsonl[l]
    BY <1>1, <1>5, ExtendedIs DEF TypeOK
  <2>2. /\ Len(jsonl) + 1 \in DOMAIN jsonl'
        /\ \A l \in DOMAIN jsonl : l \in DOMAIN jsonl' /\ jsonl'[l] = jsonl[l]
    BY <1>2, <2>1
  <2>3. line.hash \in Listed' BY <1>1, <1>3, <2>1, <2>2
  <2>4. Listed \subseteq Listed' BY <1>3, <1>4, <2>2
  <2>5. ToSet(jsonl) \subseteq ToSet(jsonl)' BY <2>2 DEF ToSet
  <2> QED BY <1>5, <2>3, <2>4, <2>5
<1>6. CASE ~newline
  <2>1. /\ Len(jsonl') = Len(jsonl) /\ Len(jsonl) \in 1..Len(jsonl)
        /\ jsonl'[Len(jsonl)] = Garbage
        /\ \A l \in 1..Len(jsonl) - 1 : jsonl'[l] = jsonl[l]
    BY <1>1, <1>6, ExtendedIs DEF TypeOK
  <2>2. Garbage \in ToSet(jsonl)' BY <1>2, <2>1 DEF ToSet
  <2>3. \A l \in DOMAIN jsonl : l # Len(jsonl) => l \in DOMAIN jsonl' /\ jsonl'[l] = jsonl[l]
    BY <1>2, <2>1
  <2>4. Listed \subseteq Listed' \cup {jsonl[Len(jsonl)].hash}
    <3>1. SUFFICES ASSUME NEW h \in Listed, h # jsonl[Len(jsonl)].hash PROVE h \in Listed'
      OBVIOUS
    <3>2. PICK i \in DOMAIN jsonl : jsonl[i].status \in {"ok", "failed"} /\ jsonl[i].hash = h
      BY <1>4, <3>1
    <3> QED BY <1>3, <2>3, <3>1, <3>2
  <2> QED BY <1>6, <2>2, <2>4
<1> QED BY <1>5, <1>6 DEF TypeOK

-----------------------------------------------------------------------------
\* The invariants are inductive.

\* The invariant holds at the start.
LEMMA Initially == SweepInit => IInv
<1>1. SUFFICES ASSUME SweepInit PROVE IInv OBVIOUS
<1>2. TypeOK BY <1>1 DEF SweepInit, TypeOK, Lines
<1>3. SuccessEndsWork BY <1>1 DEF SweepInit, SuccessEndsWork
<1> QED BY <1>1, <1>2, <1>3
        DEF SweepInit, IInv, AtHand, KnowsSuccess, Passed, SeenIsListed, Sweeping

\* The steps that leave the JSONL file alone.
LEMMA ReadingStep ==
    ASSUME IInv,
           Start \/ Skip \/ Run \/ EndLoop \/ WriteCsv \/ Crash \/ TornCsv \/ UNCHANGED sweepVars
    PROVE  IInv'
<1>1. /\ jsonl' = jsonl /\ newline' = newline
      /\ Recorded("ok")' = Recorded("ok") /\ Listed' = Listed
  BY DEF Start, Skip, Run, EndLoop, WriteCsv, Crash, TornCsv, sweepVars, Recorded, Listed
<1>2. SuccessEndsWork' BY <1>1 DEF IInv, SuccessEndsWork
<1>3. Recorded("ok") \subseteq Listed BY DEF Listed
<1>4. ConfigList \in Seq(STRING) BY SweepAssumption
<1>5. ToSet(jsonl)' = ToSet(jsonl) BY <1>1
<1>6. ASSUME seen' = seen, pc \in Sweeping \cup {"done"} \/ pc' \notin Sweeping \cup {"done"}
       PROVE  SeenIsListed'
  <2>1. CASE pc' \in Sweeping \cup {"done"}
    <3>1. PICK a, b : seen \ Listed \subseteq {a, b} BY <1>6, <2>1 DEF IInv, SeenIsListed
    <3>2. seen' \ Listed' \subseteq {a, b} BY <1>1, <1>6, <3>1
    <3>3. ~newline \/ Garbage \notin ToSet(jsonl) => seen \subseteq Listed
      BY <1>6, <2>1 DEF IInv, SeenIsListed
    <3> QED BY <1>1, <1>5, <1>6, <3>2, <3>3 DEF SeenIsListed
  <2>2. CASE pc' \notin Sweeping \cup {"done"} BY <2>2 DEF SeenIsListed
  <2> QED BY <2>1, <2>2
<1>7. CASE Start
  <2>1. seen' \in SUBSET Hashes
    <3>1. SUFFICES ASSUME NEW h \in Recorded("ok") PROVE h \in Hashes
      BY <1>7 DEF Start, SeenHashes
    <3>2. PICK i \in DOMAIN jsonl : jsonl[i].status = "ok" /\ jsonl[i].hash = h BY RecordedIs
    <3>3. jsonl[i] \in Lines BY DEF IInv, TypeOK
    <3> QED BY <3>2, <3>3, LineIs
  <2>2. TypeOK' BY <1>1, <1>7, <2>1 DEF IInv, TypeOK, Start, Sweeping, Lines
  <2>3. AtHand' /\ KnowsSuccess' /\ Passed'
    BY <1>1, <1>4, <1>7 DEF Start, AtHand, KnowsSuccess, SeenHashes, Passed
  <2>4. SeenIsListed' BY <1>1, <1>3, <1>7 DEF Start, SeenIsListed, SeenHashes
  <2> QED BY <1>2, <2>2, <2>3, <2>4 DEF IInv
<1>8. CASE Skip
  <2>1. TypeOK' BY <1>1, <1>8 DEF IInv, TypeOK, Skip
  <2>2. AtHand' /\ KnowsSuccess' BY <1>1, <1>8 DEF IInv, Skip, AtHand, KnowsSuccess
  <2>3. Passed'
    <3>1. ASSUME NEW i \in DOMAIN ConfigList, i < pos' PROVE ConfigList[i] \in seen
      <4>1. i < pos \/ i = pos BY <1>4, <1>8, <3>1 DEF Skip, IInv, TypeOK
      <4> QED BY <1>8, <4>1 DEF Skip, IInv, Passed, Sweeping
    <3> QED BY <1>8, <3>1 DEF Skip, Passed
  <2>4. SeenIsListed' BY <1>8, <1>6 DEF Skip, Sweeping
  <2> QED BY <1>2, <2>1, <2>2, <2>3, <2>4 DEF IInv
<1>9. CASE Run
  <2>1. pos \in DOMAIN ConfigList BY <1>4, <1>9 DEF Run, IInv, TypeOK
  <2>2. record' \in Records /\ record'.hash = ConfigList[pos]
    BY <1>9, <2>1 DEF Run, Records, Hashes, ToSet
  <2>3. TypeOK' BY <1>1, <1>9, <2>2 DEF IInv, TypeOK, Run, Lines, Sweeping
  <2>4. AtHand' BY <1>9, <2>2 DEF Run, AtHand
  <2>5. KnowsSuccess' /\ Passed'
    BY <1>1, <1>9 DEF IInv, Run, KnowsSuccess, Passed, Sweeping
  <2>6. SeenIsListed' BY <1>9, <1>6 DEF Run, Sweeping
  <2> QED BY <1>2, <2>3, <2>4, <2>5, <2>6 DEF IInv
<1>10. CASE EndLoop \/ WriteCsv
  <2>1. TypeOK' BY <1>1, <1>10 DEF IInv, TypeOK, EndLoop, WriteCsv, Sweeping
  <2>2. AtHand' /\ KnowsSuccess'
    BY <1>1, <1>10 DEF IInv, EndLoop, WriteCsv, AtHand, KnowsSuccess, Sweeping
  <2>3. Passed' BY <1>4, <1>10 DEF IInv, EndLoop, WriteCsv, Passed, Sweeping
  <2>4. SeenIsListed' BY <1>10, <1>6 DEF EndLoop, WriteCsv, Sweeping
  <2> QED BY <1>2, <2>1, <2>2, <2>3, <2>4 DEF IInv
<1>11. CASE Crash \/ TornCsv
  <2>1. TypeOK' BY <1>1, <1>11 DEF IInv, TypeOK, Crash, TornCsv
  <2>2. AtHand' /\ KnowsSuccess' /\ Passed' /\ SeenIsListed'
    BY <1>11 DEF Crash, TornCsv, AtHand, KnowsSuccess, Passed, SeenIsListed, Sweeping
  <2> QED BY <1>2, <2>1, <2>2 DEF IInv
<1>12. CASE UNCHANGED sweepVars
  <2>1. TypeOK' BY <1>12 DEF sweepVars, IInv, TypeOK
  <2>2. AtHand' /\ KnowsSuccess' /\ Passed'
    BY <1>1, <1>12 DEF sweepVars, IInv, AtHand, KnowsSuccess, Passed
  <2>3. SeenIsListed' BY <1>12, <1>6 DEF sweepVars
  <2> QED BY <1>2, <2>1, <2>2, <2>3 DEF IInv
<1> QED BY <1>7, <1>8, <1>9, <1>10, <1>11, <1>12

\* Appending the record at hand keeps the invariant.
LEMMA AppendStep == ASSUME IInv, AppendRecord PROVE IInv'
<1>1. /\ TypeOK /\ record \in Records /\ record.hash = ConfigList[pos] /\ record.hash \notin seen
      /\ jsonl' = Extended(record) /\ newline' = TRUE
      /\ pc = "append" /\ pc' = "loop" /\ pos' = pos + 1 /\ record' = record
      /\ seen' = seen \cup {record.hash}
  BY DEF IInv, AtHand, AppendRecord
<1>2. record \in Lines /\ record.hash \in Hashes BY <1>1 DEF Lines, Records
<1>3. Recorded("ok") \subseteq seen BY <1>1 DEF IInv, KnowsSuccess, Sweeping
<1>4. TypeOK'
  <2>1. jsonl' \in Seq(Lines) BY <1>1, <1>2, ExtendedIs DEF TypeOK
  <2> QED BY <1>1, <1>2, <2>1 DEF TypeOK, Sweeping
<1>5. KnowsSuccess' BY <1>1, <1>2, <1>3, SuccessAfter DEF KnowsSuccess
<1>6. SuccessEndsWork'
  <2>1. SuccessEndsWork BY DEF IInv
  <2> QED BY <1>1, <1>2, <1>3, <2>1, SuccessStep
<1>7. Passed'
  <2>1. ASSUME NEW i \in DOMAIN ConfigList, i < pos + 1 PROVE ConfigList[i] \in seen'
    <3>1. ConfigList \in Seq(STRING) BY SweepAssumption
    <3>2. i < pos \/ i = pos BY <1>1, <2>1, <3>1 DEF TypeOK
    <3> QED BY <1>1, <3>2 DEF IInv, Passed, Sweeping
  <2> QED BY <1>1, <2>1 DEF Passed
<1>8. SeenIsListed'
  <2>1. PICK a, b : seen \ Listed \subseteq {a, b} BY <1>1 DEF IInv, SeenIsListed, Sweeping
  <2>2. ~newline \/ Garbage \notin ToSet(jsonl) => seen \subseteq Listed
    BY <1>1 DEF IInv, SeenIsListed, Sweeping
  <2>3. CASE newline
    <3>1. /\ Listed \cup {record.hash} \subseteq Listed'
          /\ Garbage \notin ToSet(jsonl)' => Garbage \notin ToSet(jsonl)
      BY <1>1, <2>3, ListedAfter
    <3>2. seen' \ Listed' \subseteq {a, b} BY <1>1, <2>1, <3>1
    <3> QED BY <1>1, <2>2, <3>1, <3>2 DEF SeenIsListed
  <2>4. CASE ~newline
    <3>1. Garbage \in ToSet(jsonl)' BY <1>1, <2>4, ListedAfter
    <3>2. PICK lost : Listed \subseteq Listed' \cup {lost} BY <1>1, <2>4, ListedAfter
    <3>3. seen' \ Listed' \subseteq {lost, record.hash} BY <1>1, <2>2, <2>4, <3>2
    <3> QED BY <1>1, <3>1, <3>3 DEF SeenIsListed
  <2> QED BY <1>1, <2>3, <2>4 DEF TypeOK
<1> QED BY <1>1, <1>4, <1>5, <1>6, <1>7, <1>8 DEF IInv, AtHand

\* So does a kill in the middle of the line.
LEMMA TornStep == ASSUME IInv, TornAppend PROVE IInv'
<1>1. PICK line \in {record, Garbage} : jsonl' = Extended(line) BY DEF TornAppend
<1>2. /\ TypeOK /\ SuccessEndsWork /\ record \in Records /\ record.hash \notin seen
      /\ pc = "append" /\ pc' = "down" /\ newline' = FALSE
      /\ UNCHANGED <<seen, pos, record>>
  BY DEF IInv, AtHand, TornAppend
<1>3. line \in Lines BY <1>2 DEF Lines
<1>4. Recorded("ok") \subseteq seen BY <1>2 DEF IInv, KnowsSuccess, Sweeping
<1>5. TypeOK'
  <2>1. jsonl' \in Seq(Lines) /\ jsonl' # <<>> BY <1>1, <1>2, <1>3, ExtendedIs DEF TypeOK
  <2> QED BY <1>2, <2>1 DEF TypeOK
<1>6. SuccessEndsWork' BY <1>1, <1>2, <1>3, <1>4, SuccessStep
<1> QED BY <1>2, <1>5, <1>6
        DEF IInv, AtHand, KnowsSuccess, Passed, SeenIsListed, Sweeping

\* The invariant holds throughout.
THEOREM SweepInvariant == SweepSpec => []IInv
<1>1. IInv /\ [SweepNext]_sweepVars => IInv' BY ReadingStep, AppendStep, TornStep DEF SweepNext
<1> QED BY <1>1, Initially, PTL DEF SweepSpec

-----------------------------------------------------------------------------
\* sweep.py's promise to repeat no work: whatever is killed when, nothing is recorded
\* of a configuration after the record of its success.
THEOREM WorkEnds == SweepSpec => []SuccessEndsWork
<1>1. IInv => SuccessEndsWork BY DEF IInv
<1> QED BY <1>1, SweepInvariant, PTL

\* A sweep that reaches its end leaves a record of every configuration, except that
\* writing onto a torn line costs at most two.
THEOREM EndIsComplete == SweepSpec => []SweepIsComplete
<1>1. IInv => SweepIsComplete
  <2>1. SUFFICES ASSUME IInv, pc = "done"
        PROVE  Cardinality(Hashes \ Listed) <= IF Garbage \in ToSet(jsonl) THEN 2 ELSE 0
    BY DEF SweepIsComplete, Listed
  <2>2. Hashes \subseteq seen
    <3>1. ConfigList \in Seq(STRING) BY SweepAssumption
    <3>2. \A i \in DOMAIN ConfigList : i < pos BY <2>1, <3>1 DEF IInv, TypeOK, Passed
    <3> QED BY <2>1, <3>2 DEF IInv, Passed, Hashes, ToSet
  <2>3. PICK a, b : seen \ Listed \subseteq {a, b} BY <2>1 DEF IInv, SeenIsListed
  <2>4. IsFiniteSet({a, b}) /\ Cardinality({a, b}) <= 2
    <3>1. IsFiniteSet({a}) /\ Cardinality({a}) = 1 BY FS_Singleton
    <3>2. {a, b} = {a} \cup {b} OBVIOUS
    <3> QED BY <3>1, <3>2, FS_AddElement
  <2>5. CASE Garbage \in ToSet(jsonl)
    <3>1. Hashes \ Listed \in SUBSET {a, b} BY <2>2, <2>3
    <3>2. /\ Cardinality(Hashes \ Listed) <= Cardinality({a, b})
          /\ IsFiniteSet(Hashes \ Listed)
      BY <2>4, <3>1, FS_Subset
    <3>3. Cardinality(Hashes \ Listed) \in Nat /\ Cardinality({a, b}) \in Nat
      BY <2>4, <3>2, FS_CardinalityType
    <3> QED BY <2>4, <2>5, <3>2, <3>3
  <2>6. CASE Garbage \notin ToSet(jsonl)
    <3>1. Hashes \ Listed = {} BY <2>1, <2>2, <2>6 DEF IInv, SeenIsListed
    <3> QED BY <2>6, <3>1, FS_EmptySet
  <2> QED BY <2>5, <2>6
<1> QED BY <1>1, SweepInvariant, PTL

-----------------------------------------------------------------------------
\* The two files.

\* The rows that are records stand, one after the other, for lines among the first n.  A
\* row that is none, a header or a torn line, takes the place of the record before it.
Stands(rows, lines, n) ==
    \E f \in [DOMAIN rows -> 0..n] :
        /\ \A i, j \in DOMAIN rows :
               i < j => f[i] <= f[j] /\ (rows[j] \in Records => f[i] < f[j])
        /\ \A i \in DOMAIN rows :
               rows[i] \in Records => f[i] # 0 /\ lines[f[i]] \in {rows[i], Garbage}

\* The lines that no later append can change: all but a torn last one.
Settled == IF newline THEN Len(jsonl) ELSE Len(jsonl) - 1

\* What the lines of the CSV file say.
CsvLines == [record : Lines \cup {Header}, columns : SUBSET STRING]

CsvRows == [i \in DOMAIN csv |-> csv[i].record]

\* Every append to the CSV file makes it and writes something.
CsvShape ==
    /\ csv \in Seq(CsvLines) /\ pending \in Seq(Records)
    /\ csvMade \in BOOLEAN /\ csvNewline \in BOOLEAN
    /\ ~csvMade => csv = <<>>
    /\ ~csvNewline => csv # <<>>

\* The rows in the CSV file stand for lines, and so do those together with the rows the
\* running sweep holds back.
CsvInv ==
    /\ CsvShape
    /\ Stands(CsvRows, jsonl, Settled)
    /\ pc \in Sweeping => Stands(CsvRows \o pending, jsonl, Settled)

\* No run has failed and no record was torn.
Clean == Recorded("failed") = {} /\ Garbage \notin ToSet(jsonl)

\* Then the sweep that makes the CSV file has recorded the success of every
\* configuration, and no later one has anything to add.
OnceInv ==
    Clean =>
        /\ RowsFitHeader
        /\ csvMade => Hashes \subseteq Recorded("ok")
        /\ csvMade /\ pc \in Sweeping => pending = <<>>

\* Rows that are taken from others, in their order, stand for what those stand for.
LEMMA StandsThrough ==
    ASSUME NEW rows, NEW some, NEW n \in Nat, NEW m \in Nat, NEW l \in Nat, n <= m,
           NEW old, NEW new,
           DOMAIN rows = 1..l,
           Stands(rows, old, n),
           \A p \in 1..n : new[p] \in {old[p], Garbage},
           NEW g \in [DOMAIN some -> 0..l],
           \A i, j \in DOMAIN some :
               i < j => g[i] <= g[j] /\ (some[j] \in Records => g[i] < g[j]),
           \A i \in DOMAIN some : some[i] \in Records => g[i] # 0 /\ some[i] = rows[g[i]]
    PROVE  Stands(some, new, m)
<1>1. PICK f \in [DOMAIN rows -> 0..n] :
          /\ \A i, j \in DOMAIN rows :
                 i < j => f[i] <= f[j] /\ (rows[j] \in Records => f[i] < f[j])
          /\ \A i \in DOMAIN rows :
                 rows[i] \in Records => f[i] # 0 /\ old[f[i]] \in {rows[i], Garbage}
  BY DEF Stands
<1> DEFINE h == [i \in DOMAIN some |-> IF g[i] = 0 THEN 0 ELSE f[g[i]]]
<1>2. \A i \in DOMAIN some : g[i] = 0 \/ g[i] \in DOMAIN rows OBVIOUS
<1>3. /\ h \in [DOMAIN some -> 0..n]
      /\ \A i \in DOMAIN some : h[i] = (IF g[i] = 0 THEN 0 ELSE f[g[i]])
  BY <1>1, <1>2
<1> HIDE DEF h
<1>4. ASSUME NEW i \in DOMAIN some, NEW j \in DOMAIN some, i < j
      PROVE  h[i] <= h[j] /\ (some[j] \in Records => h[i] < h[j])
  <2>1. h[i] \in 0..n /\ h[j] \in 0..n /\ g[i] \in 0..l /\ g[j] \in 0..l BY <1>3
  <2>2. g[i] <= g[j] /\ (some[j] \in Records => g[i] < g[j]) BY <1>4
  <2>3. CASE g[i] = 0
    <3>1. h[i] = 0 BY <1>3, <2>3
    <3>2. ASSUME some[j] \in Records PROVE h[j] # 0
      <4>1. g[j] # 0 /\ rows[g[j]] \in Records BY <3>2
      <4>2. g[j] \in DOMAIN rows BY <1>2, <4>1
      <4> QED BY <1>1, <1>3, <4>1, <4>2
    <3> QED BY <2>1, <3>1, <3>2
  <2>4. CASE g[i] # 0
    <3>1. g[j] # 0 BY <2>1, <2>2, <2>4
    <3>2. g[i] \in DOMAIN rows /\ g[j] \in DOMAIN rows BY <1>2, <2>4, <3>1
    <3>3. h[i] = f[g[i]] /\ h[j] = f[g[j]] BY <1>3, <2>4, <3>1
    <3>4. CASE g[i] = g[j] BY <2>1, <2>2, <3>3, <3>4
    <3>5. CASE g[i] # g[j]
      <4>1. g[i] < g[j] BY <2>1, <2>2, <3>5
      <4>2. f[g[i]] <= f[g[j]] /\ (rows[g[j]] \in Records => f[g[i]] < f[g[j]])
        BY <1>1, <3>2, <4>1
      <4>3. some[j] \in Records => rows[g[j]] \in Records OBVIOUS
      <4> QED BY <3>3, <4>2, <4>3
    <3> QED BY <3>4, <3>5
  <2> QED BY <2>3, <2>4
<1>5. ASSUME NEW i \in DOMAIN some, some[i] \in Records
      PROVE  h[i] # 0 /\ new[h[i]] \in {some[i], Garbage}
  <2>1. g[i] # 0 /\ rows[g[i]] = some[i] BY <1>5
  <2>2. g[i] \in DOMAIN rows /\ h[i] = f[g[i]] BY <1>2, <1>3, <2>1
  <2>3. h[i] # 0 /\ old[h[i]] \in {some[i], Garbage} BY <1>1, <1>5, <2>1, <2>2
  <2>4. h[i] \in 1..n BY <1>3, <2>3
  <2> QED BY <2>3, <2>4
<1>6. h \in [DOMAIN some -> 0..m] BY <1>3
<1> QED BY <1>4, <1>5, <1>6 DEF Stands

\* More lines and torn ones take no line away.
LEMMA StandsStill ==
    ASSUME NEW rows, NEW n \in Nat, NEW m \in Nat, n <= m, NEW l \in Nat, DOMAIN rows = 1..l,
           NEW old, NEW new,
           \A p \in 1..n : new[p] \in {old[p], Garbage}, Stands(rows, old, n)
    PROVE  Stands(rows, new, m)
<1> DEFINE g == [i \in 1..l |-> i]
<1>1. g \in [DOMAIN rows -> 0..l] /\ \A i \in 1..l : g[i] = i OBVIOUS
<1> HIDE DEF g
<1>2. \A i, j \in DOMAIN rows : i < j => g[i] <= g[j] /\ (rows[j] \in Records => g[i] < g[j])
  BY <1>1
<1>3. \A i \in DOMAIN rows : rows[i] \in Records => g[i] # 0 /\ rows[i] = rows[g[i]] BY <1>1
<1> QED BY <1>1, <1>2, <1>3, StandsThrough

\* One more row stands for the next line.
LEMMA StandsMore ==
    ASSUME NEW R, NEW rows \in Seq(R), NEW row \in Records, NEW n \in Nat, NEW lines,
           lines[n + 1] \in {row, Garbage}, Stands(rows, lines, n)
    PROVE  Stands(Append(rows, row), lines, n + 1)
<1>1. PICK f \in [DOMAIN rows -> 0..n] :
          /\ \A i, j \in DOMAIN rows :
                 i < j => f[i] <= f[j] /\ (rows[j] \in Records => f[i] < f[j])
          /\ \A i \in DOMAIN rows :
                 rows[i] \in Records => f[i] # 0 /\ lines[f[i]] \in {rows[i], Garbage}
  BY DEF Stands
<1> DEFINE more == Append(rows, row)
           last == Len(rows) + 1
           g == [i \in 1..last |-> IF i = last THEN n + 1 ELSE f[i]]
<1>2. /\ Len(rows) \in Nat /\ DOMAIN rows = 1..Len(rows) /\ DOMAIN more = 1..last
      /\ more[last] = row /\ \A i \in 1..Len(rows) : more[i] = rows[i]
  OBVIOUS
<1>3. g \in [1..last -> 0..n + 1] BY <1>1, <1>2
<1>4. \A i \in 1..last : i # last => i \in DOMAIN rows BY <1>2
<1>5. \A i, j \in 1..last : i < j => g[i] <= g[j] /\ (more[j] \in Records => g[i] < g[j])
  <2> SUFFICES ASSUME NEW i \in 1..last, NEW j \in 1..last, i < j
               PROVE  g[i] <= g[j] /\ (more[j] \in Records => g[i] < g[j])
    OBVIOUS
  <2>1. i # last /\ i \in DOMAIN rows /\ f[i] \in 0..n BY <1>1, <1>2
  <2>2. CASE j = last BY <2>1, <2>2
  <2>3. CASE j # last BY <1>1, <1>2, <1>4, <2>1, <2>3
  <2> QED BY <2>2, <2>3
<1>6. \A i \in 1..last :
          more[i] \in Records => g[i] # 0 /\ lines[g[i]] \in {more[i], Garbage}
  BY <1>1, <1>2, <1>4
<1> HIDE DEF g, last, more
<1>7. g \in [DOMAIN more -> 0..n + 1] BY <1>2, <1>3
<1>8. Stands(more, lines, n + 1) BY <1>2, <1>5, <1>6, <1>7 DEF Stands
<1> QED BY <1>8 DEF more

\* A record written at the end of the file: what stood for settled lines still does, and
\* the record too, if it is written whole, then stands for a line.
LEMMA ExtendedStands ==
    ASSUME TypeOK, NEW line \in Lines, jsonl' = Extended(line), newline' \in BOOLEAN,
           NEW R, NEW rows \in Seq(R), Stands(rows, jsonl, Settled)
    PROVE  /\ Stands(rows, jsonl', Settled')
           /\ line \in Records /\ newline' => Stands(Append(rows, line), jsonl', Settled')
<1> DEFINE n == Settled
<1>1. /\ jsonl \in Seq(Lines) /\ Len(jsonl) \in Nat /\ newline \in BOOLEAN
      /\ ~newline => Len(jsonl) # 0
  BY DEF TypeOK
<1>2. n \in Nat BY <1>1 DEF Settled
<1>3. /\ Len(jsonl') = n + 1 /\ jsonl'[n + 1] \in {line, Garbage}
      /\ \A l \in 1..n : jsonl'[l] = jsonl[l]
  <2>1. CASE newline
    <3>1. n = Len(jsonl) BY <2>1 DEF Settled
    <3>2. /\ Len(jsonl') = Len(jsonl) + 1 /\ jsonl'[Len(jsonl) + 1] = line
          /\ \A l \in 1..Len(jsonl) : jsonl'[l] = jsonl[l]
      BY <2>1, ExtendedIs DEF TypeOK
    <3> QED BY <3>1, <3>2
  <2>2. CASE ~newline
    <3>1. n = Len(jsonl) - 1 /\ n + 1 = Len(jsonl) BY <1>1, <2>2 DEF Settled
    <3>2. /\ Len(jsonl') = Len(jsonl) /\ jsonl'[Len(jsonl)] = Garbage
          /\ \A l \in 1..Len(jsonl) - 1 : jsonl'[l] = jsonl[l]
      BY <2>2, ExtendedIs DEF TypeOK
    <3> QED BY <3>1, <3>2
  <2> QED BY <1>1, <2>1, <2>2
<1>4. Settled' = (IF newline' THEN n + 1 ELSE n) BY <1>2, <1>3 DEF Settled
<1>5. Settled' \in Nat /\ n <= Settled' BY <1>2, <1>4
<1>6. Stands(rows, jsonl, n) /\ Len(rows) \in Nat /\ DOMAIN rows = 1..Len(rows) OBVIOUS
<1> HIDE DEF n
<1>7. Stands(rows, jsonl', n) BY <1>2, <1>3, <1>6, StandsStill
<1>8. Stands(rows, jsonl', Settled')
  <2>1. \A l \in 1..n : jsonl'[l] \in {jsonl[l], Garbage} BY <1>3
  <2> QED BY <1>2, <1>5, <1>6, <2>1, StandsStill
<1>9. ASSUME line \in Records, newline' PROVE Stands(Append(rows, line), jsonl', Settled')
  <2>1. Settled' = n + 1 BY <1>4, <1>9
  <2>2. Stands(Append(rows, line), jsonl', n + 1) BY <1>2, <1>3, <1>7, <1>9, StandsMore
  <2> QED BY <2>1, <2>2
<1> QED BY <1>8, <1>9

\* Neither a header nor a torn line is a record.
LEMMA NoRecord == Header \notin Records /\ Garbage \notin Records /\ Header # Garbage
BY DEF Header, Garbage, Records

\* How many lines of the text are the header, and how many lines an append spoils.
HeaderLines == IF csvMade THEN 0 ELSE 1

Spoilt(text) == IF csvNewline \/ text = <<>> THEN 0 ELSE 1

\* The text of a sweep: the header, if the file is yet to be made, and a line for every row.
LEMMA CsvTextIs ==
    ASSUME CsvShape
    PROVE  /\ CsvText \in Seq(CsvLines) /\ Len(CsvText) = Len(pending) + HeaderLines
           /\ FieldNames(pending) \in SUBSET STRING
           /\ HeaderLines \in {0, 1} /\ (HeaderLines = 1 <=> ~csvMade)
           /\ ~csvMade => CsvText[1] = CsvLine(Header, FieldNames(pending))
           /\ \A k \in 1..Len(pending) :
                  CsvText[k + HeaderLines] = CsvLine(pending[k], FieldNames(pending))
<1> DEFINE d == HeaderLines
           columns == FieldNames(pending)
           top == IF csvMade THEN <<>> ELSE <<CsvLine(Header, columns)>>
           rows == [i \in DOMAIN pending |-> CsvLine(pending[i], columns)]
<1>1. /\ pending \in Seq(Records) /\ Len(pending) \in Nat /\ DOMAIN pending = 1..Len(pending)
      /\ csvMade \in BOOLEAN
  BY DEF CsvShape
<1>2. columns \in SUBSET STRING
  <2>1. ASSUME NEW r \in ToSet(pending) PROVE Measured[r.hash] \in SUBSET STRING
    <3>1. r \in Records BY <1>1, <2>1 DEF ToSet
    <3>2. r.hash \in ToSet(ConfigList) BY <3>1 DEF Records, Hashes
    <3> QED BY <3>2, SweepAssumption
  <2> QED BY <2>1 DEF FieldNames
<1>3. ASSUME NEW what \in Lines \cup {Header} PROVE CsvLine(what, columns) \in CsvLines
  BY <1>2 DEF CsvLine, CsvLines
<1> HIDE DEF columns
<1>4. rows \in Seq(CsvLines) /\ Len(rows) = Len(pending)
      /\ \A k \in 1..Len(pending) : rows[k] = CsvLine(pending[k], columns)
  <2>1. \A i \in 1..Len(pending) : pending[i] \in Lines BY <1>1 DEF Lines
  <2>2. rows = [i \in 1..Len(pending) |-> CsvLine(pending[i], columns)] BY <1>1
  <2> QED BY <1>1, <1>3, <2>1, <2>2
<1>5. top \in Seq(CsvLines) /\ Len(top) = d /\ (~csvMade => d = 1 /\ top[1] = CsvLine(Header, columns))
  BY <1>1, <1>3 DEF HeaderLines
<1>6. CsvText = top \o rows BY DEF CsvText, columns
<1>7. d \in {0, 1} /\ (d = 1 <=> ~csvMade) BY <1>1 DEF HeaderLines
<1> HIDE DEF top, rows, d
<1>8. /\ CsvText \in Seq(CsvLines) /\ Len(CsvText) = Len(top) + Len(rows)
      /\ \A k \in 1..Len(top) + Len(rows) :
             CsvText[k] = IF k <= Len(top) THEN top[k] ELSE rows[k - Len(top)]
  BY <1>4, <1>5, <1>6, ConcatProperties
<1>9. ~csvMade => CsvText[1] = CsvLine(Header, columns)
  <2> SUFFICES ASSUME ~csvMade PROVE CsvText[1] = CsvLine(Header, columns) OBVIOUS
  <2>1. 1 \in 1..Len(top) + Len(rows) /\ 1 <= Len(top) BY <1>1, <1>4, <1>5
  <2>2. CsvText[1] = top[1] BY <1>8, <2>1
  <2> QED BY <1>5, <2>2
<1>10. ASSUME NEW k \in 1..Len(pending) PROVE CsvText[k + d] = CsvLine(pending[k], columns)
  <2> DEFINE q == k + d
  <2>1. q \in 1..Len(top) + Len(rows) /\ ~(q <= Len(top)) /\ q - Len(top) = k
    BY <1>1, <1>4, <1>5, <1>7
  <2> HIDE DEF q
  <2>2. CsvText[q] = rows[k] BY <1>8, <2>1
  <2> QED BY <1>4, <2>2 DEF q
<1>11. Len(CsvText) = Len(pending) + d BY <1>4, <1>5, <1>8
<1> QED BY <1>2, <1>7, <1>8, <1>9, <1>10, <1>11 DEF columns, d

\* Text at the end of the CSV file: lines of its own, but for a first one that spoils a torn
\* line.
LEMMA CsvExtendedIs ==
    ASSUME CsvShape, NEW text \in Seq(CsvLines)
    PROVE  LET new == CsvExtended(text)
               l == Len(csv)
           IN  /\ new \in Seq(CsvLines) /\ Len(new) = l - Spoilt(text) + Len(text)
               /\ Spoilt(text) \in {0, 1} /\ Spoilt(text) <= l /\ Spoilt(text) <= Len(text)
               /\ Spoilt(text) = 1 => new[l] = TornLine
               /\ \A i \in 1..l - Spoilt(text) : new[i] = csv[i]
               /\ \A i \in l + 1..Len(new) : new[i] = text[i - l + Spoilt(text)]
<1>1. /\ csv \in Seq(CsvLines) /\ Len(csv) \in Nat /\ Len(text) \in Nat
      /\ csvNewline \in BOOLEAN /\ (~csvNewline => csv # <<>>)
  BY DEF CsvShape
<1>2. CASE csvNewline \/ text = <<>>
  <2>1. CsvExtended(text) = csv \o text BY <1>2 DEF CsvExtended
  <2>2. /\ csv \o text \in Seq(CsvLines) /\ Len(csv \o text) = Len(csv) + Len(text)
        /\ \A i \in 1..Len(csv) : (csv \o text)[i] = csv[i]
        /\ \A i \in Len(csv) + 1..Len(csv) + Len(text) : (csv \o text)[i] = text[i - Len(csv)]
    BY <1>1
  <2>3. Spoilt(text) = 0 BY <1>2 DEF Spoilt
  <2> QED BY <1>1, <2>1, <2>2, <2>3
<1>3. CASE ~(csvNewline \/ text = <<>>)
  <2> DEFINE old == [csv EXCEPT ![Len(csv)] = TornLine]
             rest == Tail(text)
  <2>1. CsvExtended(text) = old \o rest BY <1>3 DEF CsvExtended
  <2>2. Len(csv) \in 1..Len(csv) /\ Len(text) # 0 BY <1>1, <1>3
  <2>3. TornLine \in CsvLines BY DEF TornLine, CsvLine, CsvLines, Lines
  <2>4. /\ old \in Seq(CsvLines) /\ Len(old) = Len(csv) /\ old[Len(csv)] = TornLine
        /\ \A i \in 1..Len(csv) - 1 : old[i] = csv[i]
    BY <1>1, <2>2, <2>3
  <2>5. /\ rest \in Seq(CsvLines) /\ Len(rest) = Len(text) - 1
        /\ \A i \in 1..Len(text) - 1 : rest[i] = text[i + 1]
    BY <1>1, <2>2
  <2> HIDE DEF old, rest
  <2>6. /\ old \o rest \in Seq(CsvLines) /\ Len(old \o rest) = Len(csv) + Len(text) - 1
        /\ \A i \in 1..Len(csv) : (old \o rest)[i] = old[i]
        /\ \A i \in Len(csv) + 1..Len(old \o rest) : (old \o rest)[i] = rest[i - Len(csv)]
    <3>1. /\ old \o rest \in Seq(CsvLines) /\ Len(old \o rest) = Len(old) + Len(rest)
          /\ \A i \in 1..Len(old) + Len(rest) :
                 (old \o rest)[i] = IF i <= Len(old) THEN old[i] ELSE rest[i - Len(old)]
      <4>1. old \in Seq(CsvLines) /\ rest \in Seq(CsvLines) BY <2>4, <2>5
      <4> QED BY <4>1, ConcatProperties
    <3> QED BY <1>1, <2>2, <2>4, <2>5, <3>1
  <2>7. \A i \in Len(csv) + 1..Len(old \o rest) : (old \o rest)[i] = text[i - Len(csv) + 1]
    <3>1. SUFFICES ASSUME NEW i \in Len(csv) + 1..Len(old \o rest)
                   PROVE  (old \o rest)[i] = text[i - Len(csv) + 1]
      OBVIOUS
    <3>2. i - Len(csv) \in 1..Len(text) - 1 BY <1>1, <2>6
    <3> QED BY <2>5, <2>6, <3>2
  <2>8. (old \o rest)[Len(csv)] = TornLine /\ \A i \in 1..Len(csv) - 1 : (old \o rest)[i] = csv[i]
    BY <1>1, <2>2, <2>4, <2>6
  <2>9. Spoilt(text) = 1 BY <1>3 DEF Spoilt
  <2>10. Len(old \o rest) = Len(csv) - 1 + Len(text) /\ 1 <= Len(csv) /\ 1 <= Len(text)
    BY <1>1, <2>2, <2>6
  <2> QED BY <2>1, <2>6, <2>7, <2>8, <2>9, <2>10
<1> QED BY <1>2, <1>3

\* The rows of the CSV file together with those held back.
LEMMA RowsIs ==
    ASSUME CsvShape
    PROVE  LET rows == CsvRows \o pending
               l == Len(csv)
           IN  /\ CsvRows \in Seq(Lines \cup {Header}) /\ rows \in Seq(Lines \cup {Header})
               /\ l \in Nat /\ Len(pending) \in Nat
               /\ Len(CsvRows) = l /\ DOMAIN CsvRows = 1..l
               /\ Len(rows) = l + Len(pending) /\ DOMAIN rows = 1..l + Len(pending)
               /\ \A i \in 1..l : rows[i] = csv[i].record /\ CsvRows[i] = csv[i].record
               /\ \A k \in 1..Len(pending) : rows[l + k] = pending[k]
<1>1. csv \in Seq(CsvLines) /\ pending \in Seq(Records) BY DEF CsvShape
<1>2. Len(csv) \in Nat /\ DOMAIN csv = 1..Len(csv) /\ Len(pending) \in Nat BY <1>1
<1>3. \A i \in 1..Len(csv) : csv[i].record \in Lines \cup {Header}
  <2>1. \A x \in CsvLines : x.record \in Lines \cup {Header} BY DEF CsvLines
  <2>2. \A i \in 1..Len(csv) : csv[i] \in CsvLines BY <1>1
  <2> QED BY <2>1, <2>2
<1>4. /\ CsvRows \in Seq(Lines \cup {Header})
      /\ Len(CsvRows) = Len(csv) /\ DOMAIN CsvRows = 1..Len(csv)
      /\ \A i \in 1..Len(csv) : CsvRows[i] = csv[i].record
  BY <1>2, <1>3 DEF CsvRows
<1>5. pending \in Seq(Lines \cup {Header}) BY <1>1 DEF Lines
<1> QED BY <1>2, <1>4, <1>5

\* What has been written of a sweep's text, whole or cut, adds none but the rows held back.
LEMMA CsvAfter ==
    ASSUME CsvShape, NEW text \in Seq(CsvLines), Len(text) <= Len(CsvText),
           \A k \in 1..Len(text) : text[k] \in {CsvText[k], TornLine},
           csv' = CsvExtended(text), NEW n \in Nat, NEW lines,
           Stands(CsvRows \o pending, lines, n)
    PROVE  csv' \in Seq(CsvLines) /\ Stands(CsvRows', lines, n)
<1> DEFINE h == HeaderLines
           d == Spoilt(text)
           l == Len(csv)
           p == Len(pending)
           t == Len(text)
           rows == CsvRows \o pending
           top == l - d + t
           g == [i \in 1..top |-> IF i <= l THEN i ELSE i + d - h]
<1>1. /\ ~csvMade => csv = <<>>
      /\ h \in {0, 1} /\ d \in {0, 1} /\ t \in Nat /\ (h = 1 <=> ~csvMade)
  BY CsvTextIs DEF CsvShape, Spoilt
<1>2. /\ l \in Nat /\ p \in Nat /\ DOMAIN rows = 1..l + p
      /\ \A i \in 1..l : rows[i] = csv[i].record
      /\ \A k \in 1..p : rows[l + k] = pending[k]
  BY RowsIs
<1>3. /\ Len(CsvText) = p + h
      /\ h = 1 => CsvText[1].record = Header
      /\ \A k \in 1..p : CsvText[k + h].record = pending[k]
  <2>1. \A what, columns : CsvLine(what, columns).record = what BY DEF CsvLine
  <2> QED BY <1>1, <2>1, CsvTextIs
<1>4. /\ csv' \in Seq(CsvLines) /\ Len(csv') = top
      /\ d <= l /\ d <= t
      /\ d = 1 => csv'[l].record = Garbage
      /\ \A i \in 1..l - d : csv'[i] = csv[i]
      /\ \A i \in l + 1..top : csv'[i] = text[i - l + d]
  <2>1. TornLine.record = Garbage BY DEF TornLine, CsvLine
  <2> QED BY <2>1, CsvExtendedIs
<1>5. h = 1 => l = 0 BY <1>1
<1>6. t <= p + h BY <1>3
<1>7. top \in Nat BY <1>1, <1>2, <1>4
<1>8. /\ CsvRows' = [i \in 1..top |-> csv'[i].record]
  <2>1. DOMAIN csv' = 1..top BY <1>4, <1>7
  <2> QED BY <2>1 DEF CsvRows
<1>9. Stands(rows, lines, n) OBVIOUS
<1>10. TornLine.record = Garbage BY DEF TornLine, CsvLine
<1> DEFINE some == CsvRows'
<1>11. DOMAIN some = 1..top /\ \A i \in 1..top : some[i] = csv'[i].record BY <1>8
<1>12. \A i \in 1..top : g[i] = (IF i <= l THEN i ELSE i + d - h) OBVIOUS
<1>13. g \in [1..top -> 0..l + p]
  <2>1. ASSUME NEW i \in 1..top PROVE (IF i <= l THEN i ELSE i + d - h) \in 0..l + p
    <3> HIDE DEF h, d, l, p, t
    <3> QED BY <1>1, <1>2, <1>4, <1>6, <1>7
  <2> QED BY <2>1
<1>14. \A k \in 1..t : text[k] \in {CsvText[k], TornLine} OBVIOUS
<1> HIDE DEF h, d, l, p, t, rows, g, some
<1>15. ASSUME NEW i \in 1..top, NEW j \in 1..top, i < j PROVE g[i] < g[j]
  BY <1>1, <1>2, <1>4, <1>5, <1>7, <1>12, <1>15
<1>16. ASSUME NEW i \in 1..top, some[i] \in Records PROVE g[i] # 0 /\ some[i] = rows[g[i]]
  <2>1. CASE i <= l - d
    <3>1. i \in 1..l - d /\ i \in 1..l /\ g[i] = i BY <1>1, <1>2, <1>12, <2>1
    <3>2. some[i] = csv[i].record BY <1>4, <1>11, <3>1
    <3> QED BY <1>2, <3>1, <3>2
  <2>2. CASE i > l - d /\ i <= l
    <3>1. d = 1 /\ i = l BY <1>1, <1>2, <2>2
    <3> QED BY <1>4, <1>11, <1>16, <3>1, NoRecord
  <2>3. CASE i > l
    <3> DEFINE k == i - l + d
    <3>1. i \in l + 1..top /\ k \in 1..t /\ k - h \in 0..p /\ g[i] = l + (k - h)
      BY <1>1, <1>2, <1>4, <1>6, <1>7, <1>12, <2>3
    <3>2. some[i] = text[k].record BY <1>4, <1>11, <3>1
    <3>3. text[k] = CsvText[k] BY <1>10, <1>14, <1>16, <3>1, <3>2, NoRecord
    <3>4. some[i] = CsvText[k].record BY <3>2, <3>3
    <3>5. k - h # 0
      <4>1. SUFFICES ASSUME k - h = 0 PROVE FALSE OBVIOUS
      <4>2. h = 1 /\ k = 1 BY <1>1, <3>1, <4>1
      <4> QED BY <1>3, <1>16, <3>4, <4>2, NoRecord
    <3> DEFINE q == k - h
    <3>6. q \in 1..p /\ k = q + h BY <1>1, <1>2, <3>1, <3>5
    <3>7. g[i] = l + q BY <3>1
    <3> HIDE DEF k, q
    <3>8. some[i] = pending[q] BY <1>3, <3>4, <3>6
    <3> QED BY <1>2, <3>6, <3>7, <3>8
  <2> QED BY <1>1, <1>2, <2>1, <2>2, <2>3
<1>17. Stands(some, lines, n)
  <2> DEFINE m == l + p
  <2>1. m \in Nat /\ DOMAIN rows = 1..m /\ g \in [DOMAIN some -> 0..m] BY <1>2, <1>11, <1>13
  <2>2. \A i, j \in DOMAIN some :
            i < j => g[i] <= g[j] /\ (some[j] \in Records => g[i] < g[j])
    <3>1. \A i, j \in 1..top : i < j => g[i] < g[j] BY <1>15
    <3>2. \A i \in 1..top : g[i] \in 0..l + p BY <1>13
    <3> HIDE DEF top, m
    <3>3. l + p \in Nat BY <1>2
    <3> QED BY <1>11, <3>1, <3>2, <3>3
  <2>3. \A i \in DOMAIN some : some[i] \in Records => g[i] # 0 /\ some[i] = rows[g[i]]
    BY <1>11, <1>16
  <2> HIDE DEF m
  <2>4. \A q \in 1..n : lines[q] \in {lines[q], Garbage} OBVIOUS
  <2>5. n <= n OBVIOUS
  <2>6. n \in Nat OBVIOUS
  <2> QED BY ONLY <1>9, <2>1, <2>2, <2>3, <2>4, <2>5, <2>6, StandsThrough
<1> QED BY <1>4, <1>17 DEF some

\* Nothing is in either file at the start.
LEMMA CsvStarts == SweepInit => CsvInv /\ OnceInv
<1> SUFFICES ASSUME SweepInit PROVE CsvInv /\ OnceInv OBVIOUS
<1>1. /\ jsonl = <<>> /\ csv = <<>> /\ pending = <<>> /\ newline = TRUE /\ pc = "down"
      /\ csvMade = FALSE /\ csvNewline = TRUE
  BY DEF SweepInit
<1>2. CsvShape
  <2>1. <<>> \in Seq(CsvLines) /\ <<>> \in Seq(Records) OBVIOUS
  <2> QED BY <1>1, <2>1 DEF CsvShape
<1>3. DOMAIN CsvRows = {} /\ Settled = 0 BY <1>1 DEF CsvRows, Settled
<1>4. Stands(CsvRows, jsonl, 0)
  <2> DEFINE f == [i \in {} |-> 0]
  <2>1. f \in [DOMAIN CsvRows -> 0..0] BY <1>3
  <2> HIDE DEF f
  <2> QED BY <1>3, <2>1 DEF Stands
<1>5. OnceInv BY <1>1 DEF OnceInv, RowsFitHeader, Sweeping
<1> QED BY <1>1, <1>2, <1>3, <1>4, <1>5 DEF CsvInv, Sweeping

\* What of the text is on disk when a sweep is killed while it writes.
LEMMA TornText ==
    ASSUME CsvShape, TornCsv
    PROVE  \E text \in Seq(CsvLines) :
              /\ csv' = CsvExtended(text) /\ Len(text) <= Len(CsvText)
              /\ \A k \in 1..Len(text) : text[k] \in {CsvText[k], TornLine}
              /\ \A k \in 1..Len(text) : k < Len(text) => text[k] = CsvText[k]
              /\ csvNewline' \in BOOLEAN
              /\ csvNewline /\ text = <<>> => csvNewline'
              /\ ~csvNewline' => csv' # <<>>
<1>0. CsvText \in Seq(CsvLines) /\ Len(CsvText) \in Nat /\ csvNewline \in BOOLEAN
      /\ TornLine \in CsvLines /\ csv \in Seq(CsvLines) /\ (~csvNewline => csv # <<>>)
  BY CsvTextIs DEF CsvShape, TornLine, CsvLine, CsvLines, Lines
<1> DEFINE cut(n) == SubSeq(CsvText, 1, n)
<1>1. PICK n \in 0..Len(CsvText) - 1 :
          \/ /\ csv' = CsvExtended(cut(n))
             /\ csvNewline' = (csvNewline \/ n > 0)
          \/ /\ \E line \in {CsvText[n + 1], TornLine} : csv' = CsvExtended(Append(cut(n), line))
             /\ csvNewline' = FALSE
  BY DEF TornCsv
<1>2. n \in Nat /\ n + 1 \in 1..Len(CsvText) /\ n <= Len(CsvText) BY <1>0, <1>1
<1>3. cut(n) \in Seq(CsvLines) /\ Len(cut(n)) = n /\ \A k \in 1..n : cut(n)[k] = CsvText[k]
  BY <1>0, <1>2
<1>4. CASE csv' = CsvExtended(cut(n)) /\ csvNewline' = (csvNewline \/ n > 0)
  <2> DEFINE text == cut(n)
  <2>1. text = <<>> => n = 0 BY <1>3
  <2>2. ~csvNewline' => csv' # <<>>
    <3> SUFFICES ASSUME ~csvNewline' PROVE csv' # <<>> OBVIOUS
    <3>1. ~(csvNewline \/ n > 0) BY <1>4
    <3>2. ~csvNewline /\ n = 0 BY <1>2, <3>1
    <3>3. Len(text) = 0 /\ text \in Seq(CsvLines) BY <1>3, <3>2
    <3>4. Len(CsvExtended(text)) = Len(csv) - Spoilt(text) + 0
          /\ Spoilt(text) \in {0, 1} /\ Spoilt(text) <= 0
      BY <3>3, CsvExtendedIs
    <3>5. Len(CsvExtended(text)) = Len(csv) BY <1>0, <3>4
    <3>6. Len(csv) # 0 BY <1>0, <3>2
    <3> QED BY <1>4, <3>5, <3>6
  <2>3. csvNewline' \in BOOLEAN /\ (csvNewline /\ text = <<>> => csvNewline') BY <1>0, <1>4
  <2>4. \A k \in 1..Len(text) : text[k] = CsvText[k] BY <1>3
  <2>5. text \in Seq(CsvLines) /\ Len(text) <= Len(CsvText) BY <1>2, <1>3
  <2>6. csv' = CsvExtended(text) BY <1>4
  <2> HIDE DEF text
  <2> QED BY <2>2, <2>3, <2>4, <2>5, <2>6
<1>5. CASE (\E line \in {CsvText[n + 1], TornLine} : csv' = CsvExtended(Append(cut(n), line)))
           /\ csvNewline' = FALSE
  <2>1. PICK line \in {CsvText[n + 1], TornLine} : csv' = CsvExtended(Append(cut(n), line))
    BY <1>5
  <2> DEFINE text == Append(cut(n), line)
  <2>2. line \in CsvLines BY <1>0, <1>2
  <2>3. /\ text \in Seq(CsvLines) /\ Len(text) = n + 1 /\ text[n + 1] = line
        /\ \A k \in 1..n : text[k] = CsvText[k]
    BY <1>2, <1>3, <2>2
  <2>4. csv' = CsvExtended(text) BY <2>1
  <2> HIDE DEF text, cut
  <2>5. Len(csv') >= 1 /\ csv' \in Seq(CsvLines)
    BY <1>0, <1>2, <2>3, <2>4, CsvExtendedIs
  <2>6. csv' # <<>> BY <2>5
  <2>7. \A k \in 1..Len(text) : k = n + 1 \/ k \in 1..n BY <1>2, <2>3
  <2>8. text # <<>> BY <1>2, <2>3
  <2>9. Len(text) <= Len(CsvText) BY <1>2, <2>3
  <2>10. \A k \in 1..Len(text) : text[k] \in {CsvText[k], TornLine} BY <2>3, <2>7
  <2>11. \A k \in 1..Len(text) : k < Len(text) => text[k] = CsvText[k] BY <1>2, <2>3, <2>7
  <2> QED BY <1>5, <2>3, <2>4, <2>6, <2>8, <2>9, <2>10, <2>11
<1> QED BY <1>1, <1>4, <1>5

\* Every step keeps the invariant of the two files.
LEMMA CsvKept == IInv /\ CsvInv /\ [SweepNext]_sweepVars => CsvInv'
<1> SUFFICES ASSUME IInv, CsvInv, [SweepNext]_sweepVars PROVE CsvInv' OBVIOUS
<1>0. /\ TypeOK /\ CsvShape
      /\ Stands(CsvRows, jsonl, Settled)
      /\ pc \in Sweeping => Stands(CsvRows \o pending, jsonl, Settled)
      /\ CsvRows \in Seq(Lines \cup {Header}) /\ CsvRows \o pending \in Seq(Lines \cup {Header})
      /\ Settled \in Nat
  BY RowsIs DEF IInv, CsvInv, TypeOK, Settled
<1>1. ASSUME csvFile' = csvFile
      PROVE  /\ csv' = csv /\ csvMade' = csvMade /\ csvNewline' = csvNewline
             /\ CsvRows' = CsvRows
             /\ pending' \in Seq(Records) => CsvShape'
  BY <1>0, <1>1 DEF csvFile, CsvRows, CsvShape
<1>2. ASSUME jsonl' = jsonl, newline' = newline PROVE Settled' = Settled BY <1>2 DEF Settled
<1>3. pending \in Seq(Records) BY <1>0 DEF CsvShape
<1>4. CASE Start
  <2>1. /\ csvFile' = csvFile /\ pending' = <<>> /\ jsonl' = jsonl /\ newline' = newline
    BY <1>4 DEF Start
  <2>2. CsvRows \o <<>> = CsvRows BY <1>0
  <2>3. <<>> \in Seq(Records) OBVIOUS
  <2> QED BY <1>0, <1>1, <1>2, <2>1, <2>2, <2>3 DEF CsvInv
<1>5. CASE Skip \/ Run \/ EndLoop \/ Crash \/ UNCHANGED sweepVars
  <2>1. /\ csvFile' = csvFile /\ pending' = pending /\ jsonl' = jsonl /\ newline' = newline
        /\ pc' \in Sweeping => pc \in Sweeping
    BY <1>5 DEF Skip, Run, EndLoop, Crash, sweepVars, Sweeping
  <2> QED BY <1>0, <1>1, <1>2, <1>3, <2>1 DEF CsvInv
<1>6. CASE AppendRecord
  <2>1. /\ csvFile' = csvFile /\ pending' = Append(pending, record)
        /\ jsonl' = Extended(record) /\ newline' = TRUE
        /\ record \in Records /\ pc \in Sweeping
    BY <1>6 DEF AppendRecord, IInv, AtHand, Sweeping
  <2>2. record \in Lines BY <2>1 DEF Lines
  <2>3. Stands(CsvRows \o pending, jsonl, Settled) BY <1>0, <2>1
  <2>4. Stands(CsvRows, jsonl', Settled') BY <1>0, <2>1, <2>2, ExtendedStands
  <2>5. Stands(Append(CsvRows \o pending, record), jsonl', Settled')
    BY <1>0, <2>1, <2>2, <2>3, ExtendedStands
  <2>6. Append(CsvRows \o pending, record) = CsvRows \o Append(pending, record)
    <3> DEFINE S == Lines \cup {Header}
               a == Append(CsvRows \o pending, record)
               b == CsvRows \o Append(pending, record)
    <3>1. CsvRows \in Seq(S) /\ pending \in Seq(S) /\ record \in S
      BY <1>0, <1>3, <2>1 DEF Lines
    <3> HIDE DEF S
    <3>2. a \in Seq(S) /\ b \in Seq(S) BY <3>1
    <3>3. Len(a) = Len(b) BY <3>1
    <3>4. \A i \in 1..Len(a) : a[i] = b[i] BY <3>1
    <3> HIDE DEF a, b
    <3>5. a = b BY <3>2, <3>3, <3>4
    <3> QED BY <3>5 DEF a, b
  <2>7. pending' \in Seq(Records) BY <1>3, <2>1
  <2> QED BY <1>1, <2>1, <2>4, <2>5, <2>6, <2>7 DEF CsvInv
<1>7. CASE TornAppend
  <2>1. PICK line \in {record, Garbage} : jsonl' = Extended(line) BY <1>7 DEF TornAppend
  <2>2. /\ csvFile' = csvFile /\ pending' = pending /\ newline' = FALSE /\ pc' \notin Sweeping
        /\ line \in Lines
    BY <1>0, <1>7 DEF TornAppend, Sweeping, Lines, TypeOK
  <2>3. Stands(CsvRows, jsonl', Settled') BY <1>0, <2>1, <2>2, ExtendedStands
  <2> QED BY <1>1, <1>3, <2>2, <2>3 DEF CsvInv
<1>8. CASE WriteCsv
  <2>1. /\ pending' = pending /\ jsonl' = jsonl /\ newline' = newline
        /\ pc \in Sweeping /\ pc' \notin Sweeping
    BY <1>8 DEF WriteCsv, Sweeping
  <2>2. CASE csvFile' = csvFile BY <1>0, <1>1, <1>2, <1>3, <2>1, <2>2 DEF CsvInv
  <2>3. CASE csv' = CsvExtended(CsvText) /\ csvMade' = TRUE /\ csvNewline' = TRUE
    <3>1. CsvText \in Seq(CsvLines) BY <1>0, CsvTextIs
    <3>2. Len(CsvText) \in Nat /\ Len(CsvText) <= Len(CsvText) BY <3>1
    <3>3. Stands(CsvRows \o pending, jsonl, Settled) BY <1>0, <2>1
    <3>4. csv' \in Seq(CsvLines) /\ Stands(CsvRows', jsonl, Settled)
      BY <1>0, <2>3, <3>1, <3>2, <3>3, CsvAfter
    <3> QED BY <1>2, <1>3, <2>1, <2>3, <3>4 DEF CsvInv, CsvShape
  <2> QED BY <1>8, <2>2, <2>3 DEF WriteCsv
<1>9. CASE TornCsv
  <2>1. /\ pending' = pending /\ jsonl' = jsonl /\ newline' = newline /\ csvMade' = TRUE
        /\ pc \in Sweeping /\ pc' \notin Sweeping
    BY <1>9 DEF TornCsv, Sweeping
  <2>2. PICK text \in Seq(CsvLines) :
          /\ csv' = CsvExtended(text) /\ Len(text) <= Len(CsvText)
          /\ \A k \in 1..Len(text) : text[k] \in {CsvText[k], TornLine}
          /\ csvNewline' \in BOOLEAN
          /\ ~csvNewline' => csv' # <<>>
    BY <1>0, <1>9, TornText
  <2>3. Stands(CsvRows \o pending, jsonl, Settled) BY <1>0, <2>1
  <2>4. csv' \in Seq(CsvLines) /\ Stands(CsvRows', jsonl, Settled)
    BY <1>0, <2>2, <2>3, CsvAfter
  <2> QED BY <1>2, <1>3, <2>1, <2>2, <2>4 DEF CsvInv, CsvShape
<1> QED BY <1>4, <1>5, <1>6, <1>7, <1>8, <1>9 DEF SweepNext

\* A failure and a torn line stay: what is clean now was clean before.
LEMMA CleanBefore ==
    ASSUME TypeOK, NEW line \in Lines, jsonl' = Extended(line), Clean'
    PROVE  newline /\ Clean /\ Recorded("ok") \subseteq Recorded("ok")'
<1>1. jsonl \in Seq(Lines) /\ Len(jsonl) \in Nat /\ jsonl' \in Seq(Lines) /\ newline \in BOOLEAN
  BY ExtendedIs DEF TypeOK
<1>2. newline
  <2> SUFFICES ASSUME ~newline PROVE FALSE OBVIOUS
  <2>1. Len(jsonl) \in 1..Len(jsonl') /\ jsonl'[Len(jsonl)] = Garbage
    BY ExtendedIs DEF TypeOK
  <2>2. Garbage \in ToSet(jsonl)' BY <1>1, <2>1 DEF ToSet
  <2> QED BY <2>2 DEF Clean
<1>3. \A l \in DOMAIN jsonl : l \in DOMAIN jsonl' /\ jsonl'[l] = jsonl[l]
  <2>1. Len(jsonl') = Len(jsonl) + 1 /\ \A l \in 1..Len(jsonl) : jsonl'[l] = jsonl[l]
    BY <1>2, ExtendedIs DEF TypeOK
  <2> QED BY <1>1, <2>1
<1>4. ToSet(jsonl) \subseteq ToSet(jsonl)' BY <1>3 DEF ToSet
<1>5. \A status : Recorded(status) \subseteq Recorded(status)' BY <1>4 DEF Recorded
<1> QED BY <1>2, <1>4, <1>5 DEF Clean

\* The lines that a sweep writes into a new CSV file fit their header.
LEMMA NewFileFits ==
    ASSUME CsvShape, ~csvMade, csv = <<>>, csvNewline, NEW text \in Seq(CsvLines),
           csv' = CsvExtended(text), Len(text) <= Len(CsvText),
           \A k \in 1..Len(text) : text[k] \in {CsvText[k], TornLine},
           \A k \in 1..Len(text) : k < Len(text) => text[k] = CsvText[k]
    PROVE  RowsFitHeader'
<1>1. csv' = text BY DEF CsvExtended
<1> DEFINE columns == FieldNames(pending)
<1>2. /\ CsvText[1] = CsvLine(Header, columns) /\ Len(pending) \in Nat
      /\ Len(CsvText) = Len(pending) + 1
      /\ \A k \in 1..Len(pending) : CsvText[k + 1] = CsvLine(pending[k], columns)
  BY CsvTextIs DEF CsvShape
<1> HIDE DEF columns
<1>3. SUFFICES ASSUME NEW n \in 1..Len(text), text[n].record \in Records
               PROVE  text[1] = CsvLine(Header, text[n].columns)
  BY <1>1 DEF RowsFitHeader
<1>4. text[n] = CsvText[n]
  <2>1. TornLine.record = Garbage BY DEF TornLine, CsvLine
  <2> QED BY <1>3, <2>1, NoRecord
<1>5. n # 1
  <2>1. CsvLine(Header, columns).record = Header BY DEF CsvLine
  <2> QED BY <1>2, <1>3, <1>4, <2>1, NoRecord
<1>6. text[n].columns = columns
  <2> DEFINE q == n - 1
  <2>1. q \in 1..Len(pending) /\ n = q + 1 BY <1>2, <1>5
  <2> HIDE DEF q
  <2>2. CsvText[n] = CsvLine(pending[q], columns) BY <1>2, <2>1
  <2> QED BY <1>4, <2>2 DEF CsvLine
<1>7. text[1] = CsvText[1]
  <2>1. 1 \in 1..Len(text) /\ 1 < Len(text) BY <1>5
  <2> QED BY <2>1
<1> QED BY <1>2, <1>6, <1>7

\* A sweep that is through has recorded every configuration, if nothing went wrong.
LEMMA CleanEnd ==
    ASSUME IInv, Clean, pc = "csv"
    PROVE  Hashes \subseteq Recorded("ok")
<1>1. ConfigList \in Seq(STRING) BY SweepAssumption
<1>2. \A i \in DOMAIN ConfigList : i < pos BY <1>1 DEF IInv, TypeOK, Passed
<1>3. Hashes \subseteq seen BY <1>2 DEF IInv, Passed, Hashes, ToSet, Sweeping
<1>4. seen \subseteq Listed BY DEF IInv, SeenIsListed, Clean, Sweeping
<1> QED BY <1>3, <1>4 DEF Listed, Clean

\* Every step keeps the invariant of a sweep without failures.
LEMMA OnceKept == IInv /\ CsvInv /\ OnceInv /\ [SweepNext]_sweepVars => OnceInv'
<1> SUFFICES ASSUME IInv, CsvInv, OnceInv, [SweepNext]_sweepVars, Clean'
             PROVE  /\ RowsFitHeader'
                    /\ csvMade' => Hashes \subseteq Recorded("ok")'
                    /\ csvMade' /\ pc' \in Sweeping => pending' = <<>>
  BY DEF OnceInv, Hashes
<1>0. TypeOK /\ CsvShape BY DEF IInv, CsvInv
<1>1. ASSUME csvFile' = csvFile
      PROVE  /\ csv' = csv /\ csvMade' = csvMade /\ csvNewline' = csvNewline
             /\ RowsFitHeader' = RowsFitHeader
  BY <1>1 DEF csvFile, RowsFitHeader
<1>2. ASSUME jsonl' = jsonl PROVE Clean /\ Recorded("ok")' = Recorded("ok")
  BY <1>2 DEF Clean, Recorded
<1>3. CASE Start \/ Skip \/ Run \/ EndLoop \/ Crash \/ UNCHANGED sweepVars
  <2>1. /\ csvFile' = csvFile /\ jsonl' = jsonl
        /\ pc' \in Sweeping => pending' = <<>> \/ (pc \in Sweeping /\ pending' = pending)
    BY <1>3 DEF Start, Skip, Run, EndLoop, Crash, sweepVars, Sweeping
  <2> QED BY <1>1, <1>2, <2>1 DEF OnceInv
<1>4. CASE AppendRecord \/ TornAppend
  <2>1. PICK line \in {record, Garbage} : jsonl' = Extended(line)
    BY <1>4 DEF AppendRecord, TornAppend
  <2>2. /\ csvFile' = csvFile /\ pc \in Sweeping
        /\ record \in Records /\ record.hash \notin seen /\ line \in Lines
    BY <1>4 DEF AppendRecord, TornAppend, IInv, AtHand, Sweeping, Lines
  <2>3. Clean BY <1>0, <2>1, <2>2, CleanBefore
  <2>4. ~csvMade
    <3>1. Recorded("ok") \subseteq seen BY <2>2 DEF IInv, KnowsSuccess
    <3>2. record.hash \in Hashes BY <2>2 DEF Records
    <3> QED BY <2>2, <2>3, <3>1, <3>2 DEF OnceInv
  <2> QED BY <1>1, <2>2, <2>3, <2>4 DEF OnceInv
<1>5. CASE WriteCsv
  <2>1. pc = "csv" /\ jsonl' = jsonl /\ pc' \notin Sweeping BY <1>5 DEF WriteCsv, Sweeping
  <2>2. Hashes \subseteq Recorded("ok")' BY <1>2, <2>1, CleanEnd
  <2>3. CASE pending = <<>>
    <3>1. csvFile' = csvFile BY <1>5, <2>3 DEF WriteCsv
    <3> QED BY <1>1, <1>2, <2>1, <2>2, <3>1 DEF OnceInv
  <2>4. CASE pending # <<>>
    <3>1. csv' = CsvExtended(CsvText) BY <1>5, <2>4 DEF WriteCsv
    <3>2. ~csvMade BY <1>2, <2>1, <2>4 DEF OnceInv, Sweeping
    <3>3. csv = <<>> /\ csvNewline BY <1>0, <3>2 DEF CsvShape
    <3>4. CsvText \in Seq(CsvLines) BY <1>0, CsvTextIs
    <3>5. Len(CsvText) <= Len(CsvText) BY <3>4
    <3>6. RowsFitHeader' BY <1>0, <3>1, <3>2, <3>3, <3>4, <3>5, NewFileFits
    <3> QED BY <2>1, <2>2, <3>6
  <2> QED BY <2>3, <2>4
<1>6. CASE TornCsv
  <2>1. pc = "csv" /\ pending # <<>> /\ jsonl' = jsonl /\ pc' \notin Sweeping
    BY <1>6 DEF TornCsv, Sweeping
  <2>2. Hashes \subseteq Recorded("ok")' BY <1>2, <2>1, CleanEnd
  <2>3. ~csvMade BY <1>2, <2>1 DEF OnceInv, Sweeping
  <2>4. csv = <<>> /\ csvNewline BY <1>0, <2>3 DEF CsvShape
  <2>5. PICK text \in Seq(CsvLines) :
          /\ csv' = CsvExtended(text) /\ Len(text) <= Len(CsvText)
          /\ \A k \in 1..Len(text) : text[k] \in {CsvText[k], TornLine}
          /\ \A k \in 1..Len(text) : k < Len(text) => text[k] = CsvText[k]
    BY <1>0, <1>6, TornText
  <2>6. RowsFitHeader' BY <1>0, <2>3, <2>4, <2>5, NewFileFits
  <2> QED BY <2>1, <2>2, <2>6
<1> QED BY <1>3, <1>4, <1>5, <1>6 DEF SweepNext

\* The line found for a row is a line past the given one that fits it, and the first.
LEMMA LineForIs ==
    ASSUME TypeOK, NEW i \in 0..Len(jsonl) + 1, NEW row
    PROVE  /\ LineFor(i, row) \in 0..Len(jsonl) + 1
           /\ \A j \in DOMAIN jsonl : j > i /\ jsonl[j] \in {row, Garbage} => LineFor(i, row) <= j
<1> DEFINE top == Len(jsonl) + 1
           S == {top} \cup {j \in DOMAIN jsonl : j > i /\ jsonl[j] \in {row, Garbage}}
<1>1. jsonl \in Seq(Lines) /\ DOMAIN jsonl = 1..Len(jsonl) /\ Len(jsonl) \in Nat BY DEF TypeOK
<1>2. top \in Nat /\ S \in SUBSET (0..top) /\ S \in SUBSET Nat /\ S # {} BY <1>1
<1>3. IsFiniteSet(S)
  <2>1. 0 \in Int /\ top \in Int BY <1>2
  <2> HIDE DEF top, S
  <2>2. IsFiniteSet(0..top) BY <2>1, FS_Interval
  <2> QED BY <1>2, <2>2, FS_Subset
<1>4. \E x \in S : \A y \in S : x <= y
  <2> HIDE DEF S
  <2> QED BY <1>2, <1>3, Extremes
<1>5. Min(S) \in S /\ \A y \in S : Min(S) <= y BY <1>4 DEF Min
<1>6. LineFor(i, row) = Min(S) BY DEF LineFor
<1> QED BY <1>1, <1>2, <1>5, <1>6

\* Rows that stand for lines are found by looking for each behind the one before: the
\* first line that fits never lies behind the line the row stands for.
LEMMA FilesAgree == IInv /\ CsvInv => CsvFollowsJsonl
<1> SUFFICES ASSUME IInv, CsvInv PROVE CsvFollowsJsonl OBVIOUS
<1> DEFINE m == Len(csv)
           top == Len(jsonl) + 1
           A == 0..top
           Found(i, n) ==
               IF csv[n].record \in Records THEN LineFor(i, csv[n].record) ELSE i
           body(p) ==
               [n \in 0..m |->
                   IF n = 0 THEN 0
                   ELSE IF csv[n].record \in Records THEN LineFor(p[n - 1], csv[n].record)
                   ELSE p[n - 1]]
           step == [n \in 1..m |-> [i \in A |-> Found(i, n)]]
<1>1. /\ TypeOK /\ m \in Nat /\ DOMAIN CsvRows = 1..m /\ DOMAIN csv = 1..m
      /\ \A n \in 1..m : CsvRows[n] = csv[n].record
      /\ Stands(CsvRows, jsonl, Settled)
  BY RowsIs DEF IInv, CsvInv, CsvShape
<1>2. top \in Nat /\ 0 \in A /\ Settled \in 0..Len(jsonl) /\ DOMAIN jsonl = 1..Len(jsonl)
  BY <1>1 DEF TypeOK, Settled
<1>3. step \in [1..m -> [A -> A]] /\ \A n \in 1..m : \A i \in A : step[n][i] = Found(i, n)
  <2>1. \A n \in 1..m : \A i \in A : Found(i, n) \in A BY <1>1, LineForIs
  <2> HIDE DEF Found, A, m
  <2> QED BY <2>1
<1>4. PICK f \in [0..m -> A] : f[0] = 0 /\ \A n \in 1..m : f[n] = step[n][f[n - 1]]
  <2>1. m \in Nat /\ step \in [1..m -> [A -> A]] BY <1>1, <1>3
  <2> HIDE DEF A, step, m
  <2>2. PICK f \in [0..m -> A] : IsPass(f, m, 0, step) BY <1>2, <2>1, Pass
  <2> QED BY <2>2 DEF IsPass
<1>5. \A n \in 1..m : n \in 0..m /\ n - 1 \in 0..m /\ n # 0 BY <1>1
<1>6. f = body(f)
  <2>1. \A n \in 1..m : f[n] = Found(f[n - 1], n) BY <1>3, <1>4, <1>5
  <2>2. \A n \in 0..m : n = 0 \/ n \in 1..m BY <1>1
  <2>3. \A n \in 0..m : f[n] = body(f)[n] BY <1>4, <2>1, <2>2
  <2>4. body(f) = [n \in 0..m |-> body(f)[n]] OBVIOUS
  <2> HIDE DEF body, m, A
  <2> QED BY <1>4, <2>3, <2>4
<1>7. PICK h \in [1..m -> 0..Settled] :
          /\ \A i, j \in 1..m :
                 i < j => h[i] <= h[j] /\ (csv[j].record \in Records => h[i] < h[j])
          /\ \A i \in 1..m :
                 csv[i].record \in Records =>
                     h[i] # 0 /\ jsonl[h[i]] \in {csv[i].record, Garbage}
  <2> HIDE DEF m
  <2> QED BY <1>1 DEF Stands
<1>8. ASSUME NEW p, p = body(p) PROVE p[m] <= Len(jsonl)
  <2> DEFINE Low(n) == p[n] \in A /\ p[n] <= Len(jsonl) /\ (n # 0 => p[n] <= h[n])
             T == {n \in 0..m : Low(n)}
  <2>0. \A n \in 0..m : p[n] = (IF n = 0 THEN 0 ELSE Found(p[n - 1], n))
    <3>1. \A n \in 0..m : body(p)[n] = (IF n = 0 THEN 0 ELSE Found(p[n - 1], n)) OBVIOUS
    <3> HIDE DEF body, Found
    <3> QED BY <1>8, <3>1
  <2>1. 0 \in T
    <3>1. p[0] = 0 BY <1>1, <2>0
    <3> QED BY <1>1, <1>2, <3>1
  <2>2. ASSUME NEW n \in 1..m, n - 1 \in T PROVE n \in T
    <3>1. p[n - 1] \in A /\ p[n - 1] <= Len(jsonl) /\ (n - 1 # 0 => p[n - 1] <= h[n - 1])
      BY <2>2
    <3>2. p[n] = Found(p[n - 1], n) BY <1>5, <2>0
    <3>3. h[n] \in 0..Settled /\ h[n] \in 0..Len(jsonl) BY <1>1, <1>2, <1>7
    <3>4. p[n - 1] <= h[n] /\ (csv[n].record \in Records => p[n - 1] < h[n] /\ h[n] \in DOMAIN jsonl)
      <4>1. CASE n = 1
        <5>1. n - 1 = 0 /\ 0 \in 0..m BY <1>1, <4>1
        <5>2. p[n - 1] = 0 BY <2>0, <5>1
        <5> QED BY <1>2, <1>7, <3>3, <5>2
      <4>2. CASE n # 1
        <5>1. n - 1 \in 1..m /\ n - 1 < n /\ n - 1 # 0 BY <1>1, <4>2
        <5>2. /\ h[n - 1] <= h[n] /\ h[n - 1] \in 0..Settled
              /\ csv[n].record \in Records => h[n - 1] < h[n]
          BY <1>7, <5>1
        <5> QED BY <1>2, <3>1, <3>3, <5>1, <5>2
      <4> QED BY <4>1, <4>2
    <3>5. CASE csv[n].record \in Records
      <4>1. jsonl[h[n]] \in {csv[n].record, Garbage} BY <1>7, <3>5
      <4>2. p[n] = LineFor(p[n - 1], csv[n].record) BY <3>2, <3>5
      <4>3. p[n] \in A /\ p[n] <= h[n] BY <1>1, <3>1, <3>4, <3>5, <4>1, <4>2, LineForIs
      <4> QED BY <1>2, <1>5, <3>3, <4>3
    <3>6. CASE csv[n].record \notin Records
      <4>1. p[n] = p[n - 1] BY <3>2, <3>6
      <4> QED BY <1>2, <1>5, <3>1, <3>4, <4>1
    <3> QED BY <3>5, <3>6
  <2>3. 0..m \subseteq T
    <3> HIDE DEF T, m
    <3> QED BY <1>1, <2>1, <2>2, UpTo
  <2>4. m \in 0..m BY <1>1
  <2> QED BY <2>3, <2>4
<1>9. (CHOOSE p : p = body(p)) = body(CHOOSE p : p = body(p))
  <2> HIDE DEF body
  <2> QED BY <1>6
<1>10. (CHOOSE p : p = body(p))[m] <= Len(jsonl)
  <2> HIDE DEF body
  <2> QED BY <1>8, <1>9
<1> QED BY <1>10 DEF CsvFollowsJsonl

\* The CSV file is a subsequence of the JSONL file, wherever sweeps are killed: no row is in
\* it that was not written there first, in the same order.  And as long as no run has failed
\* and no record was torn, every row is under a header with its columns.
THEOREM CsvIsReport == SweepSpec => []CsvReports
<1>1. IInv /\ IInv' /\ CsvInv /\ [SweepNext]_sweepVars => CsvInv' BY CsvKept
<1>2. SweepInit => CsvInv /\ OnceInv BY CsvStarts
<1>3. SweepSpec => []CsvInv BY <1>1, <1>2, SweepInvariant, PTL DEF SweepSpec
<1>4. IInv /\ CsvInv /\ OnceInv /\ [SweepNext]_sweepVars => OnceInv' BY OnceKept
<1>5. SweepSpec => []OnceInv BY <1>2, <1>3, <1>4, SweepInvariant, PTL DEF SweepSpec
<1>6. IInv /\ CsvInv /\ OnceInv => CsvReports
  BY FilesAgree DEF CsvReports, OnceInv, Clean
<1> QED BY <1>3, <1>5, <1>6, SweepInvariant, PTL
==============================================================================
