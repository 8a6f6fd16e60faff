----------------------------- MODULE Studies_proofs -----------------------------
(***************************************************************************)
(* The studies: tables under maintenance, for any keys and any number of   *)
(* versions, and the audit studies, for any parameters of the synthetic    *)
(* workload.                                                               *)
(*                                                                         *)
(* Iceberg: what the metadata names is on disk, a verdict is readable for  *)
(* as long as its snapshot is retained, and a rewrite turns verdicts into  *)
(* the ones the masking study counts.  Delta: the change feed tells what   *)
(* the writes changed.  Hudi: the latest record of a key by timestamp wins *)
(* however often its file group is compacted.  All three: the table keeps  *)
(* its evidence as EvidenceLife says.                                      *)
(*                                                                         *)
(* Audit: the table of each commit is known row by row, so the closed form *)
(* of the oracle, the verdict of the rewrite and the planner's groups can  *)
(* be compared key by key; the checks of the studies follow.  So do those  *)
(* of the tables that studies write by hand, from their commits.           *)
(***************************************************************************)
EXTENDS MCMaintenance, AuditStudies, LayoutLemmas

-----------------------------------------------------------------------------
\* An Iceberg table.

IceSummary == [operation : {"append", "replace"}, verdict : {"none", "inline", "spilled"},
            keys : SUBSET IceKeys]

IceTypeOK ==
    /\ history \in Seq(Table(IceKeys, Versions))
    /\ summaries \in Seq(IceSummary) /\ Len(summaries) = Len(history)
    /\ retained \subseteq DOMAIN history
    /\ history # <<>> => Current \in retained
    /\ registered \subseteq retained

-----------------------------------------------------------------------------
\* The objects on disk.

\* Every file the metadata names is there.
NamedIsThere == Reachable \subseteq disk

\* The manifests of a snapshot go when it does.
ManifestsGo == \A i \in Nat : Manifests(i) \in disk => i \in retained

\* A verdict, unless it is in the summary, was registered or its rewrite died.
Published ==
    /\ \A i \in registered : summaries[i].verdict = "spilled"
    /\ \A i \in retained : summaries[i].verdict = "spilled" =>
           (i \in registered <=> [snapshot |-> i, before |-> "registering"] \notin deaths)
    /\ \A i \in Nat : [snapshot |-> i, before |-> "registering"] \in deaths =>
           i \in DOMAIN history /\ summaries[i].verdict = "spilled"

\* A verdict names the stale wins of the table that was rewritten.
NamesStaleWins ==
    \A i \in DOMAIN history : summaries[i].verdict # "none" =>
        i - 1 \in DOMAIN history /\ summaries[i].keys = StaleWinsKeys(history[i - 1])

-----------------------------------------------------------------------------
\* The tables.

SameRow(q, r) == q.commit = r.commit /\ q.part = r.part /\ q.key = r.key /\ q.ver = r.ver

\* No sequence number is ahead of its snapshot, and no two rows say the same.
TableOK(T, n) ==
    /\ \A r \in T.data : r.seq <= n /\ r.commit <= n
    /\ \A d \in T.dels : d.seq <= n
    /\ \A q, r \in T.data : SameRow(q, r) => q = r
    /\ IsFiniteSet(T.data) /\ IsFiniteSet(T.dels)

TablesOK == \A i \in DOMAIN history : TableOK(history[i], i)

\* Table B is what a rewrite made of table A.
Rewritten(A, B) ==
    LiveRows(B) = B.data /\ Content(B.data) = Content(LiveRows(A)) /\ B.dels \subseteq A.dels

ReplacementsRewrite ==
    \A i \in Replacements : i - 1 \in DOMAIN history /\ Rewritten(history[i - 1], history[i])

IceInv ==
    /\ IceTypeOK /\ NamedIsThere /\ ManifestsGo /\ Published /\ NamesStaleWins
    /\ TablesOK /\ ReplacementsRewrite

-----------------------------------------------------------------------------
\* Lemmas.

\* Objects of different kinds, or of different snapshots, are different.
LEMMA ObjectsDiffer ==
    ASSUME NEW i \in Nat, NEW j \in Nat, NEW f
    PROVE  /\ Manifests(i) = Manifests(j) => i = j
           /\ Blob(i) = Blob(j) => i = j
           /\ Manifests(i) # Blob(j) /\ Manifests(i) # DataObject(f) /\ Manifests(i) # DeleteObject(j)
           /\ Blob(i) # DataObject(f) /\ Blob(i) # DeleteObject(j)
           /\ Manifests(i) # Sidecar /\ Blob(i) # Sidecar
<1>1. ASSUME NEW kind, NEW kind2, NEW x, NEW y, [kind |-> kind, at |-> x] = [kind |-> kind2, at |-> y]
      PROVE  kind = kind2 /\ x = y
  <2>1. [kind |-> kind, at |-> x].kind = [kind |-> kind2, at |-> y].kind
    BY <1>1
  <2>2. [kind |-> kind, at |-> x].at = [kind |-> kind2, at |-> y].at
    BY <1>1
  <2> QED BY <2>1, <2>2
<1>2. <<i, 0>> = <<j, 0>> => i = j OBVIOUS
<1> QED BY <1>1, <1>2 DEF Manifests, Blob, DataObject, DeleteObject, Sidecar

\* The current snapshot is the last one.
LEMMA CurrentIs ==
    ASSUME IceTypeOK
    PROVE  /\ Current \in Nat /\ DOMAIN history = 1..Current /\ DOMAIN summaries = 1..Current
           /\ \A i \in DOMAIN history : /\ i \in Nat /\ history[i] \in Table(IceKeys, Versions)
                                        /\ summaries[i] \in IceSummary
           /\ history = <<>> <=> Current = 0
           /\ history # <<>> => TableNow = history[Current] /\ Current \in DOMAIN history
BY DEF IceTypeOK, Current, TableNow

\* The current table is a good one, the empty one included.
LEMMA TableNowOK ==
    ASSUME IceTypeOK, TablesOK
    PROVE  TableNow \in Table(IceKeys, Versions) /\ TableOK(TableNow, Current)
<1>1. CASE history = <<>>
  <2>1. TableNow = EmptyTable BY <1>1 DEF TableNow
  <2>2. EmptyTable \in Table(IceKeys, Versions) BY DEF EmptyTable, Table
  <2>3. IsFiniteSet(EmptyTable.data) /\ IsFiniteSet(EmptyTable.dels) BY FS_EmptySet DEF EmptyTable
  <2>4. TableOK(EmptyTable, Current) BY <2>3 DEF TableOK, EmptyTable
  <2> QED BY <2>1, <2>2, <2>4
<1>2. CASE history # <<>> BY <1>2, CurrentIs DEF TablesOK
<1> QED BY <1>1, <1>2

\* A new snapshot of a good table keeps the invariants, when it brings the files that
\* the table before it does not have, and its verdict is registered or marked dead.
LEMMA SnapshotStep ==
    ASSUME IceInv, NEW T \in Table(IceKeys, Versions), NEW S \in IceSummary, NEW files, NEW reg \in BOOLEAN,
           AddSnapshot(T, S, files),
           TableOK(T, Current + 1),
           S.verdict # "none" => S.keys = StaleWinsKeys(TableNow) /\ history # <<>>,
           S.operation = "replace" => Rewritten(TableNow, T) /\ history # <<>>,
           \A f \in IceFiles(T) : f \in IceFiles(TableNow) \/ DataObject(f) \in files,
           \A d \in T.dels : d \in TableNow.dels \/ DeleteObject(d.seq) \in files,
           \A i \in Nat : Manifests(i) \notin files,
           reg => S.verdict = "spilled" /\ Blob(Current + 1) \in files,
           registered' = IF reg THEN registered \cup {Current + 1} ELSE registered,
           deaths' = IF S.verdict = "spilled" /\ ~reg
                     THEN deaths \cup {[snapshot |-> Current + 1, before |-> "registering"]}
                     ELSE deaths
    PROVE  IceInv'
<1>0. PICK n : n = Current + 1 OBVIOUS
<1> DEFINE Dead(i) == [snapshot |-> i, before |-> "registering"]
<1>1. /\ history' = Append(history, T) /\ summaries' = Append(summaries, S)
      /\ retained' = retained \cup {n} /\ disk' = disk \cup files \cup {Manifests(n)}
  BY <1>0 DEF AddSnapshot
<1>2. IceTypeOK /\ TablesOK BY DEF IceInv
<1>3. /\ Current \in Nat /\ DOMAIN history = 1..Current /\ DOMAIN summaries = 1..Current
      /\ n \in Nat /\ n \notin DOMAIN history
      /\ history # <<>> => TableNow = history[Current] /\ Current \in DOMAIN history
      /\ history = <<>> => TableNow = EmptyTable
  BY <1>0, <1>2, CurrentIs DEF TableNow
<1>4. /\ Len(history') = n /\ Len(summaries') = n /\ DOMAIN history' = 1..n
      /\ history'[n] = T /\ summaries'[n] = S
      /\ \A i \in DOMAIN history : history'[i] = history[i] /\ summaries'[i] = summaries[i]
      /\ history' \in Seq(Table(IceKeys, Versions)) /\ summaries' \in Seq(IceSummary)
      /\ history' # <<>> /\ Current' = n
  <2>1. history \in Seq(Table(IceKeys, Versions)) /\ summaries \in Seq(IceSummary)
        /\ Len(summaries) = Len(history) /\ Current = Len(history)
    BY <1>2 DEF IceTypeOK, Current
  <2> QED BY <1>0, <1>1, <1>3, <2>1 DEF Current
<1>5. \A i \in DOMAIN history : i \in 1..n /\ i # n /\ i \in Nat BY <1>0, <1>3
<1>6. n \in 1..n BY <1>0, <1>3
<1>7. retained \subseteq DOMAIN history /\ registered \subseteq retained BY <1>2 DEF IceTypeOK
<1>8. IceTypeOK'
  <2>1. retained' \subseteq 1..n BY <1>1, <1>5, <1>6, <1>7
  <2>2. registered' \subseteq retained' BY <1>0, <1>1, <1>7
  <2>3. n \in retained' BY <1>1
  <2> QED BY <1>4, <2>1, <2>2, <2>3 DEF IceTypeOK
<1> HIDE DEF Dead
<1>9. \A i \in DOMAIN history : ObjectsOf(i)' = ObjectsOf(i) BY <1>4 DEF ObjectsOf
<1>10. ObjectsOf(n)' \subseteq disk'
  <2>1. ObjectsOf(n)' = {Manifests(n)} \cup {DataObject(f) : f \in IceFiles(T)}
                                     \cup {DeleteObject(d.seq) : d \in T.dels}
    BY <1>4 DEF ObjectsOf
  <2>2. ASSUME history # <<>> PROVE ObjectsOf(Current) \subseteq disk
    BY <1>2, <2>2 DEF IceInv, IceTypeOK, NamedIsThere, Reachable
  <2>3. ASSUME NEW f \in IceFiles(TableNow) PROVE DataObject(f) \in disk
    <3>1. history # <<>> BY <1>3, <2>3 DEF IceFiles, EmptyTable
    <3> QED BY <1>3, <2>2, <2>3, <3>1 DEF ObjectsOf
  <2>4. ASSUME NEW d \in TableNow.dels PROVE DeleteObject(d.seq) \in disk
    <3>1. history # <<>> BY <1>3, <2>4 DEF EmptyTable
    <3> QED BY <1>3, <2>2, <2>4, <3>1 DEF ObjectsOf
  <2> QED BY <1>1, <2>1, <2>3, <2>4
<1>11. NamedIsThere'
  <2>1. ASSUME NEW i \in retained PROVE ObjectsOf(i)' \subseteq disk'
    <3>1. ObjectsOf(i) \subseteq disk BY DEF IceInv, NamedIsThere, Reachable
    <3> QED BY <1>1, <1>7, <1>9, <3>1
  <2>2. ASSUME NEW i \in registered' PROVE Blob(i) \in disk'
    <3>1. CASE i \in registered
      <4>1. Blob(i) \in disk BY <3>1 DEF IceInv, NamedIsThere, Reachable
      <4> QED BY <1>1, <4>1
    <3>2. CASE i \notin registered BY <1>0, <1>1, <2>2, <3>2
    <3> QED BY <3>1, <3>2
  <2>3. \A i : Blob(i)' = Blob(i) BY DEF Blob
  <2> QED BY <1>1, <1>10, <2>1, <2>2, <2>3 DEF NamedIsThere, Reachable
<1>12. ManifestsGo'
  <2>1. SUFFICES ASSUME NEW i \in Nat, Manifests(i) \in disk' PROVE i \in retained'
    BY DEF ManifestsGo, Manifests
  <2>2. CASE Manifests(i) \in disk BY <1>1, <2>2 DEF IceInv, ManifestsGo
  <2>3. CASE Manifests(i) = Manifests(n) BY <1>1, <1>3, <2>3, ObjectsDiffer
  <2> QED BY <1>1, <2>1, <2>2, <2>3
<1>13. \A i \in Nat : Dead(i) \in deaths => i \in DOMAIN history /\ summaries[i].verdict = "spilled"
  BY DEF IceInv, Published, Dead
<1>14. \A i \in Nat : Dead(i) = Dead(n) => i = n
  <2>1. \A i \in Nat : Dead(i).snapshot = i BY DEF Dead
  <2> QED BY <1>3, <2>1
<1>15. Dead(n) \notin deaths BY <1>3, <1>13
<1>16. deaths' = IF S.verdict = "spilled" /\ ~reg THEN deaths \cup {Dead(n)} ELSE deaths
  BY <1>0 DEF Dead
<1>17. registered' = IF reg THEN registered \cup {n} ELSE registered BY <1>0
<1>18. n \notin registered BY <1>3, <1>7
<1>19. Published'
  <2>1. ASSUME NEW i \in registered' PROVE summaries'[i].verdict = "spilled"
    <3>1. CASE i \in registered BY <1>4, <1>7, <3>1 DEF IceInv, Published
    <3>2. CASE i \notin registered BY <1>4, <1>17, <2>1, <3>2
    <3> QED BY <3>1, <3>2
  <2>2. ASSUME NEW i \in retained', summaries'[i].verdict = "spilled"
        PROVE  i \in registered' <=> Dead(i) \notin deaths'
    <3>1. CASE i = n BY <1>4, <1>15, <1>16, <1>17, <1>18, <2>2, <3>1
    <3>2. CASE i # n
      <4>1. i \in retained /\ i \in DOMAIN history /\ i \in Nat BY <1>1, <1>5, <1>7, <2>2, <3>2
      <4>2. i \in registered <=> Dead(i) \notin deaths
        BY <1>4, <2>2, <4>1 DEF IceInv, Published, Dead
      <4>3. Dead(i) # Dead(n) BY <1>14, <3>2, <4>1
      <4> QED BY <1>16, <1>17, <3>2, <4>2, <4>3
    <3> QED BY <3>1, <3>2
  <2>3. ASSUME NEW i \in Nat, Dead(i) \in deaths'
        PROVE  i \in DOMAIN history' /\ summaries'[i].verdict = "spilled"
    <3>1. CASE Dead(i) \in deaths BY <1>4, <1>5, <1>13, <3>1
    <3>2. CASE Dead(i) \notin deaths BY <1>4, <1>6, <1>14, <1>16, <2>3, <3>2
    <3> QED BY <3>1, <3>2
  <2> QED BY <2>1, <2>2, <2>3 DEF Published, Dead
<1>20. NamesStaleWins'
  <2>1. SUFFICES ASSUME NEW i \in 1..n, summaries'[i].verdict # "none"
                 PROVE  i - 1 \in 1..n /\ summaries'[i].keys = StaleWinsKeys(history'[i - 1])
    BY <1>4 DEF NamesStaleWins
  <2>2. CASE i = n
    <3>1. history # <<>> /\ S.keys = StaleWinsKeys(TableNow) BY <1>4, <2>1, <2>2
    <3>2. n - 1 = Current BY <1>0, <1>3
    <3> QED BY <1>3, <1>4, <1>5, <2>2, <3>1, <3>2
  <2>3. CASE i # n
    <3>1. i \in DOMAIN history BY <1>0, <1>3, <2>3
    <3>2. summaries[i].verdict # "none" BY <1>4, <2>1, <3>1
    <3>3. i - 1 \in DOMAIN history /\ summaries[i].keys = StaleWinsKeys(history[i - 1])
      BY <3>1, <3>2 DEF IceInv, NamesStaleWins
    <3> QED BY <1>4, <1>5, <3>1, <3>3
  <2> QED BY <2>2, <2>3
<1>21. TablesOK'
  <2>1. \A i \in DOMAIN history' : TableOK(history'[i], i)
    BY <1>0, <1>2, <1>3, <1>4, <1>6 DEF TablesOK
  <2> QED BY <2>1 DEF TablesOK
<1>22. ReplacementsRewrite'
  <2>1. SUFFICES ASSUME NEW i \in 1..n, summaries'[i].operation = "replace"
                 PROVE  i - 1 \in 1..n /\ Rewritten(history'[i - 1], history'[i])
    BY <1>4 DEF ReplacementsRewrite, Replacements
  <2>2. CASE i = n
    <3>1. history # <<>> /\ Rewritten(TableNow, T) BY <1>4, <2>1, <2>2
    <3>2. n - 1 = Current BY <1>0, <1>3
    <3> QED BY <1>3, <1>4, <1>5, <2>2, <3>1, <3>2
  <2>3. CASE i # n
    <3>1. i \in DOMAIN history BY <1>0, <1>3, <2>3
    <3>2. i \in Replacements BY <1>4, <2>1, <3>1 DEF Replacements
    <3>3. i - 1 \in DOMAIN history /\ Rewritten(history[i - 1], history[i])
      BY <3>2 DEF IceInv, ReplacementsRewrite
    <3> QED BY <1>4, <1>5, <3>1, <3>3
  <2> QED BY <2>2, <2>3
<1> QED BY <1>8, <1>11, <1>12, <1>19, <1>20, <1>21, <1>22 DEF IceInv

\* A commit chooses among finitely many rows.
LEMMA NewFileFinite == IsFiniteSet(NewFile)
<1> DEFINE P == ((1..MaxParts) \X IceKeys) \X Versions
           f == [p \in P |-> [part |-> p[1][1], key |-> p[1][2], ver |-> p[2]]]
<1>1. IsFiniteSet(P)
  <2>1. IsFiniteSet(1..MaxParts) BY MaintenanceAssumption, FS_Interval
  <2>2. IsFiniteSet((1..MaxParts) \X IceKeys) BY <2>1, MaintenanceAssumption, FS_Product
  <2> QED BY <2>2, MaintenanceAssumption, FS_Product
<1>2. f \in [P -> NewFile] BY DEF NewFile
<1>3. ASSUME NEW t \in NewFile PROVE \E p \in P : f[p] = t
  <2>1. t.part \in 1..MaxParts /\ t.key \in IceKeys /\ t.ver \in Versions BY DEF NewFile
  <2>2. t = [part |-> t.part, key |-> t.key, ver |-> t.ver] BY DEF NewFile
  <2>3. <<<<t.part, t.key>>, t.ver>> \in P BY <2>1
  <2>4. f[<<<<t.part, t.key>>, t.ver>>] = t BY <2>2, <2>3
  <2> QED BY <2>3, <2>4
<1> HIDE DEF P, f
<1> QED BY <1>1, <1>2, <1>3, FiniteImage

\* A commit of the writer: rows of a new commit, and deletes of a new sequence number.
LEMMA CommitStep == ASSUME IceInv, CommitRows PROVE IceInv'
<1>0. PICK id : id = Current + 1 OBVIOUS
<1>1. PICK rows \in SUBSET NewFile, deletes \in SUBSET IceKeys :
        LET added == {[commit |-> id, part |-> r.part, key |-> r.key, ver |-> r.ver,
                       file |-> <<id, r.part>>, seq |-> id] : r \in rows}
        IN  AddSnapshot([data |-> TableNow.data \cup added,
                         dels |-> TableNow.dels \cup {[key |-> k, seq |-> id] : k \in deletes}],
                        Appended,
                        {DataObject(r.file) : r \in added} \cup {DeleteObject(id) : k \in deletes})
  <2>0. PICK n \in 0..MaxRowsPerCommit, m \in 0..MaxDeletes :
        \E rows \in kSubset(n, NewFile), deletes \in kSubset(m, IceKeys) :
          LET nid == Current + 1
              added == {[commit |-> nid, part |-> r.part, key |-> r.key, ver |-> r.ver,
                         file |-> <<nid, r.part>>, seq |-> nid] : r \in rows}
          IN  AddSnapshot([data |-> TableNow.data \cup added,
                           dels |-> TableNow.dels \cup {[key |-> k, seq |-> nid] : k \in deletes}],
                          Appended,
                          {DataObject(r.file) : r \in added} \cup {DeleteObject(nid) : k \in deletes})
    BY DEF CommitRows
  <2>1. PICK rows \in kSubset(n, NewFile), deletes \in kSubset(m, IceKeys) :
          LET nid == Current + 1
              added == {[commit |-> nid, part |-> r.part, key |-> r.key, ver |-> r.ver,
                         file |-> <<nid, r.part>>, seq |-> nid] : r \in rows}
          IN  AddSnapshot([data |-> TableNow.data \cup added,
                           dels |-> TableNow.dels \cup {[key |-> k, seq |-> nid] : k \in deletes}],
                          Appended,
                          {DataObject(r.file) : r \in added} \cup {DeleteObject(nid) : k \in deletes})
    BY <2>0
  <2>2. rows \in SUBSET NewFile /\ deletes \in SUBSET IceKeys BY DEF kSubset
  <2>3. id \in {id} /\ Current + 1 = id BY <1>0
  <2> QED BY <2>1, <2>2, <2>3, ZenonT(90)
<1> DEFINE RowFor(r) == [commit |-> id, part |-> r.part, key |-> r.key, ver |-> r.ver,
                         file |-> <<id, r.part>>, seq |-> id]
           added == {RowFor(r) : r \in rows}
           newdels == {[key |-> k, seq |-> id] : k \in deletes}
           files == {DataObject(r.file) : r \in added} \cup {DeleteObject(id) : k \in deletes}
           T == [data |-> TableNow.data \cup added, dels |-> TableNow.dels \cup newdels]
<1>2. AddSnapshot(T, Appended, files) BY <1>1
<1>3. /\ Current \in Nat /\ id \in Nat
      /\ TableNow \in Table(IceKeys, Versions) /\ TableOK(TableNow, Current)
  BY <1>0, CurrentIs, TableNowOK DEF IceInv
<1>4. \A r \in rows : /\ r.part \in Nat /\ r.key \in IceKeys /\ r.ver \in Versions
                      /\ r = [part |-> r.part, key |-> r.key, ver |-> r.ver]
  BY MaintenanceAssumption DEF NewFile
<1>5. \A r \in rows : RowFor(r) \in Row(IceKeys, Versions)
  <2>1. TAKE r \in rows
  <2>2. <<id, r.part>> \in File BY <1>3, <1>4 DEF File
  <2> QED BY <1>3, <1>4, <2>2 DEF Row
<1>6. \A r \in rows : /\ RowFor(r).commit = id /\ RowFor(r).seq = id /\ RowFor(r).part = r.part
                      /\ RowFor(r).key = r.key /\ RowFor(r).ver = r.ver
  OBVIOUS
<1> HIDE DEF RowFor
<1>7. added \subseteq Row(IceKeys, Versions) /\ newdels \subseteq Del(IceKeys) BY <1>3, <1>5 DEF Del
<1>8. T \in Table(IceKeys, Versions) BY <1>3, <1>7 DEF Table
<1>9. TableOK(T, Current + 1)
  <2>1. \A r \in TableNow.data : r.seq \in Nat /\ r.commit \in Nat /\ r.seq <= id /\ r.commit < id
    <3>1. \A r \in TableNow.data : r.seq \in Nat /\ r.commit \in Nat BY <1>3 DEF Table, Row
    <3>2. \A r \in TableNow.data : r.seq <= Current /\ r.commit <= Current BY <1>3 DEF TableOK
    <3> QED BY <1>0, <1>3, <3>1, <3>2
  <2>2. \A r \in T.data : r.seq <= id /\ r.commit <= id BY <1>3, <1>6, <2>1
  <2>3. \A d \in T.dels : d.seq <= id
    <3>1. \A d \in TableNow.dels : d.seq \in Nat /\ d.seq <= Current BY <1>3 DEF TableOK, Table, Del
    <3>2. \A d \in newdels : d.seq = id OBVIOUS
    <3> QED BY <1>0, <1>3, <3>1, <3>2
  <2>4. \A q, r \in T.data : SameRow(q, r) => q = r
    <3> TAKE q, r \in T.data
    <3>0. HAVE SameRow(q, r)
    <3>1. CASE q \in TableNow.data /\ r \in TableNow.data BY <1>3, <3>0, <3>1 DEF TableOK
    <3>2. CASE q \in added /\ r \in added
      <4>1. PICK a \in rows : q = RowFor(a) BY <3>2
      <4>2. PICK b \in rows : r = RowFor(b) BY <3>2
      <4>3. a.part = b.part /\ a.key = b.key /\ a.ver = b.ver BY <1>6, <3>0, <4>1, <4>2 DEF SameRow
      <4>4. a = b BY <1>4, <4>3
      <4> QED BY <4>1, <4>2, <4>4
    <3>3. \A x \in TableNow.data, y \in added : x.commit # y.commit BY <1>3, <1>6, <2>1
    <3> QED BY <3>0, <3>1, <3>2, <3>3 DEF SameRow
  <2>5. IsFiniteSet(added)
    <3>1. IsFiniteSet(rows) BY NewFileFinite, FS_Subset
    <3>2. [r \in rows |-> RowFor(r)] \in [rows -> added] OBVIOUS
    <3>3. \A t \in added : \E r \in rows : [q \in rows |-> RowFor(q)][r] = t OBVIOUS
    <3> HIDE DEF added
    <3> QED BY <3>1, <3>2, <3>3, FiniteImage
  <2>6. IsFiniteSet(newdels)
    <3>1. IsFiniteSet(deletes) BY MaintenanceAssumption, FS_Subset
    <3>2. [k \in deletes |-> [key |-> k, seq |-> id]] \in [deletes -> newdels] OBVIOUS
    <3>3. \A t \in newdels : \E k \in deletes : [l \in deletes |-> [key |-> l, seq |-> id]][k] = t
      OBVIOUS
    <3> HIDE DEF newdels
    <3> QED BY <3>1, <3>2, <3>3, FiniteImage
  <2>7. IsFiniteSet(T.data) /\ IsFiniteSet(T.dels)
    <3>1. IsFiniteSet(TableNow.data) /\ IsFiniteSet(TableNow.dels) BY <1>3 DEF TableOK
    <3>2. T.data = TableNow.data \cup added /\ T.dels = TableNow.dels \cup newdels OBVIOUS
    <3> HIDE DEF T, added, newdels
    <3> QED BY <2>5, <2>6, <3>1, <3>2, FS_Union
  <2> HIDE DEF T
  <2>9. TableOK(T, id) BY <2>2, <2>3, <2>4, <2>7 DEF TableOK
  <2> QED BY <1>0, <2>9
<1>10. \A f \in IceFiles(T) : f \in IceFiles(TableNow) \/ DataObject(f) \in files BY DEF IceFiles
<1>11. \A d \in T.dels : d \in TableNow.dels \/ DeleteObject(d.seq) \in files OBVIOUS
<1>12. \A i \in Nat : Manifests(i) \notin files BY <1>3, ObjectsDiffer
<1>13. Appended \in IceSummary /\ Appended.verdict = "none" /\ Appended.operation # "replace"
  BY DEF Appended, IceSummary
<1>14. registered' = registered /\ deaths' = deaths BY DEF CommitRows
<1> HIDE DEF T, files
<1> QED
  <2>1. FALSE \in BOOLEAN OBVIOUS
  <2> QED BY <1>2, <1>8, <1>9, <1>10, <1>11, <1>12, <1>13, <1>14, <2>1, SnapshotStep

-----------------------------------------------------------------------------
\* A rewrite.

\* A rewritten table has the live rows of the table before, all of them live, in a
\* new file.
LEMMA RewrittenOK ==
    ASSUME IceTypeOK, TablesOK, BinPacks, NEW dropped
    PROVE  LET T == RewrittenTable(dropped)
           IN  /\ history # <<>>
               /\ T \in Table(IceKeys, Versions)
               /\ TableOK(T, Current + 1)
               /\ T.data = RewrittenRows(TableNow)
               /\ Rewritten(TableNow, T)
<1> DEFINE T == RewrittenTable(dropped)
           now == TableNow
           Moved(r) == [r EXCEPT !.file = <<Current + 1, 1>>, !.seq = Current]
<1>1. /\ Current \in Nat /\ now \in Table(IceKeys, Versions) /\ TableOK(now, Current)
  BY CurrentIs, TableNowOK
<1>2. history # <<>>
  <2>1. SUFFICES ASSUME history = <<>> PROVE FALSE OBVIOUS
  <2>2. IceFiles(now) = {} BY <2>1 DEF TableNow, EmptyTable, IceFiles
  <2>3. Cardinality(IceFiles(now)) = 0 BY <2>2, FS_EmptySet
  <2> QED BY <2>3, MaintenanceAssumption DEF BinPacks
<1>3. LiveRows(now) \subseteq now.data /\ now.data \subseteq Row(IceKeys, Versions)
      /\ now.dels \subseteq Del(IceKeys)
  BY <1>1 DEF LiveRows, Table
<1>4. RewrittenRows(now) = {Moved(r) : r \in LiveRows(now)} BY DEF RewrittenRows
<1>5. T.data = RewrittenRows(now) /\ T.dels = {d \in now.dels : d.seq \notin dropped}
      /\ T = [data |-> RewrittenRows(now), dels |-> {d \in now.dels : d.seq \notin dropped}]
  BY DEF RewrittenTable
<1>6. \A r \in Row(IceKeys, Versions) :
         /\ Moved(r) \in Row(IceKeys, Versions) /\ Moved(r).seq = Current
         /\ Moved(r).commit = r.commit /\ Moved(r).part = r.part
         /\ Moved(r).key = r.key /\ Moved(r).ver = r.ver
  <2>1. TAKE r \in Row(IceKeys, Versions)
  <2>2. <<Current + 1, 1>> \in File BY <1>1 DEF File
  <2> QED BY <1>1, <2>2 DEF Row
<1> HIDE DEF T, now, Moved
<1>7. RewrittenRows(now) \subseteq Row(IceKeys, Versions) BY <1>3, <1>4, <1>6
<1>8. T \in Table(IceKeys, Versions) BY <1>3, <1>5, <1>7 DEF Table
<1>9. TableOK(T, Current + 1)
  <2>1. \A r \in T.data : r.seq <= Current + 1 /\ r.commit <= Current + 1
    <3>1. TAKE r \in T.data
    <3>2. PICK o \in LiveRows(now) : r = Moved(o) BY <1>4, <1>5
    <3>3. r.seq = Current /\ r.commit = o.commit BY <1>3, <1>6, <3>2
    <3>4. o.commit \in Nat /\ o.commit <= Current BY <1>1, <1>3 DEF TableOK, Row
    <3> QED BY <1>1, <3>3, <3>4
  <2>2. \A d \in T.dels : d.seq <= Current + 1
    <3>1. \A d \in now.dels : d.seq \in Nat /\ d.seq <= Current BY <1>1, <1>3 DEF TableOK, Del
    <3> QED BY <1>1, <1>5, <3>1
  <2>3. \A q, r \in T.data : SameRow(q, r) => q = r
    <3> TAKE q, r \in T.data
    <3>0. HAVE SameRow(q, r)
    <3>1. PICK a \in LiveRows(now) : q = Moved(a) BY <1>4, <1>5
    <3>2. PICK b \in LiveRows(now) : r = Moved(b) BY <1>4, <1>5
    <3>3. a.commit = b.commit /\ a.part = b.part /\ a.key = b.key /\ a.ver = b.ver
      BY <1>3, <1>6, <3>0, <3>1, <3>2 DEF SameRow
    <3>4. a = b BY <1>1, <1>3, <3>3 DEF TableOK, SameRow
    <3> QED BY <3>1, <3>2, <3>4
  <2>4. IsFiniteSet(now.data) /\ IsFiniteSet(now.dels) BY <1>1 DEF TableOK
  <2>5. IsFiniteSet(LiveRows(now)) BY <1>3, <2>4, FS_Subset
  <2>6. IsFiniteSet(T.data)
    <3>1. [r \in LiveRows(now) |-> Moved(r)] \in [LiveRows(now) -> T.data] BY <1>4, <1>5
    <3>2. \A t \in T.data : \E r \in LiveRows(now) : [x \in LiveRows(now) |-> Moved(x)][r] = t
      BY <1>4, <1>5
    <3> QED BY <2>5, <3>1, <3>2, FiniteImage
  <2>7. IsFiniteSet(T.dels)
    <3>1. T.dels \subseteq now.dels BY <1>5
    <3> QED BY <2>4, <3>1, FS_Subset
  <2> QED BY <2>1, <2>2, <2>6, <2>3, <2>7 DEF TableOK
<1>10. LiveRows(T) = T.data
  <2>1. ASSUME NEW r \in T.data, NEW d \in T.dels PROVE ~(d.seq > r.seq)
    <3>1. r.seq = Current BY <1>3, <1>4, <1>5, <1>6
    <3>2. d.seq \in Nat /\ d.seq <= Current BY <1>1, <1>3, <1>5 DEF TableOK, Del
    <3> QED BY <1>1, <3>1, <3>2
  <2> QED BY <2>1 DEF LiveRows, IsDeleted
<1>11. Content(T.data) = Content(LiveRows(now))
  <2> DEFINE Said(r) == [commit |-> r.commit, part |-> r.part, key |-> r.key, ver |-> r.ver]
  <2>1. Content(T.data) = {Said(r) : r \in T.data} /\ Content(LiveRows(now)) = {Said(r) : r \in LiveRows(now)}
    BY DEF Content
  <2>2. \A r \in LiveRows(now) : Said(Moved(r)) = Said(r) BY <1>3, <1>6
  <2> HIDE DEF Said
  <2> QED BY <1>4, <1>5, <2>1, <2>2
<1>12. T.dels \subseteq now.dels BY <1>5
<1>13. Rewritten(now, T) BY <1>10, <1>11, <1>12 DEF Rewritten
<1> QED BY <1>2, <1>5, <1>8, <1>9, <1>13 DEF T, now

\* What a rewrite commits is a new snapshot of the kind SnapshotStep is about.
LEMMA RewriteCommits ==
    ASSUME IceInv, BinPacks, NEW how \in {"none", "inline", "spilled"}, NEW dropped,
           NEW reg \in BOOLEAN, NEW blobs,
           AddSnapshot(RewrittenTable(dropped), Replaced(how), NewFiles \cup blobs),
           blobs \subseteq {Blob(Current + 1)},
           reg => how = "spilled" /\ Blob(Current + 1) \in blobs,
           registered' = IF reg THEN registered \cup {Current + 1} ELSE registered,
           deaths' = IF how = "spilled" /\ ~reg
                     THEN deaths \cup {[snapshot |-> Current + 1, before |-> "registering"]}
                     ELSE deaths
    PROVE  IceInv'
<1> DEFINE T == RewrittenTable(dropped)
           S == Replaced(how)
           files == NewFiles \cup blobs
<1>1. IceTypeOK /\ TablesOK BY DEF IceInv
<1>2. /\ history # <<>> /\ T \in Table(IceKeys, Versions) /\ TableOK(T, Current + 1)
      /\ T.data = RewrittenRows(TableNow) /\ Rewritten(TableNow, T) /\ T.dels \subseteq TableNow.dels
  BY <1>1, RewrittenOK DEF Rewritten
<1>3. Current \in Nat /\ TableNow \in Table(IceKeys, Versions) BY <1>1, CurrentIs, TableNowOK
<1>4. StaleWinsKeys(TableNow) \subseteq IceKeys
  <2>1. LayoutKeys(TableNow) \subseteq IceKeys BY <1>3 DEF LayoutKeys, Table, Row, Del
  <2> QED BY <2>1 DEF StaleWinsKeys, KeysWith
<1>5. S \in IceSummary /\ S.verdict = how /\ (how # "none" => S.keys = StaleWinsKeys(TableNow))
  <2>1. S = [operation |-> "replace", verdict |-> how,
             keys |-> IF how = "none" THEN {} ELSE StaleWinsKeys(TableNow)]
    BY DEF Replaced
  <2> QED BY <1>4, <2>1 DEF IceSummary
<1>6. \A f \in IceFiles(T) : DataObject(f) \in files BY <1>2 DEF IceFiles, NewFiles
<1>7. \A i \in Nat : Manifests(i) \notin files
  <2>1. TAKE i \in Nat
  <2>2. Current + 1 \in Nat BY <1>3
  <2>3. Manifests(i) # Blob(Current + 1) /\ \A f : Manifests(i) # DataObject(f)
    BY <2>2, ObjectsDiffer
  <2> QED BY <2>3 DEF NewFiles
<1>8. AddSnapshot(T, S, files) OBVIOUS
<1> HIDE DEF T, S
<1>9. \A f \in IceFiles(T) : f \in IceFiles(TableNow) \/ DataObject(f) \in files BY <1>6
<1>10. \A d \in T.dels : d \in TableNow.dels \/ DeleteObject(d.seq) \in files BY <1>2
<1>11. reg => S.verdict = "spilled" /\ Blob(Current + 1) \in files BY <1>5
<1>12. S.verdict # "none" => S.keys = StaleWinsKeys(TableNow) /\ history # <<>> BY <1>2, <1>5
<1>13. deaths' = IF S.verdict = "spilled" /\ ~reg
                 THEN deaths \cup {[snapshot |-> Current + 1, before |-> "registering"]}
                 ELSE deaths
  BY <1>5
<1>14. S.operation = "replace" => Rewritten(TableNow, T) /\ history # <<>> BY <1>2
<1>15. S \in IceSummary /\ T \in Table(IceKeys, Versions) /\ TableOK(T, Current + 1) BY <1>2, <1>5
<1> HIDE DEF files
<1> QED BY <1>7, <1>8, <1>9, <1>10, <1>11, <1>12, <1>13, <1>14, <1>15, SnapshotStep

\* A rewrite that returns keeps the invariant, whichever way it publishes.
LEMMA RewriteStep ==
    ASSUME IceInv, NEW how \in {"none", "inline", "spilled"}, Rewrite(how)
    PROVE  IceInv'
<1> DEFINE blobs == IF how = "spilled" THEN {Blob(Current + 1)} ELSE {}
<1>1. PICK dropped : AddSnapshot(RewrittenTable(dropped), Replaced(how), NewFiles \cup blobs)
  BY DEF Rewrite
<1>2. BinPacks /\ deaths' = deaths
      /\ registered' = IF how = "spilled" THEN registered \cup {Current + 1} ELSE registered
  BY DEF Rewrite
<1>3. blobs \subseteq {Blob(Current + 1)} /\ (how = "spilled" => Blob(Current + 1) \in blobs)
  OBVIOUS
<1> HIDE DEF blobs
<1>4. CASE how = "spilled"
  <2>1. /\ TRUE => how = "spilled" /\ Blob(Current + 1) \in blobs
        /\ registered' = IF TRUE THEN registered \cup {Current + 1} ELSE registered
        /\ deaths' = IF how = "spilled" /\ ~TRUE
                     THEN deaths \cup {[snapshot |-> Current + 1, before |-> "registering"]}
                     ELSE deaths
    BY <1>2, <1>3, <1>4
  <2>2. TRUE \in BOOLEAN OBVIOUS
  <2> QED BY <1>1, <1>2, <1>3, <2>1, <2>2, RewriteCommits
<1>5. CASE how # "spilled"
  <2>1. /\ FALSE => how = "spilled" /\ Blob(Current + 1) \in blobs
        /\ registered' = IF FALSE THEN registered \cup {Current + 1} ELSE registered
        /\ deaths' = IF how = "spilled" /\ ~FALSE
                     THEN deaths \cup {[snapshot |-> Current + 1, before |-> "registering"]}
                     ELSE deaths
    BY <1>2, <1>5
  <2>2. FALSE \in BOOLEAN OBVIOUS
  <2> QED BY <1>1, <1>2, <1>3, <2>1, <2>2, RewriteCommits
<1> QED BY <1>4, <1>5

\* A rewrite that dies leaves files at most, or a snapshot whose verdict is not registered.
LEMMA RewriteDiesStep == ASSUME IceInv, RewriteDies PROVE IceInv'
<1>1. CASE /\ deaths' = deaths \cup {[snapshot |-> Current + 1, before |-> "commit"]}
           /\ disk' = disk \cup {DataObject(<<Current + 1, 0>>)}
           /\ UNCHANGED <<history, summaries, retained>>
  <2>1. UNCHANGED <<history, summaries, retained, registered>> BY <1>1 DEF RewriteDies
  <2>2. Reachable' = Reachable BY <2>1 DEF Reachable, ObjectsOf
  <2>3. \A i \in Nat : Manifests(i) \in disk' => Manifests(i) \in disk BY <1>1, ObjectsDiffer
  <2>4. \A i : [snapshot |-> i, before |-> "registering"] \in deaths'
                 <=> [snapshot |-> i, before |-> "registering"] \in deaths
    <3>1. \A i : [snapshot |-> i, before |-> "registering"] # [snapshot |-> Current + 1, before |-> "commit"]
      <4>1. TAKE i
      <4>2. [snapshot |-> i, before |-> "registering"].before = "registering" OBVIOUS
      <4>3. [snapshot |-> Current + 1, before |-> "commit"].before = "commit" OBVIOUS
      <4> QED BY <4>2, <4>3
    <3> QED BY <1>1, <3>1
  <2>5. IceTypeOK' BY <2>1 DEF IceInv, IceTypeOK, Current
  <2>6. NamedIsThere' BY <1>1, <2>2 DEF IceInv, NamedIsThere
  <2>7. ManifestsGo' BY <2>1, <2>3 DEF IceInv, ManifestsGo, Manifests
  <2>8. Published' BY <2>1, <2>4 DEF IceInv, Published
  <2>9. NamesStaleWins' /\ TablesOK' /\ ReplacementsRewrite'
    BY <2>1 DEF IceInv, NamesStaleWins, TablesOK, ReplacementsRewrite, Replacements
  <2> QED BY <2>5, <2>6, <2>7, <2>8, <2>9 DEF IceInv
<1>2. CASE /\ deaths' = deaths \cup {[snapshot |-> Current + 1, before |-> "registering"]}
           /\ \E dropped \in SUBSET Droppable(TableNow) :
                 AddSnapshot(RewrittenTable(dropped), Replaced("spilled"),
                             NewFiles \cup {Blob(Current + 1)})
  <2> DEFINE how == "spilled"
  <2>1. PICK dropped : AddSnapshot(RewrittenTable(dropped), Replaced(how),
                                   NewFiles \cup {Blob(Current + 1)})
    BY <1>2
  <2>2. /\ FALSE => how = "spilled" /\ Blob(Current + 1) \in {Blob(Current + 1)}
        /\ registered' = IF FALSE THEN registered \cup {Current + 1} ELSE registered
        /\ deaths' = IF how = "spilled" /\ ~FALSE
                     THEN deaths \cup {[snapshot |-> Current + 1, before |-> "registering"]}
                     ELSE deaths
        /\ BinPacks
    BY <1>2 DEF RewriteDies
  <2>3. FALSE \in BOOLEAN /\ how \in {"none", "inline", "spilled"} OBVIOUS
  <2>4. {Blob(Current + 1)} \subseteq {Blob(Current + 1)} OBVIOUS
  <2> QED BY <2>1, <2>2, <2>3, <2>4, RewriteCommits
<1> QED BY <1>1, <1>2 DEF RewriteDies

\* The current snapshot, and all it needs, survive the expiry of the others.
LEMMA ExpireStep == ASSUME IceInv, ExpireSnapshots PROVE IceInv'
<1>1. /\ disk' = disk \ ExpiredObjects /\ retained' = {Current}
      /\ registered' = registered \cap {Current} /\ UNCHANGED <<history, summaries, deaths>>
      /\ history # <<>>
  BY DEF ExpireSnapshots
<1>2. /\ Current \in retained /\ retained \subseteq DOMAIN history /\ registered \subseteq retained
      /\ Current \in DOMAIN history /\ \A i \in DOMAIN history : i \in Nat
  BY <1>1, CurrentIs DEF IceInv, IceTypeOK
<1>3. ObjectsOf(Current) \subseteq disk BY <1>2 DEF IceInv, NamedIsThere, Reachable
<1>4. Current' = Current BY <1>1 DEF Current
<1>5. IceTypeOK' BY <1>1, <1>2, <1>4 DEF IceInv, IceTypeOK
<1>6. NamedIsThere'
  <2>1. ASSUME Current \in registered PROVE Blob(Current) \in disk'
    <3>1. Blob(Current) \in disk BY <2>1 DEF IceInv, NamedIsThere, Reachable
    <3>2. ASSUME NEW i \in retained PROVE Blob(Current) \notin ObjectsOf(i)
      <4>1. \A j \in Nat : Blob(Current) # DeleteObject(j) BY <1>2, ObjectsDiffer
      <4>2. \A f : Blob(Current) # DataObject(f) BY <1>2, ObjectsDiffer
      <4>3. Blob(Current) # Manifests(i) BY <1>2, <3>2, ObjectsDiffer
      <4>4. \A d \in history[i].dels : d.seq \in Nat
        BY <1>2, <3>2, CurrentIs DEF IceInv, Table, Del
      <4> QED BY <4>1, <4>2, <4>3, <4>4 DEF ObjectsOf
    <3>3. \A i \in registered : Blob(Current) = Blob(i) => i = Current BY <1>2, ObjectsDiffer
    <3> QED BY <1>1, <3>1, <3>2, <3>3 DEF ExpiredObjects
  <2>2. ObjectsOf(Current) \subseteq disk' BY <1>1, <1>3 DEF ExpiredObjects
  <2>3. \A i : ObjectsOf(i)' = ObjectsOf(i) /\ Blob(i)' = Blob(i) BY <1>1 DEF ObjectsOf, Blob
  <2>4. Reachable' = (UNION {ObjectsOf(i) : i \in {Current}})
                         \cup {Blob(i) : i \in registered \cap {Current}}
    BY <1>1, <2>3 DEF Reachable
  <2> QED BY <2>1, <2>2, <2>4 DEF NamedIsThere
<1>7. ManifestsGo'
  <2>1. ASSUME NEW i \in Nat, Manifests(i) \in disk' PROVE i = Current
    <3>1. i \in retained BY <1>1, <2>1 DEF IceInv, ManifestsGo
    <3>2. Manifests(i) \in ObjectsOf(i) BY DEF ObjectsOf
    <3>3. ASSUME i # Current PROVE FALSE
      <4>1. Manifests(i) \in ObjectsOf(Current) BY <1>1, <2>1, <3>1, <3>2, <3>3 DEF ExpiredObjects
      <4>2. \A j \in Nat : Manifests(i) # DeleteObject(j) BY ObjectsDiffer
      <4>3. \A f : Manifests(i) # DataObject(f) BY ObjectsDiffer
      <4>4. Manifests(i) # Manifests(Current) BY <1>2, <3>3, ObjectsDiffer
      <4>5. \A d \in history[Current].dels : d.seq \in Nat
        BY <1>2, CurrentIs DEF IceInv, Table, Del
      <4> QED BY <4>1, <4>2, <4>3, <4>4, <4>5 DEF ObjectsOf
    <3> QED BY <3>3
  <2> QED BY <1>1, <2>1 DEF ManifestsGo, Manifests
<1>8. Published' BY <1>1, <1>2 DEF IceInv, Published
<1>9. NamesStaleWins' /\ TablesOK' /\ ReplacementsRewrite'
  BY <1>1 DEF IceInv, NamesStaleWins, TablesOK, ReplacementsRewrite, Replacements
<1> QED BY <1>5, <1>6, <1>7, <1>8, <1>9 DEF IceInv

\* A step that only adds a sidecar, or only takes away what nothing names.
LEMMA DiskStep ==
    ASSUME IceInv, UNCHANGED <<history, summaries, retained, registered, deaths>>,
           disk' = disk \cup {Sidecar} \/ disk' = disk \ Orphans \/ disk' = disk
    PROVE  IceInv'
<1>1. Reachable' = Reachable BY DEF Reachable, ObjectsOf
<1>2. Reachable \subseteq disk' BY DEF IceInv, NamedIsThere, Orphans
<1>3. \A i \in Nat : Manifests(i) \in disk' => Manifests(i) \in disk BY ObjectsDiffer
<1>4. IceTypeOK' BY DEF IceInv, IceTypeOK, Current
<1>5. NamedIsThere' BY <1>1, <1>2 DEF NamedIsThere
<1>6. ManifestsGo' BY <1>3 DEF IceInv, ManifestsGo, Manifests
<1>7. Published' BY DEF IceInv, Published
<1>8. NamesStaleWins' /\ TablesOK' /\ ReplacementsRewrite'
  BY DEF IceInv, NamesStaleWins, TablesOK, ReplacementsRewrite, Replacements
<1> QED BY <1>4, <1>5, <1>6, <1>7, <1>8 DEF IceInv

-----------------------------------------------------------------------------
\* What a rewrite makes of a key's verdict.

\* The rows a rewritten table has of a key, beside the live rows before.
LEMMA SameRows ==
    ASSUME NEW A \in Table(IceKeys, Versions), NEW B \in Table(IceKeys, Versions),
           NEW m, NEW n, TableOK(A, m), TableOK(B, n), Rewritten(A, B), NEW k
    PROVE  LET LA == RowsOf(LiveRows(A), k)
               LB == RowsOf(B.data, k)
           IN  /\ \A a \in LA : \E b \in LB : SameRow(a, b)
               /\ \A b \in LB : \E a \in LA : SameRow(a, b)
               /\ \A a \in LA, b, c \in LB : SameRow(a, b) /\ SameRow(a, c) => b = c
               /\ \A a, c \in LA, b \in LB : SameRow(a, b) /\ SameRow(c, b) => a = c
<1> DEFINE Said(r) == [commit |-> r.commit, part |-> r.part, key |-> r.key, ver |-> r.ver]
<1>1. {Said(r) : r \in B.data} = {Said(r) : r \in LiveRows(A)} BY DEF Rewritten, Content
<1>2. \A q, r : Said(q) = Said(r) => SameRow(q, r)
  <2>1. \A q : Said(q).commit = q.commit /\ Said(q).part = q.part
                 /\ Said(q).key = q.key /\ Said(q).ver = q.ver
    OBVIOUS
  <2> HIDE DEF Said
  <2> QED BY <2>1 DEF SameRow
<1> HIDE DEF Said
<1>3. \A a \in LiveRows(A) : \E b \in B.data : SameRow(a, b) BY <1>1, <1>2
<1>4. \A b \in B.data : \E a \in LiveRows(A) : SameRow(a, b) BY <1>1, <1>2 DEF SameRow
<1>5. LiveRows(A) \subseteq A.data BY DEF LiveRows
<1>6. \A a \in RowsOf(LiveRows(A), k) : \E b \in RowsOf(B.data, k) : SameRow(a, b)
  BY <1>3 DEF RowsOf, SameRow
<1>7. \A b \in RowsOf(B.data, k) : \E a \in RowsOf(LiveRows(A), k) : SameRow(a, b)
  BY <1>4 DEF RowsOf, SameRow
<1>8. \A a \in RowsOf(LiveRows(A), k), b, c \in RowsOf(B.data, k) :
         SameRow(a, b) /\ SameRow(a, c) => b = c
  BY DEF RowsOf, SameRow, TableOK
<1>9. \A a, c \in RowsOf(LiveRows(A), k), b \in RowsOf(B.data, k) :
         SameRow(a, b) /\ SameRow(c, b) => a = c
  BY <1>5 DEF RowsOf, SameRow, TableOK
<1> QED BY <1>6, <1>7, <1>8, <1>9

\* The verdict of a table of this system by the rows a reader sees of the key.
LEMMA TableVerdict ==
    ASSUME NEW T \in Table(IceKeys, Versions), NEW n, TableOK(T, n), NEW k
    PROVE  LET L == RowsOf(LiveRows(T), k)
           IN  /\ L = {} => Classify(Layout(T, k, TRUE, FALSE)) =
                               IF RowsOf(T.data, k) = {} THEN "FAITHFUL" ELSE "NEEDS_CONTEXT"
               /\ L # {} /\ (~\E s : L = {s}) => Classify(Layout(T, k, TRUE, FALSE)) = "DUPLICATE"
               /\ \A s : L = {s} =>
                     Classify(Layout(T, k, TRUE, FALSE)) =
                        IF s.ver = NoVersion THEN "UNDECIDABLE"
                        ELSE IF \E d \in RowsOf(T.data, k) : d.ver # NoVersion /\ d.ver > s.ver
                             THEN "STALE_WINS" ELSE "FAITHFUL"
<1>1. IsFiniteSet(T.data) /\ IsFiniteSet(T.dels) BY DEF TableOK
<1>2. Versions \subseteq Nat \cup {NoVersion} BY MaintenanceAssumption
<1> QED BY <1>1, <1>2, VerdictByRows

\* The verdict of a key after a rewrite, from its verdict before.
LEMMA Masking ==
    ASSUME NEW A \in Table(IceKeys, Versions), NEW B \in Table(IceKeys, Versions),
           NEW m, NEW n, TableOK(A, m), TableOK(B, n), Rewritten(A, B), NEW k
    PROVE  /\ VerdictOf(B, k) \in MaskedVerdicts(A, k)
           /\ VerdictOf(A, k) = "NEEDS_CONTEXT" /\ VerdictOf(B, k) = "FAITHFUL" =>
                  \E d \in B.dels : d.key = k
<1> DEFINE LA == RowsOf(LiveRows(A), k)
           LB == RowsOf(B.data, k)
           VA == Classify(Layout(A, k, TRUE, FALSE))
           VB == Classify(Layout(B, k, TRUE, FALSE))
<1>1. /\ \A a \in LA : \E b \in LB : SameRow(a, b)
      /\ \A b \in LB : \E a \in LA : SameRow(a, b)
      /\ \A a \in LA, b, c \in LB : SameRow(a, b) /\ SameRow(a, c) => b = c
      /\ \A a, c \in LA, b \in LB : SameRow(a, b) /\ SameRow(c, b) => a = c
  BY SameRows
<1>2. RowsOf(LiveRows(B), k) = LB BY DEF Rewritten
<1>3. /\ LA = {} => VA = IF RowsOf(A.data, k) = {} THEN "FAITHFUL" ELSE "NEEDS_CONTEXT"
      /\ LA # {} /\ (~\E s : LA = {s}) => VA = "DUPLICATE"
      /\ \A s : LA = {s} => VA = IF s.ver = NoVersion THEN "UNDECIDABLE"
                                ELSE IF \E d \in RowsOf(A.data, k) : d.ver # NoVersion /\ d.ver > s.ver
                                     THEN "STALE_WINS" ELSE "FAITHFUL"
  BY TableVerdict
<1>4. /\ LB = {} => VB = "FAITHFUL"
      /\ LB # {} /\ (~\E s : LB = {s}) => VB = "DUPLICATE"
      /\ \A s : LB = {s} => VB = IF s.ver = NoVersion THEN "UNDECIDABLE"
                                ELSE IF \E d \in LB : d.ver # NoVersion /\ d.ver > s.ver
                                     THEN "STALE_WINS" ELSE "FAITHFUL"
  <2>1. /\ LB = {} => VB = IF LB = {} THEN "FAITHFUL" ELSE "NEEDS_CONTEXT"
        /\ LB # {} /\ (~\E s : LB = {s}) => VB = "DUPLICATE"
        /\ \A s : LB = {s} => VB = IF s.ver = NoVersion THEN "UNDECIDABLE"
                                ELSE IF \E d \in LB : d.ver # NoVersion /\ d.ver > s.ver
                                     THEN "STALE_WINS" ELSE "FAITHFUL"
    BY <1>2, TableVerdict
  <2> QED BY <2>1
<1>5. LA # {} => k \in LayoutKeys(A) BY DEF RowsOf, LiveRows, LayoutKeys
<1>6. LB # {} => k \in LayoutKeys(B) BY DEF RowsOf, LayoutKeys
<1>7. k \in LayoutKeys(B) /\ LB = {} => k \in LayoutKeys(A) /\ \E d \in B.dels : d.key = k
  BY DEF RowsOf, LayoutKeys, Rewritten
<1>8. /\ VerdictOf(A, k) = IF k \in LayoutKeys(A) THEN VA ELSE "ABSENT"
      /\ VerdictOf(B, k) = IF k \in LayoutKeys(B) THEN VB ELSE "ABSENT"
  BY DEF VerdictOf
<1>9. LB \subseteq Row(IceKeys, Versions) /\ Versions \subseteq Nat \cup {NoVersion}
  BY MaintenanceAssumption DEF RowsOf, Table
<1> HIDE DEF LA, LB, VA, VB
<1>10. CASE LA = {}
  <2>1. LB = {} BY <1>1, <1>10
  <2>2. VerdictOf(B, k) \in {"FAITHFUL", "ABSENT"} BY <1>4, <1>8, <2>1
  <2>3. VerdictOf(A, k) \in {"FAITHFUL", "NEEDS_CONTEXT", "ABSENT"} BY <1>3, <1>8, <1>10
  <2>4. VerdictOf(A, k) = "ABSENT" => VerdictOf(B, k) = "ABSENT"
    <3>1. VerdictOf(A, k) = "ABSENT" => k \notin LayoutKeys(A) BY <1>3, <1>8, <1>10
    <3> QED BY <1>7, <1>8, <2>1, <3>1
  <2>5. VerdictOf(B, k) \in MaskedVerdicts(A, k) BY <2>2, <2>3, <2>4 DEF MaskedVerdicts
  <2>6. VerdictOf(B, k) = "FAITHFUL" => \E d \in B.dels : d.key = k BY <1>7, <1>8, <2>1
  <2> QED BY <2>5, <2>6
<1>11. CASE \E s : LA = {s}
  <2>1. PICK s : LA = {s} BY <1>11
  <2>2. PICK b \in LB : SameRow(s, b) BY <1>1, <2>1
  <2>3. LB = {b} BY <1>1, <2>1, <2>2
  <2>4. b.ver = s.ver BY <2>2 DEF SameRow
  <2>5. b.ver # NoVersion => b.ver \in Nat BY <1>9 DEF Row
  <2>6. VB = IF s.ver = NoVersion THEN "UNDECIDABLE" ELSE "FAITHFUL"
    <3>1. VB = IF b.ver = NoVersion THEN "UNDECIDABLE"
               ELSE IF \E d \in LB : d.ver # NoVersion /\ d.ver > b.ver
                    THEN "STALE_WINS" ELSE "FAITHFUL"
      BY <1>4, <2>3
    <3>2. ~\E d \in LB : d.ver # NoVersion /\ d.ver > b.ver BY <2>3, <2>5
    <3> QED BY <2>4, <3>1, <3>2
  <2>7. s.ver = NoVersion => VA = "UNDECIDABLE" BY <1>3, <2>1
  <2>8. s.ver # NoVersion => VA \in {"STALE_WINS", "FAITHFUL"} BY <1>3, <2>1
  <2>9. VerdictOf(A, k) = VA /\ VerdictOf(B, k) = VB BY <1>5, <1>6, <1>8, <2>1, <2>3
  <2>10. VA # "NEEDS_CONTEXT" BY <2>7, <2>8
  <2>11. VerdictOf(B, k) \in MaskedVerdicts(A, k)
    <3>1. CASE s.ver = NoVersion BY <2>6, <2>7, <2>9, <3>1 DEF MaskedVerdicts
    <3>2. CASE s.ver # NoVersion BY <2>6, <2>8, <2>9, <3>2 DEF MaskedVerdicts
    <3> QED BY <3>1, <3>2
  <2> QED BY <2>9, <2>10, <2>11
<1>12. CASE LA # {} /\ ~\E s : LA = {s}
  <2>1. LB # {} BY <1>1, <1>12
  <2>2. ASSUME NEW b, LB = {b} PROVE FALSE
    <3>1. \A a \in LA : SameRow(a, b) BY <1>1, <2>2
    <3>2. PICK a \in LA : TRUE BY <1>12
    <3>3. LA = {a} BY <1>1, <2>2, <3>1, <3>2
    <3> QED BY <1>12, <3>3
  <2>3. VA = "DUPLICATE" /\ VB = "DUPLICATE" BY <1>3, <1>4, <1>12, <2>1, <2>2
  <2>4. VerdictOf(A, k) = "DUPLICATE" /\ VerdictOf(B, k) = "DUPLICATE"
    BY <1>5, <1>6, <1>8, <1>12, <2>1, <2>3
  <2> QED BY <2>4 DEF MaskedVerdicts
<1> QED BY <1>10, <1>11, <1>12

-----------------------------------------------------------------------------
\* Theorems.

\* The invariant holds throughout.
THEOREM MaintenanceInvariant == IceSpec => []IceInv
<1>1. IceInit => IceInv
  <2> SUFFICES ASSUME IceInit PROVE IceInv OBVIOUS
  <2>1. Reachable = {} BY DEF IceInit, Reachable
  <2>2. IceTypeOK BY DEF IceInit, IceTypeOK
  <2> QED BY <2>1, <2>2 DEF IceInit, IceInv, NamedIsThere, ManifestsGo, Published, NamesStaleWins,
                            TablesOK, ReplacementsRewrite, Replacements
<1>2. IceInv /\ [IceNext]_iceVars => IceInv'
  <2> SUFFICES ASSUME IceInv, [IceNext]_iceVars PROVE IceInv' OBVIOUS
  <2>1. CASE CommitRows BY <2>1, CommitStep
  <2>2. ASSUME NEW how \in {"none", "inline", "spilled"}, Rewrite(how) PROVE IceInv'
    BY <2>2, RewriteStep
  <2>3. CASE RewriteDies BY <2>3, RewriteDiesStep
  <2>4. CASE ExpireSnapshots BY <2>4, ExpireStep
  <2>5. CASE WriteSidecar BY <2>5, DiskStep DEF WriteSidecar
  <2>6. CASE RemoveOrphanFiles BY <2>6, DiskStep DEF RemoveOrphanFiles
  <2>7. CASE UNCHANGED iceVars BY <2>7, DiskStep DEF iceVars
  <2> QED BY <2>1, <2>2, <2>3, <2>4, <2>5, <2>6, <2>7 DEF IceNext
<1> QED BY <1>1, <1>2, PTL DEF IceSpec

\* A snapshot can be read exactly while it is retained.
ReadsRetained == \A i \in DOMAIN history : CanRead(i) <=> i \in retained

\* The invariant says so.
LEMMA ReadableIsRetained == ASSUME IceInv PROVE ReadsRetained
<1> SUFFICES ASSUME NEW i \in DOMAIN history PROVE CanRead(i) <=> i \in retained
  BY DEF ReadsRetained
<1>1. i \in Nat BY CurrentIs DEF IceInv
<1>2. CanRead(i) => i \in retained BY <1>1 DEF CanRead, ObjectsOf, IceInv, ManifestsGo
<1>3. i \in retained => CanRead(i) BY DEF CanRead, IceInv, NamedIsThere, Reachable
<1> QED BY <1>2, <1>3

\* Whatever files the audited rewrites, the expiry and the orphan cleanup take away, and
\* wherever a rewrite dies, the verdict of a retained rewrite stays readable and names
\* the stale wins it made invisible; what the metadata names is on disk
\* (audit/test_puffin_spill.py:7-12, README.md "Persistence").
THEOREM VerdictSurvives == IceSpec => []VerdictOutlivesEvidence
<1>1. IceInv => VerdictOutlivesEvidence
  <2> SUFFICES ASSUME IceInv PROVE VerdictOutlivesEvidence OBVIOUS
  <2>1. Reachable \subseteq disk BY DEF IceInv, NamedIsThere
  <2>2. ASSUME NEW i \in retained, summaries[i].verdict # "none"
        PROVE  /\ summaries[i].keys = StaleWinsKeys(history[i - 1])
               /\ VerdictReadable(i) <=> [snapshot |-> i, before |-> "registering"] \notin deaths
    <3>1. i \in DOMAIN history BY DEF IceInv, IceTypeOK
    <3>2. i \in Nat /\ summaries[i].verdict \in {"none", "inline", "spilled"}
      BY <3>1, CurrentIs DEF IceInv, IceSummary
    <3>3. summaries[i].keys = StaleWinsKeys(history[i - 1]) BY <2>2, <3>1 DEF IceInv, NamesStaleWins
    <3>4. CASE summaries[i].verdict = "inline"
      BY <3>2, <3>3, <3>4 DEF IceInv, Published, VerdictReadable
    <3>5. CASE summaries[i].verdict = "spilled"
      <4>1. i \in registered <=> [snapshot |-> i, before |-> "registering"] \notin deaths
        BY <3>5 DEF IceInv, Published
      <4>2. i \in registered => Blob(i) \in disk BY <2>1 DEF Reachable
      <4> QED BY <3>3, <3>5, <4>1, <4>2 DEF VerdictReadable
    <3> QED BY <2>2, <3>2, <3>4, <3>5
  <2> QED BY <2>1, <2>2, ReadableIsRetained DEF VerdictOutlivesEvidence, ReadsRetained
<1> QED BY <1>1, MaintenanceInvariant, PTL

\* The masking study's counts are what any rewrite of any table does: a stale win turns
\* FAITHFUL, a duplicate stays one, and a key without a surviving row is seen no more
\* or, while a delete file of it is left, is FAITHFUL (README.md, the masking counts).
THEOREM RewriteMasks == IceSpec => []MaskingOutcome
<1>1. IceInv => MaskingOutcome
  <2> SUFFICES ASSUME IceInv, NEW i \in Replacements, NEW k \in IceKeys
               PROVE  /\ VerdictOf(history[i], k) \in MaskedVerdicts(history[i - 1], k)
                      /\ VerdictOf(history[i - 1], k) = "NEEDS_CONTEXT"
                             /\ VerdictOf(history[i], k) = "FAITHFUL" =>
                             \E d \in history[i].dels : d.key = k
    BY DEF MaskingOutcome
  <2>1. i \in DOMAIN history /\ i - 1 \in DOMAIN history /\ Rewritten(history[i - 1], history[i])
    BY DEF IceInv, ReplacementsRewrite, Replacements
  <2>2. /\ history[i] \in Table(IceKeys, Versions) /\ history[i - 1] \in Table(IceKeys, Versions)
        /\ TableOK(history[i], i) /\ TableOK(history[i - 1], i - 1)
    BY <2>1, CurrentIs DEF IceInv, TablesOK
  <2> QED BY <2>1, <2>2, Masking
<1> QED BY <1>1, MaintenanceInvariant, PTL

-----------------------------------------------------------------------------
\* The table implements EvidenceLife.

Served == Content(LiveRows(TableNow))

IceInSight == Content(TableNow.data)

IceRecoverable == UNION {Content(history[i].data) : i \in {j \in DOMAIN history : CanRead(j)}}

iceState == <<SnapshotsOf("append"), SnapshotsOf("replace"), Served, IceInSight, IceRecoverable>>

\* What can be recovered is what the retained snapshots hold.
LEMMA RecoverableIsRetained ==
    ASSUME IceInv PROVE IceRecoverable = UNION {Content(history[i].data) : i \in retained}
BY ReadableIsRetained DEF IceInv, IceTypeOK, IceRecoverable, ReadsRetained

\* What is in sight is recoverable.
LEMMA IceSightIsRecoverable == ASSUME IceInv PROVE IceInSight \subseteq IceRecoverable
<1>1. CASE history = <<>> BY <1>1 DEF IceInSight, TableNow, EmptyTable, Content
<1>2. CASE history # <<>>
  <2>1. TableNow = history[Current] /\ Current \in retained BY <1>2 DEF IceInv, IceTypeOK, TableNow
  <2> QED BY <2>1, RecoverableIsRetained DEF IceInSight
<1> QED BY <1>1, <1>2

\* The same after a step.
LEMMA IceRecoverableNext ==
    ASSUME IceInv', ReadsRetained'
    PROVE  IceRecoverable' = UNION {Content(history'[i].data) : i \in retained'}
<1>1. \A i : Content(history[i].data)' = Content(history'[i].data) BY DEF Content
<1>2. \A i \in DOMAIN history' : CanRead(i)' <=> i \in retained'
  BY DEF ReadsRetained, CanRead, ObjectsOf
<1>3. retained' \subseteq DOMAIN history' BY DEF IceInv, IceTypeOK
<1> QED BY <1>1, <1>2, <1>3 DEF IceRecoverable

\* A new snapshot adds its rows to what is recoverable.
LEMMA SnapshotAdds ==
    ASSUME IceInv, IceInv', ReadsRetained', NEW T, NEW S, NEW files, AddSnapshot(T, S, files)
    PROVE  TableNow' = T /\ IceRecoverable' = IceRecoverable \cup Content(T.data)
<1>0. PICK n : n = Current + 1 OBVIOUS
<1>1. history' = Append(history, T) /\ retained' = retained \cup {n} BY <1>0 DEF AddSnapshot
<1>2. history \in Seq(Table(IceKeys, Versions)) /\ Current = Len(history) /\ Current \in Nat
  BY CurrentIs DEF IceInv, IceTypeOK, Current
<1>3. /\ Len(history') = n /\ history'[n] = T /\ history' # <<>>
      /\ \A i \in DOMAIN history : history'[i] = history[i]
  BY <1>0, <1>1, <1>2
<1>4. TableNow' = T
  <2>1. Current' = n BY <1>3 DEF Current
  <2> QED BY <1>3, <2>1 DEF TableNow
<1>5. \A x : x \in IceRecoverable' <=> \E i \in retained' : x \in Content(history'[i].data)
  BY IceRecoverableNext
<1>6. \A x : x \in IceRecoverable <=> \E i \in retained : x \in Content(history[i].data)
  BY RecoverableIsRetained
<1>7. \A i \in retained : history'[i] = history[i] BY <1>3 DEF IceInv, IceTypeOK
<1>8. ASSUME NEW x PROVE x \in IceRecoverable' <=> x \in IceRecoverable \cup Content(T.data)
  <2>1. x \in IceRecoverable' <=> \/ \E i \in retained : x \in Content(history'[i].data)
                              \/ x \in Content(history'[n].data)
    BY <1>1, <1>5
  <2>2. (\E i \in retained : x \in Content(history'[i].data)) <=> x \in IceRecoverable
    BY <1>6, <1>7
  <2> QED BY <1>3, <2>1, <2>2
<1> QED BY <1>4, <1>8

\* A new snapshot is one more of its operation, and none of another.
LEMMA SummaryAdds ==
    ASSUME IceTypeOK, NEW T, NEW S, NEW files, AddSnapshot(T, S, files), NEW operation
    PROVE  /\ Current + 1 \notin SnapshotsOf(operation)
           /\ SnapshotsOf(operation)' =
                  SnapshotsOf(operation) \cup (IF S.operation = operation THEN {Current + 1} ELSE {})
<1>0. PICK n : n = Current + 1 OBVIOUS
<1>1. summaries \in Seq(IceSummary) /\ DOMAIN summaries = 1..Current /\ Len(summaries) = Current /\ Current \in Nat
  BY CurrentIs DEF IceTypeOK, Current
<1>2. summaries' = Append(summaries, S) BY DEF AddSnapshot
<1>3. /\ DOMAIN summaries' = DOMAIN summaries \cup {n} /\ n \notin DOMAIN summaries
      /\ summaries'[n] = S /\ \A i \in DOMAIN summaries : summaries'[i] = summaries[i]
  BY <1>0, <1>1, <1>2
<1>4. SnapshotsOf(operation)' = {i \in DOMAIN summaries' : summaries'[i].operation = operation}
  BY DEF SnapshotsOf
<1>5. SnapshotsOf(operation)' = SnapshotsOf(operation) \cup (IF S.operation = operation THEN {n} ELSE {})
  BY <1>3, <1>4 DEF SnapshotsOf
<1> QED BY <1>0, <1>3, <1>5 DEF SnapshotsOf

\* Table T has what the current one has, and rows of the next commit.
Grows(T) ==
    /\ TableNow.data \subseteq T.data /\ TableNow.dels \subseteq T.dels
    /\ \A r \in T.data : r \in TableNow.data \/ r.commit = Current + 1

\* A writer's commit adds rows and delete files to the current table.
LEMMA CommitGrows == ASSUME CommitRows PROVE \E T, files : AddSnapshot(T, Appended, files) /\ Grows(T)
<1> DEFINE Added(rows) == {[commit |-> Current + 1, part |-> r.part, key |-> r.key, ver |-> r.ver,
                            file |-> <<Current + 1, r.part>>, seq |-> Current + 1] : r \in rows}
           After(rows, deletes) ==
               [data |-> TableNow.data \cup Added(rows),
                dels |-> TableNow.dels \cup {[key |-> k, seq |-> Current + 1] : k \in deletes}]
           Files(rows, deletes) ==
               {DataObject(r.file) : r \in Added(rows)} \cup {DeleteObject(Current + 1) : k \in deletes}
<1>1. PICK n \in 0..MaxRowsPerCommit, m \in 0..MaxDeletes :
        \E rows \in kSubset(n, NewFile), deletes \in kSubset(m, IceKeys) :
            AddSnapshot(After(rows, deletes), Appended, Files(rows, deletes))
  BY DEF CommitRows
<1>2. PICK rows \in kSubset(n, NewFile), deletes \in kSubset(m, IceKeys) :
        AddSnapshot(After(rows, deletes), Appended, Files(rows, deletes))
  BY <1>1
<1>3. \A r \in Added(rows) : r.commit = Current + 1 OBVIOUS
<1>4. /\ After(rows, deletes).data = TableNow.data \cup Added(rows)
      /\ TableNow.dels \subseteq After(rows, deletes).dels
  OBVIOUS
<1> HIDE DEF Added, After, Files
<1>5. Grows(After(rows, deletes)) BY <1>3, <1>4 DEF Grows
<1> QED BY <1>2, <1>5

\* The rows of a table that grew: none goes out of sight, and none that was not served
\* before is served now.
LEMMA GrownServes ==
    ASSUME IceInv, NEW T, Grows(T)
    PROVE  /\ IceInSight \subseteq Content(T.data)
           /\ Content(LiveRows(T)) \subseteq Content(T.data)
           /\ Content(LiveRows(T)) \cap IceInSight \subseteq Served
<1> DEFINE Said(r) == [commit |-> r.commit, part |-> r.part, key |-> r.key, ver |-> r.ver]
<1>1. \A rows : Content(rows) = {Said(r) : r \in rows} BY DEF Content
<1>2. \A r : Said(r).commit = r.commit OBVIOUS
<1> HIDE DEF Said
<1>3. \A r \in LiveRows(T) : r \in T.data /\ ~IsDeleted(T, r) BY DEF LiveRows
<1>4. \A r : IsDeleted(TableNow, r) => IsDeleted(T, r) BY DEF Grows, IsDeleted
<1>5. \A r \in TableNow.data : r.commit # Current + 1
  <2>1. TableNow \in Table(IceKeys, Versions) /\ TableOK(TableNow, Current) /\ Current \in Nat
    BY TableNowOK, CurrentIs DEF IceInv
  <2>2. \A r \in TableNow.data : r.commit \in Nat /\ r.commit <= Current
    BY <2>1 DEF TableOK, Table, Row
  <2> QED BY <2>1, <2>2
<1>6. ASSUME NEW x \in Content(LiveRows(T)), x \in IceInSight PROVE x \in Served
  <2>1. PICK r \in LiveRows(T) : x = Said(r) BY <1>1
  <2>2. PICK q \in TableNow.data : x = Said(q) BY <1>1, <1>6 DEF IceInSight
  <2>3. r.commit # Current + 1
    <3>1. r.commit = q.commit BY <1>2, <2>1, <2>2
    <3> QED BY <1>5, <3>1
  <2>4. r \in TableNow.data BY <1>3, <2>3 DEF Grows
  <2>5. r \in LiveRows(TableNow) BY <1>3, <1>4, <2>4 DEF LiveRows
  <2> QED BY <1>1, <2>1, <2>5 DEF Served
<1>7. IceInSight \subseteq Content(T.data) BY <1>1 DEF IceInSight, Grows
<1>8. Content(LiveRows(T)) \subseteq Content(T.data) BY <1>1, <1>3
<1> QED BY <1>6, <1>7, <1>8

\* A writer's commit is the abstract Write.
LEMMA IceWriteLives ==
    ASSUME IceInv, IceInv', ReadsRetained', CommitRows
    PROVE  IceLife!Write
<1>1. PICK T, files : AddSnapshot(T, Appended, files) /\ Grows(T) BY CommitGrows
<1>2. TableNow' = T /\ IceRecoverable' = IceRecoverable \cup Content(T.data) BY <1>1, SnapshotAdds
<1>3. IceInSight' = Content(T.data) /\ Served' = Content(LiveRows(T))
  BY <1>2 DEF IceInSight, Served, Content, LiveRows, IsDeleted
<1>4. /\ IceInSight \subseteq Content(T.data)
      /\ Content(LiveRows(T)) \subseteq Content(T.data)
      /\ Content(LiveRows(T)) \cap IceInSight \subseteq Served
  BY <1>1, GrownServes
<1>5. Appended.operation = "append" BY DEF Appended
<1>6. /\ SnapshotsOf("append") \subseteq SnapshotsOf("append")'
      /\ SnapshotsOf("append")' # SnapshotsOf("append")
      /\ SnapshotsOf("replace")' = SnapshotsOf("replace")
  <2> DEFINE n == Current + 1
  <2>1. n \notin SnapshotsOf("append") /\ SnapshotsOf("append")' = SnapshotsOf("append") \cup {n}
    BY <1>1, <1>5, SummaryAdds DEF IceInv
  <2>2. SnapshotsOf("replace")' = SnapshotsOf("replace") \cup {} BY <1>1, <1>5, SummaryAdds DEF IceInv
  <2> HIDE DEF n
  <2> QED BY <2>1, <2>2
<1>7. IceRecoverable' = IceRecoverable \cup IceInSight' BY <1>2, <1>3
<1>8. /\ IceInSight \subseteq IceInSight' /\ Served' \subseteq IceInSight'
      /\ Served' \cap IceInSight \subseteq Served
  BY <1>3, <1>4
<1> QED BY <1>6, <1>7, <1>8 DEF IceLife!Write, Served, IceInSight, IceRecoverable

\* A committed rewrite, registered or not.
LEMMA IceCompactLives ==
    ASSUME IceInv, IceInv', ReadsRetained', BinPacks, NEW dropped, NEW S, NEW files,
           AddSnapshot(RewrittenTable(dropped), S, files), S.operation = "replace"
    PROVE  IceLife!Compact
<1> DEFINE T == RewrittenTable(dropped)
<1>1. TableNow' = T /\ IceRecoverable' = IceRecoverable \cup Content(T.data) BY SnapshotAdds
<1>2. Rewritten(TableNow, T) BY RewrittenOK DEF IceInv
<1>7. AddSnapshot(T, S, files) OBVIOUS
<1> HIDE DEF T
<1>3. IceInSight' = Content(T.data) /\ Served' = Content(LiveRows(T))
  BY <1>1 DEF IceInSight, Served, Content, LiveRows, IsDeleted
<1>4. Content(LiveRows(T)) = Content(T.data) /\ Content(T.data) = Served
  BY <1>2 DEF Rewritten, Served
<1>5. Served \subseteq IceInSight BY DEF Served, IceInSight, Content, LiveRows
<1>6. IceRecoverable' = IceRecoverable BY <1>1, <1>4, <1>5, IceSightIsRecoverable
<1>8. /\ SnapshotsOf("replace") \subseteq SnapshotsOf("replace")'
      /\ SnapshotsOf("replace")' # SnapshotsOf("replace")
      /\ SnapshotsOf("append")' = SnapshotsOf("append")
  <2> DEFINE n == Current + 1
  <2>1. n \notin SnapshotsOf("replace") /\ SnapshotsOf("replace")' = SnapshotsOf("replace") \cup {n}
    BY <1>7, SummaryAdds DEF IceInv
  <2>2. SnapshotsOf("append")' = SnapshotsOf("append") \cup {} BY <1>7, SummaryAdds DEF IceInv
  <2> HIDE DEF n
  <2> QED BY <2>1, <2>2
<1>9. IceInSight' = Served /\ Served' = Served BY <1>3, <1>4
<1> QED BY <1>6, <1>8, <1>9 DEF IceLife!Compact, Served, IceInSight, IceRecoverable

\* The expiry of snapshots is the abstract Expire.
LEMMA IceExpireLives ==
    ASSUME IceInv, IceInv', ReadsRetained', ExpireSnapshots
    PROVE  IceLife!Expire
<1>1. history' = history /\ retained' = {Current} /\ history # <<>> BY DEF ExpireSnapshots
<1>2. Current \in retained /\ TableNow = history[Current]
  BY <1>1 DEF IceInv, IceTypeOK, TableNow
<1>3. IceRecoverable' = UNION {Content(history[i].data) : i \in {Current}} BY <1>1, IceRecoverableNext
<1>4. IceRecoverable = UNION {Content(history[i].data) : i \in retained} BY RecoverableIsRetained
<1>5. IceInSight = Content(history[Current].data) BY <1>2 DEF IceInSight
<1>6. IceInSight \subseteq IceRecoverable' /\ IceRecoverable' \subseteq IceRecoverable BY <1>2, <1>3, <1>4, <1>5
<1>7. Served' = Served /\ IceInSight' = IceInSight
  BY <1>1 DEF Served, IceInSight, TableNow, Current, Content, LiveRows, IsDeleted
<1>8. UNCHANGED <<SnapshotsOf("append"), SnapshotsOf("replace")>> BY DEF ExpireSnapshots, SnapshotsOf
<1> QED BY <1>6, <1>7, <1>8 DEF IceLife!Expire, Served, IceInSight, IceRecoverable

\* For any keys, versions and bounds: a rewrite leaves the current snapshot with exactly
\* the rows served before it and destroys no version, wherever it dies; expiry and orphan
\* removal alone destroy versions, none of the current snapshot; a writer's commit
\* destroys none and serves none again that was superseded (run_compaction_timetravel.py,
\* README.md "Compaction masking, in detail").
THEOREM IcebergKeeps == IceSpec => IcebergKeepsEvidence
<1>1. IceInit => IceLife!LifeInit
  BY DEF IceInit, IceLife!LifeInit, TableNow, EmptyTable, LiveRows, Content, SnapshotsOf
<1>2. IceInv /\ IceInv' /\ ReadsRetained' /\ [IceNext]_iceVars => [IceLife!LifeNext]_iceState
  <2> SUFFICES ASSUME IceInv, IceInv', ReadsRetained', [IceNext]_iceVars
               PROVE  IceLife!LifeNext \/ UNCHANGED iceState
    OBVIOUS
  <2>0. \A how : Replaced(how).operation = "replace" BY DEF Replaced
  <2>1. CASE CommitRows BY <2>1, IceWriteLives DEF IceLife!LifeNext
  <2>2. ASSUME NEW how \in {"none", "inline", "spilled"}, Rewrite(how) PROVE IceLife!LifeNext
    <3>1. BinPacks /\ \E dropped, files : AddSnapshot(RewrittenTable(dropped), Replaced(how), files)
      BY <2>2 DEF Rewrite
    <3> QED BY <2>0, <3>1, IceCompactLives DEF IceLife!LifeNext
  <2>3. CASE ExpireSnapshots BY <2>3, IceExpireLives DEF IceLife!LifeNext
  <2>4. ASSUME UNCHANGED <<history, summaries, retained>> PROVE UNCHANGED iceState
    <3>1. IceRecoverable' = UNION {Content(history[i].data) : i \in retained}
      BY <2>4, IceRecoverableNext
    <3>2. Served' = Served /\ IceInSight' = IceInSight
      BY <2>4 DEF Served, IceInSight, TableNow, Current, Content, LiveRows, IsDeleted
    <3>3. UNCHANGED <<SnapshotsOf("append"), SnapshotsOf("replace")>> BY <2>4 DEF SnapshotsOf
    <3> QED BY <3>1, <3>2, <3>3, RecoverableIsRetained DEF iceState
  <2>5. CASE RewriteDies
    <3>1. CASE UNCHANGED <<history, summaries, retained>> BY <2>4, <3>1
    <3>2. CASE \E dropped, files : AddSnapshot(RewrittenTable(dropped), Replaced("spilled"), files)
      BY <2>0, <2>5, <3>2, IceCompactLives DEF RewriteDies, IceLife!LifeNext
    <3> QED BY <2>5, <3>1, <3>2 DEF RewriteDies
  <2> QED BY <2>1, <2>2, <2>3, <2>4, <2>5 DEF IceNext, WriteSidecar, RemoveOrphanFiles, iceVars
<1>3. IceInv => ReadsRetained BY ReadableIsRetained
<1>4. [IceLife!LifeNext]_iceState => [IceLife!LifeNext]_IceLife!lifeVars
  BY DEF iceState, IceLife!lifeVars, Served, IceInSight, IceRecoverable
<1> QED BY <1>1, <1>2, <1>3, <1>4, MaintenanceInvariant, PTL
        DEF IceSpec, IcebergKeepsEvidence, IceLife!LifeSpec

-----------------------------------------------------------------------------
\* A Delta table.

TableRow == [key : DeltaKeys, ver : Nat]

Changes == [at : Nat, type : {"insert", "update_preimage", "update_postimage"}, row : TableRow]

DataFiles == [kind : {"data"}, at : Nat, rows : SUBSET TableRow]

ChangeSets == [kind : {"change"}, at : Nat, rows : SUBSET Changes]

Entry == [operation : {"CREATE", "WRITE", "MERGE", "OPTIMIZE", "VACUUM"},
          add : SUBSET DataFiles, remove : SUBSET DataFiles, cdc : SUBSET ChangeSets,
          dataChange : BOOLEAN]

DeltaTypeOK == log \in Seq(Entry) /\ log # <<>>

\* A file is named after the version that wrote it, so no name is used twice.
NamedByVersion == \A i \in DOMAIN log : \A f \in log[i].add \cup log[i].remove : f.at <= i

\* The current version can be read.
CurrentStored == CurrentFiles \subseteq stored

DeltaInv == DeltaTypeOK /\ NamedByVersion /\ CurrentStored

-----------------------------------------------------------------------------
\* Lemmas.

\* The log is a sequence of entries, and never empty.
LEMMA LogFacts ==
    ASSUME DeltaTypeOK
    PROVE  /\ Version \in Nat /\ Version >= 1 /\ DOMAIN log = 1..Version
           /\ \A i \in DOMAIN log : log[i] \in Entry
BY DEF DeltaTypeOK, Version

\* Files of the log are no younger than the log.
LEMMA FilesAreOld ==
    ASSUME DeltaInv
    PROVE  /\ \A f \in LogAdds(Version) \cup LogRemoves(Version) : f.at \in Nat /\ f.at <= Version
           /\ LogAdds(Version) \cup LogRemoves(Version) \subseteq DataFiles
<1>1. Version \in Nat /\ DOMAIN log = 1..Version /\ \A i \in DOMAIN log : log[i] \in Entry
  BY LogFacts DEF DeltaInv
<1>2. ASSUME NEW f \in LogAdds(Version) \cup LogRemoves(Version)
      PROVE  f \in DataFiles /\ f.at <= Version
  <2>1. PICK i \in 1..Version : f \in log[i].add \cup log[i].remove
    BY <1>2 DEF LogAdds, LogRemoves
  <2>2. f \in DataFiles BY <1>1, <2>1 DEF Entry
  <2>3. f.at <= i /\ f.at \in Nat BY <1>1, <2>1, <2>2 DEF DeltaInv, NamedByVersion, DataFiles
  <2> QED BY <1>1, <2>1, <2>2, <2>3
<1> QED BY <1>2 DEF DataFiles

\* A commit leaves the earlier versions as they were, and makes of the current files
\* those that it does not remove and those that it adds.
LEMMA LogGrows ==
    ASSUME DeltaInv, NEW e \in Entry, log' = Append(log, e), e.remove \subseteq CurrentFiles,
           \A f \in e.add : f.at = Version + 1
    PROVE  /\ Version' = Version + 1 /\ DOMAIN log' = 1..(Version + 1)
           /\ log'[Version + 1] = e /\ \A i \in DOMAIN log : log'[i] = log[i]
           /\ \A v \in DOMAIN log : VersionFiles(v)' = VersionFiles(v)
           /\ CurrentFiles' = (CurrentFiles \ e.remove) \cup e.add
           /\ DeltaTypeOK' /\ NamedByVersion'
<1>0. PICK w : w = Version OBVIOUS
<1>1. /\ w \in Nat /\ w >= 1 /\ DOMAIN log = 1..w /\ log \in Seq(Entry) /\ Len(log) = w
  BY <1>0, LogFacts DEF DeltaInv, DeltaTypeOK, Version
<1>2. /\ Len(log') = w + 1 /\ DOMAIN log' = 1..(w + 1) /\ log'[w + 1] = e
      /\ \A i \in 1..w : log'[i] = log[i]
      /\ log' \in Seq(Entry) /\ log' # <<>>
  BY <1>1
<1>3. Version' = w + 1 BY <1>2 DEF Version
<1>4. ASSUME NEW v \in 1..w PROVE LogAdds(v)' = LogAdds(v) /\ LogRemoves(v)' = LogRemoves(v)
  <2>1. \A i \in 1..v : log'[i] = log[i] BY <1>1, <1>2
  <2> QED BY <2>1 DEF LogAdds, LogRemoves
<1>5. /\ LogAdds(w + 1)' = LogAdds(w) \cup e.add
      /\ LogRemoves(w + 1)' = LogRemoves(w) \cup e.remove
  <2>1. 1..(w + 1) = (1..w) \cup {w + 1} BY <1>1
  <2> QED BY <1>2, <2>1 DEF LogAdds, LogRemoves
<1>6. \A f \in LogAdds(w) \cup LogRemoves(w) : f.at \in Nat /\ f.at <= w BY <1>0, FilesAreOld
<1>7. CurrentFiles = LogAdds(w) \ LogRemoves(w) BY <1>0 DEF CurrentFiles, VersionFiles
<1>8. CurrentFiles' = LogAdds(w + 1)' \ LogRemoves(w + 1)'
  BY <1>3 DEF CurrentFiles, VersionFiles, LogAdds, LogRemoves
<1>9. \A f \in e.add : f \notin LogAdds(w) \cup LogRemoves(w) BY <1>0, <1>1, <1>6
<1>10. CurrentFiles' = (CurrentFiles \ e.remove) \cup e.add BY <1>5, <1>7, <1>8, <1>9
<1>11. NamedByVersion'
  <2>1. ASSUME NEW i \in 1..(w + 1), NEW f \in log'[i].add \cup log'[i].remove PROVE f.at <= i
    <3>1. CASE i = w + 1
      <4>1. f \in e.add \/ f \in LogAdds(w) BY <1>2, <1>7, <2>1, <3>1
      <4>2. f \in LogAdds(w) => f.at \in Nat /\ f.at <= w BY <1>6
      <4> QED BY <1>0, <1>1, <3>1, <4>1, <4>2
    <3>2. CASE i # w + 1
      <4>1. i \in DOMAIN log /\ log'[i] = log[i] BY <1>1, <1>2, <3>2
      <4> QED BY <2>1, <4>1 DEF DeltaInv, NamedByVersion
    <3> QED BY <3>1, <3>2
  <2> QED BY <1>2, <2>1 DEF NamedByVersion
<1> QED BY <1>0, <1>1, <1>2, <1>3, <1>4, <1>10, <1>11 DEF DeltaTypeOK, VersionFiles

\* What the feed tells of entry e at version i.
EntryFeed(e, i) ==
    IF ~e.dataChange THEN {}
    ELSE IF e.cdc # {} THEN UNION {f.rows : f \in e.cdc}
    ELSE {[at |-> i, type |-> "insert", row |-> r] : r \in UNION {f.rows : f \in e.add}}
         \cup {[at |-> i, type |-> "delete", row |-> r] : r \in UNION {f.rows : f \in e.remove}}

\* A commit whose feed is what it changed, and which has its files, keeps it all.
LEMMA CommitKeeps ==
    ASSUME DeltaInv, FeedIsWhatWritesChanged, NEW e \in Entry, log' = Append(log, e),
           e.remove \subseteq CurrentFiles, \A f \in e.add : f.at = Version + 1,
           CurrentFiles \subseteq stored', e.add \subseteq stored',
           NEW D, changed' = changed \cup D, changeFeed' = changeFeed,
           changeFeed => EntryFeed(e, Version + 1) = D
    PROVE  DeltaInv' /\ FeedIsWhatWritesChanged'
<1>0. PICK n : n = Version + 1 OBVIOUS
<1>1. /\ DOMAIN log' = 1..n /\ log'[n] = e /\ \A i \in DOMAIN log : log'[i] = log[i]
      /\ CurrentFiles' = (CurrentFiles \ e.remove) \cup e.add
      /\ DeltaTypeOK' /\ NamedByVersion'
  BY <1>0, LogGrows
<1>2. DeltaInv' BY <1>1 DEF DeltaInv, CurrentStored
<1>3. DOMAIN log' = DOMAIN log \cup {n}
  <2>1. Version \in Nat /\ DOMAIN log = 1..Version BY LogFacts DEF DeltaInv
  <2> QED BY <1>0, <1>1, <2>1
<1>4. \A i \in DOMAIN log : FeedOf(i)' = FeedOf(i) BY <1>1 DEF FeedOf
<1>5. FeedOf(n)' = EntryFeed(e, n) BY <1>1 DEF FeedOf, EntryFeed
<1>6. \A x : x \in Feed' <=> x \in Feed \/ x \in EntryFeed(e, n)
  <2>1. \A x : x \in Feed' <=> \E i \in DOMAIN log \cup {n} : x \in FeedOf(i)'
    BY <1>3 DEF Feed, FeedOf
  <2>2. \A x : x \in Feed <=> \E i \in DOMAIN log : x \in FeedOf(i) BY DEF Feed
  <2> HIDE DEF EntryFeed
  <2> QED BY <1>4, <1>5, <2>1, <2>2
<1>7. Feed' = Feed \cup EntryFeed(e, n) BY <1>6
<1>8. FeedIsWhatWritesChanged' BY <1>0, <1>7 DEF FeedIsWhatWritesChanged
<1> QED BY <1>2, <1>8

\* The files of the current version.
LEMMA CurrentIsData ==
    ASSUME DeltaInv
    PROVE  /\ Version \in Nat /\ CurrentFiles \subseteq DataFiles
           /\ CurrentFiles = VersionFiles(Version)
           /\ UNION {f.rows : f \in CurrentFiles} \subseteq TableRow
           /\ VersionRows(Version) = UNION {f.rows : f \in CurrentFiles}
<1>1. Version \in Nat BY LogFacts DEF DeltaInv
<1>2. CurrentFiles = VersionFiles(Version) BY DEF CurrentFiles
<1>3. CurrentFiles \subseteq DataFiles BY FilesAreOld DEF CurrentFiles, VersionFiles
<1>4. VersionRows(Version) = UNION {f.rows : f \in CurrentFiles} BY <1>2 DEF VersionRows
<1>5. UNION {f.rows : f \in CurrentFiles} \subseteq TableRow BY <1>3 DEF DataFiles
<1> QED BY <1>1, <1>2, <1>3, <1>4, <1>5

\* A new data file.
LEMMA NewDataFile ==
    ASSUME DeltaInv, NEW rows \in SUBSET TableRow
    PROVE  DataFile(rows) \in DataFiles /\ DataFile(rows).at = Version + 1 /\ DataFile(rows).rows = rows
<1>1. Version + 1 \in Nat BY CurrentIsData
<1> QED BY <1>1 DEF DataFile, DataFiles

\* A commit of entry e that takes no file away.
Extends(e) ==
    /\ log' = Append(log, e) /\ e.remove \subseteq CurrentFiles
    /\ \A f \in e.add : f.at = Version + 1
    /\ stored' = stored \cup e.add \cup e.cdc

\* Every key of the files it retires has a row in those it adds.
KeepsKeys(e) == \A f \in e.remove : \A r \in f.rows : \E g \in e.add : \E q \in g.rows : q.key = r.key

\* A writer's commit.
WriterCommits(e) == Extends(e) /\ KeepsKeys(e) /\ e.operation \in {"WRITE", "MERGE"}

\* Such a commit has its files.
LEMMA ExtendsKeeps ==
    ASSUME DeltaInv, FeedIsWhatWritesChanged, NEW e \in Entry, Extends(e),
           NEW D, changed' = changed \cup D, changeFeed' = changeFeed,
           changeFeed => EntryFeed(e, Version + 1) = D
    PROVE  DeltaInv' /\ FeedIsWhatWritesChanged'
<1>1. CurrentFiles \subseteq stored' /\ e.add \subseteq stored' BY DEF DeltaInv, CurrentStored, Extends
<1> QED BY <1>1, CommitKeeps DEF Extends

\* INSERT tells the feed what it inserted.
LEMMA InsertKeeps ==
    ASSUME DeltaInv, FeedIsWhatWritesChanged, NEW keys \in SUBSET DeltaKeys, InsertRows(keys)
    PROVE  DeltaInv' /\ FeedIsWhatWritesChanged' /\ \E e \in Entry : WriterCommits(e)
<1> DEFINE rows == {[key |-> k, ver |-> Version + 1] : k \in keys}
           file == DataFile(rows)
           D == {Change("insert", r) : r \in rows}
           e == [operation |-> "WRITE", add |-> {file}, remove |-> {}, cdc |-> {}, dataChange |-> TRUE]
<1>1. LogCommit("WRITE", {file}, {}, {}, TRUE) /\ changed' = changed \cup D
      /\ changeFeed' = changeFeed
  BY DEF InsertRows
<1>2. Version \in Nat BY CurrentIsData
<1>3. rows \subseteq TableRow BY <1>2 DEF TableRow
<1>4. file \in DataFiles /\ file.at = Version + 1 /\ file.rows = rows BY <1>3, NewDataFile
<1>5. D = {[at |-> Version + 1, type |-> "insert", row |-> r] : r \in rows} BY DEF Change
<1> HIDE DEF rows, file, D
<1>6. e \in Entry BY <1>4 DEF Entry
<1>7. EntryFeed(e, Version + 1) = D
  <2>1. EntryFeed(e, Version + 1) = {[at |-> Version + 1, type |-> "insert", row |-> r] :
                                       r \in UNION {f.rows : f \in {file}}}
    BY DEF EntryFeed
  <2>2. (UNION {f.rows : f \in {file}}) = rows BY <1>4
  <2> QED BY <1>5, <2>1, <2>2
<1>8. Extends(e) BY <1>1, <1>4 DEF Extends, LogCommit
<1>9. WriterCommits(e)
  <2>1. e.remove = {} /\ e.operation = "WRITE" OBVIOUS
  <2> HIDE DEF e
  <2> QED BY <1>8, <2>1 DEF WriterCommits, KeepsKeys
<1> HIDE DEF e
<1> QED BY <1>1, <1>6, <1>7, <1>8, <1>9, ExtendsKeeps

\* MERGE tells the feed what it changed, and of the rows it copied nothing.
LEMMA MergeKeeps ==
    ASSUME DeltaInv, FeedIsWhatWritesChanged, NEW keys \in SUBSET DeltaKeys, MergeRows(keys)
    PROVE  DeltaInv' /\ FeedIsWhatWritesChanged' /\ \E e \in Entry : WriterCommits(e)
<1> DEFINE touched == {f \in CurrentFiles : \E r \in f.rows : r.key \in keys}
           before == {r \in UNION {f.rows : f \in touched} : r.key \in keys}
           after == {[key |-> k, ver |-> Version + 1] : k \in keys}
           rows == ((UNION {f.rows : f \in touched}) \ before) \cup after
           Type(r) == IF \E q \in before : q.key = r.key THEN "update_postimage" ELSE "insert"
           D == {Change("update_preimage", r) : r \in before} \cup {Change(Type(r), r) : r \in after}
           file == DataFile(rows)
           cdc == IF changeFeed THEN {ChangeFile(D)} ELSE {}
           e == [operation |-> "MERGE", add |-> {file}, remove |-> touched, cdc |-> cdc,
                 dataChange |-> TRUE]
<1>1. LogCommit("MERGE", {file}, touched, cdc, TRUE) /\ changed' = changed \cup D
      /\ changeFeed' = changeFeed
  BY DEF MergeRows
<1>2. /\ Version \in Nat /\ touched \subseteq CurrentFiles /\ touched \subseteq DataFiles
      /\ UNION {f.rows : f \in CurrentFiles} \subseteq TableRow
  BY CurrentIsData
<1>3. UNION {f.rows : f \in touched} \subseteq TableRow BY <1>2
<1>4. before \subseteq TableRow /\ after \subseteq TableRow /\ rows \subseteq TableRow
  BY <1>2, <1>3 DEF TableRow
<1>5. file \in DataFiles /\ file.at = Version + 1 /\ file.rows = rows BY <1>4, NewDataFile
<1>12. \A f \in touched : \A r \in f.rows : \E q \in rows : q.key = r.key
  <2> SUFFICES ASSUME NEW f \in touched, NEW r \in f.rows PROVE \E q \in rows : q.key = r.key
    OBVIOUS
  <2>1. CASE r.key \in keys
    <3>1. [key |-> r.key, ver |-> Version + 1] \in rows BY <2>1
    <3> QED BY <3>1
  <2>2. CASE r.key \notin keys BY <2>2
  <2> QED BY <2>1, <2>2
<1> HIDE DEF touched, before, after, rows, file
<1>6. D \subseteq Changes BY <1>2, <1>4 DEF Change, Changes
<1> HIDE DEF D
<1>7. ChangeFile(D).rows = D /\ ChangeFile(D) \in ChangeSets BY <1>2, <1>6 DEF ChangeFile, ChangeSets
<1>8. cdc \subseteq ChangeSets BY <1>7
<1>9. changeFeed => EntryFeed(e, Version + 1) = D
  <2> SUFFICES ASSUME changeFeed PROVE EntryFeed(e, Version + 1) = D OBVIOUS
  <2>1. cdc = {ChangeFile(D)} OBVIOUS
  <2>2. e.cdc = cdc /\ e.dataChange = TRUE OBVIOUS
  <2> HIDE DEF e, cdc
  <2>3. EntryFeed(e, Version + 1) = UNION {f.rows : f \in cdc} BY <2>1, <2>2 DEF EntryFeed
  <2> QED BY <1>7, <2>1, <2>3
<1> HIDE DEF cdc
<1>10. e \in Entry BY <1>2, <1>5, <1>8 DEF Entry
<1>11. Extends(e) BY <1>1, <1>2, <1>5 DEF Extends, LogCommit
<1>13. WriterCommits(e)
  <2>1. e.remove = touched /\ e.add = {file} /\ e.operation = "MERGE" OBVIOUS
  <2> HIDE DEF e
  <2> QED BY <1>5, <1>11, <1>12, <2>1 DEF WriterCommits, KeepsKeys
<1> HIDE DEF e
<1> QED BY <1>1, <1>9, <1>10, <1>11, <1>13, ExtendsKeeps

\* The packed file has the rows of the files it replaces.
LEMMA OptimizeKeeps ==
    ASSUME DeltaInv, FeedIsWhatWritesChanged, Optimize
    PROVE  /\ DeltaInv' /\ FeedIsWhatWritesChanged'
           /\ \E e \in Entry : /\ Extends(e) /\ e.cdc = {} /\ e.operation = "OPTIMIZE"
                              /\ e.add = {DataFile(VersionRows(Version))} /\ e.remove = CurrentFiles
<1> DEFINE file == DataFile(VersionRows(Version))
           e == [operation |-> "OPTIMIZE", add |-> {file}, remove |-> CurrentFiles, cdc |-> {},
                 dataChange |-> FALSE]
<1>1. LogCommit("OPTIMIZE", {file}, CurrentFiles, {}, FALSE) /\ changed' = changed \cup {}
      /\ changeFeed' = changeFeed
  BY DEF Optimize
<1>2. CurrentFiles \subseteq DataFiles /\ VersionRows(Version) \subseteq TableRow BY CurrentIsData
<1>3. file \in DataFiles /\ file.at = Version + 1 BY <1>2, NewDataFile
<1> HIDE DEF file
<1>4. e \in Entry BY <1>2, <1>3 DEF Entry
<1>5. Extends(e) BY <1>1, <1>3 DEF Extends, LogCommit
<1>6. EntryFeed(e, Version + 1) = {} BY DEF EntryFeed
<1>7. e.add = {file} /\ e.remove = CurrentFiles /\ e.cdc = {} /\ e.operation = "OPTIMIZE" OBVIOUS
<1> HIDE DEF e
<1>8. DeltaInv' /\ FeedIsWhatWritesChanged' BY <1>1, <1>4, <1>5, <1>6, ExtendsKeeps
<1> QED BY <1>4, <1>5, <1>7, <1>8 DEF file

\* VACUUM is a commit without files, and takes none that the current version reads.
LEMMA VacuumKeeps ==
    ASSUME DeltaInv, FeedIsWhatWritesChanged, NEW hours, Vacuum(hours)
    PROVE  /\ DeltaInv' /\ FeedIsWhatWritesChanged'
           /\ \E e \in Entry : /\ log' = Append(log, e) /\ e.add = {} /\ e.remove = {}
                              /\ e.operation = "VACUUM"
<1> DEFINE e == [operation |-> "VACUUM", add |-> {}, remove |-> {}, cdc |-> {}, dataChange |-> FALSE]
<1>1. log' = Append(log, e) /\ changed' = changed \cup {} /\ changeFeed' = changeFeed
      /\ stored' = stored \ Deletable(hours)
  BY DEF Vacuum
<1>2. e \in Entry /\ e.add = {} /\ e.remove = {} /\ e.operation = "VACUUM" BY DEF Entry
<1>3. EntryFeed(e, Version + 1) = {} BY DEF EntryFeed
<1>4. CurrentFiles \subseteq stored' BY <1>1 DEF DeltaInv, CurrentStored, Deletable
<1> HIDE DEF e
<1>5. e.remove \subseteq CurrentFiles /\ e.add \subseteq stored' /\ \A f \in e.add : f.at = Version + 1
  BY <1>2
<1>6. DeltaInv' /\ FeedIsWhatWritesChanged' BY <1>1, <1>2, <1>3, <1>4, <1>5, CommitKeeps
<1> QED BY <1>1, <1>2, <1>6

\* Time, and the session's setting, change no file.
LEMMA IdleKeeps ==
    ASSUME DeltaInv, FeedIsWhatWritesChanged, UNCHANGED <<log, changeFeed, stored, changed>>
    PROVE  DeltaInv' /\ FeedIsWhatWritesChanged'
<1>1. DeltaTypeOK' /\ NamedByVersion' BY DEF DeltaInv, DeltaTypeOK, NamedByVersion
<1>2. CurrentStored'
  BY DEF DeltaInv, CurrentStored, CurrentFiles, VersionFiles, LogAdds, LogRemoves, Version
<1>3. Feed' = Feed BY DEF Feed, FeedOf
<1> QED BY <1>1, <1>2, <1>3 DEF DeltaInv, FeedIsWhatWritesChanged

\* The invariant holds throughout, and with it FeedIsWhatWritesChanged.
THEOREM DeltaInvariant == DeltaSpec => [](DeltaInv /\ FeedIsWhatWritesChanged)
<1>1. DeltaInit => DeltaInv /\ FeedIsWhatWritesChanged
  <2> SUFFICES ASSUME DeltaInit PROVE DeltaInv /\ FeedIsWhatWritesChanged OBVIOUS
  <2> DEFINE e == [operation |-> "CREATE", add |-> {}, remove |-> {}, cdc |-> {}, dataChange |-> TRUE]
  <2>1. log = <<e>> /\ changed = {} BY DEF DeltaInit
  <2>2. e \in Entry BY DEF Entry
  <2>3. e.add = {} /\ e.remove = {} /\ e.cdc = {} OBVIOUS
  <2> HIDE DEF e
  <2>4. DOMAIN log = {1} /\ log[1] = e /\ Len(log) = 1 /\ log \in Seq(Entry) /\ log # <<>>
    BY <2>1, <2>2
  <2>5. DeltaTypeOK /\ NamedByVersion BY <2>3, <2>4 DEF DeltaTypeOK, NamedByVersion
  <2>6. CurrentFiles = {}
    <3>1. Version = 1 BY <2>4 DEF Version
    <3>2. LogAdds(1) = {} BY <2>3, <2>4 DEF LogAdds
    <3> QED BY <3>1, <3>2 DEF CurrentFiles, VersionFiles
  <2>7. Feed = {} BY <2>3, <2>4 DEF Feed, FeedOf
  <2> QED BY <2>1, <2>5, <2>6, <2>7 DEF DeltaInv, CurrentStored, FeedIsWhatWritesChanged
<1>2. DeltaInv /\ FeedIsWhatWritesChanged /\ [DeltaNext]_deltaVars => (DeltaInv /\ FeedIsWhatWritesChanged)'
  <2> SUFFICES ASSUME DeltaInv, FeedIsWhatWritesChanged, [DeltaNext]_deltaVars
               PROVE  DeltaInv' /\ FeedIsWhatWritesChanged'
    OBVIOUS
  <2>1. ASSUME NEW keys \in SUBSET DeltaKeys, InsertRows(keys) PROVE DeltaInv' /\ FeedIsWhatWritesChanged'
    BY <2>1, InsertKeeps
  <2>2. ASSUME NEW keys \in SUBSET DeltaKeys, MergeRows(keys) PROVE DeltaInv' /\ FeedIsWhatWritesChanged'
    BY <2>2, MergeKeeps
  <2>3. CASE Optimize BY <2>3, OptimizeKeeps
  <2>4. ASSUME NEW hours, Vacuum(hours) PROVE DeltaInv' /\ FeedIsWhatWritesChanged'
    BY <2>4, VacuumKeeps
  <2>5. CASE RetentionPasses BY <2>5, IdleKeeps DEF RetentionPasses
  <2>6. CASE DisableCheck BY <2>6, IdleKeeps DEF DisableCheck
  <2>7. CASE UNCHANGED deltaVars BY <2>7, IdleKeeps DEF deltaVars
  <2> QED BY <2>1, <2>2, <2>3, <2>4, <2>5, <2>6, <2>7 DEF DeltaNext
<1> QED BY <1>1, <1>2, PTL DEF DeltaSpec

\* With the change feed on, a reader of the feed gets what the writes changed, no more
\* and no less, whatever is packed or vacuumed in between, as far as the change files
\* are still there to be read (probe_delta_optimize.py:107-110).
THEOREM FeedTellsChanges == DeltaSpec => []FeedIsWhatWritesChanged
BY DeltaInvariant, PTL

-----------------------------------------------------------------------------
\* The table implements EvidenceLife.

DeltaInSight == VersionRows(Version)

DeltaRecoverable == UNION {VersionRows(v) : v \in {u \in DOMAIN log : ReadableVersion(u)}}

deltaState == <<CommitsOf({"WRITE", "MERGE"}), CommitsOf({"OPTIMIZE"}), DeltaInSight, DeltaInSight, DeltaRecoverable>>

\* The current version can be recovered.
LEMMA DeltaSightIsRecoverable == ASSUME DeltaInv PROVE DeltaInSight \subseteq DeltaRecoverable
<1>1. Version \in DOMAIN log BY LogFacts DEF DeltaInv
<1>2. ReadableVersion(Version) BY DEF DeltaInv, CurrentStored, CurrentFiles, ReadableVersion
<1> QED BY <1>1, <1>2 DEF DeltaInSight, DeltaRecoverable

\* After a commit, what can be recovered is what the earlier versions still have, and
\* what is in sight.
LEMMA DeltaRecoverableNext ==
    ASSUME DeltaInv, DeltaInv', NEW e \in Entry, log' = Append(log, e), e.remove \subseteq CurrentFiles,
           \A f \in e.add : f.at = Version + 1
    PROVE  /\ DeltaInSight' = UNION {f.rows : f \in (CurrentFiles \ e.remove) \cup e.add}
           /\ \A x : x \in DeltaRecoverable' <=>
                       \/ x \in DeltaInSight'
                       \/ \E v \in DOMAIN log : VersionFiles(v) \subseteq stored' /\ x \in VersionRows(v)
<1>0. PICK n : n = Version + 1 OBVIOUS
<1>1. /\ Version' = n /\ DOMAIN log' = 1..n
      /\ \A v \in DOMAIN log : VersionFiles(v)' = VersionFiles(v)
      /\ CurrentFiles' = (CurrentFiles \ e.remove) \cup e.add
  BY <1>0, LogGrows
<1>2. Version \in Nat /\ DOMAIN log = 1..Version BY LogFacts DEF DeltaInv
<1>3. DOMAIN log' = DOMAIN log \cup {n} BY <1>0, <1>1, <1>2
<1>4. VersionFiles(n)' = CurrentFiles' BY <1>1 DEF CurrentFiles, VersionFiles, LogAdds, LogRemoves
<1>5. \A v \in DOMAIN log : VersionRows(v)' = VersionRows(v) BY <1>1 DEF VersionRows
<1>6. VersionRows(n)' = UNION {f.rows : f \in (CurrentFiles \ e.remove) \cup e.add}
  BY <1>1, <1>4 DEF VersionRows
<1>7. DeltaInSight' = VersionRows(n)'
  BY <1>1 DEF DeltaInSight, VersionRows, VersionFiles, LogAdds, LogRemoves
<1>8. VersionFiles(n)' \subseteq stored' BY <1>4 DEF DeltaInv, CurrentStored
<1>9. ASSUME NEW x
      PROVE  x \in DeltaRecoverable' <=>
                 \/ x \in DeltaInSight'
                 \/ \E v \in DOMAIN log : VersionFiles(v) \subseteq stored' /\ x \in VersionRows(v)
  <2>1. x \in DeltaRecoverable' <=> \E v \in DOMAIN log \cup {n} :
                                 VersionFiles(v)' \subseteq stored' /\ x \in VersionRows(v)'
    BY <1>3 DEF DeltaRecoverable, ReadableVersion, VersionRows, VersionFiles, LogAdds, LogRemoves
  <2> QED BY <1>1, <1>5, <1>7, <1>8, <2>1
<1> QED BY <1>6, <1>7, <1>9

\* What can be recovered is what some version has whose files are there.
LEMMA DeltaRecoverableNow ==
    \A x : x \in DeltaRecoverable <=>
               \E v \in DOMAIN log : VersionFiles(v) \subseteq stored /\ x \in VersionRows(v)
BY DEF DeltaRecoverable, ReadableVersion

\* A commit is one more of its kind, and none of another.
LEMMA CommitAdds ==
    ASSUME DeltaInv, NEW e, log' = Append(log, e), NEW operations
    PROVE  /\ Version + 1 \notin CommitsOf(operations)
           /\ CommitsOf(operations)' =
                  CommitsOf(operations) \cup (IF e.operation \in operations THEN {Version + 1} ELSE {})
<1>0. PICK n : n = Version + 1 OBVIOUS
<1>1. log \in Seq(Entry) /\ DOMAIN log = 1..Version /\ Len(log) = Version /\ Version \in Nat
  BY LogFacts DEF DeltaInv, DeltaTypeOK, Version
<1>2. /\ DOMAIN log' = DOMAIN log \cup {n} /\ n \notin DOMAIN log
      /\ log'[n] = e /\ \A i \in DOMAIN log : log'[i] = log[i]
  BY <1>0, <1>1
<1>3. CommitsOf(operations)' = {i \in DOMAIN log' : log'[i].operation \in operations}
  BY DEF CommitsOf
<1>4. CommitsOf(operations)' = CommitsOf(operations) \cup (IF e.operation \in operations THEN {n} ELSE {})
  BY <1>2, <1>3 DEF CommitsOf
<1> QED BY <1>0, <1>2, <1>4 DEF CommitsOf

\* The files a commit brings are of no earlier version.
LEMMA NewFilesAreNew ==
    ASSUME DeltaInv, NEW e \in Entry, Extends(e), NEW v \in DOMAIN log
    PROVE  VersionFiles(v) \cap (e.add \cup e.cdc) = {}
<1>1. Version \in Nat /\ DOMAIN log = 1..Version BY LogFacts DEF DeltaInv
<1>2. VersionFiles(v) \subseteq LogAdds(Version)
  <2>1. 1..v \subseteq 1..Version BY <1>1
  <2> QED BY <2>1 DEF VersionFiles, LogAdds
<1>3. \A f \in LogAdds(Version) : f \in DataFiles /\ f.at \in Nat /\ f.at <= Version BY FilesAreOld
<1>4. \A f \in e.add : f.at = Version + 1 BY DEF Extends
<1>5. \A f \in e.cdc : f.kind = "change" BY DEF Entry, ChangeSets
<1>6. \A f \in LogAdds(Version) : f.kind = "data" BY <1>3 DEF DataFiles
<1>7. \A f \in VersionFiles(v) : f.at # Version + 1 /\ f.kind # "change" BY <1>1, <1>2, <1>3, <1>6
<1> QED BY <1>4, <1>5, <1>7

\* A commit that takes no file away adds what is in sight after it, and no more, to
\* what can be recovered.
LEMMA ExtendsRecovers ==
    ASSUME DeltaInv, DeltaInv', NEW e \in Entry, Extends(e)
    PROVE  DeltaRecoverable' = DeltaRecoverable \cup DeltaInSight'
<1>1. \A x : x \in DeltaRecoverable' <=>
                 \/ x \in DeltaInSight'
                 \/ \E v \in DOMAIN log : VersionFiles(v) \subseteq stored' /\ x \in VersionRows(v)
  BY DeltaRecoverableNext DEF Extends
<1>2. stored' = stored \cup (e.add \cup e.cdc) BY DEF Extends
<1>3. \A v \in DOMAIN log : VersionFiles(v) \cap (e.add \cup e.cdc) = {} BY NewFilesAreNew
<1>4. \A v \in DOMAIN log : VersionFiles(v) \subseteq stored' <=> VersionFiles(v) \subseteq stored
  BY <1>2, <1>3
<1> QED BY <1>1, <1>4, DeltaRecoverableNow

\* INSERT and MERGE are the abstract Write.
LEMMA DeltaWriteLives ==
    ASSUME DeltaInv, DeltaInv', NEW e \in Entry, WriterCommits(e) PROVE DeltaLife!Write
<1>0. Extends(e) /\ KeepsKeys(e) /\ e.operation \in {"WRITE", "MERGE"} BY DEF WriterCommits
<1>1. DeltaInSight' = UNION {f.rows : f \in (CurrentFiles \ e.remove) \cup e.add}
  BY <1>0, DeltaRecoverableNext DEF Extends
<1>2. DeltaRecoverable' = DeltaRecoverable \cup DeltaInSight' BY <1>0, ExtendsRecovers
<1>3. ASSUME NEW r \in DeltaInSight PROVE \E q \in DeltaInSight' : q.key = r.key
  <2>1. PICK f \in CurrentFiles : r \in f.rows BY CurrentIsData DEF DeltaInSight
  <2>2. CASE f \in e.remove
    <3>1. PICK g \in e.add : \E q \in g.rows : q.key = r.key BY <1>0, <2>1, <2>2 DEF KeepsKeys
    <3> QED BY <1>1, <3>1
  <2>3. CASE f \notin e.remove BY <1>1, <2>1, <2>3
  <2> QED BY <2>2, <2>3
<1>4. DeltaLife!LifeKeys(DeltaInSight) \subseteq DeltaLife!LifeKeys(DeltaInSight')
  BY <1>3 DEF DeltaLife!LifeKeys
<1>5. /\ CommitsOf({"WRITE", "MERGE"}) \subseteq CommitsOf({"WRITE", "MERGE"})'
      /\ CommitsOf({"WRITE", "MERGE"})' # CommitsOf({"WRITE", "MERGE"})
      /\ CommitsOf({"OPTIMIZE"})' = CommitsOf({"OPTIMIZE"})
  <2> DEFINE n == Version + 1
             W == {"WRITE", "MERGE"}
             O == {"OPTIMIZE"}
  <2>0. e.operation \in W /\ e.operation \notin O /\ log' = Append(log, e) BY <1>0 DEF Extends
  <2> HIDE DEF W, O
  <2>1. n \notin CommitsOf(W) /\ CommitsOf(W)' = CommitsOf(W) \cup {n} BY <2>0, CommitAdds
  <2>2. CommitsOf(O)' = CommitsOf(O) \cup {} BY <2>0, CommitAdds
  <2> HIDE DEF n
  <2>3. CommitsOf(W) \subseteq CommitsOf(W)' /\ CommitsOf(W)' # CommitsOf(W) BY <2>1
  <2> QED BY <2>2, <2>3 DEF W, O
<1> QED BY <1>2, <1>4, <1>5 DEF DeltaLife!Write, DeltaInSight, DeltaRecoverable

\* OPTIMIZE is the abstract Compact.
LEMMA DeltaCompactLives ==
    ASSUME DeltaInv, DeltaInv', NEW e \in Entry, Extends(e), e.cdc = {}, e.remove = CurrentFiles,
           e.add = {DataFile(VersionRows(Version))}, e.operation = "OPTIMIZE"
    PROVE  DeltaLife!Compact
<1> DEFINE file == DataFile(VersionRows(Version))
<1>1. DeltaInSight' = UNION {f.rows : f \in (CurrentFiles \ e.remove) \cup e.add}
  BY DeltaRecoverableNext DEF Extends
<1>2. file.rows = DeltaInSight
  <2>1. VersionRows(Version) \subseteq TableRow BY CurrentIsData
  <2> QED BY <2>1, NewDataFile DEF DeltaInSight
<1>4. (CurrentFiles \ e.remove) \cup e.add = {file} OBVIOUS
<1> HIDE DEF file
<1>5. DeltaInSight' = DeltaInSight BY <1>1, <1>2, <1>4
<1>6. DeltaRecoverable' = DeltaRecoverable \cup DeltaInSight' BY ExtendsRecovers
<1>7. DeltaRecoverable' = DeltaRecoverable BY <1>5, <1>6, DeltaSightIsRecoverable
<1>8. /\ CommitsOf({"OPTIMIZE"}) \subseteq CommitsOf({"OPTIMIZE"})'
      /\ CommitsOf({"OPTIMIZE"})' # CommitsOf({"OPTIMIZE"})
      /\ CommitsOf({"WRITE", "MERGE"})' = CommitsOf({"WRITE", "MERGE"})
  <2> DEFINE n == Version + 1
             W == {"WRITE", "MERGE"}
             O == {"OPTIMIZE"}
  <2>0. e.operation \in O /\ e.operation \notin W /\ log' = Append(log, e) BY DEF Extends
  <2> HIDE DEF W, O
  <2>1. n \notin CommitsOf(O) /\ CommitsOf(O)' = CommitsOf(O) \cup {n} BY <2>0, CommitAdds
  <2>2. CommitsOf(W)' = CommitsOf(W) \cup {} BY <2>0, CommitAdds
  <2> HIDE DEF n
  <2>3. CommitsOf(O) \subseteq CommitsOf(O)' /\ CommitsOf(O)' # CommitsOf(O) BY <2>1
  <2> QED BY <2>2, <2>3 DEF W, O
<1> QED BY <1>5, <1>7, <1>8 DEF DeltaLife!Compact, DeltaInSight, DeltaRecoverable

\* VACUUM is the abstract Expire.
LEMMA DeltaExpireLives ==
    ASSUME DeltaInv, DeltaInv', NEW hours, Vacuum(hours), NEW e \in Entry, log' = Append(log, e),
           e.add = {}, e.remove = {}, e.operation = "VACUUM"
    PROVE  DeltaLife!Expire
<1>1. /\ DeltaInSight' = UNION {f.rows : f \in (CurrentFiles \ e.remove) \cup e.add}
      /\ \A x : x \in DeltaRecoverable' <=>
                 \/ x \in DeltaInSight'
                 \/ \E v \in DOMAIN log : VersionFiles(v) \subseteq stored' /\ x \in VersionRows(v)
  BY DeltaRecoverableNext
<1>2. DeltaInSight' = DeltaInSight
  <2>1. (CurrentFiles \ e.remove) \cup e.add = CurrentFiles OBVIOUS
  <2> QED BY <1>1, <2>1, CurrentIsData DEF DeltaInSight
<1>3. stored' \subseteq stored BY DEF Vacuum
<1>4. DeltaInSight \subseteq DeltaRecoverable' /\ DeltaRecoverable' \subseteq DeltaRecoverable
  BY <1>1, <1>2, <1>3, DeltaRecoverableNow, DeltaSightIsRecoverable
<1>5. UNCHANGED <<CommitsOf({"WRITE", "MERGE"}), CommitsOf({"OPTIMIZE"})>>
  <2> DEFINE W == {"WRITE", "MERGE"}
             O == {"OPTIMIZE"}
  <2>0. e.operation \notin O /\ e.operation \notin W OBVIOUS
  <2> HIDE DEF W, O
  <2>1. CommitsOf(W)' = CommitsOf(W) \cup {} /\ CommitsOf(O)' = CommitsOf(O) \cup {} BY <2>0, CommitAdds
  <2>2. CommitsOf(W)' = CommitsOf(W) /\ CommitsOf(O)' = CommitsOf(O) BY <2>1
  <2> QED BY <2>2 DEF W, O
<1> QED BY <1>2, <1>4, <1>5 DEF DeltaLife!Expire, DeltaInSight, DeltaRecoverable

\* For any keys and number of versions: OPTIMIZE leaves every row of the table as it is
\* and destroys no version; VACUUM destroys versions, none of the current state; INSERT
\* and MERGE destroy none and lose no key (probe_delta_vacuum.py C2, C5, C6).
THEOREM DeltaKeeps == DeltaSpec => DeltaKeepsEvidence
<1>1. DeltaInit => DeltaLife!LifeInit
  <2> SUFFICES ASSUME DeltaInit PROVE DeltaLife!LifeInit OBVIOUS
  <2>1. DOMAIN log = {1} /\ Len(log) = 1 /\ log[1].add = {} /\ log[1].operation = "CREATE" BY DEF DeltaInit
  <2>2. VersionRows(1) = {} BY <2>1 DEF VersionRows, VersionFiles, LogAdds
  <2>3. Version = 1 BY <2>1 DEF Version
  <2>4. CommitsOf({"WRITE", "MERGE"}) = {} /\ CommitsOf({"OPTIMIZE"}) = {} BY <2>1 DEF CommitsOf
  <2> QED BY <2>1, <2>2, <2>3, <2>4 DEF DeltaLife!LifeInit
<1>2. DeltaInv /\ FeedIsWhatWritesChanged /\ DeltaInv' /\ [DeltaNext]_deltaVars => [DeltaLife!LifeNext]_deltaState
  <2> SUFFICES ASSUME DeltaInv, FeedIsWhatWritesChanged, DeltaInv', [DeltaNext]_deltaVars
               PROVE  DeltaLife!LifeNext \/ UNCHANGED deltaState
    OBVIOUS
  <2>1. ASSUME NEW keys \in SUBSET DeltaKeys, InsertRows(keys) PROVE DeltaLife!LifeNext
    BY <2>1, InsertKeeps, DeltaWriteLives DEF DeltaLife!LifeNext
  <2>2. ASSUME NEW keys \in SUBSET DeltaKeys, MergeRows(keys) PROVE DeltaLife!LifeNext
    BY <2>2, MergeKeeps, DeltaWriteLives DEF DeltaLife!LifeNext
  <2>3. CASE Optimize BY <2>3, OptimizeKeeps, DeltaCompactLives DEF DeltaLife!LifeNext
  <2>4. ASSUME NEW hours, Vacuum(hours) PROVE DeltaLife!LifeNext
    BY <2>4, VacuumKeeps, DeltaExpireLives DEF DeltaLife!LifeNext
  <2>5. ASSUME UNCHANGED <<log, stored>> PROVE UNCHANGED deltaState
    BY <2>5 DEF deltaState, DeltaInSight, DeltaRecoverable, ReadableVersion, VersionRows, VersionFiles,
                LogAdds, LogRemoves, Version, CommitsOf
  <2> QED BY <2>1, <2>2, <2>3, <2>4, <2>5 DEF DeltaNext, RetentionPasses, DisableCheck, deltaVars
<1>3. [DeltaLife!LifeNext]_deltaState => [DeltaLife!LifeNext]_DeltaLife!lifeVars
  BY DEF deltaState, DeltaLife!lifeVars, DeltaInSight, DeltaRecoverable
<1> QED BY <1>1, <1>2, <1>3, DeltaInvariant, PTL
        DEF DeltaSpec, DeltaKeepsEvidence, DeltaLife!LifeSpec

-----------------------------------------------------------------------------
\* A Hudi file group.

Record == [key : HudiKeys, ts : Timestamps, ver : Nat]

\* Of two records of a key the one with the later timestamp, the later write on a tie.
Beats(r, q) == r.ts > q.ts \/ (r.ts = q.ts /\ r.ver > q.ver)

Winning(W) == {r \in W : \A q \in W : q.key = r.key /\ q # r => Beats(r, q)}

\* Every record is a winner or is beaten by the winner of its key.
Settled(W) == \A q \in W : \E w \in Winning(W) : w.key = q.key /\ (w = q \/ Beats(w, q))

Written(batches, n) == UNION {batches[i] : i \in 1..n}

\* One record per key in a batch, with the number of the write.
Batches(batches) ==
    /\ batches \in Seq(SUBSET Record)
    /\ \A i \in 1..Len(batches) : \A r \in batches[i] :
           r.ver = i /\ \A q \in batches[i] : q.key = r.key => q = r

\* A slice: the winners of the first writes, then a log file for each write after them.
SliceOK(slice, batches) ==
    /\ slice \in [base : SUBSET Record, logs : Seq(SUBSET Record), since : Nat]
    /\ slice.since <= Len(batches)
    /\ slice.base = Winning(Written(batches, slice.since))

Follows(slice, batches) ==
    /\ slice.since + Len(slice.logs) = Len(batches)
    /\ \A i \in 1..Len(slice.logs) : slice.logs[i] = batches[slice.since + i]

HudiTypeOK ==
    /\ Batches(upserted)
    /\ slices = <<>> => upserted = <<>>
    /\ slices \in Seq([base : SUBSET Record, logs : Seq(SUBSET Record), since : Nat])
    /\ sliceFiles \subseteq 1..Len(slices)
    /\ due \in {"nothing", "compaction", "cleaner"}

\* The current slice is on disk and has every write.
HudiInv ==
    /\ HudiTypeOK
    /\ \A i \in 1..Len(slices) : SliceOK(slices[i], upserted)
    /\ slices # <<>> => Len(slices) \in sliceFiles /\ Follows(slices[Len(slices)], upserted)
    /\ due # "nothing" => slices # <<>>

\* Merging one batch into the winners so far makes the winners with that batch.
LEMMA MergeSettles ==
    ASSUME NEW A \in SUBSET Record, NEW B \in SUBSET Record, Settled(A),
           \A r \in B : \A q \in A : r.ver > q.ver,
           \A r, q \in B : r.key = q.key => r = q
    PROVE  Merge(Winning(A), B) = Winning(A \cup B) /\ Settled(A \cup B)
<1> DEFINE M == Merge(Winning(A), B)
<1>0. \A r \in A \cup B : r.ts \in Nat /\ r.ver \in Nat BY TimestampsAssumption DEF Record
<1>1. ASSUME NEW r \in M, NEW x \in A \cup B, x.key = r.key, x # r PROVE Beats(r, x)
  <2>1. CASE r \in Winning(A) /\ \A b \in B : b.key = r.key => r.ts > b.ts
    <3>1. CASE x \in A BY <1>1, <2>1, <3>1 DEF Winning
    <3>2. CASE x \in B BY <1>1, <2>1, <3>2 DEF Beats
    <3> QED BY <3>1, <3>2
  <2>2. CASE r \in B /\ \A q \in Winning(A) : q.key = r.key => q.ts <= r.ts
    <3>1. x \in A BY <1>1, <2>2
    <3>2. PICK w \in Winning(A) : w.key = x.key /\ (w = x \/ Beats(w, x)) BY <3>1 DEF Settled
    <3>3. w.ts <= r.ts /\ w \in A BY <1>1, <2>2, <3>2 DEF Winning
    <3>4. x.ts <= w.ts BY <1>0, <3>1, <3>2, <3>3 DEF Beats
    <3>5. x.ts <= r.ts /\ r.ver > x.ver BY <1>0, <2>2, <3>1, <3>3, <3>4
    <3> QED BY <1>0, <2>2, <3>1, <3>5 DEF Beats
  <2> QED BY <1>1, <2>1, <2>2 DEF Merge
<1>2. M \subseteq Winning(A \cup B)
  <2>1. M \subseteq A \cup B BY DEF Merge, Winning
  <2> QED BY <1>1, <2>1 DEF Winning
<1>3. ASSUME NEW x \in Winning(A \cup B) PROVE x \in M
  <2>1. \A y \in A \cup B : y.key = x.key /\ y # x => Beats(x, y) BY DEF Winning
  <2>2. CASE x \in A
    <3>1. x \in Winning(A) BY <2>1, <2>2 DEF Winning
    <3>2. ASSUME NEW r \in B, r.key = x.key PROVE x.ts > r.ts
      <4>1. r.ver > x.ver BY <2>2
      <4>2. r # x BY <1>0, <2>2, <4>1
      <4>3. Beats(x, r) BY <2>1, <3>2, <4>2
      <4> QED BY <1>0, <2>2, <4>1, <4>3 DEF Beats
    <3> QED BY <3>1, <3>2 DEF Merge
  <2>3. CASE x \in B /\ x \notin A
    <3>1. ASSUME NEW q \in Winning(A), q.key = x.key PROVE q.ts <= x.ts
      <4>1. q \in A /\ q # x BY <2>3 DEF Winning
      <4>2. Beats(x, q) BY <2>1, <3>1, <4>1
      <4> QED BY <1>0, <2>3, <4>1, <4>2 DEF Beats
    <3> QED BY <2>3, <3>1 DEF Merge
  <2> QED BY <2>2, <2>3 DEF Winning
<1>4. M = Winning(A \cup B)
  <2> HIDE DEF M
  <2> QED BY <1>2, <1>3
<1>5. ASSUME NEW q \in A \cup B PROVE \E w \in M : w.key = q.key /\ (w = q \/ Beats(w, q))
  <2>1. CASE q \in B /\ q \notin M
    <3>1. PICK w \in Winning(A) : w.key = q.key /\ ~(w.ts <= q.ts) BY <2>1 DEF Merge
    <3>2. w \in A /\ w.ts > q.ts BY <1>0, <2>1, <3>1 DEF Winning
    <3>3. w \in M BY <2>1, <3>1, <3>2 DEF Merge
    <3> QED BY <3>1, <3>2, <3>3 DEF Beats
  <2>2. CASE q \in A
    <3>1. PICK w \in Winning(A) : w.key = q.key /\ (w = q \/ Beats(w, q)) BY <2>2 DEF Settled
    <3>2. w \in A BY DEF Winning
    <3>3. CASE w \in M BY <3>1, <3>3
    <3>4. CASE w \notin M
      <4>1. PICK r \in B : r.key = w.key /\ ~(w.ts > r.ts) BY <3>4 DEF Merge
      <4>2. ASSUME NEW v \in Winning(A), v.key = r.key PROVE v.ts <= r.ts
        <5>1. v \in A BY DEF Winning
        <5>2. v # w => Beats(v, w) /\ Beats(w, v) BY <3>2, <4>1, <4>2, <5>1 DEF Winning
        <5>3. v = w BY <1>0, <3>2, <5>1, <5>2 DEF Beats
        <5> QED BY <1>0, <3>2, <4>1, <5>3
      <4>3. r \in M BY <4>1, <4>2 DEF Merge
      <4>4. q.ts <= w.ts BY <1>0, <2>2, <3>1, <3>2 DEF Beats
      <4>5. q.ts <= r.ts /\ r.ver > q.ver BY <1>0, <2>2, <3>2, <4>1, <4>4
      <4>6. Beats(r, q) BY <1>0, <2>2, <4>5 DEF Beats
      <4> QED BY <3>1, <4>1, <4>3, <4>6
    <3> QED BY <3>3, <3>4
  <2>3. CASE q \in M BY <2>3
  <2> QED BY <2>1, <2>2, <2>3
<1>6. Settled(A \cup B)
  <2> HIDE DEF M
  <2> QED BY <1>4, <1>5 DEF Settled
<1> QED BY <1>4, <1>6

\* The winners of one write more, and each record of any write settled.
LEMMA WrittenSettles ==
    ASSUME NEW batches, Batches(batches), NEW n \in 0..Len(batches)
    PROVE  /\ Written(batches, n) \in SUBSET Record
           /\ Settled(Written(batches, n))
           /\ n # 0 => Winning(Written(batches, n)) =
                           Merge(Winning(Written(batches, n - 1)), batches[n])
<1> DEFINE N == Len(batches)
           W(i) == Written(batches, i)
           T == {i \in 0..N : Settled(W(i))}
<1>0. N \in Nat /\ \A i \in 1..N : batches[i] \in SUBSET Record BY DEF Batches
<1>1. \A i \in 0..N : W(i) \in SUBSET Record BY <1>0 DEF Written
<1>2. ASSUME NEW j \in 1..N, Settled(W(j - 1))
      PROVE  Settled(W(j)) /\ Winning(W(j)) = Merge(Winning(W(j - 1)), batches[j])
  <2>1. 1..j = (1..j - 1) \cup {j} OBVIOUS
  <2>2. W(j) = W(j - 1) \cup batches[j] BY <2>1 DEF Written
  <2>3. ASSUME NEW r \in batches[j], NEW q \in W(j - 1) PROVE r.ver > q.ver
    <3>1. PICK i \in 1..j - 1 : q \in batches[i] BY DEF Written
    <3>2. i \in 1..N /\ i < j BY <1>0
    <3>3. q.ver = i /\ r.ver = j BY <3>1, <3>2 DEF Batches
    <3> QED BY <3>2, <3>3
  <2>4. \A r, q \in batches[j] : r.key = q.key => r = q BY DEF Batches
  <2>5. batches[j] \in SUBSET Record /\ W(j - 1) \in SUBSET Record
    <3>1. j - 1 \in 0..N BY <1>0
    <3> QED BY <1>0, <1>1, <3>1
  <2> HIDE DEF W
  <2>6. /\ Merge(Winning(W(j - 1)), batches[j]) = Winning(W(j - 1) \cup batches[j])
        /\ Settled(W(j - 1) \cup batches[j])
    BY <1>2, <2>3, <2>4, <2>5, MergeSettles
  <2> QED BY <2>2, <2>6
<1>3. 0..N \subseteq T
  <2>1. 0 \in T BY <1>0 DEF Written, Settled
  <2>2. \A j \in 1..N : j - 1 \in T => j \in T
    <3> HIDE DEF W
    <3> QED BY <1>0, <1>2
  <2> HIDE DEF T
  <2> QED BY <1>0, <2>1, <2>2, UpTo
<1>4. n # 0 => n \in 1..N /\ n - 1 \in 0..N BY <1>0
<1> HIDE DEF W
<1> QED BY <1>1, <1>2, <1>3, <1>4 DEF W

\* A merge that follows a given pass ends where the pass does.
LEMMA MergedIs ==
    ASSUME NEW m \in Nat, NEW logs, Len(logs) = m, NEW f, f = [i \in 0..m |-> f[i]],
           \A i \in 1..m : f[i] = Merge(f[i - 1], logs[i])
    PROVE  Merged(f[0], logs) = f[m]
<1> DEFINE body(p) == [i \in 0..m |-> IF i = 0 THEN f[0] ELSE Merge(p[i - 1], logs[i])]
<1>1. f = body(f)
  <2>1. ASSUME NEW i \in 0..m PROVE f[i] = body(f)[i]
    <3>1. CASE i = 0 BY <3>1
    <3>2. CASE i # 0
      <4>1. i \in 1..m BY <3>2
      <4> QED BY <3>2, <4>1
    <3> QED BY <3>1, <3>2
  <2>2. body(f) = [i \in 0..m |-> body(f)[i]] OBVIOUS
  <2> HIDE DEF body
  <2> QED BY <2>1, <2>2
<1>2. \A p : p = body(p) => p = f
  <2> SUFFICES ASSUME NEW p, p = body(p) PROVE p = f OBVIOUS
  <2> DEFINE T == {i \in 0..m : p[i] = f[i]}
  <2>1. \A i \in 0..m : p[i] = body(p)[i] BY p = body(p)
  <2>2. 0 \in T BY <2>1
  <2>3. ASSUME NEW i \in 1..m, i - 1 \in T PROVE i \in T
    <3>1. p[i - 1] = f[i - 1] BY <2>3
    <3>2. i \in 0..m /\ i # 0 OBVIOUS
    <3>3. p[i] = body(p)[i] BY <2>1, <3>2
    <3>4. p[i] = Merge(p[i - 1], logs[i]) BY <3>2, <3>3
    <3>5. p[i] = f[i] BY <3>1, <3>4
    <3> QED BY <3>2, <3>5
  <2>4. 0..m \subseteq T
    <3> HIDE DEF T
    <3> QED BY <2>2, <2>3, UpTo
  <2>5. p = [i \in 0..m |-> p[i]] BY p = body(p)
  <2>6. \A i \in 0..m : p[i] = f[i] BY <2>4
  <2> HIDE DEF body, T
  <2> QED BY <2>5, <2>6
<1>3. (CHOOSE p : p = body(p)) = f
  <2> HIDE DEF body
  <2> QED BY <1>1, <1>2
<1> QED BY <1>3 DEF Merged

\* A slice that has every write serves the winners.
LEMMA SliceServes ==
    ASSUME NEW batches, Batches(batches), NEW slice, SliceOK(slice, batches), Follows(slice, batches)
    PROVE  Merged(slice.base, slice.logs) = Winning(Written(batches, Len(batches)))
<1> DEFINE m == Len(slice.logs)
           f == [i \in 0..m |-> Winning(Written(batches, slice.since + i))]
<1>1. m \in Nat /\ slice.since \in Nat /\ slice.since + m = Len(batches) BY DEF SliceOK, Follows
<1>2. f = [i \in 0..m |-> f[i]] OBVIOUS
<1>3. ASSUME NEW i \in 1..m PROVE f[i] = Merge(f[i - 1], slice.logs[i])
  <2>1. slice.since + i \in 0..Len(batches) /\ slice.since + i # 0 BY <1>1
  <2>2. Winning(Written(batches, slice.since + i)) =
            Merge(Winning(Written(batches, (slice.since + i) - 1)), batches[slice.since + i])
    <3>0. PICK n : n = slice.since + i OBVIOUS
    <3>1. n \in 0..Len(batches) /\ n # 0 BY <2>1, <3>0
    <3>2. Winning(Written(batches, n)) = Merge(Winning(Written(batches, n - 1)), batches[n])
      BY <3>1, WrittenSettles
    <3> QED BY <3>0, <3>2
  <2>3. slice.logs[i] = batches[slice.since + i] BY DEF Follows
  <2>4. i - 1 \in 0..m /\ i \in 0..m /\ slice.since + (i - 1) = (slice.since + i) - 1 BY <1>1
  <2> QED BY <2>2, <2>3, <2>4
<1>4. f[0] = slice.base /\ f[m] = Winning(Written(batches, Len(batches)))
  <2>1. 0 \in 0..m /\ m \in 0..m /\ slice.since + 0 = slice.since BY <1>1
  <2> QED BY <1>1, <2>1 DEF SliceOK
<1> HIDE DEF f
<1>5. Merged(f[0], slice.logs) = f[m]
  <2>1. Len(slice.logs) = m OBVIOUS
  <2> HIDE DEF m
  <2> QED BY <1>1, <1>2, <1>3, <2>1, MergedIs
<1> QED BY <1>4, <1>5

\* The snapshot query serves the winners over everything written.
ServesWinners == SnapshotQuery = Winning(Written(upserted, Len(upserted)))

\* It does, in every state the invariant describes.
LEMMA HudiServes == HudiInv => ServesWinners
<1> SUFFICES ASSUME HudiInv PROVE ServesWinners OBVIOUS
<1>1. CASE slices = <<>>
  <2>1. upserted = <<>> BY <1>1 DEF HudiInv, HudiTypeOK
  <2>2. Written(upserted, Len(upserted)) = {} BY <2>1 DEF Written
  <2>3. Winning({}) = {} BY DEF Winning
  <2> QED BY <1>1, <2>2, <2>3 DEF ServesWinners, SnapshotQuery
<1>2. CASE slices # <<>>
  <2>1. Len(slices) \in 1..Len(slices) BY <1>2 DEF HudiInv, HudiTypeOK
  <2> DEFINE c == slices[Len(slices)]
  <2>2. SliceOK(c, upserted) /\ Follows(c, upserted) /\ Batches(upserted)
    BY <1>2, <2>1 DEF HudiInv, HudiTypeOK
  <2>3. CurrentSlice = c BY <1>2 DEF CurrentSlice, Last
  <2> HIDE DEF c
  <2> QED BY <1>2, <2>2, <2>3, SliceServes DEF ServesWinners, SnapshotQuery
<1> QED BY <1>1, <1>2

\* What a further batch leaves as it was.
LEMMA BatchesGrow ==
    ASSUME NEW batches, Batches(batches), NEW batch \in SUBSET Record,
           \A r \in batch : r.ver = Len(batches) + 1 /\ \A q \in batch : q.key = r.key => q = r
    PROVE  /\ Batches(Append(batches, batch))
           /\ \A n \in 0..Len(batches) : Written(Append(batches, batch), n) = Written(batches, n)
<1> DEFINE more == Append(batches, batch)
           N == Len(batches)
<1>1. batches \in Seq(SUBSET Record) /\ N \in Nat BY DEF Batches
<1>2. more \in Seq(SUBSET Record) /\ Len(more) = N + 1 /\ more[N + 1] = batch BY <1>1
<1>3. \A i \in 1..N : more[i] = batches[i] BY <1>1
<1>4. Batches(more)
  <2>1. ASSUME NEW i \in 1..Len(more), NEW r \in more[i]
        PROVE  r.ver = i /\ \A q \in more[i] : q.key = r.key => q = r
    <3>1. CASE i \in 1..N BY <1>3, <2>1, <3>1 DEF Batches
    <3>2. CASE i = N + 1 BY <1>2, <2>1, <3>2
    <3> QED BY <1>1, <1>2, <3>1, <3>2
  <2> HIDE DEF more
  <2> QED BY <1>2, <2>1 DEF Batches
<1>5. ASSUME NEW n \in 0..N PROVE Written(more, n) = Written(batches, n)
  <2>1. \A i \in 1..n : more[i] = batches[i] BY <1>1, <1>3
  <2> HIDE DEF more
  <2> QED BY <2>1 DEF Written
<1> QED BY <1>4, <1>5

\* A first write makes a slice of its own, a later one attaches a log file.
LEMMA UpsertKeeps ==
    ASSUME HudiInv, NEW keys \in SUBSET HudiKeys, NEW service \in {"nothing", "compaction", "cleaner"},
           Upsert(keys, service)
    PROVE  HudiInv'
<1> DEFINE N == Len(upserted)
           L == Len(slices)
           Slice == [base : SUBSET Record, logs : Seq(SUBSET Record), since : Nat]
<1>1. PICK ts \in [keys -> Timestamps] :
        LET batch == {[key |-> k, ts |-> ts[k], ver |-> N + 1] : k \in keys}
        IN  /\ upserted' = Append(upserted, batch)
            /\ IF slices = <<>>
               THEN keys = HudiKeys /\ service = "nothing" /\ NewSlice(batch)
               ELSE /\ slices' = [slices EXCEPT ![L].logs = Append(@, batch)]
                    /\ UNCHANGED sliceFiles
  BY DEF Upsert
<1> DEFINE batch == {[key |-> k, ts |-> ts[k], ver |-> N + 1] : k \in keys}
<1>2. Batches(upserted) /\ upserted \in Seq(SUBSET Record) /\ N \in Nat BY DEF HudiInv, HudiTypeOK, Batches
<1>3. batch \in SUBSET Record BY <1>2 DEF Record
<1>4. \A r \in batch : r.ver = N + 1 /\ \A q \in batch : q.key = r.key => q = r OBVIOUS
<1>5. /\ upserted' = Append(upserted, batch)
      /\ slices = <<>> => service = "nothing" /\ NewSlice(batch)
      /\ slices # <<>> => slices' = [slices EXCEPT ![L].logs = Append(@, batch)] /\ UNCHANGED sliceFiles
  BY <1>1
<1> HIDE DEF batch
<1>6. /\ Batches(upserted')
      /\ \A n \in 0..N : Written(upserted', n) = Written(upserted, n)
  BY <1>2, <1>3, <1>4, <1>5, BatchesGrow
<1>7. /\ Len(upserted') = N + 1 /\ upserted'[N + 1] = batch
      /\ \A i \in 1..N : upserted'[i] = upserted[i]
  BY <1>2, <1>3, <1>5
<1>8. due' = service BY DEF Upsert
<1>9. slices \in Seq(Slice) /\ L \in Nat BY DEF HudiInv, HudiTypeOK
<1>12. /\ \A i \in 1..L : slices[i] \in Slice
       /\ slices # <<>> => L \in 1..L
  <2> HIDE DEF Slice
  <2> QED BY <1>9
<1>13. /\ \A i \in 1..L : SliceOK(slices[i], upserted)
       /\ slices # <<>> => L \in sliceFiles /\ Follows(slices[L], upserted)
  BY DEF HudiInv
<1>10. CASE slices = <<>>
  <2> DEFINE s == [base |-> batch, logs |-> <<>>, since |-> Len(upserted')]
  <2>1. upserted = <<>> /\ N = 0 /\ L = 0 BY <1>10 DEF HudiInv, HudiTypeOK
  <2>2. slices' = <<s>> /\ sliceFiles' = sliceFiles \cup {1} BY <1>5, <1>10, <2>1 DEF NewSlice
  <2>3. s \in Slice /\ s.since = 1 /\ s.base = batch /\ s.logs = <<>> BY <1>3, <1>7, <2>1
  <2>4. batch = Winning(Written(upserted', 1))
    <3>1. 1 \in 0..Len(upserted') BY <1>7, <2>1
    <3>2. Winning(Written(upserted', 1)) = Merge(Winning(Written(upserted', 1 - 1)), upserted'[1])
      BY <1>6, <3>1, WrittenSettles
    <3>3. Written(upserted', 1 - 1) = {} BY DEF Written
    <3>4. Merge({}, batch) = batch /\ Winning({}) = {} BY DEF Merge, Winning
    <3> QED BY <1>7, <2>1, <3>2, <3>3, <3>4
  <2>5. SliceOK(s, upserted') /\ Follows(s, upserted')
    BY <1>7, <2>1, <2>3, <2>4 DEF SliceOK, Follows
  <2> HIDE DEF s
  <2>6. Len(slices') = 1 /\ slices'[1] = s /\ slices' \in Seq(Slice) BY <2>2, <2>3
  <2>7. sliceFiles' \subseteq 1..1 /\ 1 \in sliceFiles' BY <2>1, <2>2 DEF HudiInv, HudiTypeOK
  <2>8. HudiTypeOK' BY <1>6, <1>8, <2>6, <2>7 DEF HudiTypeOK
  <2>9. \A i \in 1..Len(slices') : SliceOK(slices'[i], upserted') BY <2>5, <2>6
  <2>10. slices' # <<>> BY <2>2
  <2>11. Len(slices') \in sliceFiles' /\ Follows(slices'[Len(slices')], upserted')
    BY <2>5, <2>6, <2>7
  <2> QED BY <2>8, <2>9, <2>10, <2>11 DEF HudiInv
<1>11. CASE slices # <<>>
  <2> DEFINE c == slices[L]
             s == [c EXCEPT !.logs = Append(@, batch)]
  <2>1. L \in 1..L /\ c \in Slice /\ SliceOK(c, upserted) /\ Follows(c, upserted) /\ L \in sliceFiles
    BY <1>11, <1>12, <1>13
  <2>2. slices' = [slices EXCEPT ![L] = s] /\ sliceFiles' = sliceFiles BY <1>5, <1>11
  <2>3. s \in Slice /\ s.base = c.base /\ s.since = c.since /\ s.logs = Append(c.logs, batch)
    <3> HIDE DEF c
    <3>1. c.logs \in Seq(SUBSET Record) /\ c.base \in SUBSET Record /\ c.since \in Nat BY <2>1
    <3>2. Append(c.logs, batch) \in Seq(SUBSET Record) BY <1>3, <3>1
    <3>3. s = [base |-> c.base, logs |-> Append(c.logs, batch), since |-> c.since]
      <4>1. c = [base |-> c.base, logs |-> c.logs, since |-> c.since] BY <2>1
      <4> QED BY <4>1
    <3> HIDE DEF s
    <3> QED BY <3>1, <3>2, <3>3
  <2>4. c.logs \in Seq(SUBSET Record) /\ c.since \in Nat BY <2>1
  <2>12. c = slices[L] OBVIOUS
  <2> HIDE DEF c, s, L
  <2>5. /\ Len(slices') = L /\ slices' \in Seq(Slice) /\ slices'[L] = s
        /\ \A i \in 1..L : i # L => slices'[i] = slices[i]
    <3>1. s \in Slice BY <2>3
    <3>2. L = Len(slices) BY DEF L
    <3> HIDE DEF Slice
    <3> QED BY <1>9, <2>1, <2>2, <3>1, <3>2
  <2>6. ASSUME NEW t, SliceOK(t, upserted), NEW w \in Slice, w.base = t.base, w.since = t.since
        PROVE  SliceOK(w, upserted')
    <3>1. t.since \in 0..N BY <2>6 DEF SliceOK
    <3>2. Written(upserted', t.since) = Written(upserted, t.since) BY <1>6, <3>1
    <3> QED BY <1>2, <1>7, <2>6, <3>1, <3>2 DEF SliceOK
  <2>7. ASSUME NEW i \in 1..Len(slices') PROVE SliceOK(slices'[i], upserted')
    <3>1. CASE i = L BY <2>1, <2>3, <2>5, <2>6, <3>1
    <3>2. CASE i # L
      <4>1. slices'[i] = slices[i] /\ SliceOK(slices[i], upserted) BY <1>13, <2>5, <3>2
      <4>2. slices[i] \in Slice BY <1>12, <2>5
      <4> QED BY <2>6, <4>1, <4>2
    <3> QED BY <3>1, <3>2
  <2>8. Follows(s, upserted')
    <3>1. c.since + Len(c.logs) = N /\ Len(s.logs) = Len(c.logs) + 1 /\ Len(c.logs) \in Nat
      BY <1>3, <2>1, <2>3, <2>4 DEF Follows
    <3>2. ASSUME NEW i \in 1..Len(s.logs) PROVE s.logs[i] = upserted'[s.since + i]
      <4>1. CASE i \in 1..Len(c.logs)
        <5>1. s.logs[i] = c.logs[i] BY <1>3, <2>3, <2>4, <4>1
        <5>2. c.logs[i] = upserted[c.since + i] BY <2>1, <4>1 DEF Follows
        <5>3. c.since + i \in 1..N BY <2>4, <3>1, <4>1
        <5> QED BY <1>7, <2>3, <5>1, <5>2, <5>3
      <4>2. CASE i = Len(c.logs) + 1
        <5>1. s.logs[i] = batch BY <1>3, <2>3, <2>4, <4>2
        <5>2. s.since + i = N + 1
          <6>1. s.since = c.since /\ c.since \in Nat /\ N \in Nat BY <1>2, <2>3, <2>4
          <6> HIDE DEF N
          <6> QED BY <3>1, <4>2, <6>1
        <5> QED BY <1>7, <5>1, <5>2
      <4> QED BY <3>1, <4>1, <4>2
    <3>3. s.since + Len(s.logs) = Len(upserted')
      <4>1. Len(upserted') = N + 1 /\ s.since = c.since BY <1>7, <2>3
      <4>2. N \in Nat /\ c.since \in Nat BY <1>2, <2>4
      <4> HIDE DEF N
      <4> QED BY <3>1, <4>1, <4>2
    <3> QED BY <3>2, <3>3 DEF Follows
  <2>9. HudiTypeOK'
    <3>1. slices' # <<>> BY <2>1, <2>5
    <3> QED BY <1>6, <1>8, <2>2, <2>5, <3>1 DEF HudiInv, HudiTypeOK
  <2>10. slices' # <<>> BY <2>1, <2>5
  <2>11. Len(slices') \in sliceFiles' /\ Follows(slices'[Len(slices')], upserted')
    BY <2>1, <2>2, <2>5, <2>8
  <2> QED BY <2>7, <2>9, <2>10, <2>11 DEF HudiInv
<1> QED BY <1>10, <1>11

\* Compaction makes the winners the base of a slice that has every write.
LEMMA HudiCompactKeeps == ASSUME HudiInv, HudiNext, Compact PROVE HudiInv'
<1> DEFINE N == Len(upserted)
           L == Len(slices)
           Slice == [base : SUBSET Record, logs : Seq(SUBSET Record), since : Nat]
           s == [base |-> SnapshotQuery, logs |-> <<>>, since |-> N]
<1>1. upserted' = upserted /\ due' = "nothing" /\ due = "compaction" BY DEF Compact
<1>2. slices' = Append(slices, s) /\ sliceFiles' = sliceFiles \cup {L + 1} BY <1>1 DEF Compact, NewSlice
<1>3. Batches(upserted) /\ N \in Nat BY DEF HudiInv, HudiTypeOK, Batches
<1>4. slices \in Seq(Slice) /\ L \in Nat BY DEF HudiInv, HudiTypeOK
<1>5. SnapshotQuery = Winning(Written(upserted, N)) BY HudiServes DEF ServesWinners
<1>6. Winning(Written(upserted, N)) \in SUBSET Record
  <2>1. Written(upserted, N) \in SUBSET Record
    <3>1. N \in 0..Len(upserted) BY <1>3
    <3> QED BY <1>3, <3>1, WrittenSettles
  <2> QED BY <2>1 DEF Winning
<1>7. s \in Slice /\ s.base = Winning(Written(upserted, N)) /\ s.since = N /\ s.logs = <<>>
  BY <1>3, <1>5, <1>6
<1>8. SliceOK(s, upserted) /\ Follows(s, upserted)
  <2>1. Len(s.logs) = 0 BY <1>7
  <2> HIDE DEF s
  <2> QED BY <1>3, <1>7, <2>1 DEF SliceOK, Follows
<1>14. /\ \A i \in 1..L : SliceOK(slices[i], upserted)
       /\ sliceFiles \subseteq 1..L
  BY DEF HudiInv, HudiTypeOK
<1> HIDE DEF s, L
<1>9. /\ Len(slices') = L + 1 /\ slices' \in Seq(Slice) /\ slices'[L + 1] = s
      /\ \A i \in 1..L : slices'[i] = slices[i]
  <2>1. s \in Slice BY <1>7
  <2>2. L = Len(slices) BY DEF L
  <2> HIDE DEF Slice
  <2> QED BY <1>2, <1>4, <2>1, <2>2
<1>10. \A i \in 1..Len(slices') : SliceOK(slices'[i], upserted')
  BY <1>1, <1>4, <1>8, <1>9, <1>14
<1>11. sliceFiles' \subseteq 1..L + 1 /\ L + 1 \in sliceFiles'
  BY <1>2, <1>4, <1>14
<1>12. slices' # <<>> BY <1>4, <1>9
<1>13. HudiTypeOK' BY <1>1, <1>3, <1>9, <1>11, <1>12 DEF HudiTypeOK
<1> QED BY <1>1, <1>8, <1>9, <1>10, <1>11, <1>12, <1>13 DEF HudiInv

\* The cleaner takes the files of slices other than the current one.
LEMMA CleanKeeps == ASSUME HudiInv, Clean PROVE HudiInv'
<1>1. slices' = slices /\ upserted' = upserted /\ due' = "nothing" BY DEF Clean
<1>2. sliceFiles' = sliceFiles \cap {Len(slices)} BY DEF Clean, Retained
<1>3. HudiTypeOK' BY <1>1, <1>2 DEF HudiInv, HudiTypeOK
<1> QED BY <1>1, <1>2, <1>3 DEF HudiInv

\* A file group, whatever is written, compacted and cleaned.
THEOREM HudiInvariant == HudiSpec => []HudiInv
<1>1. HudiInit => HudiInv
  <2> SUFFICES ASSUME HudiInit PROVE HudiInv OBVIOUS
  <2>1. slices = <<>> /\ sliceFiles = {} /\ due = "nothing" /\ upserted = <<>> BY DEF HudiInit
  <2>2. Batches(upserted) BY <2>1 DEF Batches
  <2>3. HudiTypeOK BY <2>1, <2>2 DEF HudiTypeOK
  <2> QED BY <2>1, <2>3 DEF HudiInv
<1>2. HudiInv /\ [HudiNext]_hudiVars => HudiInv'
  <2> SUFFICES ASSUME HudiInv, [HudiNext]_hudiVars PROVE HudiInv' OBVIOUS
  <2>1. ASSUME NEW keys \in (SUBSET HudiKeys) \ {{}}, NEW service \in {"nothing", "compaction", "cleaner"},
               Upsert(keys, service)
        PROVE  HudiInv'
    BY <2>1, UpsertKeeps
  <2>2. CASE Compact BY <2>2, HudiCompactKeeps DEF HudiNext
  <2>3. CASE Clean BY <2>3, CleanKeeps
  <2>4. CASE UNCHANGED hudiVars
    BY <2>4 DEF hudiVars, HudiInv, HudiTypeOK
  <2> QED BY <2>1, <2>2, <2>3, <2>4 DEF HudiNext
<1> QED BY <1>1, <1>2, PTL DEF HudiSpec

\* In every such state the query serves the winners and each base file holds them.
LEMMA WinnersServed == HudiInv => WinnerSurvivesMaintenance
<1> SUFFICES ASSUME HudiInv PROVE WinnerSurvivesMaintenance OBVIOUS
<1>1. \A n : Winners(n) = Winning(Written(upserted, n))
  BY DEF Winners, Winning, Written, Beats
<1>2. SnapshotQuery = Winners(Len(upserted)) BY <1>1, HudiServes DEF ServesWinners
<1>3. \A i \in DOMAIN slices : slices[i].base = Winners(slices[i].since)
  <2>1. DOMAIN slices = 1..Len(slices) BY DEF HudiInv, HudiTypeOK
  <2> QED BY <1>1, <2>1 DEF HudiInv, SliceOK
<1> QED BY <1>2, <1>3 DEF WinnerSurvivesMaintenance

\* However often the group is compacted and cleaned, each key's winner over everything
\* ever written is what the snapshot query serves (probe_hudi_slices.py).
THEOREM WinnerSurvives == HudiSpec => []WinnerSurvivesMaintenance
<1> QED BY HudiInvariant, WinnersServed, PTL

-----------------------------------------------------------------------------
\* A file group keeps its evidence as EvidenceLife says.

HudiInSight == IF slices = <<>> THEN {} ELSE Records(CurrentSlice)

HudiRecoverable == UNION {Records(slices[i]) : i \in sliceFiles}

hudiState == <<DOMAIN upserted, DOMAIN slices \ {1}, SnapshotQuery, HudiInSight, HudiRecoverable>>

\* What is served is in the current slice, and that slice is on disk.
HudiSupported == SnapshotQuery \subseteq HudiInSight /\ HudiInSight \subseteq HudiRecoverable

\* In every state of the invariant the two inclusions hold.
LEMMA HudiSightIsThere == HudiInv => HudiSupported
<1> SUFFICES ASSUME HudiInv PROVE HudiSupported OBVIOUS
<1>1. CASE slices = <<>>
  BY <1>1 DEF HudiSupported, HudiInSight, SnapshotQuery
<1>2. CASE slices # <<>>
  <2> DEFINE c == slices[Len(slices)]
             N == Len(upserted)
  <2>1. Len(slices) \in 1..Len(slices) BY <1>2 DEF HudiInv, HudiTypeOK
  <2>2. SliceOK(c, upserted) /\ Follows(c, upserted) /\ Len(slices) \in sliceFiles
    BY <1>2, <2>1 DEF HudiInv
  <2>3. CurrentSlice = c BY DEF CurrentSlice, Last
  <2>4. HudiInSight \subseteq HudiRecoverable BY <1>2, <2>2, <2>3 DEF HudiInSight, HudiRecoverable
  <2>5. SnapshotQuery = Winning(Written(upserted, N)) BY HudiServes DEF ServesWinners
  <2> HIDE DEF c
  <2>6. /\ c.logs \in Seq(SUBSET Record) /\ Len(c.logs) \in Nat /\ c.since \in Nat
        /\ c.since + Len(c.logs) = N
        /\ c.base = Winning(Written(upserted, c.since))
        /\ \A i \in 1..Len(c.logs) : c.logs[i] = upserted[c.since + i]
    BY <2>2 DEF SliceOK, Follows
  <2>7. Records(c) = c.base \cup UNION {c.logs[i] : i \in 1..Len(c.logs)} BY <2>6 DEF Records, ToSet
  <2>8. ASSUME NEW r \in Winning(Written(upserted, N)) PROVE r \in Records(c)
    <3>1. /\ r \in Written(upserted, N)
          /\ \A q \in Written(upserted, N) : q.key = r.key /\ q # r => Beats(r, q)
      BY DEF Winning
    <3>2. PICK i \in 1..N : r \in upserted[i] BY <3>1 DEF Written
    <3>3. CASE i > c.since
      <4>1. i - c.since \in 1..Len(c.logs) /\ c.since + (i - c.since) = i BY <2>6, <3>3
      <4>2. c.logs[i - c.since] = upserted[i] BY <2>6, <4>1
      <4> QED BY <2>7, <3>2, <4>1, <4>2
    <3>4. CASE i <= c.since
      <4>1. 1..c.since \subseteq 1..N /\ i \in 1..c.since BY <2>6, <3>4
      <4>2. Written(upserted, c.since) \subseteq Written(upserted, N) /\ r \in Written(upserted, c.since)
        BY <3>2, <4>1 DEF Written
      <4>3. r \in c.base BY <2>6, <3>1, <4>2 DEF Winning
      <4> QED BY <2>7, <4>3
    <3> QED BY <2>6, <3>3, <3>4
  <2>9. SnapshotQuery \subseteq HudiInSight BY <1>2, <2>3, <2>5, <2>8 DEF HudiInSight
  <2> QED BY <2>4, <2>9 DEF HudiSupported
<1> QED BY <1>1, <1>2

\* What is in sight was written.
LEMMA SightIsWritten == ASSUME HudiInv PROVE HudiInSight \subseteq Written(upserted, Len(upserted))
<1>1. CASE slices = <<>> BY <1>1 DEF HudiInSight
<1>2. CASE slices # <<>>
  <2> DEFINE c == slices[Len(slices)]
             N == Len(upserted)
  <2>1. Len(slices) \in 1..Len(slices) BY <1>2 DEF HudiInv, HudiTypeOK
  <2>2. SliceOK(c, upserted) /\ Follows(c, upserted) BY <1>2, <2>1 DEF HudiInv
  <2>3. HudiInSight = Records(c) BY <1>2 DEF HudiInSight, CurrentSlice, Last
  <2> HIDE DEF c
  <2>4. /\ c.logs \in Seq(SUBSET Record) /\ Len(c.logs) \in Nat /\ c.since \in Nat
        /\ c.since + Len(c.logs) = N
        /\ c.base = Winning(Written(upserted, c.since))
        /\ \A i \in 1..Len(c.logs) : c.logs[i] = upserted[c.since + i]
    BY <2>2 DEF SliceOK, Follows
  <2>5. Records(c) = c.base \cup UNION {c.logs[i] : i \in 1..Len(c.logs)} BY <2>4 DEF Records, ToSet
  <2>6. c.base \subseteq Written(upserted, c.since) BY <2>4 DEF Winning
  <2>7. Written(upserted, c.since) \subseteq Written(upserted, N)
    <3>1. 1..c.since \subseteq 1..N BY <2>4
    <3> QED BY <3>1 DEF Written
  <2>8. ASSUME NEW i \in 1..Len(c.logs) PROVE c.logs[i] \subseteq Written(upserted, N)
    <3>1. c.since + i \in 1..N /\ c.logs[i] = upserted[c.since + i] BY <2>4
    <3> QED BY <3>1 DEF Written
  <2> QED BY <2>3, <2>5, <2>6, <2>7, <2>8
<1> QED BY <1>1, <1>2

\* A record that loses among the first writes loses among all.
LEMMA LoserStaysLoser ==
    ASSUME HudiInv, ServesWinners', NEW batch, upserted' = Append(upserted, batch)
    PROVE  SnapshotQuery' \cap HudiInSight \subseteq SnapshotQuery
<1> DEFINE N == Len(upserted)
           W == Written(upserted, N)
           V == Written(upserted, N)'
<1>2. SnapshotQuery = Winning(W) BY HudiServes DEF ServesWinners
<1>3. SnapshotQuery' = Winning(V)
  <2>1. SnapshotQuery' = Winning(Written(upserted, Len(upserted)))' BY DEF ServesWinners
  <2> QED BY <2>1 DEF Winning, Beats
<1>4. W \subseteq V
  <2>1. upserted \in Seq(SUBSET Record) /\ N \in Nat BY DEF HudiInv, HudiTypeOK, Batches
  <2>2. Len(upserted') = N + 1 /\ \A i \in 1..N : upserted'[i] = upserted[i] BY <2>1
  <2>3. V = UNION {upserted'[i] : i \in 1..Len(upserted')} BY DEF Written
  <2>4. 1..N \subseteq 1..Len(upserted') BY <2>1, <2>2
  <2>5. W = UNION {upserted[i] : i \in 1..N} BY DEF Written
  <2> HIDE DEF W, V, N
  <2> QED BY <2>2, <2>3, <2>4, <2>5
<1>5. HudiInSight \subseteq W BY SightIsWritten
<1> HIDE DEF W, V
<1> QED BY <1>2, <1>3, <1>4, <1>5 DEF Winning

\* Of the slices an upsert changes the current one only, and adds to it.
LEMMA UpsertAdds ==
    ASSUME HudiInv, HudiInv', NEW keys \in SUBSET HudiKeys, NEW service, Upsert(keys, service)
    PROVE  /\ HudiInSight \subseteq HudiInSight'
           /\ HudiRecoverable' \subseteq HudiRecoverable \cup HudiInSight'
           /\ HudiRecoverable \subseteq HudiRecoverable' \cup HudiInSight'
           /\ DOMAIN slices' \ {1} = DOMAIN slices \ {1}
<1> DEFINE Slice == [base : SUBSET Record, logs : Seq(SUBSET Record), since : Nat]
           L == Len(slices)
<1>1. slices \in Seq(Slice) /\ L \in Nat /\ sliceFiles \subseteq 1..L /\ DOMAIN slices = 1..L
  BY DEF HudiInv, HudiTypeOK
<1>2. CASE slices = <<>>
  <2>1. PICK s : slices' = Append(slices, s) /\ sliceFiles' = sliceFiles \cup {Len(slices) + 1}
    BY <1>2 DEF Upsert, NewSlice
  <2>2. L = 0 /\ sliceFiles = {} /\ DOMAIN slices = {} BY <1>1, <1>2
  <2>3. slices' = <<s>> /\ sliceFiles' = {1} BY <1>2, <2>1, <2>2
  <2>4. DOMAIN slices' = {1} /\ slices'[1] = s /\ Len(slices') = 1 /\ slices' # <<>> BY <2>3
  <2>5. CurrentSlice' = s BY <2>4 DEF CurrentSlice, Last
  <2>6. HudiInSight' = Records(s) BY <2>4, <2>5 DEF HudiInSight, Records
  <2>7. HudiRecoverable' = UNION {Records(slices'[i]) : i \in {1}} BY <2>3 DEF HudiRecoverable, Records
  <2>8. HudiInSight = {} /\ HudiRecoverable = {} BY <1>2, <2>2 DEF HudiInSight, HudiRecoverable
  <2> HIDE DEF L
  <2> QED BY <2>2, <2>4, <2>6, <2>7, <2>8
<1>3. CASE slices # <<>>
  <2> DEFINE c == slices[L]
  <2>1. PICK batch : slices' = [slices EXCEPT ![L].logs = Append(@, batch)] /\ sliceFiles' = sliceFiles
    BY <1>3 DEF Upsert
  <2>2. L \in 1..L /\ L \in DOMAIN slices BY <1>1, <1>3
  <2>3. c \in Slice
    <3> HIDE DEF Slice, L
    <3> QED BY <1>1, <2>2
  <2>4. DOMAIN slices' = DOMAIN slices /\ \A i \in DOMAIN slices : i # L => slices'[i] = slices[i]
    BY <1>1, <2>1
  <2>5. slices'[L] = [c EXCEPT !.logs = Append(@, batch)]
    <3>1. slices' = [slices EXCEPT ![L] = [c EXCEPT !.logs = Append(@, batch)]] BY <2>1
    <3> HIDE DEF Slice, L, c
    <3> QED BY <1>1, <2>2, <3>1
  <2>6. Len(slices') = L /\ slices' # <<>>
    <3>1. slices' \in Seq(Slice) BY DEF HudiInv, HudiTypeOK
    <3>2. DOMAIN slices' = 1..Len(slices') /\ Len(slices') \in Nat BY <3>1
    <3> HIDE DEF L
    <3> QED BY <1>1, <2>2, <2>4, <3>2
  <2>12. c = slices[L] OBVIOUS
  <2> HIDE DEF c
  <2>7. slices'[L].base = c.base /\ slices'[L].logs = Append(c.logs, batch) /\ c.logs \in Seq(SUBSET Record)
    BY <2>3, <2>5
  <2>8. ToSet(c.logs) \subseteq ToSet(Append(c.logs, batch))
    <3>1. DOMAIN c.logs = 1..Len(c.logs) /\ DOMAIN Append(c.logs, batch) = 1..Len(c.logs) + 1
      BY <2>7
    <3>2. \A j \in 1..Len(c.logs) : Append(c.logs, batch)[j] = c.logs[j] BY <2>7
    <3>3. 1..Len(c.logs) \subseteq 1..Len(c.logs) + 1 BY <2>7
    <3> QED BY <3>1, <3>2, <3>3 DEF ToSet
  <2>9. Records(c) \subseteq Records(slices'[L]) BY <2>7, <2>8 DEF Records
  <2>10. HudiInSight = Records(c) BY <1>3, <2>12 DEF HudiInSight, CurrentSlice, Last
  <2>11. HudiInSight' = Records(slices'[L]) BY <2>6 DEF HudiInSight, CurrentSlice, Last, Records
  <2>13. HudiRecoverable' = UNION {Records(slices'[i]) : i \in sliceFiles}
    BY <2>1 DEF HudiRecoverable, Records
  <2>14. \A i \in sliceFiles : i # L => slices'[i] = slices[i] BY <1>1, <2>4
  <2> HIDE DEF L
  <2>15. HudiRecoverable' \subseteq HudiRecoverable \cup HudiInSight'
    BY <2>11, <2>13, <2>14 DEF HudiRecoverable
  <2>16. HudiRecoverable \subseteq HudiRecoverable' \cup HudiInSight'
    BY <2>9, <2>11, <2>12, <2>13, <2>14 DEF HudiRecoverable
  <2> QED BY <2>4, <2>9, <2>10, <2>11, <2>15, <2>16
<1> QED BY <1>2, <1>3

\* A write is the abstract Write.
LEMMA UpsertLives ==
    ASSUME HudiInv, HudiInv', HudiSupported', ServesWinners', NEW keys \in SUBSET HudiKeys,
           NEW service, Upsert(keys, service)
    PROVE  HudiLife!Write
<1>1. PICK batch : upserted' = Append(upserted, batch) BY DEF Upsert
<1>2. DOMAIN upserted \subseteq DOMAIN upserted' /\ DOMAIN upserted' # DOMAIN upserted
  <2>0. PICK n : n = Len(upserted) OBVIOUS
  <2>1. upserted \in Seq(SUBSET Record) BY DEF HudiInv, HudiTypeOK, Batches
  <2>2. n \in Nat /\ DOMAIN upserted = 1..n /\ DOMAIN upserted' = 1..(n + 1) BY <1>1, <2>0, <2>1
  <2>3. n + 1 \in 1..(n + 1) /\ n + 1 \notin 1..n /\ 1..n \subseteq 1..(n + 1) BY <2>2
  <2> QED BY <2>2, <2>3
<1>3. /\ HudiInSight \subseteq HudiInSight'
      /\ HudiRecoverable' \subseteq HudiRecoverable \cup HudiInSight'
      /\ HudiRecoverable \subseteq HudiRecoverable' \cup HudiInSight'
      /\ DOMAIN slices' \ {1} = DOMAIN slices \ {1}
  BY UpsertAdds
<1>4. SnapshotQuery' \subseteq HudiInSight' /\ HudiInSight' \subseteq HudiRecoverable' BY DEF HudiSupported
<1>5. SnapshotQuery' \cap HudiInSight \subseteq SnapshotQuery BY <1>1, LoserStaysLoser
<1>6. HudiRecoverable' = HudiRecoverable \cup HudiInSight' BY <1>3, <1>4
<1> QED BY <1>2, <1>3, <1>4, <1>5, <1>6 DEF HudiLife!Write, HudiInSight, HudiRecoverable

\* Compaction is the abstract Compact.
LEMMA HudiCompactLives ==
    ASSUME HudiInv, HudiSupported, Compact
    PROVE  HudiLife!Compact
<1> DEFINE L == Len(slices)
           s == [base |-> SnapshotQuery, logs |-> <<>>, since |-> Len(upserted')]
<1>1. /\ slices \in Seq([base : SUBSET Record, logs : Seq(SUBSET Record), since : Nat])
      /\ L \in Nat /\ sliceFiles \subseteq 1..L
  BY DEF HudiInv, HudiTypeOK
<1>2. slices' = Append(slices, s) /\ sliceFiles' = sliceFiles \cup {L + 1} BY DEF Compact, NewSlice
<1>3. s.base = SnapshotQuery /\ s.logs = <<>> OBVIOUS
<1> HIDE DEF s
<1>4. Len(slices') = L + 1 /\ slices' # <<>> /\ slices'[L + 1] = s /\ \A i \in 1..L : slices'[i] = slices[i]
  BY <1>1, <1>2
<1>5. CurrentSlice' = s BY <1>4 DEF CurrentSlice, Last
<1>6. Records(s) = SnapshotQuery BY <1>3 DEF Records, ToSet
<1>7. SnapshotQuery' = SnapshotQuery
  <2>0. PICK m \in Nat : m = 0 OBVIOUS
  <2> DEFINE f == [i \in 0..m |-> SnapshotQuery]
  <2>1. f = [i \in 0..m |-> f[i]] /\ f[0] = SnapshotQuery BY <2>0
  <2>2. Len(s.logs) = m BY <1>3, <2>0
  <2> HIDE DEF f
  <2>6. \A i \in 1..m : f[i] = Merge(f[i - 1], s.logs[i]) BY <2>0
  <2>7. Merged(f[0], s.logs) = f[m] BY <2>1, <2>2, <2>6, MergedIs
  <2>3. Merged(f[0], s.logs) = f[0] BY <2>0, <2>7
  <2>4. Merged(s.base, s.logs) = SnapshotQuery BY <1>3, <2>1, <2>3
  <2>5. SnapshotQuery' = Merged(CurrentSlice'.base, CurrentSlice'.logs) BY <1>4 DEF SnapshotQuery
  <2> QED BY <1>5, <2>4, <2>5
<1>8. HudiInSight' = SnapshotQuery BY <1>4, <1>5, <1>6 DEF HudiInSight
<1>9. HudiRecoverable' = HudiRecoverable
  <2>1. HudiRecoverable' = UNION {Records(slices'[i]) : i \in sliceFiles \cup {L + 1}}
    BY <1>2 DEF HudiRecoverable
  <2>2. \A i \in sliceFiles : slices'[i] = slices[i] BY <1>1, <1>4
  <2>3. Records(slices'[L + 1]) \subseteq HudiRecoverable BY <1>4, <1>6 DEF HudiSupported
  <2> HIDE DEF L
  <2> QED BY <2>1, <2>2, <2>3 DEF HudiRecoverable
<1>10. /\ DOMAIN slices \ {1} \subseteq DOMAIN slices' \ {1}
       /\ DOMAIN slices' \ {1} # DOMAIN slices \ {1}
       /\ DOMAIN upserted' = DOMAIN upserted
  <2>1. L > 0 BY <1>1 DEF Compact, HudiInv, HudiTypeOK
  <2>2. DOMAIN slices = 1..L /\ DOMAIN slices' = 1..(L + 1) BY <1>1, <1>2
  <2>3. L + 1 \in 1..(L + 1) /\ L + 1 \notin 1..L /\ L + 1 # 1 /\ 1..L \subseteq 1..(L + 1) BY <1>1, <2>1
  <2>4. upserted' = upserted BY DEF Compact
  <2> HIDE DEF L
  <2> QED BY <2>2, <2>3, <2>4
<1> QED BY <1>7, <1>8, <1>9, <1>10 DEF HudiLife!Compact, HudiInSight, HudiRecoverable

\* The cleaner is the abstract Expire.
LEMMA CleanLives ==
    ASSUME HudiInv, HudiSupported, HudiSupported', Clean
    PROVE  HudiLife!Expire
<1>1. slices' = slices /\ sliceFiles' \subseteq sliceFiles /\ upserted' = upserted BY DEF Clean
<1>2. CurrentSlice' = CurrentSlice BY <1>1 DEF CurrentSlice
<1>3. SnapshotQuery' = SnapshotQuery /\ HudiInSight' = HudiInSight
  BY <1>1, <1>2 DEF SnapshotQuery, HudiInSight
<1>4. HudiInSight \subseteq HudiRecoverable' BY <1>3 DEF HudiSupported
<1>5. HudiRecoverable' \subseteq HudiRecoverable BY <1>1 DEF HudiRecoverable
<1> QED BY <1>1, <1>3, <1>4, <1>5 DEF HudiLife!Expire, HudiInSight, HudiRecoverable

\* For any keys, timestamps and number of writes: compaction takes every losing version
\* out of the current slice and none from disk, and no write takes one out before it; the
\* cleaner alone takes versions from disk, none of the current slice; neither changes what
\* is served, and no write serves a loser again (probe_hudi_slices.py).
THEOREM HudiKeeps == HudiSpec => HudiKeepsEvidence
<1>1. HudiInit => HudiLife!LifeInit
  BY DEF HudiInit, HudiLife!LifeInit, SnapshotQuery
<1>2. HudiInv /\ HudiSupported /\ HudiInv' /\ HudiSupported' /\ ServesWinners' /\ [HudiNext]_hudiVars
          => [HudiLife!LifeNext]_hudiState
  <2> SUFFICES ASSUME HudiInv, HudiSupported, HudiInv', HudiSupported', ServesWinners', [HudiNext]_hudiVars
               PROVE  HudiLife!LifeNext \/ UNCHANGED hudiState
    OBVIOUS
  <2>1. ASSUME NEW keys \in (SUBSET HudiKeys) \ {{}}, NEW service, Upsert(keys, service)
        PROVE  HudiLife!LifeNext
    BY <2>1, UpsertLives DEF HudiLife!LifeNext
  <2>2. CASE Compact BY <2>2, HudiCompactLives DEF HudiLife!LifeNext
  <2>3. CASE Clean BY <2>3, CleanLives DEF HudiLife!LifeNext
  <2>4. ASSUME UNCHANGED hudiVars PROVE UNCHANGED hudiState
    <3>1. slices' = slices /\ sliceFiles' = sliceFiles /\ upserted' = upserted BY <2>4 DEF hudiVars
    <3>2. CurrentSlice' = CurrentSlice BY <3>1 DEF CurrentSlice
    <3> QED BY <3>1, <3>2 DEF hudiState, SnapshotQuery, HudiInSight, HudiRecoverable
  <2> QED BY <2>1, <2>2, <2>3, <2>4 DEF HudiNext
<1>3. [HudiLife!LifeNext]_hudiState => [HudiLife!LifeNext]_HudiLife!lifeVars
  BY DEF hudiState, HudiLife!lifeVars, HudiInSight, HudiRecoverable
<1> QED BY <1>1, <1>2, <1>3, HudiInvariant, HudiSightIsThere, HudiServes, PTL
        DEF HudiSpec, HudiKeepsEvidence, HudiLife!LifeSpec

-----------------------------------------------------------------------------
\* One table of a format picked at the start.

mcVars == <<format, iceVars, deltaVars, hudiVars>>

\* A step of the one table is a step, or none, of each format's specification.
LEMMA FormatsApart ==
    Init /\ [][Next]_mcVars => IceSpec /\ DeltaSpec /\ HudiSpec
<1>1. Init => IceInit /\ DeltaInit /\ HudiInit BY DEF Init
<1>2. [Next]_mcVars => [IceNext]_iceVars /\ [DeltaNext]_deltaVars /\ [HudiNext]_hudiVars
  BY DEF Next, mcVars
<1> QED BY <1>1, <1>2, PTL DEF IceSpec, DeltaSpec, HudiSpec

\* Whatever the format, the keys and the bounds: a rewrite leaves the current state with
\* exactly the rows served before it and destroys no version; only expiry, orphan removal,
\* VACUUM or the cleaner destroys one, and never one of the current state; a writer's
\* commit destroys none and serves none again that was superseded (README.md "Compaction
\* masking, in detail").
THEOREM EvidenceIsKept == Init /\ [][Next]_mcVars => MaintenanceKeepsEvidence
<1> QED BY FormatsApart, IcebergKeeps, DeltaKeeps, HudiKeeps, PTL DEF MaintenanceKeepsEvidence

\* The invariants of the three formats, of a table whose format is picked at the start.
THEOREM MaintenanceIsSafe ==
    Init /\ [][Next]_mcVars =>
        [](MaskingOutcome /\ VerdictOutlivesEvidence /\ FeedIsWhatWritesChanged /\ WinnerSurvivesMaintenance)
<1> QED BY FormatsApart, RewriteMasks, VerdictSurvives, FeedTellsChanges, WinnerSurvives, PTL

-----------------------------------------------------------------------------
\* The parameters.

\* A remainder by a positive number lies below it.
LEMMA Remainder ==
    ASSUME NEW a \in Nat, NEW m \in Nat \ {0}
    PROVE  a % m \in 0..m - 1
<1>1. a \in Int /\ m \in Int /\ m > 0 OBVIOUS
<1> QED BY <1>1

\* The greater of two numbers.
LEMMA MaxOfTwo ==
    ASSUME NEW a \in Nat, NEW b \in Nat
    PROVE  Max({a, b}) = IF a >= b THEN a ELSE b
<1>1. IsFiniteSet({a, b}) /\ {a, b} \in SUBSET Nat /\ {a, b} # {}
  <2>1. IsFiniteSet({a}) /\ {a, b} = {a} \cup {b} BY FS_Singleton
  <2>2. IsFiniteSet({a} \cup {b}) BY <2>1, FS_AddElement
  <2> QED BY <2>1, <2>2
<1>2. Max({a, b}) \in {a, b} /\ \A y \in {a, b} : Max({a, b}) >= y BY <1>1, MaxMin
<1> QED BY <1>2

\* The parameters of a run, of a type.
LEMMA ParamsAre ==
    ASSUME cfg \in Configs
    PROVE  /\ cfg.C \in Nat \ {0} /\ cfg.R \in Nat \ {0} /\ cfg.nDel \in Nat \ {0} /\ cfg.nDup \in Nat
           /\ cfg.files \in Nat \ {0} /\ cfg.inverted \in BOOLEAN /\ cfg.scatter \in BOOLEAN
           /\ cfg.interleave \in BOOLEAN
           /\ cfg.nDel <= cfg.R /\ cfg.nDup <= cfg.nDel /\ cfg.files <= cfg.R
           /\ Spacing \in Nat /\ HighLsn \in Nat /\ DupLsnOff \in Nat
<1>1. cfg \in [C : Nat \ {0}, R : Nat \ {0}, nDel : Nat \ {0}, nDup : Nat, inverted : BOOLEAN,
               files : Nat \ {0}, scatter : BOOLEAN, interleave : BOOLEAN]
  BY SynthAssumption
<1> QED BY <1>1, SynthAssumption

\* A window of deletes holds keys, and starts with the keys that can be duplicated.
LEMMA WindowIs ==
    ASSUME cfg \in Configs, NEW c \in Nat, c >= 2
    PROVE  \E f \in Nat \ {0} : /\ DelWindow(c) = f..(f + cfg.nDel) - 1
                                /\ (f + cfg.nDel) - 1 <= cfg.R
<1> DEFINE m == (cfg.R - cfg.nDel) + 1
           a == (c - 2) * cfg.nDel
<1>1. m \in Nat \ {0} /\ 1 \in Nat BY ParamsAre
<1>2. Max({1, m}) = m
  <2> HIDE DEF m
  <2> QED BY <1>1, MaxOfTwo
<1>3. a \in Nat
  <2>1. c - 2 \in Nat /\ cfg.nDel \in Nat BY ParamsAre
  <2> QED BY <2>1
<1>4. a % m \in 0..m - 1
  <2> HIDE DEF a, m
  <2> QED BY <1>1, <1>3, Remainder
<1>5. DelWindow(c) = (1 + (a % m))..((1 + (a % m)) + cfg.nDel) - 1
  <2>1. DelWindow(c) = LET first == 1 + (a % Max({1, cfg.R - cfg.nDel + 1})) IN first .. first + cfg.nDel - 1
    BY DEF DelWindow
  <2>2. cfg.R - cfg.nDel + 1 = m BY ParamsAre
  <2> HIDE DEF a, m
  <2>3. \A f \in Nat : f + cfg.nDel - 1 = (f + cfg.nDel) - 1 BY ParamsAre
  <2>4. 1 + (a % m) \in Nat BY <1>1, <1>4
  <2> QED BY <1>2, <2>1, <2>2, <2>3, <2>4
<1> DEFINE f == 1 + (a % m)
<1>6. f \in Nat \ {0} /\ f <= m
  <2> HIDE DEF a, m
  <2> QED BY <1>1, <1>4
<1>7. DelWindow(c) = f..(f + cfg.nDel) - 1 BY <1>5
<1> HIDE DEF f
<1>8. (f + cfg.nDel) - 1 <= cfg.R BY <1>6, ParamsAre
<1> QED BY <1>6, <1>7, <1>8

\* The duplicated keys: the first of the last window, and none if nothing is duplicated.
LEMMA DupKeysAre ==
    ASSUME cfg \in Configs
    PROVE  /\ DupKeys \subseteq Keys
           /\ cfg.C >= 2 => DupKeys \subseteq DelWindow(cfg.C)
           /\ DupKeys = {} <=> cfg.nDup = 0
<1>1. CASE cfg.C >= 2
  <2>1. PICK f \in Nat \ {0} : /\ DelWindow(cfg.C) = f..(f + cfg.nDel) - 1
                               /\ (f + cfg.nDel) - 1 <= cfg.R
    BY <1>1, ParamsAre, WindowIs
  <2>2. IsFiniteSet(DelWindow(cfg.C)) /\ DelWindow(cfg.C) \in SUBSET Nat /\ f \in DelWindow(cfg.C)
    <3>1. f \in Int /\ (f + cfg.nDel) - 1 \in Int /\ cfg.nDel >= 1 /\ cfg.nDel \in Nat BY ParamsAre
    <3>2. IsFiniteSet(f..(f + cfg.nDel) - 1) BY <3>1, FS_Interval
    <3> QED BY <2>1, <3>1, <3>2
  <2>3. Min(DelWindow(cfg.C)) = f
    <3>1. /\ Min(DelWindow(cfg.C)) \in DelWindow(cfg.C)
          /\ \A y \in DelWindow(cfg.C) : Min(DelWindow(cfg.C)) <= y
      BY <2>2, MaxMin
    <3> QED BY <2>1, <2>2, <3>1, ParamsAre
  <2>4. DupKeys = f..(f + cfg.nDup) - 1
    <3>1. DupKeys = f .. f + cfg.nDup - 1 BY <1>1, <2>3 DEF DupKeys
    <3>2. f + cfg.nDup - 1 = (f + cfg.nDup) - 1 BY <2>1, ParamsAre
    <3> QED BY <3>1, <3>2
  <2>5. /\ cfg.nDup \in Nat /\ cfg.nDel \in Nat /\ cfg.nDup <= cfg.nDel /\ cfg.R \in Nat
    BY ParamsAre
  <2>6. f..(f + cfg.nDup) - 1 \subseteq f..(f + cfg.nDel) - 1 /\ f..(f + cfg.nDel) - 1 \subseteq 1..cfg.R
    BY <2>1, <2>5
  <2>7. f..(f + cfg.nDup) - 1 = {} <=> cfg.nDup = 0
    <3>1. cfg.nDup # 0 => f \in f..(f + cfg.nDup) - 1 BY <2>5
    <3> QED BY <2>5, <3>1
  <2> QED BY <2>1, <2>4, <2>6, <2>7 DEF Keys
<1>2. CASE ~(cfg.C >= 2)
  <2>1. DupKeys = 1 .. 1 + cfg.nDup - 1 BY <1>2 DEF DupKeys
  <2>2. 1 + cfg.nDup - 1 = cfg.nDup BY ParamsAre
  <2>3. DupKeys = 1..cfg.nDup BY <2>1, <2>2
  <2> QED BY <1>2, <2>3, ParamsAre DEF Keys
<1> QED BY <1>1, <1>2

\* The base of a commit's ordering values.
LEMMA BaseIs ==
    ASSUME cfg \in Configs, NEW c \in Nat \ {0}
    PROVE  /\ LsnBase(c) \in Nat
           /\ ~cfg.inverted => LsnBase(c) = c * Spacing
           /\ LsnBase(c) <= c * Spacing
           /\ cfg.inverted /\ c = 2 => LsnBase(2) = LsnBase(1)
           /\ \A k \in Keys : Lsn(c, k) \in Nat /\ Lsn(c, k) = LsnBase(c) + (k - 1)
<1>1. CASE ~(cfg.inverted /\ c % 2 = 0)
  <2>1. LsnBase(c) = c * Spacing BY <1>1 DEF LsnBase
  <2>2. c * Spacing \in Nat BY ParamsAre
  <2>3. ~(cfg.inverted /\ c = 2)
    <3>1. 2 % 2 = 0 OBVIOUS
    <3> QED BY <1>1, <3>1
  <2>4. \A k \in Keys : Lsn(c, k) = (LsnBase(c) + k) - 1 BY <2>1, <2>2, ParamsAre DEF Lsn, Keys
  <2>5. \A k \in Keys : k \in Nat \ {0} BY ParamsAre DEF Keys
  <2> QED BY <2>1, <2>2, <2>3, <2>4, <2>5
<1>2. CASE cfg.inverted /\ c % 2 = 0
  <2>1. LsnBase(c) = Max({1, c - 2}) * Spacing BY <1>2 DEF LsnBase
  <2>2. c >= 2
    <3>1. 1 % 2 = 1 OBVIOUS
    <3> QED BY <1>2, <3>1
  <2>3. c - 2 \in Nat BY <2>2
  <2> DEFINE m == Max({1, c - 2})
  <2>4. m = IF 1 >= c - 2 THEN 1 ELSE c - 2 BY <2>3, MaxOfTwo
  <2> HIDE DEF m
  <2>5. m \in Nat /\ m <= c BY <2>2, <2>4
  <2>6. m * Spacing \in Nat /\ m * Spacing <= c * Spacing
    <3>1. c = m + (c - m) /\ c - m \in Nat BY <2>5
    <3>2. \A x, y, z \in Nat : (x + y) * z = x * z + y * z /\ x * z \in Nat OBVIOUS
    <3>3. c * Spacing = m * Spacing + (c - m) * Spacing /\ m * Spacing \in Nat /\ (c - m) * Spacing \in Nat
      BY <2>5, <3>1, <3>2, ParamsAre
    <3> QED BY <3>3
  <2>7. LsnBase(c) = m * Spacing BY <2>1 DEF m
  <2>8. ASSUME c = 2 PROVE LsnBase(2) = LsnBase(1)
    <3>1. m = 1 BY <2>4, <2>8
    <3>2. 1 % 2 # 0 OBVIOUS
    <3>3. LsnBase(1) = 1 * Spacing BY <3>2 DEF LsnBase
    <3> QED BY <2>7, <2>8, <3>1, <3>3
  <2>9. LsnBase(c) \in Nat BY <2>6, <2>7
  <2>10. \A k \in Keys : k \in Nat \ {0} BY ParamsAre DEF Keys
  <2>11. \A k \in Keys : Lsn(c, k) = LsnBase(c) + k - 1 BY DEF Lsn
  <2>12. \A k \in Keys : LsnBase(c) + k - 1 = LsnBase(c) + (k - 1) /\ LsnBase(c) + (k - 1) \in Nat BY <2>9, <2>10
  <2> QED BY <1>2, <2>6, <2>7, <2>8, <2>9, <2>11, <2>12
<1> QED BY <1>1, <1>2

-----------------------------------------------------------------------------
\* The files of a commit.

\* A number below a multiple lies in one of the blocks up to it.
LEMMA BlockOf ==
    ASSUME NEW n \in Nat, NEW w \in Nat, NEW k \in Nat \ {0}, k <= n * w
    PROVE  \E j \in 1..n : (j - 1) * w < k /\ k <= j * w
<1> DEFINE T == {m \in 0..n : k <= m * w => \E j \in 1..m : (j - 1) * w < k /\ k <= j * w}
<1>1. 0 \in T
  <2>1. 0 * w = 0 OBVIOUS
  <2> QED BY <2>1
<1>2. ASSUME NEW m \in 1..n, m - 1 \in T PROVE m \in T
  <2>1. m \in Nat /\ m - 1 \in Nat /\ (m - 1) * w \in Nat /\ m * w \in Nat /\ m \in 0..n OBVIOUS
  <2>2. CASE k <= (m - 1) * w
    <3>1. PICK j \in 1..m - 1 : (j - 1) * w < k /\ k <= j * w BY <1>2, <2>2
    <3>2. j \in 1..m BY <2>1
    <3> QED BY <2>1, <3>1, <3>2
  <2>3. CASE ~(k <= (m - 1) * w)
    <3>1. (m - 1) * w < k BY <2>1, <2>3
    <3>2. m \in 1..m BY <2>1
    <3> QED BY <2>1, <3>1, <3>2
  <2> QED BY <2>2, <2>3
<1>3. n \in T
  <2> HIDE DEF T
  <2>1. 0..n \subseteq T BY <1>1, <1>2, UpTo
  <2> QED BY <2>1
<1> QED BY <1>3

\* Blocks of numbers do not overlap.
LEMMA BlocksApart ==
    ASSUME NEW w \in Nat, NEW i \in Nat, NEW j \in Nat, i < j
    PROVE  i * w <= (j - 1) * w /\ i * w \in Nat /\ (j - 1) * w \in Nat
<1>1. j - 1 \in Nat /\ (j - 1) - i \in Nat /\ j - 1 = i + ((j - 1) - i) OBVIOUS
<1>2. \A x, y, z \in Nat : (x + y) * z = x * z + y * z /\ x * z \in Nat OBVIOUS
<1>3. (j - 1) * w = i * w + ((j - 1) - i) * w /\ i * w \in Nat /\ ((j - 1) - i) * w \in Nat BY <1>1, <1>2
<1> QED BY <1>3

\* Each key is in one file of a commit, whether the files are blocks or scattered.
LEMMA FilesSplit ==
    ASSUME cfg \in Configs
    PROVE  /\ \A j \in 1..cfg.files : FileKeys(j) \subseteq Keys
           /\ \A k \in Keys : \E j \in 1..cfg.files : \A i \in 1..cfg.files : k \in FileKeys(i) <=> i = j
<1> DEFINE n == cfg.files
           R == cfg.R
           w == R \div n
<1>1. n \in Nat \ {0} /\ R \in Nat \ {0} /\ n <= R BY ParamsAre
<1>2. CASE cfg.scatter
  <2>1. \A j \in 1..n : FileKeys(j) = {k \in Keys : k % n = j % n} BY <1>2 DEF FileKeys
  <2>2. \A j \in 0..n - 1 : j % n = j BY <1>1
  <2>3. n % n = 0 BY <1>1
  <2>4. ASSUME NEW k \in Keys
        PROVE  \E j \in 1..n : \A i \in 1..n : k \in FileKeys(i) <=> i = j
    <3>1. k \in Nat BY ParamsAre DEF Keys
    <3>2. k % n \in 0..n - 1 BY <1>1, <3>1, Remainder
    <3> DEFINE j == IF k % n = 0 THEN n ELSE k % n
    <3>3. j \in 1..n BY <1>1, <3>2
    <3>4. ASSUME NEW i \in 1..n PROVE i % n = k % n <=> i = j
      <4>1. i % n = IF i = n THEN 0 ELSE i BY <1>1, <2>2, <2>3
      <4> QED BY <1>1, <3>2, <4>1
    <3> HIDE DEF j, n
    <3> QED BY <2>1, <3>3, <3>4
  <2> HIDE DEF n
  <2> QED BY <2>1, <2>4 DEF n
<1>3. CASE ~cfg.scatter
  <2>1. \A j \in 1..n : FileKeys(j) = 1 + (j - 1) * w .. (IF j = n THEN R ELSE j * w)
    BY <1>3 DEF FileKeys
  <2>2. w \in Nat /\ n * w <= R
    <3> HIDE DEF n, R
    <3> QED BY <1>1
  <2> HIDE DEF n, R, w
  <2>3. ASSUME NEW j \in 1..n PROVE j * w \in Nat /\ (j - 1) * w \in Nat /\ j * w <= R
    <3>1. j * w \in Nat /\ (j - 1) * w \in Nat /\ n * w \in Nat BY <1>1, <2>2
    <3>2. CASE j = n BY <2>2, <3>1, <3>2
    <3>3. CASE j # n
      <4>1. j < n /\ j \in Nat BY <1>1, <3>3
      <4>2. j * w <= (n - 1) * w /\ (n - 1) * w \in Nat BY <1>1, <2>2, <4>1, BlocksApart
      <4>3. n * w = (n - 1) * w + w BY <1>1, <2>2
      <4> QED BY <1>1, <2>2, <3>1, <4>2, <4>3
    <3> QED BY <3>2, <3>3
  <2>4. ASSUME NEW j \in 1..n, NEW k \in Nat
        PROVE  k \in FileKeys(j) <=> (j - 1) * w < k /\ k <= IF j = n THEN R ELSE j * w
    BY <1>1, <2>1, <2>3
  <2>5. \A j \in 1..n : FileKeys(j) \subseteq 1..R
    <3> SUFFICES ASSUME NEW j \in 1..n, NEW k \in FileKeys(j) PROVE k \in 1..R OBVIOUS
    <3> DEFINE a == (j - 1) * w
               b == IF j = n THEN R ELSE j * w
    <3>1. a \in Nat /\ b \in Nat /\ b <= R BY <1>1, <2>3
    <3>2. k \in 1 + a .. b BY <2>1
    <3> HIDE DEF a, b
    <3> QED BY <1>1, <3>1, <3>2
  <2>6. ASSUME NEW k \in 1..R
        PROVE  \E j \in 1..n : \A i \in 1..n : k \in FileKeys(i) <=> i = j
    <3>1. \E j \in 1..n : k \in FileKeys(j)
      <4>1. CASE k <= n * w
        <5>1. PICK j \in 1..n : (j - 1) * w < k /\ k <= j * w 
          <6>1. k \in Nat \ {0} BY <1>1
          <6> QED BY <1>1, <2>2, <4>1, <6>1, BlockOf
        <5>2. k <= R BY <1>1
        <5> QED BY <1>1, <2>4, <5>1, <5>2
      <4>2. CASE ~(k <= n * w)
        <5>1. n \in 1..n BY <1>1
        <5>2. n * w = (n - 1) * w + w /\ (n - 1) * w \in Nat BY <1>1, <2>2
        <5>3. (n - 1) * w < k BY <1>1, <2>2, <4>2, <5>2
        <5> QED BY <1>1, <2>4, <5>1, <5>3
      <4> QED BY <4>1, <4>2
    <3>2. ASSUME NEW i \in 1..n, NEW j \in 1..n, i < j, k \in FileKeys(i), k \in FileKeys(j) PROVE FALSE
      <4>1. i # n BY <1>1, <3>2
      <4>2. k <= i * w /\ (j - 1) * w < k BY <1>1, <2>4, <3>2, <4>1
      <4>3. i * w <= (j - 1) * w /\ i * w \in Nat /\ (j - 1) * w \in Nat BY <1>1, <2>2, <3>2, BlocksApart
      <4> QED BY <4>2, <4>3
    <3>3. PICK j \in 1..n : k \in FileKeys(j) BY <3>1
    <3>4. \A i \in 1..n : k \in FileKeys(i) => i = j
      <4> SUFFICES ASSUME NEW i \in 1..n, k \in FileKeys(i), i # j PROVE FALSE OBVIOUS
      <4>1. i < j \/ j < i BY <1>1
      <4> QED BY <3>2, <3>3, <4>1
    <3> QED BY <3>3, <3>4
  <2> QED BY <2>5, <2>6 DEF n, R, Keys
<1> QED BY <1>2, <1>3

-----------------------------------------------------------------------------
\* The ingested table.

\* Its rows and deletes after n commits, if none was interleaved.
DataOf(n) ==
    (UNION {UNION {FileRows(c, j, <<>>) : j \in 1..cfg.files} : c \in 1..n})
        \cup (IF n >= 1 THEN DupHigh ELSE {})
        \cup (IF n >= 2 /\ n = cfg.C THEN DupExtra(n) ELSE {})

DelsOf(n) == UNION {{[key |-> k, seq |-> c] : k \in Deleted(c)} : c \in 1..n}

\* A row is stored in a file of its commit, at its number.
InPlace(r, n) == r.commit \in 1..n /\ r.seq = r.commit /\ r.file = <<r.commit, r.part>>

\* A table of n commits, interleaved or not.
Ingested(t, n) ==
    /\ t.data \in SUBSET Row(Nat, Nat) /\ IsFiniteSet(t.data)
    /\ t.dels \in SUBSET [key : Nat, seq : 1..n] /\ IsFiniteSet(t.dels)
    /\ t = [data |-> t.data, dels |-> t.dels]
    /\ \A r \in t.data : InPlace(r, n)
    /\ n >= 1 => t.data # {}
    /\ OracleValid => t.data = DataOf(n) /\ t.dels = DelsOf(n)

\* A row that commit c writes to its file j.
LEMMA RowIs ==
    ASSUME NEW c \in Nat \ {0}, NEW j \in Nat, NEW k \in Nat, NEW v \in Nat, NEW n \in Nat, c <= n
    PROVE  /\ NewRow(c, j, k, v) \in Row(Nat, Nat) /\ InPlace(NewRow(c, j, k, v), n)
           /\ NewRow(c, j, k, v).key = k /\ NewRow(c, j, k, v).ver = v
           /\ NewRow(c, j, k, v).commit = c /\ NewRow(c, j, k, v).part = j
           /\ NewRow(c, j, k, v).seq = c
BY DEF NewRow, Row, File, InPlace

\* The image of a finite set of keys under a function of rows.
LEMMA RowsFinite ==
    ASSUME NEW S, IsFiniteSet(S), NEW f
    PROVE  IsFiniteSet({f[k] : k \in S})
<1> DEFINE T == {f[k] : k \in S}
<1>1. [k \in S |-> f[k]] \in [S -> T] /\ \A t \in T : \E k \in S : [l \in S |-> f[l]][k] = t OBVIOUS
<1> HIDE DEF T
<1>2. IsFiniteSet(T) BY <1>1, FiniteImage
<1> QED BY <1>2 DEF T

\* The keys are finitely many numbers.
LEMMA KeysAre == ASSUME cfg \in Configs PROVE Keys \subseteq Nat \ {0} /\ IsFiniteSet(Keys) /\ Keys # {}
<1>1. IsFiniteSet(1..cfg.R)
  <2>1. 1 \in Int /\ cfg.R \in Int BY ParamsAre
  <2> QED BY <2>1, FS_Interval
<1>2. 1 \in Keys BY ParamsAre DEF Keys
<1> QED BY <1>1, <1>2, ParamsAre DEF Keys

\* An interleaved row takes a number for its ordering value.
LEMMA OutlierIs ==
    ASSUME cfg \in Configs, NEW c \in Nat, NEW j \in 1..cfg.files, NEW k \in FileKeys(j)
    PROVE  Outlier(c, j, k) \in Nat
<1> DEFINE S == {i \in FileKeys(j) : i < k}
<1>1. FileKeys(j) \in SUBSET Nat /\ IsFiniteSet(FileKeys(j)) /\ FileKeys(j) # {}
      /\ FileKeys(j) \subseteq Nat \ {0}
  <2>1. FileKeys(j) \subseteq Keys BY FilesSplit
  <2> QED BY <2>1, KeysAre, FS_Subset
<1>2. IsFiniteSet(S) BY <1>1, FS_Subset
<1>3. Cardinality(S) \in Nat BY <1>2, FS_CardinalityType
<1>4. Min(FileKeys(j)) \in Nat \ {0} BY <1>1, MaxMin
<1>5. c * Spacing \in Nat BY ParamsAre
<1> DEFINE a == c * Spacing
           b == Cardinality(S)
           m == Min(FileKeys(j))
<1>6. Outlier(c, j, k) = a + b + m - 1 BY DEF Outlier
<1>7. a \in Nat /\ b \in Nat /\ m \in Nat \ {0} BY <1>3, <1>4, <1>5
<1> HIDE DEF a, b, m
<1> QED BY <1>6, <1>7

\* What one commit writes to one of its files.
LEMMA FileRowsAre ==
    ASSUME cfg \in Configs, NEW c \in 1..cfg.C, NEW j \in 1..cfg.files, NEW draw \in Draws(c)
    PROVE  /\ IsFiniteSet(FileRows(c, j, draw)) /\ FileRows(c, j, draw) \subseteq Row(Nat, Nat)
           /\ \A r \in FileRows(c, j, draw) : InPlace(r, c) /\ r.key \in Keys
<1> DEFINE V(k) == IF k \in DOMAIN draw THEN Outlier(draw[k], j, k) ELSE Lsn(c, k)
           f == [k \in FileKeys(j) |-> NewRow(c, j, k, V(k))]
<1>1. FileKeys(j) \subseteq Keys /\ Keys \subseteq Nat \ {0} /\ IsFiniteSet(Keys) BY FilesSplit, KeysAre
<1>2. c \in Nat \ {0} /\ j \in Nat BY ParamsAre
<1>3. ASSUME NEW k \in FileKeys(j) PROVE V(k) \in Nat
  <2>1. CASE k \notin DOMAIN draw
    <3>1. Lsn(c, k) \in Nat BY <1>1, <1>2, BaseIs
    <3> QED BY <2>1, <3>1
  <2>2. CASE k \in DOMAIN draw
    <3>1. draw[k] \in Nat
      <4>1. draw = <<>> \/ \E ks \in SUBSET Keys : draw \in [ks -> 1..cfg.C \ {c}] BY DEF Draws
      <4>2. draw # <<>> BY <2>2
      <4> QED BY <2>2, <4>1, <4>2
    <3>2. Outlier(draw[k], j, k) \in Nat BY <3>1, OutlierIs
    <3> QED BY <2>2, <3>2
  <2> QED BY <2>1, <2>2
<1>4. FileRows(c, j, draw) = {f[k] : k \in FileKeys(j)} BY DEF FileRows
<1>5. IsFiniteSet(FileKeys(j)) BY <1>1, FS_Subset
<1>6. \A k \in FileKeys(j) : f[k] = NewRow(c, j, k, V(k)) OBVIOUS
<1> HIDE DEF f, V
<1>7. IsFiniteSet({f[k] : k \in FileKeys(j)}) BY <1>5, RowsFinite
<1>8. ASSUME NEW k \in FileKeys(j) PROVE f[k] \in Row(Nat, Nat) /\ InPlace(f[k], c) /\ f[k].key \in Keys
  <2>1. c \in Nat /\ c <= c BY <1>2
  <2>3. V(k) \in Nat BY <1>3
  <2>4. k \in Nat BY <1>1
  <2>2. /\ NewRow(c, j, k, V(k)) \in Row(Nat, Nat) /\ InPlace(NewRow(c, j, k, V(k)), c)
        /\ NewRow(c, j, k, V(k)).key = k
    BY <1>2, <2>1, <2>3, <2>4, RowIs
  <2> QED BY <1>1, <1>6, <2>2
<1> QED BY <1>4, <1>7, <1>8

\* The rows written for duplicates.
LEMMA DupRowsAre ==
    ASSUME cfg \in Configs, NEW c \in Nat \ {0}
    PROVE  /\ IsFiniteSet(DupHigh) /\ DupHigh \subseteq Row(Nat, Nat) /\ \A r \in DupHigh : InPlace(r, 1)
           /\ IsFiniteSet(DupExtra(c)) /\ DupExtra(c) \subseteq Row(Nat, Nat)
           /\ \A r \in DupExtra(c) : InPlace(r, c)
<1>1. DupKeys \subseteq Nat \ {0} /\ IsFiniteSet(DupKeys) BY DupKeysAre, KeysAre, FS_Subset
<1>2. LsnBase(c) \in Nat /\ DupFile \in Nat BY BaseIs, ParamsAre DEF DupFile
<1>3. \A k \in DupKeys : HighLsn + k - 1 \in Nat /\ LsnBase(c) + DupLsnOff + k - 1 \in Nat
  BY <1>1, <1>2, ParamsAre
<1> DEFINE f == [k \in DupKeys |-> NewRow(1, DupFile, k, HighLsn + k - 1)]
           g == [k \in DupKeys |-> NewRow(c, DupFile, k, LsnBase(c) + DupLsnOff + k - 1)]
<1>4. DupHigh = {f[k] : k \in DupKeys} /\ DupExtra(c) = {g[k] : k \in DupKeys} BY DEF DupHigh, DupExtra
<1>5. \A k \in DupKeys : /\ f[k] \in Row(Nat, Nat) /\ InPlace(f[k], 1)
                         /\ g[k] \in Row(Nat, Nat) /\ InPlace(g[k], c)
  <2> SUFFICES ASSUME NEW k \in DupKeys
               PROVE  /\ NewRow(1, DupFile, k, HighLsn + k - 1) \in Row(Nat, Nat)
                      /\ InPlace(NewRow(1, DupFile, k, HighLsn + k - 1), 1)
                      /\ NewRow(c, DupFile, k, LsnBase(c) + DupLsnOff + k - 1) \in Row(Nat, Nat)
                      /\ InPlace(NewRow(c, DupFile, k, LsnBase(c) + DupLsnOff + k - 1), c)
    OBVIOUS
  <2>1. k \in Nat /\ 1 \in Nat \ {0} /\ 1 \in Nat /\ 1 <= 1 /\ c \in Nat /\ c <= c BY <1>1
  <2>2. HighLsn + k - 1 \in Nat /\ LsnBase(c) + DupLsnOff + k - 1 \in Nat BY <1>3
  <2> DEFINE a == HighLsn + k - 1
             b == LsnBase(c) + DupLsnOff + k - 1
  <2>3. a \in Nat /\ b \in Nat BY <2>2
  <2> HIDE DEF a, b
  <2>4. NewRow(1, DupFile, k, a) \in Row(Nat, Nat) /\ InPlace(NewRow(1, DupFile, k, a), 1)
    BY <1>2, <2>1, <2>3, RowIs
  <2>5. NewRow(c, DupFile, k, b) \in Row(Nat, Nat) /\ InPlace(NewRow(c, DupFile, k, b), c)
    BY <1>2, <2>1, <2>3, RowIs
  <2> QED BY <2>4, <2>5 DEF a, b
<1> HIDE DEF f, g
<1>6. IsFiniteSet({f[k] : k \in DupKeys}) /\ IsFiniteSet({g[k] : k \in DupKeys}) BY <1>1, RowsFinite
<1> QED BY <1>4, <1>5, <1>6

\* Nothing is written before the first commit.
LEMMA EmptyIsIngested == Ingested(EmptyTable, 0)
<1>1. 1..0 = {} OBVIOUS
<1>2. DataOf(0) = {} /\ DelsOf(0) = {} BY <1>1 DEF DataOf, DelsOf
<1>3. IsFiniteSet({}) BY FS_EmptySet
<1> QED BY <1>2, <1>3 DEF Ingested, EmptyTable

\* One commit more.
LEMMA CommitIngests ==
    ASSUME cfg \in Configs, NEW t, NEW n \in Nat, n < cfg.C, Ingested(t, n), NEW draw \in Draws(n + 1),
           NEW u, u = [data |-> t.data \cup (UNION {FileRows(n + 1, j, draw) : j \in 1..cfg.files})
                                       \cup (IF n + 1 = 1 THEN DupHigh
                                             ELSE IF n + 1 = cfg.C THEN DupExtra(n + 1) ELSE {}),
                       dels |-> t.dels \cup {[key |-> k, seq |-> n + 1] : k \in Deleted(n + 1)}]
    PROVE  Ingested(u, n + 1)
<1> DEFINE c == n + 1
           New == UNION {FileRows(c, j, draw) : j \in 1..cfg.files}
           Dup == IF c = 1 THEN DupHigh ELSE IF c = cfg.C THEN DupExtra(c) ELSE {}
           Gone == {[key |-> k, seq |-> c] : k \in Deleted(c)}
<1>1. c \in 1..cfg.C /\ c \in Nat \ {0} /\ n \in Nat /\ n = c - 1 BY ParamsAre
<1>2. u = [data |-> t.data \cup New \cup Dup, dels |-> t.dels \cup Gone] OBVIOUS
<1>3. \A m, j : j \in 1..cfg.files => FileRows(c, j, draw) \subseteq New OBVIOUS
<1> HIDE DEF c
<1>4. IsFiniteSet(New) /\ New \subseteq Row(Nat, Nat) /\ \A r \in New : InPlace(r, c)
  <2> DEFINE f == [j \in 1..cfg.files |-> FileRows(c, j, draw)]
             Parts == {f[j] : j \in 1..cfg.files}
  <2>1. IsFiniteSet(1..cfg.files)
    <3>1. 1 \in Int /\ cfg.files \in Int BY ParamsAre
    <3> QED BY <3>1, FS_Interval
  <2>2. New = UNION Parts OBVIOUS
  <2>3. draw \in Draws(c) BY DEF c
  <2>4. \A j \in 1..cfg.files : f[j] = FileRows(c, j, draw) OBVIOUS
  <2> HIDE DEF f, New
  <2>5. IsFiniteSet(Parts) BY <2>1, RowsFinite
  <2>6. \A p \in Parts : IsFiniteSet(p) /\ p \subseteq Row(Nat, Nat) /\ \A r \in p : InPlace(r, c)
    BY <1>1, <2>3, <2>4, FileRowsAre
  <2> HIDE DEF Parts
  <2>7. IsFiniteSet(UNION Parts) BY <2>5, <2>6, FS_UNION
  <2> QED BY <2>2, <2>6, <2>7
<1>5. IsFiniteSet(Dup) /\ Dup \subseteq Row(Nat, Nat) /\ \A r \in Dup : InPlace(r, c)
  <2>1. CASE c = 1 BY <2>1, <1>1, DupRowsAre
  <2>2. CASE c # 1 /\ c = cfg.C BY <2>2, <1>1, DupRowsAre
  <2>3. CASE c # 1 /\ c # cfg.C BY <2>3, FS_EmptySet
  <2> QED BY <2>1, <2>2, <2>3
<1>6. IsFiniteSet(Gone) /\ Gone \subseteq [key : Nat, seq : 1..c]
  <2>1. Deleted(c) \subseteq Nat /\ IsFiniteSet(Deleted(c))
    <3>1. CASE c = 1 BY <3>1, FS_EmptySet DEF Deleted
    <3>2. CASE c # 1
      <4>1. PICK f \in Nat \ {0} : DelWindow(c) = f..(f + cfg.nDel) - 1 BY <1>1, <3>2, WindowIs
      <4>2. f \in Int /\ (f + cfg.nDel) - 1 \in Int BY ParamsAre
      <4>3. IsFiniteSet(f..(f + cfg.nDel) - 1) BY <4>2, FS_Interval
      <4>4. f..(f + cfg.nDel) - 1 \subseteq Nat BY <4>2
      <4> QED BY <3>2, <4>1, <4>3, <4>4 DEF Deleted
    <3> QED BY <3>1, <3>2
  <2> DEFINE f == [k \in Deleted(c) |-> [key |-> k, seq |-> c]]
  <2>2. Gone = {f[k] : k \in Deleted(c)} OBVIOUS
  <2>3. \A k \in Deleted(c) : f[k] \in [key : Nat, seq : 1..c] BY <1>1, <2>1
  <2> HIDE DEF f, Gone
  <2>4. IsFiniteSet({f[k] : k \in Deleted(c)}) BY <2>1, RowsFinite
  <2> QED BY <2>2, <2>3, <2>4
<1>7. New # {}
  <2>1. 1 \in Keys BY ParamsAre DEF Keys
  <2>2. PICK j \in 1..cfg.files : 1 \in FileKeys(j) BY <2>1, FilesSplit
  <2>3. FileRows(c, j, draw) # {} BY <2>2 DEF FileRows
  <2> QED BY <1>3, <2>2, <2>3
<1>8. /\ \A d \in [key : Nat, seq : 1..n] : d \in [key : Nat, seq : 1..c]
      /\ \A r : InPlace(r, n) => InPlace(r, c)
  BY <1>1 DEF InPlace
<1>9. ASSUME OracleValid PROVE t.data \cup New \cup Dup = DataOf(c) /\ t.dels \cup Gone = DelsOf(c)
  <2>1. draw = <<>> BY <1>9 DEF Draws, OracleValid
  <2>2. t.data = DataOf(n) /\ t.dels = DelsOf(n) BY <1>9 DEF Ingested
  <2>3. 1..c = 1..n \cup {c} BY <1>1
  <2> DEFINE Plain(i) == UNION {FileRows(i, j, <<>>) : j \in 1..cfg.files}
             Dels(i) == {[key |-> k, seq |-> i] : k \in Deleted(i)}
  <2>4. New = Plain(c) BY <2>1
  <2>5. /\ DataOf(n) = (UNION {Plain(i) : i \in 1..n})
                          \cup (IF n >= 1 THEN DupHigh ELSE {})
                          \cup (IF n >= 2 /\ n = cfg.C THEN DupExtra(n) ELSE {})
        /\ DataOf(c) = (UNION {Plain(i) : i \in 1..c})
                          \cup (IF c >= 1 THEN DupHigh ELSE {})
                          \cup (IF c >= 2 /\ c = cfg.C THEN DupExtra(c) ELSE {})
        /\ DelsOf(n) = UNION {Dels(i) : i \in 1..n} /\ DelsOf(c) = UNION {Dels(i) : i \in 1..c}
    BY DEF DataOf, DelsOf
  <2>6. Gone = Dels(c) OBVIOUS
  <2> HIDE DEF Plain, Dels, New, Gone
  <2>7. UNION {Plain(i) : i \in 1..c} = (UNION {Plain(i) : i \in 1..n}) \cup Plain(c) BY <2>3
  <2>8. UNION {Dels(i) : i \in 1..c} = (UNION {Dels(i) : i \in 1..n}) \cup Dels(c) BY <2>3
  <2>9. DataOf(n) = (UNION {Plain(i) : i \in 1..n}) \cup (IF c = 1 THEN {} ELSE DupHigh)
    <3>1. ~(n = cfg.C) BY <1>1, ParamsAre
    <3>2. n >= 1 <=> c # 1 BY <1>1
    <3> QED BY <2>5, <3>1, <3>2
  <2>10. DataOf(c) = (UNION {Plain(i) : i \in 1..c}) \cup DupHigh \cup (IF c # 1 /\ c = cfg.C THEN DupExtra(c) ELSE {})
    <3>1. c >= 1 /\ (c >= 2 <=> c # 1) BY <1>1
    <3> QED BY <2>5, <3>1
  <2>11. t.data \cup New \cup Dup = DataOf(c) BY <2>2, <2>4, <2>7, <2>9, <2>10
  <2> QED BY <2>2, <2>5, <2>6, <2>8, <2>11
<1> HIDE DEF New, Dup, Gone
<1>10. u.data = t.data \cup New \cup Dup /\ u.dels = t.dels \cup Gone BY <1>2
<1>11. IsFiniteSet(u.data) /\ IsFiniteSet(u.dels)
  <2>1. IsFiniteSet(t.data) /\ IsFiniteSet(t.dels) BY DEF Ingested
  <2>2. IsFiniteSet(t.data \cup New) BY <1>4, <2>1, FS_Union
  <2> QED BY <1>5, <1>6, <1>10, <2>1, <2>2, FS_Union
<1>12. u.data \in SUBSET Row(Nat, Nat) /\ \A r \in u.data : InPlace(r, c)
  BY <1>4, <1>5, <1>8, <1>10 DEF Ingested
<1>13. u.dels \in SUBSET [key : Nat, seq : 1..c] BY <1>6, <1>8, <1>10 DEF Ingested
<1>14. u = [data |-> u.data, dels |-> u.dels] BY <1>2
<1> QED BY <1>7, <1>9, <1>10, <1>11, <1>12, <1>13, <1>14 DEF Ingested, c

-----------------------------------------------------------------------------
\* One key of the finished table.

\* A table of all commits, none with an interleaved row.
Finished(t) == cfg \in Configs /\ OracleValid /\ Ingested(t, cfg.C)

\* The row of commit c in file j, the injected version, and the second copy.
Plain(c, j, k) == NewRow(c, j, k, Lsn(c, k))

Injected(k) == NewRow(1, DupFile, k, HighLsn + k - 1)

Copy(k) == NewRow(cfg.C, DupFile, k, LsnBase(cfg.C) + DupLsnOff + k - 1)

\* A key has one row a commit, all in the file of one number, and two if duplicated.
LEMMA KeyRowsAre ==
    ASSUME NEW t, Finished(t), NEW k
    PROVE  /\ \A r \in RowsOf(t.data, k) : k \in Keys
           /\ k \in Keys =>
                 \E j \in 1..cfg.files :
                    RowsOf(t.data, k) =
                        {Plain(c, j, k) : c \in 1..cfg.C}
                            \cup (IF k \in DupKeys THEN {Injected(k)} ELSE {})
                            \cup (IF k \in DupKeys /\ cfg.C >= 2 THEN {Copy(k)} ELSE {})
<1> DEFINE C == cfg.C
           F == cfg.files
<1>1. t.data = DataOf(C) /\ C \in Nat \ {0} /\ F \in Nat \ {0} BY ParamsAre DEF Finished, Ingested
<1>2. ASSUME NEW c, NEW j, NEW r
      PROVE  r \in FileRows(c, j, <<>>) <=> \E l \in FileKeys(j) : r = Plain(c, j, l)
  <2>1. DOMAIN <<>> = {} OBVIOUS
  <2> QED BY <2>1 DEF FileRows, Plain
<1>3. ASSUME NEW r
      PROVE  r \in t.data <=>
                \/ \E c \in 1..C : \E j \in 1..F : \E l \in FileKeys(j) : r = Plain(c, j, l)
                \/ \E l \in DupKeys : r = Injected(l)
                \/ C >= 2 /\ \E l \in DupKeys : r = Copy(l)
  <2>1. r \in t.data <=>
           \/ \E c \in 1..C : \E j \in 1..F : r \in FileRows(c, j, <<>>)
           \/ r \in DupHigh \/ (C >= 2 /\ r \in DupExtra(C))
    <3>1. C >= 1 BY <1>1
    <3> QED BY <1>1, <3>1 DEF DataOf
  <2>2. r \in DupHigh <=> \E l \in DupKeys : r = Injected(l) BY DEF DupHigh, Injected
  <2>3. r \in DupExtra(C) <=> \E l \in DupKeys : r = Copy(l) BY DEF DupExtra, Copy
  <2> QED BY <1>2, <2>1, <2>2, <2>3
<1>4. \A c, j, l : Plain(c, j, l).key = l /\ Injected(l).key = l /\ Copy(l).key = l
  BY DEF Plain, Injected, Copy, NewRow
<1>5. DupKeys \subseteq Keys BY DupKeysAre DEF Finished
<1>6. /\ \A j \in 1..F : FileKeys(j) \subseteq Keys
      /\ \A l \in Keys : \E j \in 1..F : \A i \in 1..F : l \in FileKeys(i) <=> i = j
  BY FilesSplit DEF Finished
<1> HIDE DEF C, F
<1>7. \A r \in RowsOf(t.data, k) : k \in Keys BY <1>3, <1>4, <1>5, <1>6 DEF RowsOf
<1>8. ASSUME k \in Keys
      PROVE  \E j \in 1..F :
                RowsOf(t.data, k) = {Plain(c, j, k) : c \in 1..C}
                                       \cup (IF k \in DupKeys THEN {Injected(k)} ELSE {})
                                       \cup (IF k \in DupKeys /\ C >= 2 THEN {Copy(k)} ELSE {})
  <2>1. PICK j \in 1..F : \A i \in 1..F : k \in FileKeys(i) <=> i = j BY <1>6, <1>8
  <2>2. ASSUME NEW r
        PROVE  r \in RowsOf(t.data, k) <=>
                  \/ \E c \in 1..C : r = Plain(c, j, k)
                  \/ k \in DupKeys /\ r = Injected(k)
                  \/ k \in DupKeys /\ C >= 2 /\ r = Copy(k)
    <3>1. r \in RowsOf(t.data, k) <=> r \in t.data /\ r.key = k BY DEF RowsOf
    <3> QED BY <1>3, <1>4, <2>1, <3>1
  <2>3. RowsOf(t.data, k) = {Plain(c, j, k) : c \in 1..C}
                               \cup (IF k \in DupKeys THEN {Injected(k)} ELSE {})
                               \cup (IF k \in DupKeys /\ C >= 2 THEN {Copy(k)} ELSE {})
    BY <2>2
  <2> QED BY <2>3
<1> QED BY <1>7, <1>8 DEF C, F

\* The last delete of a key and the first commit that survives it.
LEMMA LastDeleteIs ==
    ASSUME cfg \in Configs, NEW k
    PROVE  LET last == LastDelete(k)
           IN  /\ last \in {0} \cup 2..cfg.C /\ (last # 0 => k \in DelWindow(last))
               /\ \A c \in 2..cfg.C : k \in DelWindow(c) => c <= last
               /\ FirstSurvivor(last) = IF last = 0 THEN 1 ELSE last
               /\ FirstSurvivor(last) \in 1..cfg.C
<1> DEFINE S == {0} \cup {c \in 2..cfg.C : k \in DelWindow(c)}
           last == LastDelete(k)
<1>1. cfg.C \in Nat \ {0} BY ParamsAre
<1>2. S \in SUBSET Nat /\ S # {} /\ S \subseteq 0..cfg.C BY <1>1
<1>3. IsFiniteSet(S)
  <2>1. 0 \in Int /\ cfg.C \in Int BY <1>1
  <2>2. IsFiniteSet(0..cfg.C) BY <2>1, FS_Interval
  <2> HIDE DEF S
  <2> QED BY <1>2, <2>2, FS_Subset
<1>4. last = Max(S) BY DEF LastDelete
<1>5. Max(S) \in S /\ \A y \in S : Max(S) >= y
  <2> HIDE DEF S
  <2> QED BY <1>2, <1>3, MaxMin
<1>6. last \in S /\ \A y \in S : last >= y BY <1>4, <1>5
<1> HIDE DEF last
<1>7. last \in {0} \cup 2..cfg.C /\ (last # 0 => k \in DelWindow(last)) BY <1>6
<1>8. \A c \in 2..cfg.C : k \in DelWindow(c) => c <= last BY <1>6, <1>7
<1>9. FirstSurvivor(last) = IF last >= 1 THEN last ELSE 1
  <2>1. last \in Nat /\ 1 \in Nat BY <1>7
  <2> QED BY <2>1, MaxOfTwo DEF FirstSurvivor
<1> QED BY <1>1, <1>7, <1>8, <1>9 DEF last

\* A row survives exactly if its commit is not before that.
LEMMA SurvivesFrom ==
    ASSUME NEW t, Finished(t), NEW k \in Keys, NEW r \in t.data, r.key = k
    PROVE  /\ IsDeleted(t, r) <=> r.commit < FirstSurvivor(LastDelete(k))
           /\ r.commit \in 1..cfg.C
<1> DEFINE last == LastDelete(k)
           C == cfg.C
<1>1. /\ last \in {0} \cup 2..C /\ (last # 0 => k \in DelWindow(last))
      /\ \A c \in 2..C : k \in DelWindow(c) => c <= last
      /\ FirstSurvivor(last) = IF last = 0 THEN 1 ELSE last
  BY LastDeleteIs DEF Finished
<1>2. C \in Nat \ {0} /\ r.commit \in 1..C /\ r.seq = r.commit
  BY ParamsAre DEF Finished, Ingested, InPlace
<1>3. t.dels = UNION {{[key |-> l, seq |-> c] : l \in Deleted(c)} : c \in 1..C}
  BY DEF Finished, Ingested, DelsOf
<1> HIDE DEF last, C
<1>4. IsDeleted(t, r) <=> \E c \in 1..C : k \in Deleted(c) /\ c > r.commit
  <2>1. ASSUME NEW d \in t.dels, d.key = k, d.seq > r.seq
        PROVE  \E c \in 1..C : k \in Deleted(c) /\ c > r.commit
    BY <1>2, <1>3, <2>1
  <2>2. ASSUME NEW c \in 1..C, k \in Deleted(c), c > r.commit PROVE IsDeleted(t, r)
    <3> DEFINE d == [key |-> k, seq |-> c]
    <3>1. d \in t.dels BY <1>3, <2>2
    <3>2. d.key = r.key /\ d.seq > r.seq BY <1>2, <2>2
    <3> QED BY <3>1, <3>2 DEF IsDeleted
  <2> QED BY <2>1, <2>2 DEF IsDeleted
<1>5. \A c \in 1..C : k \in Deleted(c) <=> c \in 2..C /\ k \in DelWindow(c) BY <1>2 DEF Deleted
<1>6. IsDeleted(t, r) <=> r.commit < FirstSurvivor(last)
  <2>1. ASSUME NEW c \in 2..C, k \in DelWindow(c), c > r.commit PROVE r.commit < FirstSurvivor(last)
    BY <1>1, <1>2, <2>1
  <2>2. ASSUME r.commit < FirstSurvivor(last)
        PROVE  \E c \in 2..C : k \in DelWindow(c) /\ c > r.commit
    BY <1>1, <1>2, <2>2
  <2> QED BY <1>2, <1>4, <1>5, <2>1, <2>2
<1> QED BY <1>2, <1>6 DEF last, C

-----------------------------------------------------------------------------
\* What an audited compaction says of one key.

\* The finite tables a study reads: every row has an ordering value.
Studied(t) ==
    t.data \in SUBSET Row(Nat, Nat) /\ IsFiniteSet(t.data) /\ t.dels \in SUBSET Del(Nat) /\ IsFiniteSet(t.dels)

\* A discarded row of the key is younger than every surviving one, of which there is one.
Outranked(t, k) ==
    /\ RowsOf(LiveRows(t), k) # {}
    /\ \E d \in RowsOf(DeadRows(t), k) : \A s \in RowsOf(LiveRows(t), k) : d.ver > s.ver

OneSurvivor(t, k) == \E s : RowsOf(LiveRows(t), k) = {s}

\* One set of numbers reaches above another.
LEMMA MaxAbove ==
    ASSUME NEW A \in SUBSET Nat, IsFiniteSet(A), A # {}, NEW B \in SUBSET Nat, IsFiniteSet(B), B # {}
    PROVE  Max(A) > Max(B) <=> \E a \in A : \A b \in B : a > b
<1>1. Max(A) \in A /\ (\A a \in A : Max(A) >= a) /\ Max(B) \in B /\ (\A b \in B : Max(B) >= b)
  BY MaxMin
<1>2. ASSUME Max(A) > Max(B) PROVE \A b \in B : Max(A) > b
  <2> SUFFICES ASSUME NEW b \in B PROVE Max(A) > b OBVIOUS
  <2>1. Max(A) \in Nat /\ Max(B) \in Nat /\ b \in Nat /\ Max(B) >= b BY <1>1
  <2> QED BY <1>2, <2>1
<1>3. ASSUME NEW a \in A, \A b \in B : a > b PROVE Max(A) > Max(B)
  <2>1. a > Max(B) /\ Max(A) >= a /\ Max(A) \in Nat /\ Max(B) \in Nat /\ a \in Nat BY <1>1, <1>3
  <2> QED BY <2>1
<1> QED BY <1>1, <1>2, <1>3

\* Rows that all have an ordering value, by these values.
LEMMA ValuesAre ==
    ASSUME NEW rows \in SUBSET Row(Nat, Nat), IsFiniteSet(rows)
    PROVE  /\ VersionsOf(rows) = {r.ver : r \in rows}
           /\ VersionsOf(rows) \in SUBSET Nat /\ IsFiniteSet(VersionsOf(rows))
           /\ VersionsOf(rows) # {} <=> rows # {}
<1>1. \A r \in rows : r.ver \in Nat BY DEF Row
<1>2. VersionsOf(rows) = {r.ver : r \in rows} BY <1>1, NoVersionAssumption DEF VersionsOf
<1>3. VersionsOf(rows) \in SUBSET Nat /\ IsFiniteSet(VersionsOf(rows)) BY VersionsFinite
<1> QED BY <1>2, <1>3

\* A group flags a key when it discards a row younger than all it keeps of it and, with
\* the survivor guard, keeps one row.
LEMMA FlagMeans ==
    ASSUME NEW t, Studied(t), NEW g, NEW k, NEW guard \in BOOLEAN
    PROVE  LET Live == RowsOf(GroupRows(t, g), k) \cap LiveRows(t)
               Dead == RowsOf(GroupRows(t, g), k) \cap DeadRows(t)
           IN  StaleWin(t, g, k, guard) <=>
                  /\ Live # {} /\ \E d \in Dead : \A s \in Live : d.ver > s.ver
                  /\ guard => \E s : Live = {s}
<1> DEFINE Live == RowsOf(GroupRows(t, g), k) \cap LiveRows(t)
           Dead == RowsOf(GroupRows(t, g), k) \cap DeadRows(t)
<1>1. Live \subseteq t.data /\ Dead \subseteq t.data BY DEF LiveRows, DeadRows
<1>2. DeadIn(t, g, k) = VersionsOf(Dead) /\ LiveIn(t, g, k) = Live BY DEF DeadIn, LiveIn
<1> HIDE DEF Live, Dead
<1>3. /\ Live \in SUBSET Row(Nat, Nat) /\ IsFiniteSet(Live)
      /\ Dead \in SUBSET Row(Nat, Nat) /\ IsFiniteSet(Dead)
  BY <1>1, FS_Subset DEF Studied
<1>4. Cardinality(Live) = 1 <=> \E s : Live = {s} BY <1>3, FS_Singleton
<1>5. StaleWin(t, g, k, guard) <=>
         /\ VersionsOf(Dead) # {} /\ Live # {}
         /\ Max(VersionsOf(Dead)) > Max(VersionsOf(Live))
         /\ guard => Cardinality(Live) = 1
  BY <1>2 DEF StaleWin
<1>6. ASSUME Live # {}, Dead # {}
      PROVE  Max(VersionsOf(Dead)) > Max(VersionsOf(Live)) <=> \E d \in Dead : \A s \in Live : d.ver > s.ver
  <2> DEFINE A == VersionsOf(Dead)
             B == VersionsOf(Live)
  <2>1. A = {d.ver : d \in Dead} /\ B = {s.ver : s \in Live} BY <1>3, ValuesAre
  <2>2. A \in SUBSET Nat /\ IsFiniteSet(A) /\ A # {} /\ B \in SUBSET Nat /\ IsFiniteSet(B) /\ B # {}
    BY <1>3, <1>6, ValuesAre
  <2> HIDE DEF A, B
  <2>3. Max(A) > Max(B) <=> \E a \in A : \A b \in B : a > b BY <2>2, MaxAbove
  <2>4. (\E a \in A : \A b \in B : a > b) <=> \E d \in Dead : \A s \in Live : d.ver > s.ver
    BY <2>1
  <2> QED BY <2>3, <2>4 DEF A, B
<1>7. VersionsOf(Dead) # {} <=> Dead # {} BY <1>3, ValuesAre
<1>8. StaleWin(t, g, k, guard) <=>
         /\ Live # {} /\ \E d \in Dead : \A s \in Live : d.ver > s.ver
         /\ guard => \E s : Live = {s}
  BY <1>4, <1>5, <1>6, <1>7
<1> QED BY <1>8 DEF Live, Dead

\* A group with every row of a key judges it as the whole table would, and one with
\* none of them does not flag it.
LEMMA WholeKey ==
    ASSUME NEW t, Studied(t), NEW g, NEW k, NEW guard \in BOOLEAN
    PROVE  /\ (\A r \in RowsOf(t.data, k) : r.file \in g) =>
                 (k \in FlaggedIn(t, g, guard) <=> Outranked(t, k) /\ (guard => OneSurvivor(t, k)))
           /\ k \in FlaggedIn(t, g, guard) => \E r \in RowsOf(t.data, k) : r.file \in g
<1>1. k \in FlaggedIn(t, g, guard) <=>
         /\ \E r \in GroupRows(t, g) : r.key = k
         /\ StaleWin(t, g, k, guard)
  BY DEF FlaggedIn
<1>2. ASSUME \A r \in RowsOf(t.data, k) : r.file \in g
      PROVE  k \in FlaggedIn(t, g, guard) <=> Outranked(t, k) /\ (guard => OneSurvivor(t, k))
  <2>1. RowsOf(GroupRows(t, g), k) = RowsOf(t.data, k) BY <1>2 DEF RowsOf, GroupRows
  <2>2. /\ RowsOf(GroupRows(t, g), k) \cap LiveRows(t) = RowsOf(LiveRows(t), k)
        /\ RowsOf(GroupRows(t, g), k) \cap DeadRows(t) = RowsOf(DeadRows(t), k)
    BY <2>1 DEF RowsOf, LiveRows, DeadRows
  <2>3. StaleWin(t, g, k, guard) <=> Outranked(t, k) /\ (guard => OneSurvivor(t, k))
    <3> DEFINE Live == RowsOf(GroupRows(t, g), k) \cap LiveRows(t)
               Dead == RowsOf(GroupRows(t, g), k) \cap DeadRows(t)
    <3>1. StaleWin(t, g, k, guard) <=>
             /\ Live # {} /\ \E d \in Dead : \A s \in Live : d.ver > s.ver
             /\ guard => \E s : Live = {s}
      BY FlagMeans
    <3>2. Live = RowsOf(LiveRows(t), k) /\ Dead = RowsOf(DeadRows(t), k) BY <2>2
    <3> HIDE DEF Live, Dead
    <3> QED BY <3>1, <3>2 DEF Outranked, OneSurvivor
  <2>4. Outranked(t, k) => \E r \in GroupRows(t, g) : r.key = k
    BY <2>1 DEF Outranked, RowsOf, LiveRows
  <2> QED BY <1>1, <2>3, <2>4
<1>3. k \in FlaggedIn(t, g, guard) => \E r \in RowsOf(t.data, k) : r.file \in g
  BY <1>1 DEF RowsOf, GroupRows
<1> QED BY <1>2, <1>3

\* The ordering values of a sequence number in a group.
LEMMA SpanIs ==
    ASSUME NEW t, Studied(t), NEW g, NEW q \in SeqsOf(t, g)
    PROVE  LET span == SeqSpan(t, g, q)
           IN  /\ Min(span) \in Nat /\ Max(span) \in Nat
               /\ \A r \in GroupRows(t, g) : r.seq = q => Min(span) <= r.ver /\ r.ver <= Max(span)
               /\ \E r \in GroupRows(t, g) : r.seq = q /\ r.ver = Min(span)
               /\ \E r \in GroupRows(t, g) : r.seq = q /\ r.ver = Max(span)
<1> DEFINE rows == {r \in GroupRows(t, g) : r.seq = q}
           span == SeqSpan(t, g, q)
<1>1. rows \subseteq t.data /\ rows # {} BY DEF GroupRows, SeqsOf
<1>2. span = {r.ver : r \in rows} BY DEF SeqSpan
<1> HIDE DEF rows, span
<1>3. rows \in SUBSET Row(Nat, Nat) /\ IsFiniteSet(rows) BY <1>1, FS_Subset DEF Studied
<1>4. span \in SUBSET Nat /\ IsFiniteSet(span) /\ span # {}
  <2>1. VersionsOf(rows) = span BY <1>2, <1>3, ValuesAre
  <2> QED BY <1>1, <1>3, <2>1, ValuesAre
<1>5. /\ Max(span) \in span /\ \A v \in span : Max(span) >= v
      /\ Min(span) \in span /\ \A v \in span : Min(span) <= v
  BY <1>4, MaxMin
<1>6. \A r \in rows : r.ver \in span /\ r.ver \in Nat BY <1>2, <1>4
<1>7. \A r \in rows : Min(span) <= r.ver /\ r.ver <= Max(span)
  <2> SUFFICES ASSUME NEW r \in rows PROVE Min(span) <= r.ver /\ r.ver <= Max(span) OBVIOUS
  <2>1. Max(span) \in Nat /\ Min(span) \in Nat /\ r.ver \in Nat /\ Max(span) >= r.ver /\ Min(span) <= r.ver
    BY <1>4, <1>5, <1>6
  <2> QED BY <2>1
<1>8. (\E r \in rows : r.ver = Min(span)) /\ (\E r \in rows : r.ver = Max(span)) BY <1>2, <1>5
<1>9. Max(span) \in Nat /\ Min(span) \in Nat BY <1>4, <1>5
<1> QED BY <1>7, <1>8, <1>9 DEF rows, span

\* The gate lets through no group that flags a key, whatever the guard: what it keeps of
\* the key lies at a higher sequence number than what it discards, which is younger.
LEMMA GateClearsNone ==
    ASSUME NEW t, Studied(t), t \in Table(Nat, Nat), NEW g, NEW guard \in BOOLEAN,
           NEW k \in FlaggedIn(t, g, guard)
    PROVE  MayContainStaleWins(t, g)
<1>1. StaleWin(t, g, k, guard) BY DEF FlaggedIn
<1>2. PICK s \in RowsOf(GroupRows(t, g), k) \cap LiveRows(t), d \in RowsOf(GroupRows(t, g), k) \cap DeadRows(t) :
         d.ver > s.ver
  BY <1>1, FlagMeans
<1>3. /\ s \in GroupRows(t, g) /\ s \in LiveRows(t) /\ d \in GroupRows(t, g) /\ d \in DeadRows(t)
      /\ d.key = s.key /\ s \in t.data /\ d \in t.data
  BY <1>2 DEF RowsOf, GroupRows
<1>4. d.seq < s.seq BY <1>3, DiscardedBeforeSurvivor
<1>5. d.seq \in SeqsOf(t, g) /\ s.seq \in SeqsOf(t, g) BY <1>3 DEF SeqsOf
<1>6. /\ Min(SeqSpan(t, g, s.seq)) \in Nat /\ Min(SeqSpan(t, g, s.seq)) <= s.ver
      /\ Max(SeqSpan(t, g, d.seq)) \in Nat /\ d.ver <= Max(SeqSpan(t, g, d.seq))
  BY <1>3, <1>5, SpanIs
<1>7. s.ver \in Nat /\ d.ver \in Nat BY <1>3 DEF Studied, Row
<1>8. Min(SeqSpan(t, g, s.seq)) < Max(SeqSpan(t, g, d.seq)) BY <1>2, <1>6, <1>7
<1> QED BY <1>4, <1>5, <1>8 DEF MayContainStaleWins

\* What the checker reports of the table is what one group of all its files flags.
LEMMA CheckerMeans ==
    ASSUME NEW t, Studied(t), t \in Table(Nat, Nat), NEW k
    PROVE  k \in StaleWinsKeys(t) <=> Outranked(t, k) /\ OneSurvivor(t, k)
<1>1. Nat \subseteq Nat \cup {NoVersion} OBVIOUS
<1>2. Classify(Layout(t, k, TRUE, FALSE)) = "STALE_WINS" <=>
         \E s : /\ RowsOf(LiveRows(t), k) = {s} /\ s.ver # NoVersion
                /\ \E d \in RowsOf(t.data, k) : d.ver # NoVersion /\ d.ver > s.ver
  BY <1>1, StaleWinsMeaning DEF Studied
<1>3. \A r \in RowsOf(t.data, k) : r.ver \in Nat /\ r.ver # NoVersion
  BY NoVersionAssumption DEF RowsOf, Studied, Row
<1>4. RowsOf(t.data, k) = RowsOf(LiveRows(t), k) \cup RowsOf(DeadRows(t), k)
  BY DEF RowsOf, LiveRows, DeadRows
<1>5. ASSUME NEW s, RowsOf(LiveRows(t), k) = {s}
      PROVE  Outranked(t, k) <=>
                s.ver # NoVersion /\ \E d \in RowsOf(t.data, k) : d.ver # NoVersion /\ d.ver > s.ver
  <2>1. Outranked(t, k) <=> \E d \in RowsOf(DeadRows(t), k) : d.ver > s.ver BY <1>5 DEF Outranked
  <2>2. s \in RowsOf(t.data, k) BY <1>4, <1>5
  <2>3. s.ver \in Nat /\ ~(s.ver > s.ver) BY <1>3, <2>2
  <2>4. \A d \in RowsOf(t.data, k) : d \in RowsOf(DeadRows(t), k) \/ d = s BY <1>4, <1>5
  <2> QED BY <1>3, <1>4, <2>1, <2>2, <2>3, <2>4
<1>6. Outranked(t, k) => k \in LayoutKeys(t) BY DEF Outranked, LayoutKeys, RowsOf, LiveRows
<1>7. k \in StaleWinsKeys(t) <=> k \in LayoutKeys(t) /\ Classify(Layout(t, k, TRUE, FALSE)) = "STALE_WINS"
  BY DEF StaleWinsKeys, KeysWith
<1> QED BY <1>2, <1>5, <1>6, <1>7 DEF OneSurvivor

-----------------------------------------------------------------------------
\* The closed form of one key.

\* The table of a run without interleaved rows is one a study reads.
LEMMA FinishedIsStudied ==
    ASSUME cfg \in Configs, NEW t, Ingested(t, cfg.C)
    PROVE  Studied(t) /\ t \in Table(Nat, Nat) /\ t.data # {}
<1>1. cfg.C \in Nat /\ cfg.C >= 1 BY ParamsAre
<1>2. \A d \in [key : Nat, seq : 1..cfg.C] : d \in Del(Nat) BY <1>1 DEF Del
<1>3. Studied(t) /\ t.data # {} BY <1>1, <1>2 DEF Ingested, Studied
<1>4. t = [data |-> t.data, dels |-> t.dels] BY DEF Ingested
<1>5. t \in Table(Nat, Nat) BY <1>3, <1>4 DEF Studied, Table
<1> QED BY <1>3, <1>5

\* A duplicated key is deleted by the last commit: only that survives.
LEMMA DupIsLast ==
    ASSUME cfg \in Configs, NEW k \in DupKeys
    PROVE  FirstSurvivor(LastDelete(k)) = cfg.C
<1> DEFINE last == LastDelete(k)
           C == cfg.C
<1>1. /\ last \in {0} \cup 2..C /\ \A c \in 2..C : k \in DelWindow(c) => c <= last
      /\ FirstSurvivor(last) = IF last = 0 THEN 1 ELSE last
  BY LastDeleteIs
<1>2. C \in Nat \ {0} BY ParamsAre
<1>3. C >= 2 => k \in DelWindow(C) BY DupKeysAre
<1> HIDE DEF last, C
<1>4. ASSUME C >= 2 PROVE FirstSurvivor(last) = C
  <2>1. C \in 2..C BY <1>2, <1>4
  <2>2. C <= last BY <1>1, <1>3, <1>4, <2>1
  <2> QED BY <1>1, <1>2, <1>4, <2>2
<1>5. ASSUME ~(C >= 2) PROVE FirstSurvivor(last) = C BY <1>1, <1>2, <1>5
<1> QED BY <1>4, <1>5 DEF last, C

\* A key is risky if a discarded commit orders after all the surviving ones.
LEMMA RiskyIs ==
    ASSUME cfg \in Configs, NEW k
    PROVE  LET first == FirstSurvivor(LastDelete(k))
           IN  Risky(LastDelete(k)) <=>
                  \E c \in 1..first - 1 : \A e \in first..cfg.C : LsnBase(c) > LsnBase(e)
<1> DEFINE C == cfg.C
           d == LastDelete(k)
           first == FirstSurvivor(d)
           A == Prefix(d)
           B == Suffix(d)
           I == 1..first - 1
           J == first..C
           base == [c \in 1..C |-> LsnBase(c)]
<1>1. first \in 1..C /\ C \in Nat \ {0} BY LastDeleteIs, ParamsAre
<1>2. A = {LsnBase(c) : c \in I} /\ B = {LsnBase(c) : c \in J} BY DEF Prefix, Suffix
<1>3. \A c \in 1..C : base[c] = LsnBase(c) /\ base[c] \in Nat
  <2> SUFFICES ASSUME NEW c \in 1..C PROVE LsnBase(c) \in Nat OBVIOUS
  <2>1. c \in Nat \ {0} BY <1>1
  <2> QED BY <2>1, BaseIs
<1> HIDE DEF d, C
<1> HIDE DEF first, A, B, base
<1>4. I \subseteq 1..C /\ J \subseteq 1..C /\ IsFiniteSet(I) /\ IsFiniteSet(J) /\ J # {}
  <2>1. 1 \in Int /\ first - 1 \in Int /\ first \in Int /\ C \in Int BY <1>1
  <2>2. IsFiniteSet(1..first - 1) /\ IsFiniteSet(first..C) BY <2>1, FS_Interval
  <2>3. first \in first..C /\ 1..first - 1 \subseteq 1..C /\ first..C \subseteq 1..C BY <1>1
  <2> QED BY <2>2, <2>3
<1> HIDE DEF I, J
<1>5. A = {base[c] : c \in I} /\ B = {base[c] : c \in J} BY <1>2, <1>3, <1>4
<1>6. IsFiniteSet(A) /\ IsFiniteSet(B)
  <2>1. IsFiniteSet({base[c] : c \in I}) /\ IsFiniteSet({base[c] : c \in J}) BY <1>4, RowsFinite
  <2> QED BY <1>5, <2>1
<1>7. A \in SUBSET Nat /\ B \in SUBSET Nat /\ B # {} BY <1>3, <1>4, <1>5
<1>8. A # {} => (Max(A) > Max(B) <=> \E a \in A : \A b \in B : a > b) BY <1>6, <1>7, MaxAbove
<1>9. Risky(d) <=> A # {} /\ Max(A) > Max(B) BY DEF Risky, A, B
<1>10. Risky(d) <=> \E a \in A : \A b \in B : a > b BY <1>8, <1>9
<1>11. (\E a \in A : \A b \in B : a > b) <=> \E c \in I : \A e \in J : LsnBase(c) > LsnBase(e)
  BY <1>2
<1> QED BY <1>10, <1>11 DEF I, J, d, C, first

\* The second copy of a duplicated key that survives: of the last commit, or, if there is
\* only one commit, the injected version itself.
Extra(k) == IF cfg.C >= 2 THEN Copy(k) ELSE Injected(k)

\* What a reader sees of a key, and what the deletes hide from it.
LEMMA KeySplits ==
    ASSUME NEW t, Finished(t), NEW k \in Keys
    PROVE  LET first == FirstSurvivor(LastDelete(k))
           IN  \E j \in 1..cfg.files :
                  /\ RowsOf(LiveRows(t), k) =
                        {Plain(c, j, k) : c \in first..cfg.C} \cup (IF k \in DupKeys THEN {Extra(k)} ELSE {})
                  /\ RowsOf(DeadRows(t), k) =
                        {Plain(c, j, k) : c \in 1..first - 1}
                           \cup (IF k \in DupKeys /\ cfg.C >= 2 THEN {Injected(k)} ELSE {})
<1> DEFINE C == cfg.C
           first == FirstSurvivor(LastDelete(k))
<1>1. PICK j \in 1..cfg.files :
         RowsOf(t.data, k) =
            {Plain(c, j, k) : c \in 1..C}
               \cup (IF k \in DupKeys THEN {Injected(k)} ELSE {})
               \cup (IF k \in DupKeys /\ C >= 2 THEN {Copy(k)} ELSE {})
  BY KeyRowsAre
<1>2. C \in Nat \ {0} /\ first \in 1..C /\ (k \in DupKeys => first = C)
  BY ParamsAre, LastDeleteIs, DupIsLast DEF Finished
<1>3. \A r \in RowsOf(t.data, k) : IsDeleted(t, r) <=> r.commit < first BY SurvivesFrom DEF RowsOf
<1>4. (\A c : Plain(c, j, k).commit = c) /\ Injected(k).commit = 1 /\ Copy(k).commit = C
  BY DEF Plain, Injected, Copy, NewRow
<1>5. /\ RowsOf(LiveRows(t), k) = {r \in RowsOf(t.data, k) : ~IsDeleted(t, r)}
      /\ RowsOf(DeadRows(t), k) = {r \in RowsOf(t.data, k) : IsDeleted(t, r)}
  BY DEF RowsOf, LiveRows, DeadRows
<1>6. Extra(k) = IF C >= 2 THEN Copy(k) ELSE Injected(k) BY DEF Extra
<1> HIDE DEF C, first
<1>7. ASSUME NEW r
      PROVE  r \in RowsOf(t.data, k) <=>
                \/ \E c \in 1..C : r = Plain(c, j, k)
                \/ k \in DupKeys /\ r = Injected(k)
                \/ k \in DupKeys /\ C >= 2 /\ r = Copy(k)
  BY <1>1
<1>8. ASSUME NEW r
      PROVE  r \in RowsOf(LiveRows(t), k) <=>
                (\E c \in first..C : r = Plain(c, j, k)) \/ (k \in DupKeys /\ r = Extra(k))
  <2>1. r \in RowsOf(LiveRows(t), k) <=> r \in RowsOf(t.data, k) /\ ~(r.commit < first) BY <1>3, <1>5
  <2>2. (\E c \in 1..C : r = Plain(c, j, k)) /\ ~(r.commit < first) <=> \E c \in first..C : r = Plain(c, j, k)
    BY <1>2, <1>4
  <2>3. CASE k \notin DupKeys BY <1>7, <2>1, <2>2, <2>3
  <2>4. CASE k \in DupKeys /\ C >= 2
    <3>1. first = C /\ 1 < first /\ ~(C < first) BY <1>2, <2>4
    <3> QED BY <1>4, <1>6, <1>7, <2>1, <2>2, <2>4, <3>1
  <2>5. CASE k \in DupKeys /\ ~(C >= 2)
    <3>1. first = 1 /\ ~(1 < first) BY <1>2, <2>5
    <3> QED BY <1>4, <1>6, <1>7, <2>1, <2>2, <2>5, <3>1
  <2> QED BY <2>3, <2>4, <2>5
<1>9. ASSUME NEW r
      PROVE  r \in RowsOf(DeadRows(t), k) <=>
                \/ \E c \in 1..first - 1 : r = Plain(c, j, k)
                \/ k \in DupKeys /\ C >= 2 /\ r = Injected(k)
  <2>1. r \in RowsOf(DeadRows(t), k) <=> r \in RowsOf(t.data, k) /\ r.commit < first BY <1>3, <1>5
  <2>2. (\E c \in 1..C : r = Plain(c, j, k)) /\ r.commit < first <=> \E c \in 1..first - 1 : r = Plain(c, j, k)
    BY <1>2, <1>4
  <2>3. CASE k \notin DupKeys BY <1>7, <2>1, <2>2, <2>3
  <2>4. CASE k \in DupKeys /\ C >= 2
    <3>1. first = C /\ 1 < first /\ ~(C < first) BY <1>2, <2>4
    <3> QED BY <1>4, <1>7, <2>1, <2>2, <2>4, <3>1
  <2>5. CASE k \in DupKeys /\ ~(C >= 2)
    <3>1. ~(1 < first) BY <1>2, <2>5
    <3> QED BY <1>4, <1>7, <2>1, <2>2, <2>5, <3>1
  <2> QED BY <2>3, <2>4, <2>5
<1>10. RowsOf(LiveRows(t), k) = {Plain(c, j, k) : c \in first..C} \cup (IF k \in DupKeys THEN {Extra(k)} ELSE {})
  BY <1>8
<1>11. RowsOf(DeadRows(t), k) =
          {Plain(c, j, k) : c \in 1..first - 1} \cup (IF k \in DupKeys /\ C >= 2 THEN {Injected(k)} ELSE {})
  BY <1>9
<1> QED BY <1>10, <1>11 DEF C, first

\* The rows a reader sees of a key are as many as the closed form counts.
LEMMA CountIs ==
    ASSUME NEW t, Finished(t), NEW k \in Keys
    PROVE  /\ IsFiniteSet(RowsOf(LiveRows(t), k)) /\ Cardinality(RowsOf(LiveRows(t), k)) = SurvivorCount(k)
           /\ SurvivorCount(k) \in Nat \ {0}
           /\ SurvivorCount(k) = 1 <=> k \notin DupKeys /\ FirstSurvivor(LastDelete(k)) = cfg.C
<1> DEFINE C == cfg.C
           first == FirstSurvivor(LastDelete(k))
           Live == RowsOf(LiveRows(t), k)
<1>1. PICK j \in 1..cfg.files :
         Live = {Plain(c, j, k) : c \in first..C} \cup (IF k \in DupKeys THEN {Extra(k)} ELSE {})
  BY KeySplits
<1>2. /\ C \in Nat \ {0} /\ first \in 1..C /\ cfg.files \in Nat
  BY ParamsAre, LastDeleteIs DEF Finished
<1>3. SurvivorCount(k) = C - first + 1 + (IF k \in DupKeys THEN 1 ELSE 0) BY DEF SurvivorCount
<1> DEFINE P == {Plain(c, j, k) : c \in first..C}
<1>4. (\A c : Plain(c, j, k).commit = c /\ Plain(c, j, k).part = j) /\ Extra(k).part = cfg.files + 1
  BY DEF Plain, Injected, Copy, Extra, NewRow, DupFile
<1> HIDE DEF C, first, Live
<1>5. Extra(k) \notin P
  <2>1. j # cfg.files + 1 BY <1>2
  <2> QED BY <1>4, <2>1
<1>6. IsFiniteSet(P) /\ Cardinality(P) = (C - first) + 1
  <2>1. first \in Int /\ C \in Int /\ ~(first > C) BY <1>2
  <2>2. IsFiniteSet(first..C) /\ Cardinality(first..C) = (C - first) + 1
    <3>1. IsFiniteSet(first..C) /\ Cardinality(first..C) = C - first + 1 BY <2>1, FS_Interval
    <3>2. C - first + 1 = (C - first) + 1 BY <2>1
    <3> QED BY <3>1, <3>2
  <2> DEFINE f == [c \in first..C |-> Plain(c, j, k)]
  <2>3. f \in Bijection(first..C, P)
    <3>1. f \in [first..C -> P] OBVIOUS
    <3>2. \A a, b \in first..C : f[a] = f[b] => a = b BY <1>4
    <3>3. \A r \in P : \E c \in first..C : f[c] = r OBVIOUS
    <3> HIDE DEF f, P
    <3> QED BY <3>1, <3>2, <3>3 DEF Bijection, Injection, Surjection, IsInjective
  <2>4. ExistsBijection(first..C, P) BY <2>3 DEF ExistsBijection
  <2> HIDE DEF P
  <2> QED BY <2>2, <2>4, FS_Bijection
<1> HIDE DEF P
<1>7. IsFiniteSet(P \cup {Extra(k)}) /\ Cardinality(P \cup {Extra(k)}) = Cardinality(P) + 1
  BY <1>5, <1>6, FS_AddElement
<1>8. Live = IF k \in DupKeys THEN P \cup {Extra(k)} ELSE P BY <1>1 DEF P
<1>9. IsFiniteSet(Live) /\ Cardinality(Live) = SurvivorCount(k)
  <2>1. CASE k \in DupKeys
    <3>1. Cardinality(Live) = ((C - first) + 1) + 1 BY <1>6, <1>7, <1>8, <2>1
    <3>2. ((C - first) + 1) + 1 = C - first + 1 + 1 BY <1>2
    <3> QED BY <1>3, <1>7, <1>8, <2>1, <3>1, <3>2
  <2>2. CASE k \notin DupKeys
    <3>1. Cardinality(Live) = (C - first) + 1 BY <1>6, <1>8, <2>2
    <3>2. (C - first) + 1 = C - first + 1 + 0 BY <1>2
    <3> QED BY <1>3, <1>6, <1>8, <2>2, <3>1, <3>2
  <2> QED BY <2>1, <2>2
<1>10. SurvivorCount(k) \in Nat \ {0} /\ (SurvivorCount(k) = 1 <=> k \notin DupKeys /\ first = C)
  <2>1. CASE k \in DupKeys BY <1>2, <1>3, <2>1
  <2>2. CASE k \notin DupKeys BY <1>2, <1>3, <2>2
  <2> QED BY <2>1, <2>2
<1> QED BY <1>9, <1>10 DEF Live, C, first

\* The ordering values written.
LEMMA WrittenValues ==
    ASSUME cfg \in Configs, NEW k \in Keys
    PROVE  /\ \A c \in 1..cfg.C : \A j : /\ Plain(c, j, k).ver = LsnBase(c) + (k - 1)
                                         /\ LsnBase(c) \in Nat /\ LsnBase(c) <= c * Spacing
           /\ k - 1 \in Nat
           /\ Copy(k).ver = (LsnBase(cfg.C) + DupLsnOff) + (k - 1)
           /\ Injected(k).ver = HighLsn + (k - 1)
<1>1. cfg.C \in Nat \ {0} /\ k \in Nat \ {0} /\ k - 1 \in Nat BY ParamsAre DEF Keys
<1>2. \A c \in 1..cfg.C : c \in Nat \ {0} BY <1>1
<1>3. \A c \in 1..cfg.C : \A j : /\ Plain(c, j, k).ver = LsnBase(c) + (k - 1)
                                 /\ LsnBase(c) \in Nat /\ LsnBase(c) <= c * Spacing
  BY <1>2, BaseIs DEF Plain, NewRow
<1>4. LsnBase(cfg.C) \in Nat /\ DupLsnOff \in Nat /\ HighLsn \in Nat BY <1>1, BaseIs, ParamsAre
<1>5. Copy(k).ver = LsnBase(cfg.C) + DupLsnOff + k - 1 /\ Injected(k).ver = HighLsn + k - 1
  BY DEF Copy, Injected, NewRow
<1>6. LsnBase(cfg.C) + DupLsnOff + k - 1 = (LsnBase(cfg.C) + DupLsnOff) + (k - 1)
      /\ HighLsn + k - 1 = HighLsn + (k - 1)
  BY <1>1, <1>4
<1> QED BY <1>1, <1>3, <1>5, <1>6

\* The injected version is above the last commit's copies (iceberg_driver.py lines 90 and 152).
HighAbove == LsnBase(cfg.C) + DupLsnOff < HighLsn

\* The rows of a key, judged by the closed form.
LEMMA OutrankedIs ==
    ASSUME NEW t, Finished(t), NEW k \in Keys
    PROVE  /\ k \notin DupKeys => (Outranked(t, k) <=> Risky(LastDelete(k)))
           /\ k \in DupKeys /\ cfg.C >= 2 /\ HighAbove => Outranked(t, k)
           /\ k \in DupKeys /\ cfg.C >= 2 =>
                  (HighAbove <=> \A s \in RowsOf(LiveRows(t), k) : Injected(k).ver > s.ver)
           /\ OneSurvivor(t, k) <=> SurvivorCount(k) = 1
<1> DEFINE C == cfg.C
           first == FirstSurvivor(LastDelete(k))
           Live == RowsOf(LiveRows(t), k)
           Dead == RowsOf(DeadRows(t), k)
           m == k - 1
<1>1. PICK j \in 1..cfg.files :
         /\ Live = {Plain(c, j, k) : c \in first..C} \cup (IF k \in DupKeys THEN {Extra(k)} ELSE {})
         /\ Dead = {Plain(c, j, k) : c \in 1..first - 1}
                      \cup (IF k \in DupKeys /\ C >= 2 THEN {Injected(k)} ELSE {})
  BY KeySplits
<1>2. C \in Nat \ {0} /\ first \in 1..C /\ (k \in DupKeys => first = C)
  BY ParamsAre, LastDeleteIs, DupIsLast DEF Finished
<1>3. /\ \A c \in 1..C : Plain(c, j, k).ver = LsnBase(c) + m /\ LsnBase(c) \in Nat /\ LsnBase(c) <= c * Spacing
      /\ m \in Nat
      /\ Copy(k).ver = (LsnBase(C) + DupLsnOff) + m
      /\ Injected(k).ver = HighLsn + m
  BY WrittenValues DEF Finished
<1>4. Risky(LastDelete(k)) <=> \E c \in 1..first - 1 : \A e \in first..C : LsnBase(c) > LsnBase(e)
  BY RiskyIs DEF Finished
<1>5. IsFiniteSet(Live) /\ Cardinality(Live) = SurvivorCount(k) BY CountIs
<1>6. Extra(k) = IF C >= 2 THEN Copy(k) ELSE Injected(k) BY DEF Extra
<1>7. Outranked(t, k) <=> Live # {} /\ \E d \in Dead : \A s \in Live : d.ver > s.ver BY DEF Outranked
<1>8. HighAbove <=> LsnBase(C) + DupLsnOff < HighLsn BY DEF HighAbove
<1>9. OneSurvivor(t, k) <=> \E s : Live = {s} BY DEF OneSurvivor
<1> HIDE DEF C, first, Live, Dead, m
<1>10. ASSUME k \notin DupKeys PROVE Outranked(t, k) <=> Risky(LastDelete(k))
  <2>1. Live = {Plain(c, j, k) : c \in first..C} /\ Dead = {Plain(c, j, k) : c \in 1..first - 1}
    BY <1>1, <1>10
  <2>2. first \in first..C /\ first..C \subseteq 1..C /\ 1..first - 1 \subseteq 1..C BY <1>2
  <2>3. Live # {} BY <2>1, <2>2
  <2>4. ASSUME NEW c \in 1..C, NEW e \in 1..C
        PROVE  Plain(c, j, k).ver > Plain(e, j, k).ver <=> LsnBase(c) > LsnBase(e)
    BY <1>3
  <2>5. (\E d \in Dead : \A s \in Live : d.ver > s.ver)
           <=> \E c \in 1..first - 1 : \A e \in first..C : LsnBase(c) > LsnBase(e)
    <3>1. (\E d \in Dead : \A s \in Live : d.ver > s.ver)
             <=> \E c \in 1..first - 1 : \A e \in first..C : Plain(c, j, k).ver > Plain(e, j, k).ver
      BY <2>1
    <3> QED BY <2>2, <2>4, <3>1
  <2> QED BY <1>4, <1>7, <2>3, <2>5
<1>11. ASSUME k \in DupKeys, C >= 2
       PROVE  /\ HighAbove <=> \A s \in Live : Injected(k).ver > s.ver
              /\ HighAbove => Outranked(t, k)
  <2>1. first = C /\ Extra(k) = Copy(k) BY <1>2, <1>6, <1>11
  <2>2. C..C = {C} /\ C \in 1..C BY <1>2
  <2>3. Live = {Plain(C, j, k), Copy(k)} /\ Injected(k) \in Dead BY <1>1, <1>11, <2>1, <2>2
  <2>4. /\ Plain(C, j, k).ver = LsnBase(C) + m /\ LsnBase(C) \in Nat
        /\ DupLsnOff \in Nat /\ HighLsn \in Nat
    BY <1>3, <2>2, ParamsAre DEF Finished
  <2>5. HighAbove <=> Injected(k).ver > Plain(C, j, k).ver /\ Injected(k).ver > Copy(k).ver
    BY <1>3, <1>8, <2>4
  <2>6. HighAbove <=> \A s \in Live : Injected(k).ver > s.ver BY <2>3, <2>5
  <2> QED BY <1>7, <2>3, <2>6
<1>12. OneSurvivor(t, k) <=> SurvivorCount(k) = 1 BY <1>5, <1>9, FS_Singleton
<1> QED BY <1>10, <1>11, <1>12 DEF C, Live

\* What the closed form expects is what the rows say, key by key.
LEMMA ExpectedAre ==
    ASSUME NEW t, Finished(t), NEW k
    PROVE  /\ k \in ExpectedStaleWins <=> Outranked(t, k) /\ OneSurvivor(t, k)
           /\ Outranked(t, k) => k \in Keys /\ (k \in ExpectedStaleWins \/ k \in ExpectedDupRisky)
           /\ ~(k \in ExpectedStaleWins /\ k \in ExpectedDupRisky)
           /\ cfg.C >= 2 /\ (cfg.nDup = 0 \/ HighAbove) /\ k \in ExpectedDupRisky => Outranked(t, k)
           /\ cfg.nDup = 0 /\ ~cfg.inverted => ~Outranked(t, k)
<1>1. k \notin Keys => ~Outranked(t, k)
  <2>1. RowsOf(LiveRows(t), k) \subseteq RowsOf(t.data, k) BY DEF RowsOf, LiveRows
  <2> QED BY <2>1, KeyRowsAre DEF Outranked
<1>2. ExpectedStaleWins \subseteq Keys /\ ExpectedDupRisky \subseteq Keys
  BY DupKeysAre DEF ExpectedStaleWins, ExpectedDupRisky, Finished
<1>3. CASE k \notin Keys BY <1>1, <1>2, <1>3
<1>4. CASE k \in Keys
  <2>1. /\ k \notin DupKeys => (Outranked(t, k) <=> Risky(LastDelete(k)))
        /\ k \in DupKeys /\ cfg.C >= 2 /\ HighAbove => Outranked(t, k)
        /\ OneSurvivor(t, k) <=> SurvivorCount(k) = 1
    BY <1>4, OutrankedIs
  <2>2. SurvivorCount(k) \in Nat \ {0} /\ (SurvivorCount(k) = 1 => k \notin DupKeys)
    BY <1>4, CountIs
  <2>3. k \in ExpectedStaleWins <=> k \notin DupKeys /\ Risky(LastDelete(k)) /\ SurvivorCount(k) = 1
    BY <1>4 DEF ExpectedStaleWins
  <2>4. k \in ExpectedDupRisky <=> k \in DupKeys \/ (Risky(LastDelete(k)) /\ SurvivorCount(k) > 1)
    BY <1>4 DEF ExpectedDupRisky
  <2>5. SurvivorCount(k) > 1 <=> SurvivorCount(k) # 1 BY <2>2
  <2>6. cfg.nDup = 0 => k \notin DupKeys BY DupKeysAre DEF Finished
  <2>7. ASSUME cfg.nDup = 0, ~cfg.inverted PROVE ~Outranked(t, k)
    <3> DEFINE first == FirstSurvivor(LastDelete(k))
    <3>1. k \notin DupKeys BY <2>6, <2>7 DEF Finished
    <3>2. first \in 1..cfg.C /\ cfg.C \in Nat BY LastDeleteIs, ParamsAre DEF Finished
    <3>3. Risky(LastDelete(k)) <=> \E c \in 1..first - 1 : \A e \in first..cfg.C : LsnBase(c) > LsnBase(e)
      BY RiskyIs DEF Finished
    <3> HIDE DEF first
    <3>4. ASSUME NEW c \in 1..first - 1 PROVE ~(LsnBase(c) > LsnBase(first)) /\ first \in first..cfg.C
      <4>1. c \in Nat \ {0} /\ first \in Nat \ {0} /\ first \in first..cfg.C /\ c < first BY <3>2
      <4>2. LsnBase(c) = c * Spacing /\ LsnBase(first) = first * Spacing BY <2>7, <4>1, BaseIs DEF Finished
      <4>3. c * Spacing <= first * Spacing /\ c * Spacing \in Nat /\ first * Spacing \in Nat
        <5>1. first = c + (first - c) /\ first - c \in Nat BY <4>1
        <5>2. \A x, y, z \in Nat : (x + y) * z = x * z + y * z /\ x * z \in Nat OBVIOUS
        <5>3. Spacing \in Nat BY ParamsAre DEF Finished
        <5>4. first * Spacing = c * Spacing + (first - c) * Spacing /\ c * Spacing \in Nat /\ (first - c) * Spacing \in Nat
          BY <4>1, <5>1, <5>2, <5>3
        <5> QED BY <5>4
      <4> QED BY <4>1, <4>2, <4>3
    <3> QED BY <2>1, <3>1, <3>3, <3>4
  <2> QED BY <1>4, <2>1, <2>2, <2>3, <2>4, <2>5, <2>6, <2>7
<1> QED BY <1>3, <1>4

-----------------------------------------------------------------------------
\* The rows a reader sees.

\* Two sets of which the elements correspond are equally large.
LEMMA Correspond ==
    ASSUME NEW S, IsFiniteSet(S), NEW T, NEW f \in [S -> T],
           \A a, b \in S : f[a] = f[b] => a = b, \A y \in T : \E a \in S : f[a] = y
    PROVE  IsFiniteSet(T) /\ Cardinality(T) = Cardinality(S)
<1>1. f \in Bijection(S, T) BY DEF Bijection, Injection, Surjection, IsInjective
<1>2. ExistsBijection(S, T) BY <1>1 DEF ExistsBijection
<1> QED BY <1>2, FS_Bijection

\* Over all keys the counts of the closed form add up to the rows a reader sees.
LEMMA LiveCount ==
    ASSUME NEW t, Finished(t)
    PROVE  IsFiniteSet(LiveRows(t)) /\ ExpectedLiveRows = Cardinality(LiveRows(t))
<1> DEFINE R == cfg.R
           step == [j \in 1..R |-> [x \in Nat |-> x + SurvivorCount(j)]]
           Upto(m) == {r \in LiveRows(t) : r.key \in 1..m}
<1>1. R \in Nat /\ Keys = 1..R BY ParamsAre DEF Finished, Keys
<1>2. \A k \in 1..R : /\ IsFiniteSet(RowsOf(LiveRows(t), k))
                      /\ Cardinality(RowsOf(LiveRows(t), k)) = SurvivorCount(k)
                      /\ SurvivorCount(k) \in Nat
  BY <1>1, CountIs
<1>3. IsFiniteSet(LiveRows(t))
  <2>1. LiveRows(t) \subseteq t.data /\ IsFiniteSet(t.data) BY DEF LiveRows, Finished, Ingested
  <2> QED BY <2>1, FS_Subset
<1> HIDE DEF R
<1>4. PICK f \in [0..R -> Nat] : f[0] = 0 /\ \A j \in 1..R : f[j] = f[j - 1] + SurvivorCount(j)
  <2>1. step \in [1..R -> [Nat -> Nat]] BY <1>2
  <2> HIDE DEF step
  <2>2. PICK f \in [0..R -> Nat] : IsPass(f, R, 0, step)
    <3>1. 0 \in Nat OBVIOUS
    <3> QED BY <1>1, <2>1, <3>1, Pass
  <2>3. \A j \in 1..R : f[j - 1] \in Nat /\ step[j][f[j - 1]] = f[j - 1] + SurvivorCount(j)
    BY <1>1 DEF step
  <2> QED BY <2>2, <2>3 DEF IsPass
<1> HIDE DEF step
<1> DEFINE Sums(g) == g = [k \in 0..R |-> IF k = 0 THEN 0 ELSE g[k - 1] + SurvivorCount(k)]
           total == CHOOSE g : Sums(g)
<1>5. ExpectedLiveRows = total[R] BY DEF ExpectedLiveRows, R
<1>6. Sums(f)
  <2>1. \A k \in 0..R : f[k] = IF k = 0 THEN 0 ELSE f[k - 1] + SurvivorCount(k)
    <3> SUFFICES ASSUME NEW k \in 0..R PROVE f[k] = IF k = 0 THEN 0 ELSE f[k - 1] + SurvivorCount(k) OBVIOUS
    <3>1. k # 0 => k \in 1..R BY <1>1
    <3> QED BY <1>4, <3>1
  <2> QED BY <2>1
<1>7. Sums(total)
  <2> HIDE DEF Sums
  <2> QED BY <1>6
<1>8. \A k \in 0..R : total[k] = IF k = 0 THEN 0 ELSE total[k - 1] + SurvivorCount(k)
  <2> HIDE DEF total
  <2> QED BY <1>7
<1> HIDE DEF Sums, total
<1> DEFINE T == {m \in 0..R : IsFiniteSet(Upto(m)) /\ total[m] = Cardinality(Upto(m))}
<1>9. 0 \in T
  <2>1. Upto(0) = {}
    <3>1. 1..0 = {} OBVIOUS
    <3> QED BY <3>1
  <2>2. total[0] = 0 /\ 0 \in 0..R BY <1>1, <1>8
  <2> HIDE DEF Upto
  <2> QED BY <2>1, <2>2, FS_EmptySet
<1>10. ASSUME NEW j \in 1..R, j - 1 \in T PROVE j \in T
  <2>1. j \in 0..R /\ j # 0 /\ 1..j = 1..j - 1 \cup {j} /\ j \notin 1..j - 1 BY <1>1
  <2>2. total[j] = total[j - 1] + SurvivorCount(j) BY <1>8, <2>1
  <2>3. Upto(j) = Upto(j - 1) \cup RowsOf(LiveRows(t), j) /\ Upto(j - 1) \cap RowsOf(LiveRows(t), j) = {}
    BY <2>1 DEF RowsOf
  <2>4. IsFiniteSet(Upto(j - 1)) /\ total[j - 1] = Cardinality(Upto(j - 1)) BY <1>10
  <2> HIDE DEF Upto
  <2>5. /\ IsFiniteSet(RowsOf(LiveRows(t), j)) /\ Cardinality(RowsOf(LiveRows(t), j)) = SurvivorCount(j)
        /\ SurvivorCount(j) \in Nat
    BY <1>2
  <2>6. /\ IsFiniteSet(Upto(j - 1) \cup RowsOf(LiveRows(t), j))
        /\ Cardinality(Upto(j - 1) \cup RowsOf(LiveRows(t), j)) =
              Cardinality(Upto(j - 1)) + SurvivorCount(j) - Cardinality({})
    BY <2>3, <2>4, <2>5, FS_Union
  <2>7. Cardinality({}) = 0 /\ Cardinality(Upto(j - 1)) \in Nat BY <2>4, FS_EmptySet, FS_CardinalityType
  <2>8. Cardinality(Upto(j)) = Cardinality(Upto(j - 1)) + SurvivorCount(j) /\ IsFiniteSet(Upto(j))
    BY <2>3, <2>5, <2>6, <2>7
  <2> QED BY <2>1, <2>2, <2>4, <2>8
<1>11. R \in T
  <2> HIDE DEF T
  <2>1. 0..R \subseteq T BY <1>1, <1>9, <1>10, UpTo
  <2> QED BY <1>1, <2>1
<1>12. Upto(R) = LiveRows(t)
  <2>1. \A r \in LiveRows(t) : r.key \in Keys
    <3> SUFFICES ASSUME NEW r \in LiveRows(t) PROVE r.key \in Keys OBVIOUS
    <3>1. r \in RowsOf(t.data, r.key) BY DEF RowsOf, LiveRows
    <3> QED BY <3>1, KeyRowsAre
  <2> QED BY <1>1, <2>1
<1> HIDE DEF Upto
<1> QED BY <1>3, <1>5, <1>11, <1>12

\* The compaction moves the rows a reader sees and loses none.
LEMMA CompactedCount ==
    ASSUME cfg \in Configs, NEW t, Ingested(t, cfg.C), NEW plan
    PROVE  Cardinality(LiveRows(Compacted(t, plan, cfg.C))) = Cardinality(LiveRows(t))
<1> DEFINE C == cfg.C
           u == Compacted(t, plan, C)
           Kept == {r \in t.data : r.file \notin UNION plan}
           Went == {s \in LiveRows(t) : s.file \in UNION plan}
           Move(r) == [r EXCEPT !.file = <<C + 1, 1>>, !.seq = C]
           f == [r \in LiveRows(t) |-> IF r \in Went THEN Move(r) ELSE r]
<1>1. C \in Nat \ {0} BY ParamsAre
<1>2. u.data = Kept \cup {Move(r) : r \in Went} /\ u.dels = t.dels
  BY DEF Compacted, Ingested
<1>3. \A r \in LiveRows(t) : r \in t.data /\ r \in Row(Nat, Nat) /\ InPlace(r, C)
  BY DEF LiveRows, Ingested
<1>4. \A d \in t.dels : d.seq \in 1..C BY DEF Ingested
<1>5. \A r \in Row(Nat, Nat) : /\ Move(r).file = <<C + 1, 1>> /\ Move(r).seq = C
                               /\ Move(r).key = r.key /\ Move(r).ver = r.ver
                               /\ Move(r).commit = r.commit /\ Move(r).part = r.part
  BY DEF Row
<1>6. \A r : IsDeleted(u, r) <=> IsDeleted(t, r) BY <1>2 DEF IsDeleted
<1>7. \A r \in Row(Nat, Nat) : ~IsDeleted(u, Move(r))
  <2> SUFFICES ASSUME NEW r \in Row(Nat, Nat), NEW d \in t.dels, d.seq > Move(r).seq PROVE FALSE
    BY <1>2 DEF IsDeleted
  <2>1. d.seq \in 1..C /\ Move(r).seq = C BY <1>4, <1>5
  <2> QED BY <1>1, <2>1
<1> HIDE DEF C, u, Move
<1>8. f \in [LiveRows(t) -> LiveRows(u)]
  <2> SUFFICES ASSUME NEW r \in LiveRows(t) PROVE f[r] \in LiveRows(u) OBVIOUS
  <2>1. CASE r \in Went
    <3>1. f[r] = Move(r) /\ f[r] \in u.data BY <1>2, <2>1
    <3> QED BY <1>3, <1>7, <3>1 DEF LiveRows
  <2>2. CASE r \notin Went
    <3>1. f[r] = r /\ r \in u.data BY <1>2, <1>3, <2>2
    <3> QED BY <1>6, <3>1 DEF LiveRows
  <2> QED BY <2>1, <2>2
<1>9. ASSUME NEW a \in LiveRows(t), NEW b \in LiveRows(t), f[a] = f[b] PROVE a = b
  <2>1. a \in Row(Nat, Nat) /\ b \in Row(Nat, Nat) /\ InPlace(a, C) /\ InPlace(b, C) BY <1>3
  <2>2. CASE a \in Went /\ b \in Went
    <3>1. Move(a) = Move(b) BY <1>9, <2>2
    <3>2. a.key = b.key /\ a.ver = b.ver /\ a.commit = b.commit /\ a.part = b.part BY <1>5, <2>1, <3>1
    <3>3. a.file = b.file /\ a.seq = b.seq BY <2>1, <3>2 DEF InPlace
    <3> QED BY <2>1, <3>2, <3>3 DEF Row
  <2>3. \A r \in Row(Nat, Nat) : InPlace(r, C) => r.file # <<C + 1, 1>> BY <1>1 DEF InPlace
  <2>4. CASE a \in Went /\ b \notin Went
    <3>1. Move(a) = b BY <1>9, <2>4
    <3> QED BY <1>5, <2>1, <2>3, <3>1
  <2>5. CASE a \notin Went /\ b \in Went
    <3>1. a = Move(b) BY <1>9, <2>5
    <3> QED BY <1>5, <2>1, <2>3, <3>1
  <2>6. CASE a \notin Went /\ b \notin Went BY <1>9, <2>6
  <2> QED BY <2>2, <2>4, <2>5, <2>6
<1>10. ASSUME NEW y \in LiveRows(u) PROVE \E a \in LiveRows(t) : f[a] = y
  <2>1. y \in u.data /\ ~IsDeleted(u, y) BY DEF LiveRows
  <2>2. CASE y \in Kept
    <3>1. y \in LiveRows(t) /\ y \notin Went BY <1>6, <2>1, <2>2 DEF LiveRows
    <3>2. f[y] = y BY <3>1
    <3> QED BY <3>1, <3>2
  <2>3. CASE y \in {Move(r) : r \in Went}
    <3>1. PICK r \in Went : y = Move(r) BY <2>3
    <3>2. f[r] = y BY <3>1
    <3> QED BY <3>1, <3>2
  <2> QED BY <1>2, <2>1, <2>2, <2>3
<1>11. IsFiniteSet(LiveRows(t))
  <2>1. LiveRows(t) \subseteq t.data /\ IsFiniteSet(t.data) BY DEF LiveRows, Ingested
  <2> QED BY <2>1, FS_Subset
<1> HIDE DEF f
<1>12. Cardinality(LiveRows(u)) = Cardinality(LiveRows(t)) BY <1>8, <1>9, <1>10, <1>11, Correspond
<1> QED BY <1>12 DEF u, C

-----------------------------------------------------------------------------
\* The gate.

\* Without duplicates and inversion a row lies in the window of its commit's values.
LEMMA InWindow ==
    ASSUME NEW t, Finished(t), cfg.nDup = 0, ~cfg.inverted, NEW r \in t.data
    PROVE  /\ r.seq \in Nat /\ r.key - 1 \in Nat /\ r.key \in Keys
           /\ r.ver = r.seq * Spacing + (r.key - 1)
<1>1. r \in RowsOf(t.data, r.key) BY DEF RowsOf
<1>2. r.key \in Keys BY <1>1, KeyRowsAre
<1>3. DupKeys = {} BY DupKeysAre DEF Finished
<1>4. PICK j \in 1..cfg.files, c \in 1..cfg.C : r = Plain(c, j, r.key) BY <1>1, <1>2, <1>3, KeyRowsAre
<1>5. r.seq = c BY <1>4 DEF Plain, NewRow
<1>6. Plain(c, j, r.key).ver = LsnBase(c) + (r.key - 1) /\ r.key - 1 \in Nat
  BY <1>2, WrittenValues DEF Finished
<1>7. c \in Nat \ {0} BY ParamsAre DEF Finished
<1>8. LsnBase(c) = c * Spacing BY <1>7, BaseIs DEF Finished
<1>9. r.ver = c * Spacing + (r.key - 1) BY <1>4, <1>6, <1>8
<1> QED BY <1>2, <1>5, <1>6, <1>7, <1>9

\* Windows as wide as a commit at most advance (iceberg_driver.py line 399): no group
\* of files is suspect.
LEMMA ContiguousIsClear ==
    ASSUME NEW t, Finished(t), cfg.nDup = 0, ~cfg.inverted, cfg.R <= Spacing, NEW g
    PROVE  ~MayContainStaleWins(t, g)
<1> SUFFICES ASSUME NEW p \in SeqsOf(t, g), NEW q \in SeqsOf(t, g), p < q,
                    Min(SeqSpan(t, g, q)) < Max(SeqSpan(t, g, p))
             PROVE  FALSE
  BY DEF MayContainStaleWins
<1>1. Studied(t) BY FinishedIsStudied DEF Finished
<1>2. PICK x \in GroupRows(t, g) : x.seq = p /\ x.ver = Max(SeqSpan(t, g, p)) BY <1>1, SpanIs
<1>3. PICK y \in GroupRows(t, g) : y.seq = q /\ y.ver = Min(SeqSpan(t, g, q)) BY <1>1, SpanIs
<1>4. x \in t.data /\ y \in t.data BY DEF GroupRows
<1>5. p \in Nat /\ x.ver = p * Spacing + (x.key - 1) /\ x.key - 1 \in Nat /\ x.key \in Keys
  BY <1>2, <1>4, InWindow
<1>6. q \in Nat /\ y.ver = q * Spacing + (y.key - 1) /\ y.key - 1 \in Nat BY <1>3, <1>4, InWindow
<1>7. Spacing \in Nat /\ x.key <= Spacing /\ x.key \in Nat /\ cfg.R \in Nat
  BY <1>5, ParamsAre DEF Finished, Keys
<1>8. q * Spacing >= p * Spacing + Spacing /\ q * Spacing \in Nat /\ p * Spacing \in Nat
  <2>1. q = p + (q - p) /\ q - p \in Nat /\ q - p = 1 + ((q - p) - 1) /\ (q - p) - 1 \in Nat BY <1>5, <1>6
  <2>2. \A a, b, z \in Nat : (a + b) * z = a * z + b * z /\ a * z \in Nat OBVIOUS
  <2>3. q * Spacing = p * Spacing + (q - p) * Spacing BY <1>5, <1>7, <2>1, <2>2
  <2>4. (q - p) * Spacing = 1 * Spacing + ((q - p) - 1) * Spacing BY <1>7, <2>1, <2>2
  <2>5. 1 * Spacing = Spacing /\ ((q - p) - 1) * Spacing \in Nat /\ p * Spacing \in Nat /\ q * Spacing \in Nat
    BY <1>5, <1>6, <1>7, <2>1, <2>2
  <2> QED BY <1>7, <2>3, <2>4, <2>5
<1>9. x.ver < p * Spacing + Spacing /\ y.ver >= q * Spacing BY <1>5, <1>6, <1>7, <1>8
<1> QED BY <1>2, <1>3, <1>5, <1>6, <1>7, <1>8, <1>9

\* An inverted workload of several commits of several keys makes one group suspect: the
\* second commit's values are the first's.
LEMMA InvertedIsSuspect ==
    ASSUME NEW t, Finished(t), cfg.inverted, cfg.C > 1, cfg.R > 1
    PROVE  MayContainStaleWins(t, FilesOf(t))
<1>1. cfg \in Configs /\ Studied(t) /\ cfg.C \in Nat /\ cfg.R \in Nat
  BY FinishedIsStudied, ParamsAre DEF Finished
<1>2. 1 \in Keys /\ cfg.R \in Keys /\ 1 \in 1..cfg.C /\ 2 \in 1..cfg.C BY <1>1 DEF Keys
<1>3. PICK i \in 1..cfg.files : Plain(1, i, cfg.R) \in RowsOf(t.data, cfg.R)
  <2>1. PICK i \in 1..cfg.files : {Plain(c, i, cfg.R) : c \in 1..cfg.C} \subseteq RowsOf(t.data, cfg.R)
    BY <1>2, KeyRowsAre
  <2> QED BY <1>2, <2>1
<1>4. PICK j \in 1..cfg.files : Plain(2, j, 1) \in RowsOf(t.data, 1)
  <2>1. PICK j \in 1..cfg.files : {Plain(c, j, 1) : c \in 1..cfg.C} \subseteq RowsOf(t.data, 1)
    BY <1>2, KeyRowsAre
  <2> QED BY <1>2, <2>1
<1> DEFINE x == Plain(1, i, cfg.R)
           y == Plain(2, j, 1)
           g == FilesOf(t)
<1>5. x \in GroupRows(t, g) /\ y \in GroupRows(t, g) BY <1>3, <1>4 DEF RowsOf, GroupRows, FilesOf
<1>6. x.seq = 1 /\ y.seq = 2 BY DEF Plain, NewRow
<1>7. x.ver = LsnBase(1) + (cfg.R - 1) /\ y.ver = LsnBase(2) + (1 - 1) /\ LsnBase(1) \in Nat /\ LsnBase(2) \in Nat
  BY <1>1, <1>2, WrittenValues
<1>8. LsnBase(2) = LsnBase(1)
  <2>1. 2 \in Nat \ {0} OBVIOUS
  <2> QED BY <1>1, <2>1, BaseIs
<1> HIDE DEF x, y, g
<1>9. 1 \in SeqsOf(t, g) /\ 2 \in SeqsOf(t, g) BY <1>5, <1>6 DEF SeqsOf
<1>10. /\ Min(SeqSpan(t, g, 2)) \in Nat /\ Min(SeqSpan(t, g, 2)) <= y.ver
       /\ Max(SeqSpan(t, g, 1)) \in Nat /\ x.ver <= Max(SeqSpan(t, g, 1))
  BY <1>1, <1>5, <1>6, <1>9, SpanIs
<1>11. y.ver < x.ver /\ x.ver \in Nat /\ y.ver \in Nat BY <1>1, <1>7, <1>8
<1>12. Min(SeqSpan(t, g, 2)) < Max(SeqSpan(t, g, 1)) BY <1>10, <1>11
<1>13. 1 < 2 OBVIOUS
<1> QED BY <1>9, <1>12, <1>13 DEF MayContainStaleWins, g

-----------------------------------------------------------------------------
\* Plans and summaries.

\* A file is in one group at most.
Apart(plan) == \A g, h \in plan : g = h \/ g \cap h = {}

\* The planner makes finitely many groups of the files, no two with a file in common.
LEMMA PlansAre ==
    ASSUME NEW files, NEW cap, NEW least, NEW n \in Nat, NEW plan \in Plans(files, cap, least, n)
    PROVE  Apart(plan) /\ IsFiniteSet(plan) /\ \A g \in plan : g \subseteq files
<1> DEFINE Part(a, i) == {f \in files : a[f] = i}
           Parts(a) == {Part(a, i) : i \in 1..n} \ {{}}
           places == IF Cardinality(files) <= n * cap THEN [files -> 1..n] ELSE {}
           packed == IF Cardinality(files) <= cap THEN {{files}}
                     ELSE {Parts(a) : a \in {b \in places :
                               \A i \in 1..n : Cardinality({f \in files : b[f] = i}) <= cap}}
<1>1. PICK p \in packed : plan = {g \in p : Cardinality(g) >= least} BY DEF Plans
<1>2. p = {files} \/ \E a : p = Parts(a)
  <2> HIDE DEF Parts
  <2> QED BY <1>1
<1>3. Apart(p) /\ IsFiniteSet(p) /\ \A g \in p : g \subseteq files
  <2>1. CASE p = {files} BY <2>1, FS_Singleton DEF Apart
  <2>2. CASE \E a : p = Parts(a)
    <3>1. PICK a : p = Parts(a) BY <2>2
    <3>2. \A i, j \in 1..n : Part(a, i) = Part(a, j) \/ Part(a, i) \cap Part(a, j) = {}
      <4> SUFFICES ASSUME NEW i \in 1..n, NEW j \in 1..n, NEW f \in files, a[f] = i, a[f] = j
                   PROVE  Part(a, i) = Part(a, j)
        OBVIOUS
      <4>1. i = j OBVIOUS
      <4> QED BY <4>1
    <3>3. \A i \in 1..n : Part(a, i) \subseteq files OBVIOUS
    <3> DEFINE all == [i \in 1..n |-> Part(a, i)]
    <3>4. {Part(a, i) : i \in 1..n} = {all[i] : i \in 1..n} OBVIOUS
    <3> HIDE DEF all, Part
    <3>5. IsFiniteSet({all[i] : i \in 1..n})
      <4>1. IsFiniteSet(1..n)
        <5>1. 1 \in Int /\ n \in Int OBVIOUS
        <5> QED BY <5>1, FS_Interval
      <4> QED BY <4>1, RowsFinite
    <3>6. p \subseteq {Part(a, i) : i \in 1..n} BY <3>1
    <3>7. IsFiniteSet(p) BY <3>4, <3>5, <3>6, FS_Subset
    <3> QED BY <3>2, <3>3, <3>6, <3>7 DEF Apart
  <2> QED BY <1>2, <2>1, <2>2
<1>4. plan \subseteq p BY <1>1
<1> HIDE DEF packed
<1>5. IsFiniteSet(plan) BY <1>3, <1>4, FS_Subset
<1> QED BY <1>3, <1>4, <1>5 DEF Apart

\* The counters account for every group.
LEMMA CountersAddUp ==
    ASSUME NEW plan, IsFiniteSet(plan), NEW A \in SUBSET plan
    PROVE  Cardinality(plan \ A) + Cardinality(A) = Cardinality(plan)
<1>1. IsFiniteSet(A) /\ IsFiniteSet(plan \ A) BY FS_Subset
<1>2. (plan \ A) \cup A = plan /\ (plan \ A) \cap A = {} OBVIOUS
<1>3. Cardinality((plan \ A) \cup A) = Cardinality(plan \ A) + Cardinality(A) - Cardinality((plan \ A) \cap A)
  BY <1>1, FS_Union
<1>4. Cardinality({}) = 0 /\ Cardinality(A) \in Nat /\ Cardinality(plan \ A) \in Nat
  BY <1>1, FS_EmptySet, FS_CardinalityType
<1>5. Cardinality(plan) = Cardinality(plan \ A) + Cardinality(A) - 0 BY <1>2, <1>3, <1>4
<1> QED BY <1>4, <1>5

-----------------------------------------------------------------------------
\* A run.

\* Until the table is compacted it is what was ingested; the summary and the files are
\* then those of the plan the compaction made for it.
Ingesting == scanned = EmptyTable /\ ~summary.present /\ Ingested(table, made)

PlannedFor(files, plan) ==
    \E cap \in {GroupCap, Cardinality(files)} : plan \in Plans(files, cap, MinInputFiles, MaxPlanned)

ReadBack ==
    /\ made = cfg.C /\ Ingested(scanned, cfg.C)
    /\ opts \in StudyOptions /\ PlannedFor(FilesOf(scanned), groups)
    /\ summary = Summary(scanned, groups, opts)
    /\ table = Compacted(scanned, groups, made)

StudyInv == study = "synthetic" => cfg \in Configs /\ made \in 0..cfg.C /\ (Ingesting \/ ReadBack)

\* What is ingested depends on the parameters and the table only.
LEMMA StaysIngested ==
    ASSUME UNCHANGED cfg
    PROVE  /\ Ingested(table, made)' <=> Ingested(table', made')
           /\ Ingested(scanned, cfg.C)' <=> Ingested(scanned', cfg.C)
BY DEF Ingested, InPlace, OracleValid, DataOf, DelsOf, FileRows, FileKeys, NewRow, Outlier, Lsn, LsnBase,
       Keys, DupHigh, DupExtra, DupKeys, DupFile, DelWindow, Deleted, Row, File

\* The first state.
LEMMA StudyStarts == StudyInit => StudyInv
<1> SUFFICES ASSUME StudyInit, study = "synthetic"
             PROVE  cfg \in Configs /\ made \in 0..cfg.C /\ (Ingesting \/ ReadBack)
  BY DEF StudyInv
<1>1. cfg \in Configs /\ made = 0 /\ table = EmptyTable /\ scanned = EmptyTable /\ summary = NoSummary
  BY DEF StudyInit, SynthInit
<1>2. made \in 0..cfg.C BY <1>1, ParamsAre
<1>3. Ingesting BY <1>1, EmptyIsIngested DEF Ingesting, NoSummary
<1> QED BY <1>1, <1>2, <1>3

\* Every step.
LEMMA StudyKept == StudyInv /\ [StudyNext]_studyVars => StudyInv'
<1> SUFFICES ASSUME StudyInv, [StudyNext]_studyVars, study' = "synthetic"
             PROVE  cfg' \in Configs /\ made' \in 0..cfg'.C /\ (Ingesting' \/ ReadBack')
  BY DEF StudyInv
<1>1. study = "synthetic" /\ UNCHANGED cfg
  BY DEF StudyNext, Write, CompactAndRead, studyVars, synthVars, SynthCommit, HandWrite
<1>2. cfg \in Configs /\ made \in 0..cfg.C /\ (Ingesting \/ ReadBack) BY <1>1 DEF StudyInv
<1>3. cfg.C \in Nat \ {0} BY <1>2, ParamsAre
<1>4. CASE Write
  <2>1. SynthCommit /\ UNCHANGED <<study, opts, groups, scanned, summary>> BY <1>1, <1>4 DEF Write
  <2>2. made < cfg.C /\ made' = made + 1 BY <2>1 DEF SynthCommit
  <2>3. Ingesting BY <1>2, <2>2, <1>3 DEF ReadBack
  <2> DEFINE New(draw) ==
                [data |-> table.data \cup (UNION {FileRows(made + 1, j, draw) : j \in 1..cfg.files})
                                     \cup (IF made + 1 = 1 THEN DupHigh
                                           ELSE IF made + 1 = cfg.C THEN DupExtra(made + 1) ELSE {}),
                 dels |-> table.dels \cup {[key |-> k, seq |-> made + 1] : k \in Deleted(made + 1)}]
  <2>4. PICK draw \in Draws(made + 1) : table' = New(draw) BY <2>1 DEF SynthCommit
  <2>5. made \in Nat /\ Ingested(table, made) BY <1>2, <2>3 DEF Ingesting
  <2>6. Ingested(table', made + 1)
    <3> DEFINE u == New(draw)
    <3>1. u = New(draw) OBVIOUS
    <3>2. Ingested(u, made + 1)
      <4> HIDE DEF u
      <4> QED BY <1>2, <2>2, <2>5, <3>1, CommitIngests
    <3> QED BY <2>4, <3>2
  <2>7. Ingested(table, made)' BY <1>1, <2>2, <2>6, StaysIngested
  <2>8. Ingesting' BY <2>1, <2>3, <2>7 DEF Ingesting
  <2> QED BY <1>1, <1>2, <1>3, <2>2, <2>8
<1>5. CASE CompactAndRead
  <2>1. made = cfg.C /\ scanned = EmptyTable /\ scanned' = table /\ UNCHANGED made
    BY <1>1, <1>5 DEF CompactAndRead, Commits
  <2>2. /\ opts' \in StudyOptions /\ PlannedFor(FilesOf(table), groups')
        /\ summary' = Summary(table, groups', opts') /\ table' = Compacted(table, groups', made)
    BY <1>1, <1>5 DEF CompactAndRead, PlannedFor
  <2>3. Ingesting
    <3>1. ASSUME ReadBack PROVE scanned # EmptyTable
      <4>1. scanned.data # {} BY <1>2, <3>1, FinishedIsStudied DEF ReadBack
      <4> QED BY <4>1 DEF EmptyTable
    <3> QED BY <1>2, <2>1, <3>1
  <2>4. Ingested(scanned', cfg.C) BY <2>1, <2>3 DEF Ingesting
  <2>5. Ingested(scanned, cfg.C)' BY <1>1, <2>4, StaysIngested
  <2>6. ReadBack'
    <3>1. PlannedFor(FilesOf(scanned), groups)' BY <2>1, <2>2 DEF FilesOf
    <3>2. (summary = Summary(scanned, groups, opts))'
      BY <2>1, <2>2 DEF Summary, NoSummary, Audited, MayContainStaleWins, SeqsOf, SeqSpan, GroupRows, FlaggedIn,
                        StaleWin, DeadIn, LiveIn, DeadRows, LiveRows, IsDeleted, RowsOf, VersionsOf
    <3>3. (table = Compacted(scanned, groups, made))'
      BY <2>1, <2>2 DEF Compacted, LiveRows, IsDeleted
    <3>4. made' = cfg'.C /\ opts' \in StudyOptions BY <1>1, <2>1, <2>2
    <3> QED BY <2>5, <3>1, <3>2, <3>3, <3>4 DEF ReadBack
  <2> QED BY <1>1, <1>2, <2>1, <2>6
<1>6. CASE UNCHANGED studyVars
  <2>1. UNCHANGED <<cfg, made, table, study, opts, groups, scanned, summary>> BY <1>6 DEF studyVars, synthVars
  <2>2. Ingesting => Ingesting' BY <2>1, StaysIngested DEF Ingesting
  <2>3. ReadBack => ReadBack'
    <3>1. ReadBack => Ingested(scanned, cfg.C)' BY <2>1, StaysIngested DEF ReadBack
    <3> QED BY <2>1, <3>1 DEF ReadBack
  <2> QED BY <1>2, <2>1, <2>2, <2>3
<1> QED BY <1>4, <1>5, <1>6 DEF StudyNext

\* StudyInv holds of every run.
LEMMA StudyInvHolds == StudySpec => []StudyInv
BY StudyStarts, StudyKept, PTL DEF StudySpec

-----------------------------------------------------------------------------
\* What a run that summarized something shows.

\* The run's table and plan, and the summary made of them.
LEMMA DoneIs ==
    ASSUME StudyInv, Done
    PROVE  LET A == Audited(scanned, groups, opts)
           IN  /\ cfg \in Configs /\ Ingested(scanned, cfg.C) /\ (OracleValid => Finished(scanned))
               /\ Studied(scanned) /\ scanned \in Table(Nat, Nat) /\ opts \in Options
               /\ groups # {} /\ Apart(groups) /\ IsFiniteSet(groups) /\ Cardinality(groups) \in Nat
               /\ A \subseteq groups
               /\ summary.groups = Cardinality(groups) /\ summary.gated = Cardinality(groups \ A)
               /\ summary.audited = Cardinality(A)
               /\ summary.decided <=> opts.cross \/ ~opts.failClosed \/ Cardinality(groups) <= 1
               /\ summary.keys = IF summary.decided THEN UNION {FlaggedIn(scanned, g, opts.guard) : g \in A} ELSE {}
               /\ opts.cross => Captured(summary) = FlaggedIn(scanned, UNION groups, TRUE)
               /\ ~opts.cross => Captured(summary) = summary.keys
               /\ Counted
<1> DEFINE A == Audited(scanned, groups, opts)
<1>1. cfg \in Configs /\ summary.present /\ ReadBack BY DEF StudyInv, Done, Ingesting
<1>2. Ingested(scanned, cfg.C) /\ (OracleValid => Finished(scanned)) BY <1>1 DEF ReadBack, Finished
<1>3. Studied(scanned) /\ scanned \in Table(Nat, Nat) BY <1>1, <1>2, FinishedIsStudied
<1>4. opts \in Options BY <1>1, StudyAssumption DEF ReadBack
<1>5. Apart(groups) /\ IsFiniteSet(groups)
  <2>1. PICK cap : groups \in Plans(FilesOf(scanned), cap, MinInputFiles, MaxPlanned)
    BY <1>1 DEF ReadBack, PlannedFor
  <2>2. MaxPlanned \in Nat BY StudyAssumption
  <2> QED BY <2>1, <2>2, PlansAre
<1>6. Cardinality(groups) \in Nat BY <1>5, FS_CardinalityType
<1>7. A \subseteq groups BY DEF Audited
<1>8. /\ groups # {}
      /\ summary.groups = Cardinality(groups) /\ summary.gated = Cardinality(groups \ A)
      /\ summary.audited = Cardinality(A)
      /\ summary.decided <=> opts.cross \/ ~opts.failClosed \/ Cardinality(groups) <= 1
      /\ summary.keys = IF summary.decided THEN UNION {FlaggedIn(scanned, g, opts.guard) : g \in A} ELSE {}
      /\ opts.cross => Captured(summary) = FlaggedIn(scanned, UNION groups, TRUE)
      /\ ~opts.cross => Captured(summary) = summary.keys
  <2>1. summary = Summary(scanned, groups, opts) BY <1>1 DEF ReadBack
  <2>2. groups # {} BY <1>1, <2>1 DEF Summary, NoSummary
  <2>3. opts.cross \in BOOLEAN BY <1>4 DEF Options
  <2> DEFINE decided == opts.cross \/ ~opts.failClosed \/ Cardinality(groups) <= 1
             flagged == UNION {FlaggedIn(scanned, g, opts.guard) : g \in A}
             whole == FlaggedIn(scanned, UNION groups, TRUE)
  <2>4. /\ summary.groups = Cardinality(groups) /\ summary.crossGroup = opts.cross
        /\ summary.gated = Cardinality(groups \ A) /\ summary.audited = Cardinality(A)
        /\ summary.decided = decided /\ summary.keys = (IF decided THEN flagged ELSE {})
        /\ summary.crossKeys = (IF opts.cross THEN whole ELSE {})
    BY <2>1, <2>2 DEF Summary
  <2>5. Captured(summary) = IF summary.crossGroup THEN summary.crossKeys ELSE summary.keys BY DEF Captured
  <2> HIDE DEF A, flagged, whole
  <2>6. (opts.cross => Captured(summary) = whole) /\ (~opts.cross => Captured(summary) = summary.keys)
    BY <2>3, <2>4, <2>5
  <2> HIDE DEF decided
  <2>7. summary.decided <=> decided BY <2>4
  <2>8. summary.keys = IF summary.decided THEN flagged ELSE {} BY <2>4
  <2> QED BY <2>2, <2>4, <2>6, <2>7, <2>8 DEF decided, flagged, whole
<1> HIDE DEF A
<1>9. Counted BY <1>5, <1>7, <1>8, CountersAddUp DEF Counted
<1> QED BY <1>1, <1>2, <1>3, <1>4, <1>5, <1>6, <1>7, <1>8, <1>9 DEF A

\* One group of all files: the verdict is the set of keys of which a discarded row
\* out-orders the survivors and, with the guard, there is one.
LEMMA OneGroupIs ==
    ASSUME StudyInv, Done, UNION groups = FilesOf(scanned), OneGroup \/ opts.cross, NEW k
    PROVE  /\ ~opts.cross =>
                 (k \in Captured(summary) <=> Outranked(scanned, k) /\ (opts.guard => OneSurvivor(scanned, k)))
           /\ opts.cross =>
                 (k \in Captured(summary) <=> Outranked(scanned, k) /\ OneSurvivor(scanned, k))
<1> DEFINE A == Audited(scanned, groups, opts)
           F == FilesOf(scanned)
<1>1. /\ Studied(scanned) /\ scanned \in Table(Nat, Nat) /\ opts \in Options /\ A \subseteq groups
      /\ summary.decided <=> opts.cross \/ ~opts.failClosed \/ Cardinality(groups) <= 1
      /\ summary.keys = IF summary.decided THEN UNION {FlaggedIn(scanned, g, opts.guard) : g \in A} ELSE {}
      /\ opts.cross => Captured(summary) = FlaggedIn(scanned, UNION groups, TRUE)
      /\ ~opts.cross => Captured(summary) = summary.keys
  BY DoneIs
<1>2. opts.guard \in BOOLEAN /\ TRUE \in BOOLEAN BY <1>1 DEF Options
<1>3. \A r \in RowsOf(scanned.data, k) : r.file \in F BY DEF RowsOf, FilesOf
<1>4. \A guard \in BOOLEAN :
         k \in FlaggedIn(scanned, F, guard) <=> Outranked(scanned, k) /\ (guard => OneSurvivor(scanned, k))
  BY <1>1, <1>3, WholeKey
<1>5. opts.cross => (k \in Captured(summary) <=> Outranked(scanned, k) /\ OneSurvivor(scanned, k))
  BY <1>1, <1>2, <1>4
<1>6. ASSUME ~opts.cross
      PROVE  k \in Captured(summary) <=> Outranked(scanned, k) /\ (opts.guard => OneSurvivor(scanned, k))
  <2>1. groups = {F} BY <1>6 DEF OneGroup
  <2>2. summary.decided
    <3>1. Cardinality(groups) = 1 BY <2>1, FS_Singleton
    <3> QED BY <1>1, <3>1
  <2>3. k \in Captured(summary) <=> F \in A /\ k \in FlaggedIn(scanned, F, opts.guard)
    <3> HIDE DEF A, F
    <3> QED BY <1>1, <1>6, <2>1, <2>2
  <2>4. k \in FlaggedIn(scanned, F, opts.guard) => F \in A
    <3>1. k \in FlaggedIn(scanned, F, opts.guard) => MayContainStaleWins(scanned, F)
      BY <1>1, <1>2, GateClearsNone
    <3> QED BY <2>1, <3>1 DEF Audited
  <2> QED BY <1>2, <1>4, <2>3, <2>4
<1> QED BY <1>5, <1>6

\* The rows in the rewritten table are as many as the closed form says.
LEMMA RowsMatch == ASSUME StudyInv, Done, OracleValid PROVE LiveRowsMatch
<1>1. cfg \in Configs /\ Ingested(scanned, cfg.C) /\ Finished(scanned) BY DoneIs
<1>2. table = Compacted(scanned, groups, cfg.C) BY DEF StudyInv, Done, Ingesting, ReadBack
<1>3. Cardinality(LiveRows(table)) = Cardinality(LiveRows(scanned)) BY <1>1, <1>2, CompactedCount
<1>4. ExpectedLiveRows = Cardinality(LiveRows(scanned)) BY <1>1, LiveCount
<1> QED BY <1>3, <1>4 DEF LiveRowsMatch

\* A commit writes no more rows than the values it has (iceberg_driver.py lines 399-401).
WindowsApart == \A p \in Configs : p.R <= Spacing

\* The injected version orders above the last commit (iceberg_driver.py line 90); with the
\* driver's constants that is so up to the ninety-ninth, or the hundredth if it is inverted.
HighIsHigh ==
    \A p \in Configs :
        p.nDup > 0 =>
            (IF p.inverted /\ p.C % 2 = 0 THEN Max({1, p.C - 2}) ELSE p.C) * Spacing + DupLsnOff
                < HighLsn

\* An advancing workload is cleared by the gate, whatever the groups.
LEMMA AllCleared ==
    ASSUME WindowsApart, StudyInv, Done, OracleValid, cfg.nDup = 0, ~cfg.inverted
    PROVE  opts.gate /\ ~opts.cross => Cleared /\ summary.audited = 0
<1>1. cfg \in Configs /\ Finished(scanned) BY DoneIs
<1>2. \A g : ~MayContainStaleWins(scanned, g) BY <1>1, ContiguousIsClear DEF WindowsApart
<1>3. opts.gate /\ ~opts.cross => Audited(scanned, groups, opts) = {} BY <1>2 DEF Audited
<1>4. /\ summary.groups = Cardinality(groups)
      /\ summary.gated = Cardinality(groups \ Audited(scanned, groups, opts))
      /\ summary.audited = Cardinality(Audited(scanned, groups, opts))
  BY DoneIs
<1>5. groups \ {} = groups /\ Cardinality({}) = 0 BY FS_EmptySet
<1> QED BY <1>3, <1>4, <1>5 DEF Cleared

\* OneGroupStudiesPass holds: with one file group the rows served are those of the closed
\* form, the audit finds every stale win it derives and no other key, an advancing
\* workload is cleared, and without the survivor guard exactly the duplicate-risky keys
\* are flagged besides (the validate, bench, probe and regress scripts of
\* cost-study/studies/audit; construction_oracle of iceberg_driver.py).
THEOREM StudiesPass == ASSUME WindowsApart, HighIsHigh PROVE StudySpec => []OneGroupStudiesPass
<1>1. ASSUME StudyInv PROVE OneGroupStudiesPass
  <2> SUFFICES ASSUME Done
               PROVE  /\ OracleGuardRun => OracleGuardChecks
                      /\ ScaleRun => ScaleChecks
                      /\ ClosedFormRun => ClosedFormChecks
                      /\ RegressRun => RegressChecks
                      /\ GateContiguousRun => GateContiguousChecks
    BY DEF OneGroupStudiesPass
  <2> DEFINE Out(k) == Outranked(scanned, k)
             One(k) == OneSurvivor(scanned, k)
             A == Audited(scanned, groups, opts)
  <2>1. /\ cfg \in Configs /\ (OracleValid => Finished(scanned)) /\ Counted /\ A \subseteq groups
        /\ summary.groups = Cardinality(groups) /\ summary.gated = Cardinality(groups \ A)
        /\ ~opts.cross => Captured(summary) = summary.keys
    BY <1>1, DoneIs
  <2>2. OracleValid => LiveRowsMatch BY <1>1, RowsMatch
  <2>3. OneGroup => UNION groups = FilesOf(scanned) BY DEF OneGroup
  <2>4. ASSUME OracleValid, NEW k
        PROVE  /\ k \in ExpectedStaleWins <=> Out(k) /\ One(k)
               /\ Out(k) => k \in ExpectedStaleWins \/ k \in ExpectedDupRisky
               /\ ~(k \in ExpectedStaleWins /\ k \in ExpectedDupRisky)
               /\ cfg.C > 1 /\ k \in ExpectedDupRisky => Out(k)
               /\ cfg.nDup = 0 /\ ~cfg.inverted => ~Out(k)
    <3>1. cfg.nDup = 0 \/ HighAbove
      <4>1. cfg.nDup = 0 \/ cfg.nDup > 0 BY <2>1, ParamsAre
      <4> QED BY <2>1, <4>1 DEF HighIsHigh, HighAbove, LsnBase
    <3>2. cfg.C > 1 => cfg.C >= 2 BY <2>1, ParamsAre
    <3> QED BY <2>1, <2>4, <3>1, <3>2, ExpectedAre
  <2>5. ASSUME OneGroup, ~opts.cross, NEW k
        PROVE  k \in Captured(summary) <=> Out(k) /\ (opts.guard => One(k))
    BY <1>1, <2>3, <2>5, OneGroupIs
  <2>6. OracleValid /\ cfg.nDup = 0 /\ ~cfg.inverted /\ opts.gate /\ ~opts.cross =>
           Cleared /\ summary.audited = 0
    BY <1>1, AllCleared
  <2>7. /\ Defaults.gate = TRUE /\ Defaults.cross = FALSE /\ Defaults.guard = TRUE
        /\ Defaults.failClosed = TRUE
    BY DEF Defaults
  <2> HIDE DEF Out, One, A
  <2>8. ASSUME OneGroup, ~opts.cross, OracleValid, opts.guard
        PROVE  Exact /\ Misses = {} /\ OtherFalsePositives = {} /\ FromDuplicates = {}
    <3>1. \A k : k \in Captured(summary) <=> k \in ExpectedStaleWins BY <2>4, <2>5, <2>8
    <3>2. Captured(summary) = ExpectedStaleWins BY <3>1 DEF ExpectedStaleWins
    <3>3. ExpectedStaleWins \cap ExpectedDupRisky = {} BY <2>4, <2>8
    <3> QED BY <3>2, <3>3 DEF Exact, Misses, OtherFalsePositives, FromDuplicates
  <2>9. ASSUME OneGroup, ~opts.cross, OracleValid, ~opts.guard, cfg.C > 1
        PROVE  Misses = {} /\ OtherFalsePositives = {} /\ FromDuplicates = ExpectedDupRisky
    <3>1. \A k : k \in Captured(summary) <=> Out(k) BY <2>5, <2>9
    <3>2. Misses = {} BY <2>4, <2>9, <3>1 DEF Misses
    <3>3. OtherFalsePositives = {} BY <2>4, <2>9, <3>1 DEF OtherFalsePositives
    <3>4. FromDuplicates = ExpectedDupRisky BY <2>4, <2>9, <3>1 DEF FromDuplicates
    <3> QED BY <3>2, <3>3, <3>4
  <2>10. cfg.nDup > 0 => ExpectedDupRisky # {}
    <3>1. cfg.nDup > 0 => cfg.nDup # 0 BY <2>1, ParamsAre
    <3>2. cfg.nDup # 0 => DupKeys # {} BY <2>1, DupKeysAre
    <3> QED BY <3>1, <3>2 DEF ExpectedDupRisky
  <2>11. OracleGuardRun => OracleGuardChecks
    BY <2>2, <2>8, <2>9, <2>10 DEF OracleGuardRun, OracleGuardChecks
  <2>12. ScaleRun => ScaleChecks BY <2>2, <2>7, <2>8, <2>10 DEF ScaleRun, ScaleChecks
  <2>13. ClosedFormRun => ClosedFormChecks BY <2>2 DEF ClosedFormRun, ClosedFormChecks
  <2>14. ASSUME OneGroup, ~opts.cross, OracleValid, cfg.nDup = 0, ~cfg.inverted
         PROVE  Captured(summary) = {} /\ summary.keys = {}
    <3>1. \A k : k \notin Captured(summary) BY <2>4, <2>5, <2>14
    <3> QED BY <2>1, <2>14, <3>1
  <2>15. ASSUME OneGroup, FilesOf(scanned) \in A PROVE summary.gated = 0
    <3>1. groups \ A = {} BY <2>15 DEF OneGroup
    <3> QED BY <2>1, <3>1, FS_EmptySet
  <2>16. RegressRun => RegressChecks
    <3> SUFFICES ASSUME RegressRun PROVE RegressChecks OBVIOUS
    <3>1. /\ OneGroup /\ OracleValid /\ opts = Defaults /\ cfg.nDup = 0
          /\ cfg.inverted => cfg.C > 1 /\ cfg.R > 1
      BY DEF RegressRun
    <3>2. cfg.inverted => summary.gated = 0
      <4>1. cfg.inverted => MayContainStaleWins(scanned, FilesOf(scanned)) BY <2>1, <3>1, InvertedIsSuspect
      <4>2. cfg.inverted => FilesOf(scanned) \in A BY <3>1, <4>1 DEF A, Audited, OneGroup
      <4> QED BY <2>15, <3>1, <4>2
    <3>3. ~cfg.inverted => Cleared /\ summary.keys = {} BY <2>6, <2>7, <2>14, <3>1
    <3>4. Exact BY <2>7, <2>8, <3>1
    <3> QED BY <2>1, <2>2, <3>1, <3>2, <3>3, <3>4 DEF RegressChecks
  <2>17. GateContiguousRun => GateContiguousChecks
    <3> SUFFICES ASSUME GateContiguousRun PROVE GateContiguousChecks OBVIOUS
    <3>1. OneGroup /\ OracleValid /\ cfg.nDup = 0 /\ ~cfg.inverted /\ ~opts.cross BY DEF GateContiguousRun
    <3>2. ~opts.gate => FilesOf(scanned) \in A BY <3>1 DEF A, Audited, OneGroup
    <3>3. ~opts.gate => summary.gated = 0 BY <2>15, <3>1, <3>2
    <3> QED BY <2>1, <2>6, <2>14, <3>1, <3>3 DEF GateContiguousChecks
  <2> QED BY <2>11, <2>12, <2>13, <2>16, <2>17
<1>2. StudyInv => OneGroupStudiesPass BY <1>1
<1> QED BY <1>2, StudyInvHolds, PTL

\* construction_oracle counts every injected duplicate as one the unguarded audit flags, as
\* "its discarded commit-1 copy out-orders both survivors by construction" (iceberg_driver.py
\* line 152): that is so exactly as long as the last commit's values stay below HIGH_LSN.
THEOREM InjectedIsHigh ==
    StudySpec =>
        [](Done /\ OracleValid /\ cfg.C > 1 =>
               \A k \in DupKeys :
                   (\A s \in RowsOf(LiveRows(scanned), k) : Injected(k).ver > s.ver)
                       <=> LsnBase(cfg.C) + DupLsnOff < HighLsn)
<1> DEFINE Above(k) == \A s \in RowsOf(LiveRows(scanned), k) : Injected(k).ver > s.ver
<1>1. ASSUME StudyInv, Done, OracleValid, cfg.C > 1, NEW k \in DupKeys
      PROVE  Above(k) <=> LsnBase(cfg.C) + DupLsnOff < HighLsn
  <2>1. cfg \in Configs /\ Finished(scanned) BY <1>1, DoneIs
  <2>2. k \in Keys /\ cfg.C >= 2 BY <1>1, <2>1, DupKeysAre, ParamsAre
  <2>3. HighAbove <=> Above(k) BY <1>1, <2>1, <2>2, OutrankedIs
  <2> QED BY <2>3 DEF HighAbove
<1>2. StudyInv => (Done /\ OracleValid /\ cfg.C > 1 =>
                      \A k \in DupKeys : Above(k) <=> LsnBase(cfg.C) + DupLsnOff < HighLsn)
  <2> HIDE DEF Above
  <2> QED BY <1>1
<1> QED BY <1>2, StudyInvHolds, PTL

\* ContiguousIsCleared holds: a workload of advancing windows is cleared whatever the
\* files and the groups, and its rows are those of the closed form
\* (probe_gate_filelayout.py, sweep_gate_selectivity.py).
THEOREM ContiguousCleared == ASSUME WindowsApart PROVE StudySpec => []ContiguousIsCleared
<1>1. ASSUME StudyInv PROVE ContiguousIsCleared
  <2> SUFFICES ASSUME Done PROVE (FileLayoutRun => FileLayoutChecks) /\ (SweepRun => SweepChecks)
    BY DEF ContiguousIsCleared
  <2>1. Counted /\ (OracleValid => LiveRowsMatch) BY <1>1, DoneIs, RowsMatch
  <2>2. OracleValid /\ cfg.nDup = 0 /\ ~cfg.inverted /\ opts = Defaults => Cleared
    <3>1. Defaults.gate /\ ~Defaults.cross BY DEF Defaults
    <3> QED BY <1>1, <3>1, AllCleared
  <2> QED BY <2>1, <2>2 DEF FileLayoutRun, FileLayoutChecks, SweepRun, SweepChecks
<1>2. StudyInv => ContiguousIsCleared BY <1>1
<1> QED BY <1>2, StudyInvHolds, PTL

\* VerdictIsTheCheckers holds: over one group, or merged over groups that leave no file
\* out, the audit reports what the read-only checker finds in the layout it scanned,
\* rows interleaved or not (classify.py lines 66-114; the patched
\* SparkBinPackFileRewriteRunner and RewriteDataFilesSparkAction).
THEOREM CheckersVerdict == StudySpec => []VerdictIsTheCheckers
<1>1. ASSUME StudyInv PROVE VerdictIsTheCheckers
  <2> SUFFICES ASSUME Done, opts.guard, UNION groups = FilesOf(scanned), OneGroup \/ opts.cross
               PROVE  Captured(summary) = StaleWinsKeys(scanned)
    BY DEF VerdictIsTheCheckers
  <2>1. Studied(scanned) /\ scanned \in Table(Nat, Nat) BY <1>1, DoneIs
  <2>2. \A k : k \in Captured(summary) <=> Outranked(scanned, k) /\ OneSurvivor(scanned, k)
    BY <1>1, OneGroupIs
  <2>3. \A k : k \in StaleWinsKeys(scanned) <=> Outranked(scanned, k) /\ OneSurvivor(scanned, k)
    BY <2>1, CheckerMeans
  <2>4. \A k : k \in Captured(summary) <=> k \in StaleWinsKeys(scanned) BY <2>2, <2>3
  <2>5. Captured(summary) = {k \in Captured(summary) : TRUE}
    OBVIOUS
  <2> QED BY <2>4
<1>2. StudyInv => VerdictIsTheCheckers BY <1>1
<1> QED BY <1>2, StudyInvHolds, PTL

\* The history of one key in closed form says what the sets say (diagnose_straddle_fp.py).
LEMMA ClassifyIs ==
    ASSUME NEW t, Finished(t), NEW k \in Keys
    PROVE  ClassifyKey(k).violation <=> k \in ExpectedStaleWins
<1> DEFINE C == cfg.C
           first == FirstSurvivor(LastDelete(k))
           dup == k \in DupKeys
           surv == {Lsn(c, k) : c \in first..C}
                      \cup (IF dup THEN {LsnBase(C) + DupLsnOff + k - 1} ELSE {})
           disc == {Lsn(c, k) : c \in 1..first - 1} \cup (IF dup THEN {HighLsn + k - 1} ELSE {})
<1>1. ClassifyKey(k).violation <=> SurvivorCount(k) = 1 /\ disc # {} /\ Max(disc) > Max(surv)
  BY DEF ClassifyKey, SurvivorCount
<1>2. SurvivorCount(k) = 1 <=> ~dup /\ first = C BY CountIs
<1>3. k \in ExpectedStaleWins <=> ~dup /\ Risky(LastDelete(k)) /\ SurvivorCount(k) = 1
  BY DEF ExpectedStaleWins
<1>4. Risky(LastDelete(k)) <=> \E c \in 1..first - 1 : \A e \in first..C : LsnBase(c) > LsnBase(e)
  BY RiskyIs DEF Finished
<1>5. C \in Nat \ {0} /\ first \in 1..C BY ParamsAre, LastDeleteIs DEF Finished
<1>6. \A c \in 1..C : Lsn(c, k) \in Nat /\ Lsn(c, k) = LsnBase(c) + (k - 1) /\ LsnBase(c) \in Nat
  <2> SUFFICES ASSUME NEW c \in 1..C
               PROVE  Lsn(c, k) \in Nat /\ Lsn(c, k) = LsnBase(c) + (k - 1) /\ LsnBase(c) \in Nat
    OBVIOUS
  <2>1. c \in Nat \ {0} BY <1>5
  <2> QED BY <2>1, BaseIs DEF Finished
<1>7. k - 1 \in Nat
  <2>1. k \in Nat \ {0} BY KeysAre DEF Finished
  <2> QED BY <2>1
<1> HIDE DEF C, first
<1>8. ASSUME ~dup
      PROVE  disc # {} /\ Max(disc) > Max(surv)
                <=> \E c \in 1..first - 1 : \A e \in first..C : LsnBase(c) > LsnBase(e)
  <2> DEFINE lsn == [c \in 1..C |-> Lsn(c, k)]
             I == 1..first - 1
             J == first..C
  <2>1. I \subseteq 1..C /\ J \subseteq 1..C /\ first \in J BY <1>5
  <2>2. IsFiniteSet(I) /\ IsFiniteSet(J)
    <3>1. 1 \in Int /\ first - 1 \in Int /\ first \in Int /\ C \in Int BY <1>5
    <3> QED BY <3>1, FS_Interval
  <2>3. disc = {Lsn(c, k) : c \in I} /\ surv = {Lsn(c, k) : c \in J} BY <1>8
  <2>4. \A c \in 1..C : lsn[c] = Lsn(c, k) OBVIOUS
  <2> HIDE DEF disc, surv, I, J, lsn
  <2>5. disc = {lsn[c] : c \in I} /\ surv = {lsn[c] : c \in J} BY <2>1, <2>3, <2>4
  <2>6. IsFiniteSet({lsn[c] : c \in I}) /\ IsFiniteSet({lsn[c] : c \in J}) BY <2>2, RowsFinite
  <2>7. IsFiniteSet(disc) /\ IsFiniteSet(surv) BY <2>5, <2>6
  <2>8. disc \in SUBSET Nat /\ surv \in SUBSET Nat /\ surv # {} BY <1>6, <2>1, <2>3
  <2>9. disc # {} => (Max(disc) > Max(surv) <=> \E a \in disc : \A b \in surv : a > b)
    BY <2>7, <2>8, MaxAbove
  <2>10. disc # {} /\ Max(disc) > Max(surv) <=> \E a \in disc : \A b \in surv : a > b BY <2>9
  <2>11. (\E a \in disc : \A b \in surv : a > b) <=> \E c \in I : \A e \in J : Lsn(c, k) > Lsn(e, k)
    BY <2>3
  <2>12. \A c \in 1..C, e \in 1..C : Lsn(c, k) > Lsn(e, k) <=> LsnBase(c) > LsnBase(e) BY <1>6, <1>7
  <2>13. (\E c \in I : \A e \in J : Lsn(c, k) > Lsn(e, k))
            <=> \E c \in I : \A e \in J : LsnBase(c) > LsnBase(e)
    BY <2>1, <2>12
  <2> QED BY <2>10, <2>11, <2>13 DEF I, J
<1> HIDE DEF disc, surv, dup
<1>9. CASE dup BY <1>1, <1>2, <1>3, <1>9
<1>10. CASE ~dup BY <1>1, <1>3, <1>4, <1>8, <1>10
<1> QED BY <1>9, <1>10

\* Where the audit does not abstain and does not merge, it judges each key of which a
\* group has every row as the closed form does.
LEMMA WholeGroupIs ==
    ASSUME StudyInv, Done, OracleValid, ~opts.cross, opts.guard, NEW k, ~Straddles(scanned, groups, k)
    PROVE  /\ k \in Captured(summary) => k \in ExpectedStaleWins
           /\ summary.decided /\ k \in ExpectedStaleWins => k \in Captured(summary)
<1> DEFINE A == Audited(scanned, groups, opts)
<1>1. /\ Studied(scanned) /\ scanned \in Table(Nat, Nat) /\ Finished(scanned) /\ Apart(groups) /\ A \subseteq groups
      /\ Captured(summary) = summary.keys
      /\ summary.keys = IF summary.decided THEN UNION {FlaggedIn(scanned, g, opts.guard) : g \in A} ELSE {}
      /\ opts \in Options
  BY DoneIs
<1>2. opts.guard = TRUE BY <1>1 DEF Options
<1>3. k \in Captured(summary) <=> summary.decided /\ \E g \in A : k \in FlaggedIn(scanned, g, TRUE)
  <2> DEFINE flagged == UNION {FlaggedIn(scanned, g, opts.guard) : g \in A}
  <2>1. k \in flagged <=> \E g \in A : k \in FlaggedIn(scanned, g, opts.guard)
    <3> HIDE DEF A
    <3> QED OBVIOUS
  <2>2. Captured(summary) = IF summary.decided THEN flagged ELSE {} BY <1>1
  <2> HIDE DEF A, flagged
  <2> QED BY <1>2, <2>1, <2>2
<1>4. PICK g \in groups : \A r \in RowsOf(scanned.data, k) : r.file \in g BY DEF Straddles
<1>5. k \in FlaggedIn(scanned, g, TRUE) <=> k \in ExpectedStaleWins
  <2>1. k \in FlaggedIn(scanned, g, TRUE) <=> Outranked(scanned, k) /\ OneSurvivor(scanned, k)
    BY <1>1, <1>4, WholeKey
  <2> QED BY <1>1, <2>1, ExpectedAre
<1>6. ASSUME NEW h \in groups, k \in FlaggedIn(scanned, h, TRUE) PROVE h = g
  <2>1. PICK r \in RowsOf(scanned.data, k) : r.file \in h BY <1>1, <1>6, WholeKey
  <2>2. r.file \in g BY <1>4
  <2> QED BY <1>1, <2>1, <2>2 DEF Apart
<1>7. k \in FlaggedIn(scanned, g, TRUE) => g \in A
  <2>1. k \in FlaggedIn(scanned, g, TRUE) => MayContainStaleWins(scanned, g) BY <1>1, GateClearsNone
  <2> QED BY <2>1 DEF Audited
<1> HIDE DEF A
<1> QED BY <1>1, <1>3, <1>5, <1>6, <1>7

\* ErrorsStraddle holds: judged group by group, the audit errs only on keys whose
\* versions do not share a group; abstaining or merged over all groups, it flags no key
\* wrongly (bench_straddle_repeat.py, diagnose_straddle_fp.py, bench_scale_groups.py).
THEOREM ErrorsOnlyStraddle == StudySpec => []ErrorsStraddle
<1>1. ASSUME StudyInv PROVE ErrorsStraddle
  <2> SUFFICES ASSUME Done
               PROVE  /\ StraddleRepeatRun /\ ~opts.cross =>
                           /\ \A k \in Misses : summary.decided => Straddles(scanned, groups, k)
                           /\ \A k \in Captured(summary) \ ExpectedStaleWins : Straddles(scanned, groups, k)
                           /\ \A k \in Keys : ClassifyKey(k).violation <=> k \in ExpectedStaleWins
                      /\ ScaleGroupsRun /\ UNION groups = FilesOf(scanned) => ScaleGroupsChecks
    BY DEF ErrorsStraddle
  <2>1. /\ OracleValid => Finished(scanned)
        /\ groups # {} /\ IsFiniteSet(groups) /\ Cardinality(groups) \in Nat
        /\ summary.decided <=> opts.cross \/ ~opts.failClosed \/ Cardinality(groups) <= 1
        /\ ~summary.decided => summary.keys = {}
        /\ ~opts.cross => Captured(summary) = summary.keys
    BY <1>1, DoneIs
  <2>2. ASSUME StraddleRepeatRun, ~opts.cross
        PROVE  /\ \A k \in Misses : summary.decided => Straddles(scanned, groups, k)
               /\ \A k \in Captured(summary) \ ExpectedStaleWins : Straddles(scanned, groups, k)
               /\ \A k \in Keys : ClassifyKey(k).violation <=> k \in ExpectedStaleWins
    <3>1. OracleValid /\ opts.guard BY <2>2 DEF StraddleRepeatRun
    <3>2. \A k : ~Straddles(scanned, groups, k) =>
             /\ k \in Captured(summary) => k \in ExpectedStaleWins
             /\ summary.decided /\ k \in ExpectedStaleWins => k \in Captured(summary)
      BY <1>1, <2>2, <3>1, WholeGroupIs
    <3>3. \A k \in Keys : ClassifyKey(k).violation <=> k \in ExpectedStaleWins BY <2>1, <3>1, ClassifyIs
    <3> QED BY <3>2, <3>3 DEF Misses
  <2>3. ASSUME ScaleGroupsRun, UNION groups = FilesOf(scanned) PROVE ScaleGroupsChecks
    <3>1. OracleValid /\ opts.guard /\ opts.failClosed BY <2>3 DEF ScaleGroupsRun
    <3>2. LiveRowsMatch BY <1>1, <3>1, RowsMatch
    <3>3. ASSUME NEW k \in Captured(summary) PROVE k \in ExpectedStaleWins
      <4>1. OneGroup \/ opts.cross
        <5> SUFFICES ASSUME ~opts.cross PROVE OneGroup OBVIOUS
        <5>1. summary.decided BY <2>1, <3>3
        <5>2. Cardinality(groups) <= 1 BY <2>1, <3>1, <5>1
        <5>3. Cardinality(groups) # 0 BY <2>1, FS_EmptySet
        <5>4. Cardinality(groups) = 1 BY <2>1, <5>2, <5>3
        <5>5. PICK g : groups = {g} BY <2>1, <5>4, FS_Singleton
        <5>6. UNION groups = g BY <5>5
        <5> QED BY <2>3, <5>5, <5>6 DEF OneGroup
      <4>2. Outranked(scanned, k) /\ OneSurvivor(scanned, k) BY <1>1, <2>3, <3>1, <3>3, <4>1, OneGroupIs
      <4> QED BY <2>1, <3>1, <4>2, ExpectedAre
    <3>4. ExpectedStaleWins \cap ExpectedDupRisky = {} BY <2>1, <3>1, ExpectedAre
    <3> QED BY <3>2, <3>3, <3>4 DEF ScaleGroupsChecks, FromDuplicates, OtherFalsePositives
  <2> QED BY <2>2, <2>3
<1>2. StudyInv => ErrorsStraddle BY <1>1
<1> QED BY <1>2, StudyInvHolds, PTL

-----------------------------------------------------------------------------
\* The tables written by hand.

\* A commit of a hand table.
HandCommits ==
    {c \in [rows : SUBSET (Nat \X Nat), deletes : SUBSET Nat] : IsFiniteSet(c.rows) /\ IsFiniteSet(c.deletes)}

HandDel(c, k) == [key |-> k, seq |-> c]

\* What the first n of a table's commits leave.
HandTable(S, n) ==
    [data |-> UNION {{HandRow(c, r) : r \in S[c].rows} : c \in 1..n},
     dels |-> UNION {{HandDel(c, k) : k \in S[c].deletes} : c \in 1..n}]

\* The rows and deletes of such a table.
LEMMA HandIs ==
    ASSUME NEW S, NEW n
    PROVE  /\ \A r : r \in HandTable(S, n).data <=> \E c \in 1..n : \E q \in S[c].rows : r = HandRow(c, q)
           /\ \A d : d \in HandTable(S, n).dels <=> \E c \in 1..n : \E k \in S[c].deletes : d = HandDel(c, k)
<1> DEFINE R(c) == {HandRow(c, r) : r \in S[c].rows}
           D(c) == {HandDel(c, k) : k \in S[c].deletes}
<1>1. \A c, r : r \in R(c) <=> \E q \in S[c].rows : r = HandRow(c, q) OBVIOUS
<1>2. \A c, d : d \in D(c) <=> \E k \in S[c].deletes : d = HandDel(c, k) OBVIOUS
<1>3. HandTable(S, n).data = UNION {R(c) : c \in 1..n} /\ HandTable(S, n).dels = UNION {D(c) : c \in 1..n}
  BY DEF HandTable
<1> HIDE DEF R, D
<1> QED BY <1>1, <1>2, <1>3

\* One commit more.
LEMMA HandMore ==
    ASSUME NEW S, NEW n \in Nat
    PROVE  HandTable(S, n + 1) =
               [data |-> HandTable(S, n).data \cup {HandRow(n + 1, r) : r \in S[n + 1].rows},
                dels |-> HandTable(S, n).dels \cup {HandDel(n + 1, k) : k \in S[n + 1].deletes}]
<1> DEFINE R(c) == {HandRow(c, r) : r \in S[c].rows}
           D(c) == {HandDel(c, k) : k \in S[c].deletes}
<1>1. 1..(n + 1) = (1..n) \cup {n + 1} OBVIOUS
<1>2. UNION {R(c) : c \in 1..(n + 1)} = (UNION {R(c) : c \in 1..n}) \cup R(n + 1)
  <2> HIDE DEF R
  <2> QED BY <1>1
<1>3. UNION {D(c) : c \in 1..(n + 1)} = (UNION {D(c) : c \in 1..n}) \cup D(n + 1)
  <2> HIDE DEF D
  <2> QED BY <1>1
<1> QED BY <1>2, <1>3 DEF HandTable

\* It is a finite table of numbers.
LEMMA HandIsStudied ==
    ASSUME NEW n \in Nat, NEW S, \A c \in 1..n : S[c] \in HandCommits
    PROVE  Studied(HandTable(S, n)) /\ HandTable(S, n) \in Table(Nat, Nat)
<1> DEFINE t == HandTable(S, n)
           R(c) == {HandRow(c, r) : r \in S[c].rows}
           D(c) == {HandDel(c, k) : k \in S[c].deletes}
           Rows == {R(c) : c \in 1..n}
           Dels == {D(c) : c \in 1..n}
<1>1. \A c \in 1..n : /\ IsFiniteSet(S[c].rows) /\ S[c].rows \subseteq Nat \X Nat
                      /\ IsFiniteSet(S[c].deletes) /\ S[c].deletes \subseteq Nat
  BY DEF HandCommits
<1>2. ASSUME NEW c \in 1..n PROVE IsFiniteSet(R(c)) /\ IsFiniteSet(D(c))
  <2> DEFINE f == [r \in S[c].rows |-> HandRow(c, r)]
             g == [k \in S[c].deletes |-> HandDel(c, k)]
  <2>1. f \in [S[c].rows -> R(c)] /\ \A x \in R(c) : \E r \in S[c].rows : f[r] = x OBVIOUS
  <2>2. g \in [S[c].deletes -> D(c)] /\ \A x \in D(c) : \E k \in S[c].deletes : g[k] = x OBVIOUS
  <2> HIDE DEF f, g, R, D
  <2> QED BY <1>1, <2>1, <2>2, FiniteImage
<1>3. t.data = UNION Rows /\ t.dels = UNION Dels BY DEF HandTable
<1>4. IsFiniteSet(t.data) /\ IsFiniteSet(t.dels)
  <2> DEFINE f == [c \in 1..n |-> R(c)]
             g == [c \in 1..n |-> D(c)]
  <2>1. f \in [1..n -> Rows] /\ \A x \in Rows : \E c \in 1..n : f[c] = x OBVIOUS
  <2>2. g \in [1..n -> Dels] /\ \A x \in Dels : \E c \in 1..n : g[c] = x OBVIOUS
  <2>3. (\A x \in Rows : IsFiniteSet(x)) /\ \A x \in Dels : IsFiniteSet(x) BY <1>2
  <2>4. IsFiniteSet(1..n)
    <3>1. 1 \in Int /\ n \in Int OBVIOUS
    <3> QED BY <3>1, FS_Interval
  <2> HIDE DEF f, g, Rows, Dels, t
  <2>5. IsFiniteSet(Rows) /\ IsFiniteSet(Dels) BY <2>1, <2>2, <2>4, FiniteImage
  <2>6. IsFiniteSet(UNION Rows) /\ IsFiniteSet(UNION Dels) BY <2>3, <2>5, FS_UNION
  <2> QED BY <1>3, <2>6
<1>5. ASSUME NEW r \in t.data PROVE r \in Row(Nat, Nat)
  <2>1. PICK c \in 1..n : \E q \in S[c].rows : r = HandRow(c, q) BY HandIs
  <2>2. PICK q \in S[c].rows : r = HandRow(c, q) BY <2>1
  <2>3. q[1] \in Nat /\ q[2] \in Nat /\ c \in Nat BY <1>1
  <2>4. <<c, 1>> \in Nat \X Nat BY <2>3
  <2> QED BY <2>2, <2>3, <2>4 DEF HandRow, Row, File
<1>6. ASSUME NEW d \in t.dels PROVE d \in Del(Nat)
  <2>1. PICK c \in 1..n : \E k \in S[c].deletes : d = HandDel(c, k) BY HandIs
  <2>2. PICK k \in S[c].deletes : d = HandDel(c, k) BY <2>1
  <2>3. k \in Nat /\ c \in Nat BY <1>1
  <2> QED BY <2>2, <2>3 DEF HandDel, Del
<1>7. t = [data |-> t.data, dels |-> t.dels] BY DEF HandTable
<1> HIDE DEF t
<1>8. t \in Table(Nat, Nat) BY <1>5, <1>6, <1>7 DEF Table
<1>9. Studied(t) BY <1>4, <1>5, <1>6 DEF Studied
<1> QED BY <1>8, <1>9 DEF t

\* A function on 1..n is a sequence of length n.
LEMMA LengthIs ==
    ASSUME NEW n \in Nat, NEW S, S = [c \in 1..n |-> S[c]]
    PROVE  Len(S) = n
<1> DEFINE X == {S[c] : c \in 1..n}
<1>1. S \in [1..n -> X] OBVIOUS
<1> HIDE DEF X
<1>2. S \in Seq(X) BY <1>1
<1>3. DOMAIN S = 1..Len(S) /\ Len(S) \in Nat BY <1>2
<1>4. DOMAIN S = 1..n BY <1>1
<1> QED BY <1>3, <1>4

\* The commits of each table.
LEMMA HandTablesAre ==
    /\ DOMAIN HandTables = {"m3_clean", "m3_corrupt", "metrics_clean", "metrics_corrupt", "clean_control", "survivor"}
    /\ HandTables["m3_clean"] = M3Clean /\ HandTables["m3_corrupt"] = M3Corrupt
    /\ HandTables["metrics_clean"] = MetricCommits(FALSE) /\ HandTables["metrics_corrupt"] = MetricCommits(TRUE)
    /\ HandTables["clean_control"] = CleanControl /\ HandTables["survivor"] = ThreeVersions
    /\ Len(M3Clean) = 10 /\ Len(M3Corrupt) = 10 /\ Len(MetricCommits(FALSE)) = 6 /\ Len(MetricCommits(TRUE)) = 6
    /\ Len(CleanControl) = 4 /\ Len(ThreeVersions) = 3
<1>1. Len(M3Clean) = 10 BY LengthIs DEF M3Clean
<1>2. Len(M3Corrupt) = 10
  <2>1. M3Corrupt = [c \in 1..10 |-> M3Corrupt[c]] BY DEF M3Corrupt, M3Clean
  <2> QED BY <2>1, LengthIs
<1>3. \A b \in BOOLEAN : Len(MetricCommits(b)) = 6
  <2> SUFFICES ASSUME NEW b \in BOOLEAN PROVE Len(MetricCommits(b)) = 6 OBVIOUS
  <2>1. MetricCommits(b) = [c \in 1..6 |-> MetricCommits(b)[c]] BY DEF MetricCommits
  <2> QED BY <2>1, LengthIs
<1>4. Len(CleanControl) = 4
  <2>1. CleanControl = [c \in 1..4 |-> CleanControl[c]] BY DEF CleanControl
  <2> QED BY <2>1, LengthIs
<1>5. Len(ThreeVersions) = 3 BY DEF ThreeVersions
<1> QED BY <1>1, <1>2, <1>3, <1>4, <1>5 DEF HandTables

\* The commits, one by one.
LEMMA M3CommitsAre ==
    /\ \A c \in 1..10 : M3Clean[c] = HandCommit({<<c, c>>}, {})
    /\ \A c \in 1..8 : M3Corrupt[c] = HandCommit({<<c, c>>}, {})
    /\ M3Corrupt[9] = HandCommit({<<9, 9>>, <<10, 12>>}, {})
    /\ M3Corrupt[10] = HandCommit({<<10, 11>>}, {10})
<1>1. \A c \in 1..10 : M3Clean[c] = HandCommit({<<c, c>>}, {}) BY DEF M3Clean
<1>2. DOMAIN M3Clean = 1..10 BY DEF M3Clean
<1> DEFINE a == HandCommit({<<9, 9>>, <<10, 12>>}, {})
           b == HandCommit({<<10, 11>>}, {10})
           G == [M3Clean EXCEPT ![9] = a]
<1>3. M3Corrupt = [G EXCEPT ![10] = b] BY DEF M3Corrupt
<1>4. DOMAIN G = 1..10 /\ G[9] = a /\ \A c \in 1..8 : G[c] = M3Clean[c]
  <2> HIDE DEF a
  <2> QED BY <1>2
<1> HIDE DEF a, b, G
<1>5. M3Corrupt[9] = a /\ M3Corrupt[10] = b /\ \A c \in 1..8 : M3Corrupt[c] = M3Clean[c]
  BY <1>3, <1>4
<1> QED BY <1>1, <1>5 DEF a, b

\* Those of the other tables.
LEMMA WholeCommitsAre ==
    /\ \A b \in BOOLEAN : \A c \in 1..6 :
          MetricCommits(b)[c] = HandCommit({<<k, MetricLsn(b, c, k)>> : k \in MetricKeys}, IF c > 1 THEN MetricKeys ELSE {})
    /\ \A c \in 1..4 :
          CleanControl[c] = HandCommit({<<k, ControlLsn(c, k)>> : k \in ControlKeys}, IF c > 1 THEN ControlKeys ELSE {})
    /\ ThreeVersions[1] = HandCommit({<<1, 50>>}, {}) /\ ThreeVersions[2] = HandCommit({<<1, 10>>}, {1})
    /\ ThreeVersions[3] = HandCommit({<<1, 100>>}, {1})
<1>1. \A b \in BOOLEAN : \A c \in 1..6 :
          MetricCommits(b)[c] = HandCommit({<<k, MetricLsn(b, c, k)>> : k \in MetricKeys}, IF c > 1 THEN MetricKeys ELSE {})
  BY DEF MetricCommits
<1>2. \A c \in 1..4 :
          CleanControl[c] = HandCommit({<<k, ControlLsn(c, k)>> : k \in ControlKeys}, IF c > 1 THEN ControlKeys ELSE {})
  BY DEF CleanControl
<1>3. /\ ThreeVersions[1] = HandCommit({<<1, 50>>}, {}) /\ ThreeVersions[2] = HandCommit({<<1, 10>>}, {1})
      /\ ThreeVersions[3] = HandCommit({<<1, 100>>}, {1})
  <2> DEFINE a == HandCommit({<<1, 50>>}, {})
             b == HandCommit({<<1, 10>>}, {1})
             d == HandCommit({<<1, 100>>}, {1})
  <2>1. ThreeVersions = <<a, b, d>> BY DEF ThreeVersions
  <2> HIDE DEF a, b, d
  <2>2. ThreeVersions[1] = a /\ ThreeVersions[2] = b /\ ThreeVersions[3] = d BY <2>1
  <2> QED BY <2>2 DEF a, b, d
<1> QED BY <1>1, <1>2, <1>3

\* Rows and deletes are finitely many numbers.
LEMMA HandCommitsAre ==
    \A name \in DOMAIN HandTables : \A c \in 1..Len(HandTables[name]) :
        HandTables[name][c] \in HandCommits
<1>1. ASSUME NEW R \in SUBSET (Nat \X Nat), IsFiniteSet(R), NEW ks \in SUBSET Nat, IsFiniteSet(ks)
      PROVE  HandCommit(R, ks) \in HandCommits
  BY <1>1 DEF HandCommit, HandCommits
<1>2. IsFiniteSet({}) BY FS_EmptySet
<1>3. ASSUME NEW p \in Nat \X Nat, NEW q \in Nat \X Nat PROVE IsFiniteSet({p}) /\ IsFiniteSet({p, q})
  <2>1. IsFiniteSet({p}) /\ {p, q} = {p} \cup {q} BY FS_Singleton
  <2>2. IsFiniteSet({p} \cup {q}) BY <2>1, FS_AddElement
  <2> QED BY <2>1, <2>2
<1>4. ASSUME NEW p \in Nat \X Nat, NEW q \in Nat \X Nat, NEW ks \in SUBSET Nat, IsFiniteSet(ks)
      PROVE  HandCommit({p}, ks) \in HandCommits /\ HandCommit({p, q}, ks) \in HandCommits
  <2>1. {p} \in SUBSET (Nat \X Nat) /\ {p, q} \in SUBSET (Nat \X Nat) OBVIOUS
  <2>2. IsFiniteSet({p}) /\ IsFiniteSet({p, q}) BY <1>3
  <2> DEFINE A == {p}
             B == {p, q}
  <2> HIDE DEF A, B
  <2>3. HandCommit(A, ks) \in HandCommits BY <1>1, <1>4, <2>1, <2>2 DEF A
  <2>4. HandCommit(B, ks) \in HandCommits BY <1>1, <1>4, <2>1, <2>2 DEF B
  <2> QED BY <2>3, <2>4 DEF A, B
<1>5. ASSUME NEW a \in Nat, NEW b \in Nat, NEW f \in [a..b -> Nat], NEW ks \in {{}, a..b}
      PROVE  HandCommit({<<k, f[k]>> : k \in a..b}, ks) \in HandCommits
  <2>1. IsFiniteSet(a..b)
    <3>1. a \in Int /\ b \in Int OBVIOUS
    <3> QED BY <3>1, FS_Interval
  <2> DEFINE P == {<<k, f[k]>> : k \in a..b}
             g == [k \in a..b |-> <<k, f[k]>>]
  <2>2. g \in [a..b -> P] /\ \A x \in P : \E k \in a..b : g[k] = x OBVIOUS
  <2>3. P \in SUBSET (Nat \X Nat) /\ a..b \in SUBSET Nat OBVIOUS
  <2> HIDE DEF P, g
  <2>4. IsFiniteSet(P) BY <2>1, <2>2, FiniteImage
  <2>5. ks \in SUBSET Nat /\ IsFiniteSet(ks) BY <1>2, <2>1, <2>3
  <2>6. HandCommit(P, ks) \in HandCommits BY <1>1, <2>3, <2>4, <2>5
  <2> QED BY <2>6 DEF P
<1>6. \A k \in Nat : {k} \in SUBSET Nat /\ IsFiniteSet({k}) BY FS_Singleton
<1>7. \A c \in Nat : HandCommit({<<c, c>>}, {}) \in HandCommits
  <2> SUFFICES ASSUME NEW c \in Nat PROVE HandCommit({<<c, c>>}, {}) \in HandCommits OBVIOUS
  <2> DEFINE p == <<c, c>>
  <2>1. p \in Nat \X Nat OBVIOUS
  <2> HIDE DEF p
  <2>2. HandCommit({p}, {}) \in HandCommits BY <1>2, <1>4, <2>1
  <2> QED BY <2>2 DEF p
<1>8. HandCommit({<<9, 9>>, <<10, 12>>}, {}) \in HandCommits
  <2> DEFINE p == <<9, 9>>
             q == <<10, 12>>
  <2>1. p \in Nat \X Nat /\ q \in Nat \X Nat OBVIOUS
  <2> HIDE DEF p, q
  <2>2. HandCommit({p, q}, {}) \in HandCommits BY <1>2, <1>4, <2>1
  <2> QED BY <2>2 DEF p, q
<1>9. \A k \in Nat, v \in Nat : HandCommit({<<k, v>>}, {k}) \in HandCommits /\ HandCommit({<<k, v>>}, {}) \in HandCommits
  <2> SUFFICES ASSUME NEW k \in Nat, NEW v \in Nat
               PROVE  HandCommit({<<k, v>>}, {k}) \in HandCommits /\ HandCommit({<<k, v>>}, {}) \in HandCommits
    OBVIOUS
  <2> DEFINE p == <<k, v>>
             ks == {k}
  <2>1. p \in Nat \X Nat /\ ks \in SUBSET Nat /\ IsFiniteSet(ks) BY <1>6
  <2> HIDE DEF p, ks
  <2>2. HandCommit({p}, ks) \in HandCommits BY <1>4, <2>1
  <2>3. HandCommit({p}, {}) \in HandCommits BY <1>2, <1>4, <2>1
  <2> QED BY <2>2, <2>3 DEF p, ks
<1>10. \A c \in 1..10 : M3Clean[c] \in HandCommits BY <1>7, M3CommitsAre
<1>11. \A c \in 1..10 : M3Corrupt[c] \in HandCommits
  <2>1. M3Corrupt[9] \in HandCommits BY <1>8, M3CommitsAre
  <2>2. M3Corrupt[10] \in HandCommits
    <3>1. HandCommit({<<10, 11>>}, {10}) \in HandCommits BY <1>9
    <3> QED BY <3>1, M3CommitsAre
  <2>3. \A c \in 1..8 : M3Corrupt[c] \in HandCommits BY <1>7, M3CommitsAre
  <2>4. \A c \in 1..10 : c \in 1..8 \/ c = 9 \/ c = 10 OBVIOUS
  <2> QED BY <2>1, <2>2, <2>3, <2>4
<1>12. \A b \in BOOLEAN : \A c \in 1..6 : MetricCommits(b)[c] \in HandCommits
  <2> SUFFICES ASSUME NEW b \in BOOLEAN, NEW c \in 1..6 PROVE MetricCommits(b)[c] \in HandCommits OBVIOUS
  <2> DEFINE f == [k \in 5..9 |-> MetricLsn(b, c, k)]
             ks == IF c > 1 THEN 5..9 ELSE {}
  <2>1. f \in [5..9 -> Nat]
    <3>1. \A k \in 5..9 : MetricLsn(b, c, k) \in Nat BY SMT DEF MetricLsn
    <3> QED BY <3>1
  <2>2. \A k \in 5..9 : f[k] = MetricLsn(b, c, k) OBVIOUS
  <2>3. MetricCommits(b)[c] = HandCommit({<<k, MetricLsn(b, c, k)>> : k \in 5..9}, ks) BY WholeCommitsAre DEF MetricKeys
  <2>4. ks \in {{}, 5..9} /\ 5 \in Nat /\ 9 \in Nat OBVIOUS
  <2> HIDE DEF f, ks
  <2>5. {<<k, MetricLsn(b, c, k)>> : k \in 5..9} = {<<k, f[k]>> : k \in 5..9} BY <2>2
  <2>6. HandCommit({<<k, f[k]>> : k \in 5..9}, ks) \in HandCommits BY <1>5, <2>1, <2>4
  <2> QED BY <2>3, <2>5, <2>6
<1>13. \A c \in 1..4 : CleanControl[c] \in HandCommits
  <2> SUFFICES ASSUME NEW c \in 1..4 PROVE CleanControl[c] \in HandCommits OBVIOUS
  <2> DEFINE f == [k \in 1..5 |-> ControlLsn(c, k)]
             ks == IF c > 1 THEN 1..5 ELSE {}
  <2>1. f \in [1..5 -> Nat] /\ \A k \in 1..5 : f[k] = ControlLsn(c, k)
    <3>1. \A k \in 1..5 : ControlLsn(c, k) \in Nat BY SMT DEF ControlLsn
    <3> QED BY <3>1
  <2>2. CleanControl[c] = HandCommit({<<k, ControlLsn(c, k)>> : k \in 1..5}, ks) BY WholeCommitsAre DEF ControlKeys
  <2>3. ks \in {{}, 1..5} /\ 1 \in Nat /\ 5 \in Nat OBVIOUS
  <2> HIDE DEF f, ks
  <2>4. {<<k, ControlLsn(c, k)>> : k \in 1..5} = {<<k, f[k]>> : k \in 1..5} BY <2>1
  <2>5. HandCommit({<<k, f[k]>> : k \in 1..5}, ks) \in HandCommits BY <1>5, <2>1, <2>3
  <2> QED BY <2>2, <2>4, <2>5
<1>14. \A c \in 1..3 : ThreeVersions[c] \in HandCommits
  <2>1. HandCommit({<<1, 50>>}, {}) \in HandCommits BY <1>9
  <2>2. HandCommit({<<1, 10>>}, {1}) \in HandCommits BY <1>9
  <2>3. HandCommit({<<1, 100>>}, {1}) \in HandCommits BY <1>9
  <2>4. \A c \in 1..3 : c = 1 \/ c = 2 \/ c = 3 OBVIOUS
  <2> QED BY <2>1, <2>2, <2>3, <2>4, WholeCommitsAre
<1> QED BY <1>10, <1>11, <1>12, <1>13, <1>14, HandTablesAre

\* Every table starts with a row.
LEMMA HandStarts == \A name \in DOMAIN HandTables : HandTables[name][1].rows # {}
<1>1. \A R, D : HandCommit(R, D).rows = R BY DEF HandCommit
<1>2. M3Clean[1].rows # {}
  <2>1. M3Clean[1].rows = {<<1, 1>>} BY <1>1, M3CommitsAre
  <2> QED BY <2>1
<1>3. M3Corrupt[1].rows # {}
  <2>1. M3Corrupt[1].rows = {<<1, 1>>} BY <1>1, M3CommitsAre
  <2> QED BY <2>1
<1>4. \A b \in BOOLEAN : MetricCommits(b)[1].rows # {}
  <2> SUFFICES ASSUME NEW b \in BOOLEAN PROVE MetricCommits(b)[1].rows # {} OBVIOUS
  <2>1. MetricCommits(b)[1].rows = {<<k, MetricLsn(b, 1, k)>> : k \in MetricKeys}
    <3> DEFINE X(c) == {<<k, MetricLsn(b, c, k)>> : k \in MetricKeys}
               Y(c) == IF c > 1 THEN MetricKeys ELSE {}
    <3>1. \A c \in 1..6 : MetricCommits(b)[c] = HandCommit(X(c), Y(c)) BY WholeCommitsAre
    <3> HIDE DEF X, Y
    <3>2. MetricCommits(b)[1].rows = X(1) BY <1>1, <3>1
    <3> QED BY <3>2 DEF X
  <2>2. 5 \in MetricKeys BY DEF MetricKeys
  <2> QED BY <2>1, <2>2
<1>5. CleanControl[1].rows # {}
  <2>1. CleanControl[1].rows = {<<k, ControlLsn(1, k)>> : k \in ControlKeys} BY <1>1, WholeCommitsAre
  <2>2. 1 \in ControlKeys BY DEF ControlKeys
  <2> QED BY <2>1, <2>2
<1>6. ThreeVersions[1].rows # {}
  <2>1. ThreeVersions[1].rows = {<<1, 50>>} BY <1>1, WholeCommitsAre
  <2> QED BY <2>1
<1> QED BY <1>2, <1>3, <1>4, <1>5, <1>6, HandTablesAre

\* A study that writes its table by hand has written a beginning of it, or has compacted the
\* whole and read the summary.
HandInv ==
    study # "synthetic" =>
        /\ study \in DOMAIN HandTables /\ made \in 0..Len(HandTables[study])
        /\ \/ /\ scanned = EmptyTable /\ summary = NoSummary
              /\ table = HandTable(HandTables[study], made)
           \/ /\ made = Len(HandTables[study])
              /\ scanned = HandTable(HandTables[study], made)
              /\ opts = HandOptions(study) /\ groups = {Selected(study, scanned)}
              /\ summary = Summary(scanned, groups, opts)

\* Every step of the study keeps to it.
LEMMA HandInvHolds == StudySpec => []HandInv
<1>1. StudyInit => HandInv
  <2> SUFFICES ASSUME StudyInit, study # "synthetic" PROVE HandInv BY DEF HandInv
  <2>1. /\ study \in DOMAIN HandTables /\ made = 0 /\ table = EmptyTable
        /\ scanned = EmptyTable /\ summary = NoSummary
    BY DEF StudyInit, SynthInit
  <2>2. HandTable(HandTables[study], 0) = EmptyTable
    <3>1. 1..0 = {} OBVIOUS
    <3> QED BY <3>1 DEF HandTable, EmptyTable
  <2>3. Len(HandTables[study]) \in Nat BY <2>1, HandTablesAre
  <2> QED BY <2>1, <2>2, <2>3 DEF HandInv
<1>2. HandInv /\ [StudyNext]_studyVars => HandInv'
  <2> SUFFICES ASSUME HandInv, [StudyNext]_studyVars, study' # "synthetic" PROVE HandInv' BY DEF HandInv
  <2>1. study' = study BY DEF StudyNext, Write, CompactAndRead, studyVars
  <2> DEFINE S == HandTables[study]
  <2>2. /\ study \in DOMAIN HandTables /\ made \in 0..Len(S) /\ Len(S) \in Nat
        /\ \/ scanned = EmptyTable /\ summary = NoSummary /\ table = HandTable(S, made)
           \/ /\ made = Len(S) /\ scanned = HandTable(S, made)
              /\ opts = HandOptions(study) /\ groups = {Selected(study, scanned)}
              /\ summary = Summary(scanned, groups, opts)
    BY <2>1, HandTablesAre DEF HandInv
  <2>3. S' = S BY <2>1
  <2>4. CASE Write
    <3>1. HandWrite /\ UNCHANGED <<opts, groups, scanned, summary>> BY <2>1, <2>4 DEF Write
    <3>2. /\ made < Len(S) /\ made' = made + 1
          /\ table' = [data |-> table.data \cup {HandRow(made + 1, r) : r \in S[made + 1].rows},
                       dels |-> table.dels \cup {HandDel(made + 1, k) : k \in S[made + 1].deletes}]
      BY <3>1 DEF HandWrite, HandDel
    <3> HIDE DEF S
    <3>3. scanned = EmptyTable /\ summary = NoSummary /\ table = HandTable(S, made) BY <2>2, <3>2
    <3>4. made \in Nat /\ made' \in 0..Len(S) BY <2>2, <3>2
    <3>5. table' = HandTable(S, made + 1) BY <3>2, <3>3, <3>4, HandMore
    <3>6. table' = HandTable(S, made') BY <3>2, <3>5
    <3> QED BY <2>1, <2>2, <3>1, <3>3, <3>4, <3>6 DEF HandInv, S
  <2>5. CASE CompactAndRead
    <3>1. /\ made = Len(S) /\ scanned = EmptyTable /\ scanned' = table /\ made' = made
          /\ opts' = HandOptions(study) /\ groups' = {Selected(study, table)}
          /\ summary' = Summary(table, groups', opts')
      BY <2>1, <2>5 DEF CompactAndRead, Commits
    <3>2. HandTable(S, Len(S)) # EmptyTable
      <4>1. S[1].rows # {} BY <2>2, HandStarts
      <4>2. Len(S) \in Nat \ {0}
        <5>1. \A name \in DOMAIN HandTables : Len(HandTables[name]) \in {10, 6, 4, 3} BY HandTablesAre
        <5> HIDE DEF S
        <5>2. Len(S) \in {10, 6, 4, 3} BY <2>2, <5>1 DEF S
        <5> DEFINE L == Len(S)
        <5>3. L \in {10, 6, 4, 3} BY <5>2
        <5> HIDE DEF L
        <5>4. L \in Nat \ {0} BY <5>3
        <5> QED BY <5>4 DEF L
      <4> HIDE DEF S
      <4>3. PICK q \in S[1].rows : TRUE BY <4>1
      <4>4. 1 \in 1..Len(S) BY <4>2
      <4>5. HandRow(1, q) \in HandTable(S, Len(S)).data BY <4>3, <4>4, HandIs
      <4> QED BY <4>5 DEF EmptyTable
    <3> HIDE DEF S
    <3>3. table = HandTable(S, made) BY <2>2, <3>1, <3>2
    <3>4. /\ made' = Len(S) /\ made' \in 0..Len(S) /\ scanned' = HandTable(S, made') /\ opts' = HandOptions(study)
          /\ groups' = {Selected(study, scanned')} /\ summary' = Summary(scanned', groups', opts')
      BY <2>2, <3>1, <3>3
    <3>5. (Selected(study, scanned))' = Selected(study, scanned') /\ (Summary(scanned, groups, opts))' = Summary(scanned', groups', opts')
      BY <2>1 DEF Selected, FilesOf, Summary, NoSummary, Audited, MayContainStaleWins, SeqsOf, SeqSpan, GroupRows,
                  FlaggedIn, StaleWin, DeadIn, LiveIn, DeadRows, LiveRows, IsDeleted, RowsOf, VersionsOf
    <3> QED BY <2>1, <2>2, <3>4, <3>5 DEF HandInv, S
  <2>6. CASE UNCHANGED studyVars
    <3>1. UNCHANGED <<cfg, made, table, study, opts, groups, scanned, summary>> BY <2>6 DEF studyVars, synthVars
    <3> QED BY <2>1, <2>2, <3>1 DEF HandInv
  <2> QED BY <2>4, <2>5, <2>6 DEF StudyNext
<1> QED BY <1>1, <1>2, PTL DEF StudySpec

\* What a compaction of a hand table read.
LEMMA HandRead ==
    ASSUME HandInv, study # "synthetic", summary.present
    PROVE  /\ study \in DOMAIN HandTables
           /\ scanned = HandTable(HandTables[study], Len(HandTables[study]))
           /\ Studied(scanned) /\ scanned \in Table(Nat, Nat)
           /\ summary = Summary(scanned, {Selected(study, scanned)}, HandOptions(study))
<1>1. /\ study \in DOMAIN HandTables /\ made = Len(HandTables[study])
      /\ scanned = HandTable(HandTables[study], made)
      /\ summary = Summary(scanned, {Selected(study, scanned)}, HandOptions(study))
  <2>1. summary # NoSummary BY DEF NoSummary
  <2> QED BY <2>1 DEF HandInv
<1> DEFINE S == HandTables[study]
           n == Len(S)
<1>2. n \in Nat
  <2>1. \A name \in DOMAIN HandTables : Len(HandTables[name]) \in {10, 6, 4, 3} BY HandTablesAre
  <2>2. n \in {10, 6, 4, 3} BY <1>1, <2>1
  <2> HIDE DEF n
  <2> QED BY <2>2
<1>3. \A c \in 1..n : S[c] \in HandCommits BY <1>1, HandCommitsAre
<1> HIDE DEF S, n
<1>4. Studied(HandTable(S, n)) /\ HandTable(S, n) \in Table(Nat, Nat) BY <1>2, <1>3, HandIsStudied
<1> QED BY <1>1, <1>4 DEF S, n

\* What a summary says of one group: the gate let it pass, or it was audited.
Passed(s) == s.groups = 1 /\ s.gated = 1 /\ s.keys = {}

Reported(s, keys) == s.groups = 1 /\ s.audited = 1 /\ s.keys = keys

Guarded(o) == ~o.cross /\ o.guard = TRUE

GateHolds(t, g, o) == o.gate /\ ~MayContainStaleWins(t, g)

\* A group judged by itself: the gate clears it or its keys are audited.
LEMMA OneGroupSays ==
    ASSUME NEW t, NEW g, NEW o, Guarded(o)
    PROVE  /\ GateHolds(t, g, o) => Passed(Summary(t, {g}, o))
           /\ ~GateHolds(t, g, o) => Reported(Summary(t, {g}, o), FlaggedIn(t, g, TRUE))
<1> USE DEF Guarded
<1> DEFINE A == Audited(t, {g}, o)
           K(x) == FlaggedIn(t, x, TRUE)
<1>1. IsFiniteSet({}) /\ Cardinality({}) = 0 /\ Cardinality({g}) = 1 BY FS_EmptySet, FS_Singleton
<1>2. \A x : x \in A <=> x = g /\ (o.gate => MayContainStaleWins(t, g)) BY DEF Audited
<1>3. {g} # {} OBVIOUS
<1>4. /\ Summary(t, {g}, o).groups = Cardinality({g})
      /\ Summary(t, {g}, o).gated = Cardinality({g} \ A)
      /\ Summary(t, {g}, o).audited = Cardinality(A)
      /\ Summary(t, {g}, o).keys = IF o.cross \/ ~o.failClosed \/ Cardinality({g}) <= 1 THEN UNION {FlaggedIn(t, x, o.guard) : x \in A} ELSE {}
  <2> HIDE DEF A
  <2> QED BY <1>3 DEF Summary, A
<1>5. Summary(t, {g}, o).keys = UNION {K(x) : x \in A}
  <2>1. Cardinality({g}) <= 1 BY <1>1
  <2>2. \A x \in A : FlaggedIn(t, x, o.guard) = K(x) OBVIOUS
  <2> HIDE DEF A, K
  <2>3. UNION {FlaggedIn(t, x, o.guard) : x \in A} = UNION {K(x) : x \in A} BY <2>2
  <2> QED BY <1>4, <2>1, <2>3
<1> HIDE DEF A, K
<1>6. CASE GateHolds(t, g, o)
  <2>1. A = {} BY <1>2, <1>6 DEF GateHolds
  <2>2. {g} \ A = {g} /\ UNION {K(x) : x \in A} = {} BY <2>1
  <2> QED BY <1>1, <1>4, <1>5, <1>6, <2>2 DEF Passed
<1>7. CASE ~GateHolds(t, g, o)
  <2>1. A = {g} BY <1>2, <1>7 DEF GateHolds
  <2>2. UNION {K(x) : x \in A} = K(g) BY <2>1
  <2> QED BY <1>1, <1>4, <1>5, <1>7, <2>1, <2>2 DEF K, Reported
<1> QED BY <1>6, <1>7

\* Rows that rise with the sequence numbers pass the gate.
LEMMA RisingIsClear ==
    ASSUME NEW t, Studied(t), NEW g,
           \A q, r \in t.data : q.seq < r.seq => q.ver <= r.ver
    PROVE  ~MayContainStaleWins(t, g)
<1> SUFFICES ASSUME NEW a \in SeqsOf(t, g), NEW b \in SeqsOf(t, g), a < b
             PROVE  ~(Min(SeqSpan(t, g, b)) < Max(SeqSpan(t, g, a)))
  BY DEF MayContainStaleWins
<1>1. PICK r \in GroupRows(t, g) : r.seq = b /\ r.ver = Min(SeqSpan(t, g, b)) BY SpanIs
<1>2. PICK q \in GroupRows(t, g) : q.seq = a /\ q.ver = Max(SeqSpan(t, g, a)) BY SpanIs
<1>3. r \in t.data /\ q \in t.data BY DEF GroupRows
<1>4. r.ver \in Nat /\ q.ver \in Nat BY <1>3 DEF Studied, Row
<1>5. q.ver <= r.ver BY <1>1, <1>2, <1>3
<1> QED BY <1>1, <1>2, <1>4, <1>5

\* All the files hold all the rows.
LEMMA AllFiles == ASSUME NEW t PROVE GroupRows(t, FilesOf(t)) = t.data
BY DEF GroupRows, FilesOf

\* The parts of a commit.
LEMMA HandFields == \A R, D : HandCommit(R, D).rows = R /\ HandCommit(R, D).deletes = D
BY DEF HandCommit

\* The fields of a row and of a delete.
LEMMA HandParts ==
    /\ \A c, k, v : /\ HandRow(c, <<k, v>>).key = k /\ HandRow(c, <<k, v>>).ver = v
                    /\ HandRow(c, <<k, v>>).seq = c /\ HandRow(c, <<k, v>>).file = <<c, 1>>
    /\ \A c, k : HandDel(c, k).key = k /\ HandDel(c, k).seq = c
BY DEF HandRow, HandDel

\* validate_m3_contiguous, the clean table: each row's ordering value is its commit.
LEMMA M3CleanSays ==
    ASSUME NEW t, t = HandTable(M3Clean, 10), Studied(t)
    PROVE  ~MayContainStaleWins(t, FilesOf(t))
<1>1. ASSUME NEW r \in t.data PROVE r.seq \in Nat /\ r.ver = r.seq
  <2>1. PICK c \in 1..10 : \E q \in M3Clean[c].rows : r = HandRow(c, q) BY HandIs
  <2>2. M3Clean[c].rows = {<<c, c>>} BY M3CommitsAre, HandFields
  <2>3. r = HandRow(c, <<c, c>>) BY <2>1, <2>2
  <2> QED BY <2>3, HandParts
<1>2. \A q, r \in t.data : q.seq < r.seq => q.ver <= r.ver BY <1>1
<1> QED BY <1>2, RisingIsClear

\* The rows of the corrupt one, and its delete.
LEMMA M3CorruptRows ==
    ASSUME NEW t, t = HandTable(M3Corrupt, 10)
    PROVE  /\ HandRow(9, <<10, 12>>) \in t.data /\ HandRow(10, <<10, 11>>) \in t.data
           /\ \A r \in t.data : r.key = 10 => r \in {HandRow(9, <<10, 12>>), HandRow(10, <<10, 11>>)}
           /\ \A d : d \in t.dels <=> d = HandDel(10, 10)
<1>1. /\ \A c \in 1..8 : M3Corrupt[c].rows = {<<c, c>>} /\ M3Corrupt[c].deletes = {}
      /\ M3Corrupt[9].rows = {<<9, 9>>, <<10, 12>>} /\ M3Corrupt[9].deletes = {}
      /\ M3Corrupt[10].rows = {<<10, 11>>} /\ M3Corrupt[10].deletes = {10}
  BY M3CommitsAre, HandFields
<1>2. \A c \in 1..10 : c \in 1..8 \/ c = 9 \/ c = 10 OBVIOUS
<1>3. 9 \in 1..10 /\ 10 \in 1..10 OBVIOUS
<1>4. HandRow(9, <<10, 12>>) \in t.data
  <2>1. <<10, 12>> \in M3Corrupt[9].rows BY <1>1
  <2> QED BY <1>3, <2>1, HandIs
<1>5. HandRow(10, <<10, 11>>) \in t.data
  <2>1. <<10, 11>> \in M3Corrupt[10].rows BY <1>1
  <2> QED BY <1>3, <2>1, HandIs
<1>6. ASSUME NEW r \in t.data, r.key = 10 PROVE r \in {HandRow(9, <<10, 12>>), HandRow(10, <<10, 11>>)}
  <2>1. PICK c \in 1..10 : \E q \in M3Corrupt[c].rows : r = HandRow(c, q) BY HandIs
  <2>2. PICK q \in M3Corrupt[c].rows : r = HandRow(c, q) BY <2>1
  <2>3. CASE c \in 1..8
    <3>1. q = <<c, c>> BY <1>1, <2>2, <2>3
    <3>2. r.key = c BY <2>2, <3>1, HandParts
    <3> QED BY <1>6, <2>3, <3>2
  <2>4. CASE c = 9
    <3>1. q = <<9, 9>> \/ q = <<10, 12>> BY <1>1, <2>2, <2>4
    <3>2. q # <<9, 9>>
      <4>1. HandRow(9, <<9, 9>>).key = 9 BY HandParts
      <4> QED BY <1>6, <2>2, <2>4, <4>1
    <3> QED BY <2>2, <2>4, <3>1, <3>2
  <2>5. CASE c = 10
    <3>1. q = <<10, 11>> BY <1>1, <2>2, <2>5
    <3> QED BY <2>2, <2>5, <3>1
  <2> QED BY <1>2, <2>3, <2>4, <2>5
<1>7. ASSUME NEW d PROVE d \in t.dels <=> d = HandDel(10, 10)
  <2>1. d \in t.dels <=> \E c \in 1..10 : \E k \in M3Corrupt[c].deletes : d = HandDel(c, k) BY HandIs
  <2>2. \A c \in 1..10 : M3Corrupt[c].deletes = IF c = 10 THEN {10} ELSE {} BY <1>1, <1>2
  <2> QED BY <1>3, <2>1, <2>2
<1> QED BY <1>4, <1>5, <1>6, <1>7

\* A key is flagged in the group of every file as the whole table judges it.
LEMMA AllFilesFlag ==
    ASSUME NEW t, Studied(t), NEW k
    PROVE  k \in FlaggedIn(t, FilesOf(t), TRUE) <=> Outranked(t, k) /\ OneSurvivor(t, k)
<1>1. \A r \in RowsOf(t.data, k) : r.file \in FilesOf(t) BY DEF RowsOf, FilesOf
<1> QED BY <1>1, WholeKey

\* Its one stale win is key 10's.
LEMMA M3CorruptSays ==
    ASSUME NEW t, t = HandTable(M3Corrupt, 10), Studied(t), t \in Table(Nat, Nat)
    PROVE  MayContainStaleWins(t, FilesOf(t)) /\ FlaggedIn(t, FilesOf(t), TRUE) = {10}
<1> DEFINE a == HandRow(9, <<10, 12>>)
           b == HandRow(10, <<10, 11>>)
           e == HandDel(10, 10)
<1>1. /\ a.key = 10 /\ a.ver = 12 /\ a.seq = 9 /\ b.key = 10 /\ b.ver = 11 /\ b.seq = 10
      /\ e.key = 10 /\ e.seq = 10
  BY HandParts
<1>2. /\ a \in t.data /\ b \in t.data /\ \A r \in t.data : r.key = 10 => r \in {a, b}
      /\ \A d : d \in t.dels <=> d = e
  BY M3CorruptRows
<1> HIDE DEF a, b, e
<1>3. IsDeleted(t, a) /\ ~IsDeleted(t, b) /\ \A r \in t.data : IsDeleted(t, r) => r.key = 10
  <2>1. \A r : IsDeleted(t, r) <=> r.key = 10 /\ 10 > r.seq BY <1>1, <1>2 DEF IsDeleted
  <2> QED BY <1>1, <2>1
<1>4. RowsOf(LiveRows(t), 10) = {b} /\ RowsOf(DeadRows(t), 10) = {a}
  BY <1>1, <1>2, <1>3 DEF RowsOf, LiveRows, DeadRows
<1>5. Outranked(t, 10) /\ OneSurvivor(t, 10)
  <2>1. a.ver > b.ver BY <1>1
  <2> QED BY <1>4, <2>1 DEF Outranked, OneSurvivor
<1>6. ASSUME NEW k, Outranked(t, k) PROVE k = 10
  <2>1. PICK d \in RowsOf(DeadRows(t), k) : TRUE BY <1>6 DEF Outranked
  <2> QED BY <1>3, <2>1 DEF RowsOf, DeadRows
<1>7. FlaggedIn(t, FilesOf(t), TRUE) = {10} BY <1>5, <1>6, AllFilesFlag
<1>8. 10 \in FlaggedIn(t, FilesOf(t), TRUE) BY <1>7
<1> QED BY <1>7, <1>8, GateClearsNone

\* A table whose every commit writes every key, deleting the row before: the ordering
\* value of key k in commit c is V[c][k].
Upserts(t, n, K, V) ==
    /\ \A r : r \in t.data <=> \E c \in 1..n : \E k \in K : r = HandRow(c, <<k, V[c][k]>>)
    /\ \A d : d \in t.dels <=> \E c \in 2..n : \E k \in K : d = HandDel(c, k)

\* Each of its rows is in the file of its commit, and discarded but for the last.
LEMMA UpsertRows ==
    ASSUME NEW n \in Nat \ {0}, NEW K, NEW V, NEW t, Upserts(t, n, K, V)
    PROVE  \A c \in 1..n : \A k \in K :
              LET r == HandRow(c, <<k, V[c][k]>>)
              IN  /\ r \in t.data /\ r.key = k /\ r.ver = V[c][k] /\ r.seq = c /\ r.file = <<c, 1>>
                  /\ IsDeleted(t, r) <=> c < n
<1> SUFFICES ASSUME NEW c \in 1..n, NEW k \in K
             PROVE  LET r == HandRow(c, <<k, V[c][k]>>)
                    IN  /\ r \in t.data /\ r.key = k /\ r.ver = V[c][k] /\ r.seq = c /\ r.file = <<c, 1>>
                        /\ IsDeleted(t, r) <=> c < n
  OBVIOUS
<1> DEFINE r == HandRow(c, <<k, V[c][k]>>)
<1>1. r.key = k /\ r.ver = V[c][k] /\ r.seq = c /\ r.file = <<c, 1>> BY HandParts
<1>2. r \in t.data BY DEF Upserts
<1> HIDE DEF r
<1>3. ASSUME c < n PROVE IsDeleted(t, r)
  <2>1. n \in 2..n BY <1>3
  <2>2. HandDel(n, k) \in t.dels BY <2>1 DEF Upserts
  <2>3. HandDel(n, k).key = k /\ HandDel(n, k).seq = n BY HandParts
  <2> QED BY <1>1, <1>3, <2>2, <2>3 DEF IsDeleted
<1>4. ASSUME IsDeleted(t, r) PROVE c < n
  <2>1. PICK d \in t.dels : d.seq > r.seq BY <1>4 DEF IsDeleted
  <2>2. PICK e \in 2..n : \E l \in K : d = HandDel(e, l) BY DEF Upserts
  <2>3. d.seq = e BY <2>2, HandParts
  <2> QED BY <1>1, <2>1, <2>3
<1>5. r \in t.data /\ r.key = k /\ r.ver = V[c][k] /\ r.seq = c /\ r.file = <<c, 1>> /\ (IsDeleted(t, r) <=> c < n)
  BY <1>1, <1>2, <1>3, <1>4
<1> QED BY <1>5 DEF r

\* Values that rise from commit to commit pass the gate.
LEMMA UpsertsClear ==
    ASSUME NEW n \in Nat \ {0}, NEW K, NEW V, NEW t, Upserts(t, n, K, V), Studied(t),
           \A c, d \in 1..n : c < d => \A k, l \in K : V[c][k] <= V[d][l]
    PROVE  ~MayContainStaleWins(t, FilesOf(t))
<1>1. ASSUME NEW q \in t.data, NEW r \in t.data, q.seq < r.seq PROVE q.ver <= r.ver
  <2>1. PICK c \in 1..n : \E k \in K : q = HandRow(c, <<k, V[c][k]>>) BY DEF Upserts
  <2>2. PICK k \in K : q = HandRow(c, <<k, V[c][k]>>) BY <2>1
  <2>3. PICK d \in 1..n : \E l \in K : r = HandRow(d, <<l, V[d][l]>>) BY DEF Upserts
  <2>4. PICK l \in K : r = HandRow(d, <<l, V[d][l]>>) BY <2>3
  <2>5. q.seq = c /\ q.ver = V[c][k] /\ r.seq = d /\ r.ver = V[d][l] BY <2>2, <2>4, HandParts
  <2> QED BY <1>1, <2>5
<1> QED BY <1>1, RisingIsClear

\* The audit flags the keys whose last row is older than one before it.
LEMMA UpsertsFlag ==
    ASSUME NEW n \in Nat \ {0}, NEW K, NEW V, NEW t, Upserts(t, n, K, V), Studied(t)
    PROVE  \A k : k \in FlaggedIn(t, FilesOf(t), TRUE) <=> k \in K /\ \E c \in 1..n : c < n /\ V[c][k] > V[n][k]
<1> DEFINE row(c, k) == HandRow(c, <<k, V[c][k]>>)
<1>1. \A c \in 1..n : \A k \in K :
         /\ row(c, k) \in t.data /\ row(c, k).key = k /\ row(c, k).ver = V[c][k]
         /\ IsDeleted(t, row(c, k)) <=> c < n
  BY UpsertRows
<1>2. \A r \in t.data : \E c \in 1..n : \E k \in K : r = row(c, k) BY DEF Upserts
<1> HIDE DEF row
<1>3. n \in 1..n OBVIOUS
<1>4. \A k \in K : RowsOf(LiveRows(t), k) = {row(n, k)}
  <2> SUFFICES ASSUME NEW k \in K, NEW r PROVE r \in RowsOf(LiveRows(t), k) <=> r = row(n, k) OBVIOUS
  <2>1. r \in RowsOf(LiveRows(t), k) <=> r \in t.data /\ r.key = k /\ ~IsDeleted(t, r) BY DEF RowsOf, LiveRows
  <2>2. ASSUME r \in t.data, r.key = k, ~IsDeleted(t, r) PROVE r = row(n, k)
    <3>1. PICK c \in 1..n : \E l \in K : r = row(c, l) BY <1>2, <2>2
    <3>2. PICK l \in K : r = row(c, l) BY <3>1
    <3>3. l = k BY <1>1, <2>2, <3>2
    <3>4. ~(c < n) BY <1>1, <2>2, <3>2
    <3>5. c = n BY <3>4
    <3> QED BY <3>2, <3>3, <3>5
  <2>3. row(n, k) \in t.data /\ row(n, k).key = k /\ ~IsDeleted(t, row(n, k))
    <3>1. ~(n < n) OBVIOUS
    <3> QED BY <1>1, <1>3, <3>1
  <2> QED BY <2>1, <2>2, <2>3
<1>5. ASSUME NEW k, NEW r \in RowsOf(DeadRows(t), k) PROVE k \in K /\ \E c \in 1..n : c < n /\ r = row(c, k)
  <2>1. r \in t.data /\ r.key = k /\ IsDeleted(t, r) BY DEF RowsOf, DeadRows
  <2>2. PICK c \in 1..n : \E l \in K : r = row(c, l) BY <1>2, <2>1
  <2>3. PICK l \in K : r = row(c, l) BY <2>2
  <2>4. l = k /\ c < n BY <1>1, <2>1, <2>3
  <2> QED BY <2>3, <2>4
<1>6. \A k \in K : \A c \in 1..n : c < n => row(c, k) \in RowsOf(DeadRows(t), k) BY <1>1 DEF RowsOf, DeadRows
<1>7. ASSUME NEW k, Outranked(t, k) PROVE k \in K /\ \E c \in 1..n : c < n /\ V[c][k] > V[n][k]
  <2>1. PICK r \in RowsOf(DeadRows(t), k) : \A s \in RowsOf(LiveRows(t), k) : r.ver > s.ver BY <1>7 DEF Outranked
  <2>2. k \in K BY <1>5, <2>1
  <2>3. PICK c \in 1..n : c < n /\ r = row(c, k) BY <1>5, <2>1
  <2>4. r.ver > row(n, k).ver BY <1>4, <2>1, <2>2
  <2>5. r.ver = V[c][k] /\ row(n, k).ver = V[n][k] BY <1>1, <1>3, <2>2, <2>3
  <2> QED BY <2>2, <2>3, <2>4, <2>5
<1>8. ASSUME NEW k \in K, NEW c \in 1..n, c < n, V[c][k] > V[n][k] PROVE Outranked(t, k) /\ OneSurvivor(t, k)
  <2>1. row(c, k) \in RowsOf(DeadRows(t), k) BY <1>6, <1>8
  <2>2. row(c, k).ver = V[c][k] /\ row(n, k).ver = V[n][k] BY <1>1, <1>3
  <2>3. \A s \in RowsOf(LiveRows(t), k) : row(c, k).ver > s.ver BY <1>4, <1>8, <2>2
  <2> QED BY <1>4, <2>1, <2>3 DEF Outranked, OneSurvivor
<1>9. \A k : k \in FlaggedIn(t, FilesOf(t), TRUE) <=> Outranked(t, k) /\ OneSurvivor(t, k) BY AllFilesFlag
<1> QED BY <1>7, <1>8, <1>9

\* The commits that make such a table.
LEMMA UpsertsMake ==
    ASSUME NEW n \in Nat \ {0}, NEW K, NEW V, NEW S, NEW t, t = HandTable(S, n),
           \A c \in 1..n : S[c] = HandCommit({<<k, V[c][k]>> : k \in K}, IF c > 1 THEN K ELSE {})
    PROVE  Upserts(t, n, K, V)
<1> DEFINE X(c) == {<<k, V[c][k]>> : k \in K}
           Y(c) == IF c > 1 THEN K ELSE {}
<1>1. \A c : \A q : q \in X(c) <=> \E k \in K : q = <<k, V[c][k]>> OBVIOUS
<1>2. \A c \in 1..n : \A k : k \in Y(c) <=> c \in 2..n /\ k \in K OBVIOUS
<1>3. \A c \in 2..n : c \in 1..n OBVIOUS
<1>4. \A c \in 1..n : S[c] = HandCommit(X(c), Y(c)) OBVIOUS
<1> HIDE DEF X, Y
<1>5. \A c \in 1..n : S[c].rows = X(c) /\ S[c].deletes = Y(c) BY <1>4, HandFields
<1>6. ASSUME NEW r PROVE r \in t.data <=> \E c \in 1..n : \E k \in K : r = HandRow(c, <<k, V[c][k]>>)
  <2>1. r \in t.data <=> \E c \in 1..n : \E q \in X(c) : r = HandRow(c, q) BY <1>5, HandIs
  <2>2. ASSUME NEW c \in 1..n PROVE (\E q \in X(c) : r = HandRow(c, q)) <=> \E k \in K : r = HandRow(c, <<k, V[c][k]>>)
    <3>1. ASSUME NEW q \in X(c), r = HandRow(c, q) PROVE \E k \in K : r = HandRow(c, <<k, V[c][k]>>)
      <4>1. PICK k \in K : q = <<k, V[c][k]>> BY <1>1
      <4> QED BY <3>1, <4>1
    <3>2. ASSUME NEW k \in K, r = HandRow(c, <<k, V[c][k]>>) PROVE \E q \in X(c) : r = HandRow(c, q)
      <4>1. <<k, V[c][k]>> \in X(c) BY <1>1
      <4> QED BY <3>2, <4>1
    <3> QED BY <3>1, <3>2
  <2> QED BY <2>1, <2>2
<1>7. ASSUME NEW d PROVE d \in t.dels <=> \E c \in 2..n : \E k \in K : d = HandDel(c, k)
  <2>1. d \in t.dels <=> \E c \in 1..n : \E k \in Y(c) : d = HandDel(c, k) BY <1>5, HandIs
  <2> QED BY <1>2, <1>3, <2>1
<1> QED BY <1>6, <1>7 DEF Upserts

\* The ordering values of the two hand-written upsert tables, by commit and key.
MetricV(b) == [c \in 1..6 |-> [k \in 5..9 |-> MetricLsn(b, c, k)]]

ControlV == [c \in 1..4 |-> [k \in 1..5 |-> ControlLsn(c, k)]]

\* The commits of gate_metrics_registration make such a table.
LEMMA MetricUpserts ==
    ASSUME NEW b \in BOOLEAN, NEW t, t = HandTable(MetricCommits(b), 6)
    PROVE  Upserts(t, 6, 5..9, MetricV(b))
<1> DEFINE V == MetricV(b)
           S == MetricCommits(b)
           K == 5..9
<1>1. \A c \in 1..6 : S[c] = HandCommit({<<k, MetricLsn(b, c, k)>> : k \in K}, IF c > 1 THEN K ELSE {})
  BY WholeCommitsAre DEF MetricKeys
<1>2. \A c \in 1..6 : \A k \in K : MetricLsn(b, c, k) = V[c][k] BY DEF MetricV
<1>3. t = HandTable(S, 6) OBVIOUS
<1> HIDE DEF V, S, K
<1>4. \A c \in 1..6 : {<<k, MetricLsn(b, c, k)>> : k \in K} = {<<k, V[c][k]>> : k \in K} BY <1>2
<1>5. \A c \in 1..6 : S[c] = HandCommit({<<k, V[c][k]>> : k \in K}, IF c > 1 THEN K ELSE {}) BY <1>1, <1>4
<1>6. 6 \in Nat \ {0} OBVIOUS
<1>7. Upserts(t, 6, K, V) BY <1>3, <1>5, <1>6, UpsertsMake
<1> QED BY <1>7 DEF V, K

\* Those of probe_gate_on_phase8 too.
LEMMA ControlUpserts ==
    ASSUME NEW t, t = HandTable(CleanControl, 4)
    PROVE  Upserts(t, 4, 1..5, ControlV)
<1> DEFINE V == ControlV
           S == CleanControl
           K == 1..5
<1>1. \A c \in 1..4 : S[c] = HandCommit({<<k, ControlLsn(c, k)>> : k \in K}, IF c > 1 THEN K ELSE {})
  BY WholeCommitsAre DEF ControlKeys
<1>2. \A c \in 1..4 : \A k \in K : ControlLsn(c, k) = V[c][k] BY DEF ControlV
<1>3. t = HandTable(S, 4) OBVIOUS
<1> HIDE DEF V, S, K
<1>4. \A c \in 1..4 : {<<k, ControlLsn(c, k)>> : k \in K} = {<<k, V[c][k]>> : k \in K} BY <1>2
<1>5. \A c \in 1..4 : S[c] = HandCommit({<<k, V[c][k]>> : k \in K}, IF c > 1 THEN K ELSE {}) BY <1>1, <1>4
<1>6. 4 \in Nat \ {0} OBVIOUS
<1>7. Upserts(t, 4, K, V) BY <1>3, <1>5, <1>6, UpsertsMake
<1> QED BY <1>7 DEF V, K

\* The values, by commit and key.
LEMMA HandValues ==
    /\ \A b \in BOOLEAN : \A c \in 1..6 : \A k \in 5..9 :
          MetricV(b)[c][k] = IF b /\ c = 5 /\ k = 7 THEN 99999 ELSE k + c * 1000
    /\ \A c, d \in 1..4 : c < d => \A k, l \in 1..5 : ControlV[c][k] <= ControlV[d][l]
<1>1. \A b \in BOOLEAN : \A c \in 1..6 : \A k \in 5..9 : MetricV(b)[c][k] = MetricLsn(b, c, k) BY DEF MetricV
<1>2. \A b \in BOOLEAN : \A c \in 1..6 : \A k \in 5..9 :
         MetricLsn(b, c, k) = IF b /\ c = 5 /\ k = 7 THEN 99999 ELSE k + c * 1000
  BY SMT DEF MetricLsn
<1>3. \A c \in 1..4 : \A k \in 1..5 : ControlV[c][k] = ControlLsn(c, k) BY DEF ControlV
<1>4. \A c, d \in 1..4 : c < d => \A k, l \in 1..5 : ControlLsn(c, k) <= ControlLsn(d, l) BY SMT DEF ControlLsn
<1>5. \A b \in BOOLEAN : \A c \in 1..6 : \A k \in 5..9 :
         MetricV(b)[c][k] = IF b /\ c = 5 /\ k = 7 THEN 99999 ELSE k + c * 1000
  BY <1>1, <1>2, SMT
<1>6. \A c, d \in 1..4 : c < d => \A k, l \in 1..5 : ControlV[c][k] <= ControlV[d][l] BY <1>3, <1>4
<1> QED BY <1>5, <1>6, SMT

\* Values that grow with the commits pass the gate.
LEMMA GrowingIsClear ==
    ASSUME NEW V, NEW t, Upserts(t, 6, 5..9, V), Studied(t),
           \A c \in 1..6 : \A k \in 5..9 : V[c][k] = k + c * 1000
    PROVE  ~MayContainStaleWins(t, FilesOf(t))
<1>1. ASSUME NEW c \in 1..6, NEW d \in 1..6, c < d, NEW k \in 5..9, NEW l \in 5..9 PROVE V[c][k] <= V[d][l]
  <2>1. V[c][k] = k + c * 1000 /\ V[d][l] = l + d * 1000 OBVIOUS
  <2> QED BY <1>1, <2>1
<1>2. 6 \in Nat \ {0} OBVIOUS
<1> QED BY <1>1, <1>2, UpsertsClear

\* One value above the last of its key is the one stale win.
LEMMA OneAbove ==
    ASSUME NEW V, NEW t, Upserts(t, 6, 5..9, V), Studied(t), t \in Table(Nat, Nat),
           \A c \in 1..6 : \A k \in 5..9 : c < 6 /\ V[c][k] > V[6][k] <=> c = 5 /\ k = 7
    PROVE  MayContainStaleWins(t, FilesOf(t)) /\ FlaggedIn(t, FilesOf(t), TRUE) = {7}
<1> DEFINE F == FlaggedIn(t, FilesOf(t), TRUE)
<1>1. \A k : k \in F <=> k \in 5..9 /\ \E c \in 1..6 : c < 6 /\ V[c][k] > V[6][k]
  <2> DEFINE n == 6
             K == 5..9
  <2>1. n \in Nat \ {0} /\ Upserts(t, n, K, V) OBVIOUS
  <2> HIDE DEF n, K
  <2>2. \A k : k \in FlaggedIn(t, FilesOf(t), TRUE) <=> k \in K /\ \E c \in 1..n : c < n /\ V[c][k] > V[n][k]
    BY ONLY <2>1, Studied(t), UpsertsFlag
  <2> QED BY <2>2 DEF n, K
<1>2. \A k \in 5..9 : (\E c \in 1..6 : c < 6 /\ V[c][k] > V[6][k]) <=> k = 7
  <2>1. 5 \in 1..6 OBVIOUS
  <2> QED BY <2>1
<1>3. 7 \in 5..9 OBVIOUS
<1>4. 7 \in F => MayContainStaleWins(t, FilesOf(t)) BY GateClearsNone
<1> HIDE DEF F
<1>5. F = {7} BY <1>1, <1>2, <1>3
<1> QED BY <1>4, <1>5 DEF F

\* So the clean table of gate_metrics_registration passes the gate; in the corrupt one key 7
\* is the stale win.
LEMMA MetricsSay ==
    ASSUME NEW b \in BOOLEAN, NEW t, t = HandTable(MetricCommits(b), 6), Studied(t), t \in Table(Nat, Nat)
    PROVE  /\ ~b => ~MayContainStaleWins(t, FilesOf(t))
           /\ b => MayContainStaleWins(t, FilesOf(t)) /\ FlaggedIn(t, FilesOf(t), TRUE) = {7}
<1> DEFINE V == MetricV(b)
<1>1. Upserts(t, 6, 5..9, V) BY MetricUpserts
<1>2. \A c \in 1..6 : \A k \in 5..9 : V[c][k] = IF b /\ c = 5 /\ k = 7 THEN 99999 ELSE k + c * 1000
  BY HandValues, SMT
<1> HIDE DEF V
<1>3. ~b => \A c \in 1..6 : \A k \in 5..9 : V[c][k] = k + c * 1000 BY <1>2, SMT
<1>4. b => \A c \in 1..6 : \A k \in 5..9 : c < 6 /\ V[c][k] > V[6][k] <=> c = 5 /\ k = 7 BY ONLY <1>2, SMT
<1>5. ASSUME ~b PROVE ~MayContainStaleWins(t, FilesOf(t)) BY <1>1, <1>3, <1>5, GrowingIsClear
<1>6. ASSUME b PROVE MayContainStaleWins(t, FilesOf(t)) /\ FlaggedIn(t, FilesOf(t), TRUE) = {7}
  <2>1. \A c \in 1..6 : \A k \in 5..9 : c < 6 /\ V[c][k] > V[6][k] <=> c = 5 /\ k = 7 BY <1>4, <1>6
  <2> QED BY ONLY <1>1, <2>1, Studied(t), t \in Table(Nat, Nat), OneAbove
<1> QED BY <1>5, <1>6

\* The control of probe_gate_on_phase8 passes the gate, which can judge it.
LEMMA ControlSays ==
    ASSUME NEW t, t = HandTable(CleanControl, 4), Studied(t)
    PROVE  ~MayContainStaleWins(t, FilesOf(t)) /\ GateCanJudge(t)
<1> DEFINE V == ControlV
           K == 1..5
           n == 4
<1>1. Upserts(t, n, K, V) BY ControlUpserts
<1>2. \A c, d \in 1..n : c < d => \A k, l \in K : V[c][k] <= V[d][l] BY HandValues
<1>3. 1 \in K /\ n \in Nat \ {0} /\ 1 \in 1..n /\ 2 \in 1..n OBVIOUS
<1> HIDE DEF V, K, n
<1>4. ~MayContainStaleWins(t, FilesOf(t)) BY <1>1, <1>2, <1>3, UpsertsClear
<1>5. Cardinality(SeqsOf(t, FilesOf(t))) >= 2
  <2> DEFINE Q == SeqsOf(t, FilesOf(t))
  <2>1. \A c \in 1..n : HandRow(c, <<1, V[c][1]>>) \in t.data /\ HandRow(c, <<1, V[c][1]>>).seq = c
    BY <1>1, <1>3, UpsertRows
  <2>2. Q = {r.seq : r \in t.data} BY AllFiles DEF SeqsOf
  <2>3. 1 \in Q /\ 2 \in Q BY <1>3, <2>1, <2>2
  <2>4. IsFiniteSet(Q)
    <3> DEFINE f == [r \in t.data |-> r.seq]
    <3>1. f \in [t.data -> Q] /\ \A x \in Q : \E r \in t.data : f[r] = x BY <2>2
    <3>2. IsFiniteSet(t.data) BY DEF Studied
    <3> HIDE DEF f, Q
    <3> QED BY <3>1, <3>2, FiniteImage
  <2> HIDE DEF Q
  <2>5. Cardinality(1..2) = 2
    <3>1. 1 \in Int /\ 2 \in Int /\ ~(1 > 2) OBVIOUS
    <3>2. Cardinality(1..2) = 2 - 1 + 1 BY <3>1, FS_Interval
    <3> QED BY <3>2
  <2>6. 1..2 \subseteq Q BY <2>3
  <2>7. Cardinality(1..2) <= Cardinality(Q) /\ Cardinality(Q) \in Nat BY <2>4, <2>6, FS_Subset, FS_CardinalityType
  <2> QED BY <2>5, <2>7 DEF Q
<1>6. ASSUME NEW f \in FilesOf(t) PROVE VersionsOf({r \in t.data : r.file = f}) # {}
  <2> DEFINE rows == {r \in t.data : r.file = f}
  <2>1. rows # {} /\ rows \subseteq t.data BY DEF FilesOf
  <2> HIDE DEF rows
  <2>2. rows \in SUBSET Row(Nat, Nat) /\ IsFiniteSet(rows) BY <2>1, FS_Subset DEF Studied
  <2> QED BY <2>1, <2>2, ValuesAre DEF rows
<1> QED BY <1>4, <1>5, <1>6 DEF GateCanJudge

\* The bounds registered with the files of such a table are those of its rows.
LEMMA BoundsHold ==
    ASSUME NEW V, NEW t, Upserts(t, 6, 5..9, V), Studied(t),
           \A c \in 1..6 : \A k \in 5..9 : V[c][k] = k + c * 1000
    PROVE  MetricBounds(t)
<1> DEFINE row(c, k) == HandRow(c, <<k, V[c][k]>>)
<1>1. \A c \in 1..6 : \A k \in 5..9 :
         row(c, k) \in t.data /\ row(c, k).ver = V[c][k] /\ row(c, k).seq = c /\ row(c, k).file = <<c, 1>>
  <2> DEFINE n == 6
             K == 5..9
  <2>1. n \in Nat \ {0} /\ Upserts(t, n, K, V) OBVIOUS
  <2> HIDE DEF n, K, row
  <2>2. \A c \in 1..n : \A k \in K :
           row(c, k) \in t.data /\ row(c, k).ver = V[c][k] /\ row(c, k).seq = c /\ row(c, k).file = <<c, 1>>
    BY ONLY <2>1, UpsertRows DEF row
  <2> QED BY <2>2 DEF n, K
<1>2. \A r \in t.data : \E c \in 1..6 : \E k \in 5..9 : r = row(c, k)
  <2>1. \A r : r \in t.data <=> \E c \in 1..6 : \E k \in 5..9 : r = HandRow(c, <<k, V[c][k]>>) BY DEF Upserts
  <2> QED BY ONLY <2>1
<1>3. \A d : d \in t.dels <=> \E c \in 2..6 : \E k \in 5..9 : d = HandDel(c, k) BY DEF Upserts
<1> HIDE DEF row
<1>4. Cardinality(FilesOf(t)) = 6
  <2> DEFINE f == [c \in 1..6 |-> <<c, 1>>]
             F == FilesOf(t)
  <2>1. \A c \in 1..6 : <<c, 1>> \in F
    <3> SUFFICES ASSUME NEW c \in 1..6 PROVE <<c, 1>> \in F OBVIOUS
    <3>1. 5 \in 5..9 OBVIOUS
    <3>2. row(c, 5) \in t.data /\ row(c, 5).file = <<c, 1>> BY <1>1, <3>1
    <3> QED BY <3>2 DEF FilesOf
  <2>2. \A x \in F : \E c \in 1..6 : x = <<c, 1>>
    <3> SUFFICES ASSUME NEW x \in F PROVE \E c \in 1..6 : x = <<c, 1>> OBVIOUS
    <3>1. PICK r \in t.data : x = r.file BY DEF FilesOf
    <3>2. PICK c \in 1..6 : \E k \in 5..9 : r = row(c, k) BY <1>2
    <3>3. PICK k \in 5..9 : r = row(c, k) BY <3>2
    <3> QED BY <1>1, <3>1, <3>3
  <2>3. f \in [1..6 -> F] /\ \A c \in 1..6 : f[c] = <<c, 1>> BY <2>1
  <2> HIDE DEF F, f
  <2>4. \A c, d \in 1..6 : f[c] = f[d] => c = d BY <2>3
  <2>5. \A x \in F : \E c \in 1..6 : f[c] = x BY <2>2, <2>3
  <2>6. f \in Bijection(1..6, F) BY <2>3, <2>4, <2>5 DEF Bijection, Injection, Surjection, IsInjective
  <2>7. Cardinality(F) = 6
    <3>1. ExistsBijection(1..6, F) BY <2>6 DEF ExistsBijection
    <3>2. 6 \in Nat OBVIOUS
    <3> QED BY ONLY <3>1, <3>2, FS_CountingElements
  <2> QED BY <2>7 DEF F
<1>5. Cardinality({d.seq : d \in t.dels}) = 5
  <2> DEFINE D == {d.seq : d \in t.dels}
  <2>1. D = 2..6
    <3>1. \A d \in t.dels : d.seq \in 2..6 BY <1>3, HandParts
    <3>2. \A c \in 2..6 : HandDel(c, 5) \in t.dels /\ HandDel(c, 5).seq = c
      <4>1. 5 \in 5..9 OBVIOUS
      <4> QED BY <1>3, <4>1, HandParts
    <3>3. \A x : x \in D <=> \E d \in t.dels : x = d.seq OBVIOUS
    <3> HIDE DEF D
    <3> QED BY <3>1, <3>2, <3>3
  <2>2. Cardinality(2..6) = 5
    <3> DEFINE a == 2
               b == 6
    <3>1. a \in Int /\ b \in Int /\ ~(a > b) /\ b - a + 1 = 5 OBVIOUS
    <3> HIDE DEF a, b
    <3>2. Cardinality(a..b) = b - a + 1 BY ONLY <3>1, FS_Interval
    <3> QED BY <3>1, <3>2 DEF a, b
  <2> HIDE DEF D
  <2>3. Cardinality(D) = 5 BY <2>1, <2>2
  <2> QED BY <2>3 DEF D
<1>6. ASSUME NEW c \in 1..6
      PROVE  LET span == SeqSpan(t, {<<c, 1>>}, c) IN Min(span) = 5 + c * 1000 /\ Max(span) = 9 + c * 1000
  <2> DEFINE g == {<<c, 1>>}
             span == SeqSpan(t, g, c)
             G == GroupRows(t, g)
  <2>1. ASSUME NEW r \in G
        PROVE  r.seq = c /\ r.ver \in Nat /\ 5 + c * 1000 <= r.ver /\ r.ver <= 9 + c * 1000
    <3>1. r \in t.data /\ r.file = <<c, 1>> BY DEF GroupRows
    <3>2. PICK e \in 1..6 : \E k \in 5..9 : r = row(e, k) BY <1>2, <3>1
    <3>3. PICK k \in 5..9 : r = row(e, k) BY <3>2
    <3>4. e = c BY <1>1, <3>1, <3>3
    <3>5. r.ver = k + c * 1000 /\ r.seq = c BY <1>1, <3>3, <3>4
    <3> QED BY <3>5
  <2>2. \A k \in 5..9 : row(c, k) \in G
    <3> SUFFICES ASSUME NEW k \in 5..9 PROVE row(c, k) \in G OBVIOUS
    <3>1. row(c, k) \in t.data /\ row(c, k).file = <<c, 1>> BY <1>1
    <3>2. row(c, k).file \in g BY <3>1
    <3> QED BY <3>1, <3>2 DEF GroupRows
  <2>3. 5 \in 5..9 /\ 9 \in 5..9 OBVIOUS
  <2>4. /\ row(c, 5) \in G /\ row(c, 5).seq = c /\ row(c, 5).ver = 5 + c * 1000
        /\ row(c, 9) \in G /\ row(c, 9).seq = c /\ row(c, 9).ver = 9 + c * 1000
    BY <1>1, <2>2, <2>3
  <2>5. c \in SeqsOf(t, g) BY <2>4 DEF SeqsOf
  <2> HIDE DEF g, span, G
  <2>6. /\ Min(span) \in Nat /\ Max(span) \in Nat
        /\ \A r \in G : r.seq = c => Min(span) <= r.ver /\ r.ver <= Max(span)
        /\ \E r \in G : r.seq = c /\ r.ver = Min(span)
        /\ \E r \in G : r.seq = c /\ r.ver = Max(span)
    BY ONLY <2>5, Studied(t), SpanIs DEF span, G
  <2>7. 5 + c * 1000 <= Min(span) /\ Max(span) <= 9 + c * 1000 BY <2>1, <2>6
  <2>8. Min(span) <= 5 + c * 1000 /\ 9 + c * 1000 <= Max(span) BY <2>4, <2>6
  <2>9. Min(span) = 5 + c * 1000 /\ Max(span) = 9 + c * 1000 BY <2>6, <2>7, <2>8
  <2> QED BY <2>9 DEF span, g
<1> QED BY <1>4, <1>5, <1>6 DEF MetricBounds

\* probe_group_survivor_semantics: the group holds no surviving row, and flags nothing.
LEMMA SurvivorSays ==
    ASSUME NEW t, t = HandTable(ThreeVersions, 3), Studied(t)
    PROVE  FlaggedIn(t, Selected("survivor", t), TRUE) = {} /\ VersionsOf(LiveRows(t)) = {100}
<1> DEFINE a == HandRow(1, <<1, 50>>)
           b == HandRow(2, <<1, 10>>)
           e == HandRow(3, <<1, 100>>)
<1>1. /\ ThreeVersions[1].rows = {<<1, 50>>} /\ ThreeVersions[1].deletes = {}
      /\ ThreeVersions[2].rows = {<<1, 10>>} /\ ThreeVersions[2].deletes = {1}
      /\ ThreeVersions[3].rows = {<<1, 100>>} /\ ThreeVersions[3].deletes = {1}
  BY WholeCommitsAre, HandFields
<1>2. /\ a.key = 1 /\ a.ver = 50 /\ a.seq = 1 /\ b.key = 1 /\ b.ver = 10 /\ b.seq = 2
      /\ e.key = 1 /\ e.ver = 100 /\ e.seq = 3
  BY HandParts
<1>3. \A c \in 1..3 : c = 1 \/ c = 2 \/ c = 3 OBVIOUS
<1>4. 1 \in 1..3 /\ 2 \in 1..3 /\ 3 \in 1..3 OBVIOUS
<1>5. \A r : r \in t.data <=> r \in {a, b, e}
  <2> SUFFICES ASSUME NEW r PROVE r \in t.data <=> r \in {a, b, e} OBVIOUS
  <2>1. r \in t.data <=> \E c \in 1..3 : \E q \in ThreeVersions[c].rows : r = HandRow(c, q) BY HandIs
  <2>2. /\ (\E q \in ThreeVersions[1].rows : r = HandRow(1, q)) <=> r = a
        /\ (\E q \in ThreeVersions[2].rows : r = HandRow(2, q)) <=> r = b
        /\ (\E q \in ThreeVersions[3].rows : r = HandRow(3, q)) <=> r = e
    BY <1>1
  <2> HIDE DEF a, b, e
  <2> QED BY <1>3, <1>4, <2>1, <2>2
<1>6. \A d : d \in t.dels <=> d = HandDel(2, 1) \/ d = HandDel(3, 1)
  <2> SUFFICES ASSUME NEW d PROVE d \in t.dels <=> d = HandDel(2, 1) \/ d = HandDel(3, 1) OBVIOUS
  <2>1. d \in t.dels <=> \E c \in 1..3 : \E k \in ThreeVersions[c].deletes : d = HandDel(c, k) BY HandIs
  <2>2. /\ ~\E k \in ThreeVersions[1].deletes : d = HandDel(1, k)
        /\ (\E k \in ThreeVersions[2].deletes : d = HandDel(2, k)) <=> d = HandDel(2, 1)
        /\ (\E k \in ThreeVersions[3].deletes : d = HandDel(3, k)) <=> d = HandDel(3, 1)
    BY <1>1
  <2> QED BY <1>3, <1>4, <2>1, <2>2
<1> HIDE DEF a, b, e
<1>7. LiveRows(t) = {e}
  <2>1. \A r : IsDeleted(t, r) <=> r.key = 1 /\ (2 > r.seq \/ 3 > r.seq)
    <3>1. HandDel(2, 1).key = 1 /\ HandDel(2, 1).seq = 2 /\ HandDel(3, 1).key = 1 /\ HandDel(3, 1).seq = 3 BY HandParts
    <3> QED BY <1>6, <3>1 DEF IsDeleted
  <2>2. IsDeleted(t, a) /\ IsDeleted(t, b) /\ ~IsDeleted(t, e) BY <1>2, <2>1
  <2> QED BY <1>5, <2>2 DEF LiveRows
<1>8. VersionsOf({e}) = {100}
  <2>1. {e} \in SUBSET Row(Nat, Nat) BY <1>5 DEF Studied
  <2>2. IsFiniteSet({e}) BY FS_Singleton
  <2> DEFINE E == {e}
  <2>3. E = {e} OBVIOUS
  <2> HIDE DEF E
  <2>4. VersionsOf(E) = {r.ver : r \in E} BY <2>1, <2>2, <2>3, ValuesAre
  <2> QED BY <1>2, <2>3, <2>4
<1> DEFINE g == Selected("survivor", t)
<1>9. e.file \notin g
  <2>1. g = {f \in FilesOf(t) : \A r \in t.data : r.file = f => r.ver <= 50} BY DEF Selected
  <2> HIDE DEF g
  <2>2. ~(e.ver <= 50) /\ e \in t.data BY <1>2, <1>5
  <2> QED BY <2>1, <2>2
<1> HIDE DEF g
<1>10. ASSUME NEW k, k \in FlaggedIn(t, g, TRUE) PROVE FALSE
  <2>1. LiveIn(t, g, k) # {} BY <1>10 DEF FlaggedIn, StaleWin
  <2>2. PICK r \in GroupRows(t, g) : r \in LiveRows(t) BY <2>1 DEF LiveIn, RowsOf
  <2>3. r = e /\ r.file \in g BY <1>7, <2>2 DEF GroupRows
  <2> QED BY <1>9, <2>3
<1>11. FlaggedIn(t, g, TRUE) = {} BY <1>10
<1> QED BY <1>7, <1>8, <1>11 DEF g

\* With the default options a clear group is let through and a suspect one audited.
LEMMA DefaultsSay ==
    ASSUME NEW t, NEW g
    PROVE  /\ ~MayContainStaleWins(t, g) => Passed(Summary(t, {g}, Defaults))
           /\ MayContainStaleWins(t, g) => Reported(Summary(t, {g}, Defaults), FlaggedIn(t, g, TRUE))
<1>1. Guarded(Defaults) /\ (GateHolds(t, g, Defaults) <=> ~MayContainStaleWins(t, g))
  BY DEF Guarded, GateHolds, Defaults
<1> QED BY <1>1, OneGroupSays

\* Without the gate the group is audited whatever it holds.
LEMMA UngatedSays ==
    ASSUME NEW t, NEW g
    PROVE  Reported(Summary(t, {g}, HandOptions("survivor")), FlaggedIn(t, g, TRUE))
<1>1. Guarded(HandOptions("survivor")) /\ ~GateHolds(t, g, HandOptions("survivor"))
  BY DEF Guarded, GateHolds, HandOptions, Defaults
<1> QED BY <1>1, OneGroupSays

\* Each table's checks.
LEMMA HandChecks ==
    ASSUME HandInv, study # "synthetic", summary.present
    PROVE  /\ study \in {"m3_clean", "m3_corrupt"} => M3Checks(study, summary)
           /\ study \in {"metrics_clean", "metrics_corrupt"} => MetricChecks(study, scanned, summary)
           /\ study = "clean_control" => CleanControlChecks(scanned, summary)
           /\ study = "survivor" => SurvivorChecks(scanned, summary)
<1>1. /\ study \in DOMAIN HandTables /\ scanned = HandTable(HandTables[study], Len(HandTables[study]))
      /\ Studied(scanned) /\ scanned \in Table(Nat, Nat)
      /\ summary = Summary(scanned, {Selected(study, scanned)}, HandOptions(study))
  BY HandRead
<1>2. study # "survivor" => summary = Summary(scanned, {FilesOf(scanned)}, Defaults)
  <2>1. study # "survivor" => Selected(study, scanned) = FilesOf(scanned) /\ HandOptions(study) = Defaults
    BY DEF Selected, HandOptions
  <2> QED BY <1>1, <2>1
<1>3. ASSUME NEW k PROVE Cardinality({k}) = 1 BY FS_Singleton
<1>4. CASE study = "m3_clean"
  <2>1. scanned = HandTable(M3Clean, 10) BY <1>1, <1>4, HandTablesAre
  <2>2. ~MayContainStaleWins(scanned, FilesOf(scanned)) BY <1>1, <2>1, M3CleanSays
  <2>3. summary.gated = 1 /\ summary.keys = {}
    <3>1. Passed(summary) BY <1>2, <1>4, <2>2, DefaultsSay
    <3> QED BY <3>1 DEF Passed
  <2>4. M3Checks(study, summary) BY <1>4, <2>3 DEF M3Checks
  <2> QED BY <1>4, <2>4
<1>5. CASE study = "m3_corrupt"
  <2>1. scanned = HandTable(M3Corrupt, 10) BY <1>1, <1>5, HandTablesAre
  <2>2. MayContainStaleWins(scanned, FilesOf(scanned)) /\ FlaggedIn(scanned, FilesOf(scanned), TRUE) = {10}
    BY <1>1, <2>1, M3CorruptSays
  <2>3. summary.audited = 1 /\ summary.keys = {10}
    <3> DEFINE s == Summary(scanned, {FilesOf(scanned)}, Defaults)
    <3>1. s.audited = 1 /\ s.keys = FlaggedIn(scanned, FilesOf(scanned), TRUE) BY ONLY <2>2, DefaultsSay DEF Reported
    <3>2. summary = s BY <1>2, <1>5
    <3> HIDE DEF s
    <3> QED BY <2>2, <3>1, <3>2
  <2>4. Cardinality(summary.keys) = 1 BY <1>3, <2>3
  <2>5. M3Checks(study, summary) BY <1>5, <2>3, <2>4 DEF M3Checks
  <2> QED BY <1>5, <2>5
<1>6. CASE study = "metrics_clean"
  <2>1. \E b \in BOOLEAN : ~b /\ scanned = HandTable(MetricCommits(b), 6)
    <3>1. scanned = HandTable(MetricCommits(FALSE), 6) BY <1>1, <1>6, HandTablesAre
    <3> QED BY <3>1
  <2>2. PICK b \in BOOLEAN : ~b /\ scanned = HandTable(MetricCommits(b), 6) BY <2>1
  <2>3. ~MayContainStaleWins(scanned, FilesOf(scanned)) BY <1>1, <2>2, MetricsSay
  <2>4. MetricBounds(scanned)
    <3> DEFINE V == MetricV(b)
    <3>1. Upserts(scanned, 6, 5..9, V) BY <2>2, MetricUpserts
    <3>2. \A c \in 1..6 : \A k \in 5..9 : V[c][k] = IF b /\ c = 5 /\ k = 7 THEN 99999 ELSE k + c * 1000
      BY HandValues, SMT
    <3> HIDE DEF V
    <3>3. \A c \in 1..6 : \A k \in 5..9 : V[c][k] = k + c * 1000 BY <2>2, <3>2, SMT
    <3>4. Studied(scanned) BY <1>1
    <3> QED BY ONLY <3>1, <3>3, <3>4, BoundsHold
  <2>5. summary.gated = 1
    <3>1. Passed(summary) BY <1>2, <1>6, <2>3, DefaultsSay
    <3> QED BY <3>1 DEF Passed
  <2>6. MetricChecks(study, scanned, summary) BY <1>6, <2>4, <2>5 DEF MetricChecks
  <2> QED BY <1>6, <2>6
<1>7. CASE study = "metrics_corrupt"
  <2>1. \E b \in BOOLEAN : b /\ scanned = HandTable(MetricCommits(b), 6)
    <3>1. scanned = HandTable(MetricCommits(TRUE), 6) BY <1>1, <1>7, HandTablesAre
    <3> QED BY <3>1
  <2>2. PICK b \in BOOLEAN : b /\ scanned = HandTable(MetricCommits(b), 6) BY <2>1
  <2>3. MayContainStaleWins(scanned, FilesOf(scanned)) /\ FlaggedIn(scanned, FilesOf(scanned), TRUE) = {7}
    BY <1>1, <2>2, MetricsSay
  <2>4. summary.audited = 1 /\ summary.keys = {7}
    <3> DEFINE s == Summary(scanned, {FilesOf(scanned)}, Defaults)
    <3>1. s.audited = 1 /\ s.keys = FlaggedIn(scanned, FilesOf(scanned), TRUE) BY ONLY <2>3, DefaultsSay DEF Reported
    <3>2. summary = s BY <1>2, <1>7
    <3> HIDE DEF s
    <3> QED BY <2>3, <3>1, <3>2
  <2>5. Cardinality(summary.keys) = 1 BY <1>3, <2>4
  <2>6. MetricChecks(study, scanned, summary) BY <1>7, <2>4, <2>5 DEF MetricChecks
  <2> QED BY <1>7, <2>6
<1>8. CASE study = "clean_control"
  <2>1. scanned = HandTable(CleanControl, 4) BY <1>1, <1>8, HandTablesAre
  <2>2. ~MayContainStaleWins(scanned, FilesOf(scanned)) /\ GateCanJudge(scanned) BY <1>1, <2>1, ControlSays
  <2>3. summary.groups = 1 /\ summary.gated = 1
    <3>1. Passed(summary) BY <1>2, <1>8, <2>2, DefaultsSay
    <3> QED BY <3>1 DEF Passed
  <2>4. CleanControlChecks(scanned, summary) BY <2>2, <2>3 DEF CleanControlChecks
  <2> QED BY <1>8, <2>4
<1>9. CASE study = "survivor"
  <2>1. scanned = HandTable(ThreeVersions, 3) BY <1>1, <1>9, HandTablesAre
  <2>2. FlaggedIn(scanned, Selected("survivor", scanned), TRUE) = {} /\ VersionsOf(LiveRows(scanned)) = {100}
    BY <1>1, <2>1, SurvivorSays
  <2>3. Reported(summary, FlaggedIn(scanned, Selected("survivor", scanned), TRUE))
    <3>1. summary = Summary(scanned, {Selected("survivor", scanned)}, HandOptions("survivor")) BY <1>1, <1>9
    <3> QED BY <3>1, UngatedSays
  <2>4. Reported(summary, {}) BY <2>2, <2>3
  <2>5. summary.groups = 1 /\ summary.audited = 1 /\ summary.keys = {} BY <2>4 DEF Reported
  <2>6. SurvivorChecks(scanned, summary) BY <2>2, <2>5 DEF SurvivorChecks
  <2> QED BY <1>9, <2>6
<1> QED BY <1>1, <1>4, <1>5, <1>6, <1>7, <1>8, <1>9, HandTablesAre

\* The studies that write their table by hand find their checks met, in every run: the gate
\* clears the clean tables, the one stale win of the corrupt ones is found, and a group
\* without the key's survivor reports nothing.
THEOREM TablesChecked == StudySpec => []TablesAsExpected
<1>1. HandInv => TablesAsExpected
  <2> SUFFICES ASSUME HandInv, study # "synthetic", summary.present PROVE TablesAsExpected
    BY DEF TablesAsExpected
  <2>1. study \in {"m3_clean", "m3_corrupt", "metrics_clean", "metrics_corrupt", "clean_control", "survivor"}
    BY HandRead, HandTablesAre
  <2> QED BY <2>1, HandChecks DEF TablesAsExpected
<1> QED BY <1>1, HandInvHolds, PTL
=============================================================================
