------------------------ MODULE AuditRewrite_proofs ------------------------
(***************************************************************************)
(* Theorems about the audited rewrite, for every value of its constants:   *)
(* what a rewrite keeps and when its verdict can be trusted; that the      *)
(* verdict is exact whenever the code can know it (no file of the snapshot *)
(* is left out, and either the groups' findings are merged or a rewrite of *)
(* several groups abstains); and that it then implements AuditPromise.     *)
(***************************************************************************)
EXTENDS AuditRewrite, LayoutLemmas, SequenceTheorems

-----------------------------------------------------------------------------
\* The current table is a finite table of the declared type.
LEMMA CurrentTableType ==
    ASSUME TypeOK
    PROVE  /\ CurrentTable \in Table(Keys, Versions)
           /\ IsFiniteSet(CurrentTable.data) /\ IsFiniteSet(CurrentTable.dels)
           /\ CurrentId \in Nat
<1>1. CASE snapshots = <<>>
  <2>1. CurrentTable = EmptyTable /\ CurrentId = 0 BY <1>1 DEF CurrentTable, CurrentId
  <2> QED BY <2>1, FS_EmptySet DEF EmptyTable, Table
<1>2. CASE snapshots # <<>>
  <2>1. snapshots \in Seq(Snapshot) BY DEF TypeOK
  <2>2. CurrentId \in Nat /\ CurrentId \in DOMAIN snapshots BY <1>2, <2>1 DEF CurrentId
  <2>3. snapshots[CurrentId] \in Snapshot BY <2>1, <2>2
  <2> QED BY <1>2, <2>2, <2>3 DEF CurrentTable, TypeOK, Snapshot
<1> QED BY <1>1, <1>2

\* So is the pinned one, while a rewrite is under way.
LEMMA StartTableType ==
    ASSUME TypeOK, phase # "idle"
    PROVE  /\ start \in DOMAIN snapshots
           /\ StartTable \in Table(Keys, Versions)
           /\ IsFiniteSet(StartTable.data) /\ IsFiniteSet(StartTable.dels)
<1>1. snapshots \in Seq(Snapshot) /\ start \in 1..Len(snapshots) BY DEF TypeOK
<1>2. start \in DOMAIN snapshots /\ snapshots[start] \in Snapshot BY <1>1
<1> QED BY <1>2 DEF StartTable, TypeOK, Snapshot

\* What an append does to the sequence of snapshots.
LEMMA AppendSnapshot ==
    ASSUME TypeOK, NEW s \in Snapshot, IsFiniteSet(s.table.data), IsFiniteSet(s.table.dels),
           snapshots' = Append(snapshots, s)
    PROVE  /\ snapshots' \in Seq(Snapshot)
           /\ Len(snapshots') = Len(snapshots) + 1
           /\ \A i \in DOMAIN snapshots' :
                 IsFiniteSet(snapshots'[i].table.data) /\ IsFiniteSet(snapshots'[i].table.dels)
<1>1. snapshots \in Seq(Snapshot) BY DEF TypeOK
<1>2. /\ snapshots' \in Seq(Snapshot) /\ Len(snapshots') = Len(snapshots) + 1
      /\ \A i \in DOMAIN snapshots : snapshots'[i] = snapshots[i]
      /\ snapshots'[Len(snapshots) + 1] = s
      /\ DOMAIN snapshots' = DOMAIN snapshots \cup {Len(snapshots) + 1}
  BY <1>1
<1>3. \A i \in DOMAIN snapshots :
          IsFiniteSet(snapshots[i].table.data) /\ IsFiniteSet(snapshots[i].table.dels)
  BY DEF TypeOK
<1> QED BY <1>2, <1>3

\* SQL's max of finitely many rows is one of their versions, or null.
LEMMA MaxOrderingType ==
    ASSUME NEW rows \in SUBSET Row(Keys, Versions), IsFiniteSet(rows)
    PROVE  /\ MaxOrdering(rows) \in Versions \cup {NoVersion}
           /\ MaxOrdering(rows) # NoVersion =>
                 /\ MaxOrdering(rows) \in Nat
                 /\ MaxOrdering(rows) \in VersionsOf(rows)
           /\ \A v \in VersionsOf(rows) : MaxOrdering(rows) # NoVersion /\ MaxOrdering(rows) >= v
<1> DEFINE W == VersionsOf(rows)
<1>1. W \in SUBSET Nat /\ IsFiniteSet(W) BY VersionsFinite, VersionsAssumption
<1>2. W \subseteq Versions BY DEF VersionsOf, Row
<1>3. MaxOrdering(rows) = IF W = {} THEN NoVersion ELSE Max(W) BY DEF MaxOrdering
<1> HIDE DEF W
<1>4. CASE W = {} BY <1>3, <1>4 DEF W
<1>5. CASE W # {}
  <2>1. Max(W) \in W /\ \A v \in W : Max(W) >= v BY <1>1, <1>5, MaxMin
  <2>2. Max(W) # NoVersion BY <1>1, <2>1, NoVersionAssumption
  <2> QED BY <1>1, <1>2, <1>3, <1>5, <2>1, <2>2 DEF W
<1> QED BY <1>4, <1>5

\* The rows of a group, and its findings per key.
LEMMA PerKeyType ==
    ASSUME TypeOK, phase # "idle", NEW g
    PROVE  /\ GroupRows(g) \in SUBSET Row(Keys, Versions) /\ IsFiniteSet(GroupRows(g))
           /\ \A k \in Keys :
                 /\ Discarded(g, k) \in SUBSET Row(Keys, Versions) /\ IsFiniteSet(Discarded(g, k))
                 /\ Survivors(g, k) \in SUBSET Row(Keys, Versions) /\ IsFiniteSet(Survivors(g, k))
           /\ PerKey(g) \in [Keys -> Partial]
<1>1. GroupRows(g) \in SUBSET Row(Keys, Versions) /\ IsFiniteSet(GroupRows(g))
  BY StartTableType, FS_Subset DEF GroupRows, Table
<1>2. ASSUME NEW k \in Keys
      PROVE  /\ Discarded(g, k) \in SUBSET Row(Keys, Versions) /\ IsFiniteSet(Discarded(g, k))
             /\ Survivors(g, k) \in SUBSET Row(Keys, Versions) /\ IsFiniteSet(Survivors(g, k))
  <2>1. Discarded(g, k) \subseteq GroupRows(g) /\ Survivors(g, k) \subseteq GroupRows(g)
    BY DEF Discarded, Survivors, RowsOf
  <2> QED BY <1>1, <2>1, FS_Subset
<1>3. PerKey(g) \in [Keys -> Partial]
  <2> SUFFICES ASSUME NEW k \in Keys
               PROVE  [dmax |-> MaxOrdering(Discarded(g, k)),
                       smax |-> MaxOrdering(Survivors(g, k)),
                       scnt |-> Cardinality(Survivors(g, k))] \in Partial
    BY DEF PerKey
  <2> QED BY <1>2, MaxOrderingType, FS_CardinalityType DEF Partial
<1> QED BY <1>1, <1>2, <1>3

\* The survivors a group writes are rows, in a file of its own.
LEMMA WrittenType ==
    ASSUME TypeOK, phase # "idle", NEW g, WriteSurvivors(g)
    PROVE  /\ todo' \subseteq groups
           /\ written' \subseteq Row(Keys, Versions) /\ IsFiniteSet(written')
<1> DEFINE Live == GroupRows(g) \ DeadRows(StartTable)
           n == Cardinality(groups) - Cardinality(todo) + 1
           Move(r) == [r EXCEPT !.file = <<0, n>>]
           New == {Move(r) : r \in Live}
<1>1. todo' \subseteq groups BY DEF TypeOK, WriteSurvivors
<1>2. n \in Nat
  <2>1. /\ Cardinality(todo) \in Nat /\ Cardinality(groups) \in Nat
        /\ Cardinality(todo) <= Cardinality(groups)
    BY FS_Subset, FS_CardinalityType DEF TypeOK
  <2> QED BY <2>1
<1>3. Live \in SUBSET Row(Keys, Versions) /\ IsFiniteSet(Live) BY PerKeyType, FS_Subset
<1> HIDE DEF n, Live
<1>4. New \subseteq Row(Keys, Versions) BY <1>2, <1>3 DEF Row, File
<1>5. IsFiniteSet(New)
  <2>1. /\ [r \in Live |-> Move(r)] \in [Live -> New]
        /\ \A t \in New : \E r \in Live : [q \in Live |-> Move(q)][r] = t
    OBVIOUS
  <2> HIDE DEF New, Move
  <2> QED BY <1>3, <2>1, FiniteImage
<1>6. written' = written \cup New BY DEF WriteSurvivors, n, Live
<1> HIDE DEF New
<1>7. IsFiniteSet(written') BY <1>5, <1>6, FS_Union DEF TypeOK
<1> QED BY <1>1, <1>4, <1>6, <1>7 DEF TypeOK

-----------------------------------------------------------------------------
\* One lemma per action: it preserves the types.

\* A writer's commit keeps the types.
LEMMA CommitType == TypeOK /\ Commit => TypeOK'
<1> SUFFICES ASSUME TypeOK, Commit PROVE TypeOK' OBVIOUS
<1> USE DEF TypeOK
<1>1. PICK rows \in UNION {kSubset(n, NewRows) : n \in 0..MaxRowsPerCommit}, deletes \in SUBSET Keys :
        LET id == CurrentId + 1
            added == {[commit |-> id, part |-> r.part, key |-> r.key, ver |-> r.ver,
                       file |-> <<id, r.part>>, seq |-> id] : r \in rows}
        IN  /\ IsFiniteSet(rows)
            /\ snapshots' = Append(snapshots,
                 [table |-> [data |-> CurrentTable.data \cup added,
                             dels |-> CurrentTable.dels \cup {[key |-> k, seq |-> id] : k \in deletes}],
                  summary |-> NoSummary,
                  base |-> 0])
  BY DEF Commit
<1> DEFINE id == CurrentId + 1
           Stored(r) == [commit |-> id, part |-> r.part, key |-> r.key, ver |-> r.ver,
                         file |-> <<id, r.part>>, seq |-> id]
           added == {Stored(r) : r \in rows}
           Delete(k) == [key |-> k, seq |-> id]
           deleted == {Delete(k) : k \in deletes}
           table == [data |-> CurrentTable.data \cup added, dels |-> CurrentTable.dels \cup deleted]
           s == [table |-> table, summary |-> NoSummary, base |-> 0]
<1>2. rows \subseteq NewRows /\ IsFiniteSet(rows) BY <1>1 DEF kSubset
<1>3. id \in Nat BY CurrentTableType
<1>4. added \subseteq Row(Keys, Versions)
  <2>1. MaxParts \in Nat BY BoundsAssumption
  <2> QED BY <1>2, <1>3, <2>1 DEF NewRows, Row, File
<1>5. IsFiniteSet(added)
  <2>1. /\ [r \in rows |-> Stored(r)] \in [rows -> added]
        /\ \A t \in added : \E r \in rows : [q \in rows |-> Stored(q)][r] = t
    OBVIOUS
  <2> HIDE DEF added, Stored
  <2> QED BY <1>2, <2>1, FiniteImage
<1>6. deleted \subseteq Del(Keys) BY <1>3 DEF Del
<1>7. IsFiniteSet(deleted)
  <2>1. IsFiniteSet(deletes) BY KeysAssumption, FS_Subset
  <2>2. /\ [k \in deletes |-> Delete(k)] \in [deletes -> deleted]
        /\ \A t \in deleted : \E k \in deletes : [q \in deletes |-> Delete(q)][k] = t
    OBVIOUS
  <2> HIDE DEF deleted, Delete
  <2> QED BY <2>1, <2>2, FiniteImage
<1>8. snapshots' = Append(snapshots, s) BY <1>1
<1> HIDE DEF id, added, deleted
<1>9. table \in Table(Keys, Versions) /\ IsFiniteSet(table.data) /\ IsFiniteSet(table.dels)
  BY <1>4, <1>5, <1>6, <1>7, CurrentTableType, FS_Union DEF Table
<1>10. s \in Snapshot
  <2>1. NoSummary \in Summary BY DEF NoSummary, Summary
  <2> QED BY <1>9, <2>1 DEF Snapshot
<1>11. s.table = table OBVIOUS
<1> HIDE DEF s, table
<1>12. /\ snapshots' \in Seq(Snapshot)
       /\ Len(snapshots') = Len(snapshots) + 1
       /\ \A i \in DOMAIN snapshots' :
             IsFiniteSet(snapshots'[i].table.data) /\ IsFiniteSet(snapshots'[i].table.dels)
  BY <1>8, <1>9, <1>10, <1>11, AppendSnapshot
<1>13. UNCHANGED <<statistics, actionVars, runnerVars, spillVars>> BY DEF Commit
<1>14. Len(snapshots) \in Nat BY CurrentTableType DEF CurrentId
<1>15. start' \in 0..Len(snapshots') /\ boundsAt' \in 0..Len(snapshots')
  BY <1>12, <1>13, <1>14 DEF actionVars, runnerVars
<1>16. /\ statistics' = statistics /\ phase' = phase /\ start' = start /\ groups' = groups
       /\ todo' = todo /\ gated' = gated /\ flagged' = flagged /\ cross' = cross
       /\ written' = written /\ pendingSpill' = pendingSpill /\ spillSnap' = spillSnap
  BY <1>13 DEF actionVars, runnerVars, spillVars
<1> QED BY <1>12, <1>15, <1>16

\* So does the plan of a rewrite,
LEMMA PlanRewriteType == TypeOK /\ PlanRewrite => TypeOK'
<1> SUFFICES ASSUME TypeOK, PlanRewrite PROVE TypeOK' OBVIOUS
<1>1. PICK assignment \in [Files(CurrentTable) -> (IF PartialSelection THEN 0 ELSE 1)..MaxGroups] :
        groups' = {{f \in Files(CurrentTable) : assignment[f] = i} : i \in 1..MaxGroups} \ {{}}
  BY Zenon DEF PlanRewrite
<1> USE DEF TypeOK
<1> DEFINE Group(i) == {f \in Files(CurrentTable) : assignment[f] = i}
           all == {Group(i) : i \in 1..MaxGroups}
<1>2. Files(CurrentTable) \subseteq File BY CurrentTableType DEF Files, Table, Row
<1>3. groups' \subseteq SUBSET File BY <1>1, <1>2
<1>4. IsFiniteSet(groups')
  <2>1. IsFiniteSet(1..MaxGroups) BY BoundsAssumption, FS_Interval
  <2>2. /\ [i \in 1..MaxGroups |-> Group(i)] \in [1..MaxGroups -> all]
        /\ \A t \in all : \E i \in 1..MaxGroups : [j \in 1..MaxGroups |-> Group(j)][i] = t
    OBVIOUS
  <2>3. groups' \subseteq all BY <1>1
  <2> HIDE DEF all, Group
  <2>4. IsFiniteSet(all) BY <2>1, <2>2, FiniteImage
  <2> QED BY <2>3, <2>4, FS_Subset
<1>5. NothingSeen \in [Keys -> Partial] BY DEF NothingSeen, Partial
<1>6. CurrentId \in Nat /\ CurrentId # 0 BY CurrentTableType DEF PlanRewrite, CurrentId
<1> QED BY <1>3, <1>4, <1>5, <1>6, FS_EmptySet
        DEF PlanRewrite, NewRunner, tableVars, spillVars, CurrentId

\* a group that the gate cleared,
LEMMA StockRewriteType == TypeOK /\ (\E g \in todo : StockRewrite(g)) => TypeOK'
<1> SUFFICES ASSUME TypeOK, NEW g \in todo, StockRewrite(g) PROVE TypeOK' OBVIOUS
<1> USE DEF TypeOK
<1>1. phase = "rewriting" BY DEF StockRewrite
<1>2. todo' \subseteq groups /\ written' \subseteq Row(Keys, Versions) /\ IsFiniteSet(written')
  BY <1>1, WrittenType DEF StockRewrite
<1>3. BoundsSnapshot \in 0..Len(snapshots) BY CurrentTableType DEF BoundsSnapshot, CurrentId
<1> QED BY <1>2, <1>3 DEF StockRewrite, tableVars, spillVars

\* a group that is audited,
LEMMA AuditedRewriteType == TypeOK /\ (\E g \in todo : AuditedRewrite(g)) => TypeOK'
<1> SUFFICES ASSUME TypeOK, NEW g \in todo, AuditedRewrite(g) PROVE TypeOK' OBVIOUS
<1> USE DEF TypeOK
<1>1. phase = "rewriting" BY DEF AuditedRewrite
<1>2. todo' \subseteq groups /\ written' \subseteq Row(Keys, Versions) /\ IsFiniteSet(written')
  BY <1>1, WrittenType DEF AuditedRewrite
<1>3. boundsAt' \in 0..Len(snapshots)
  BY CurrentTableType DEF AuditedRewrite, BoundsSnapshot, CurrentId
<1>4. flagged' \subseteq groups \X Keys BY DEF AuditedRewrite
<1>5. cross' \in [Keys -> Partial]
  <2>1. PerKey(g) \in [Keys -> Partial] BY <1>1, PerKeyType
  <2>2. CollectCrossGroup(cross, PerKey(g)) \in [Keys -> Partial]
    <3>1. ASSUME NEW p \in Partial, NEW q \in Partial
          PROVE  [dmax |-> MaxOf(p.dmax, q.dmax), smax |-> MaxOf(p.smax, q.smax),
                  scnt |-> p.scnt + q.scnt] \in Partial
      <4>1. p.scnt + q.scnt \in Nat BY DEF Partial
      <4> QED BY <4>1 DEF Partial, MaxOf
    <3>2. \A k \in Keys : cross[k] \in Partial /\ PerKey(g)[k] \in Partial BY <2>1
    <3> QED BY <3>1, <3>2 DEF CollectCrossGroup
  <2> QED BY <2>2 DEF AuditedRewrite
<1>6. /\ snapshots' = snapshots /\ statistics' = statistics /\ phase' = phase /\ start' = start
      /\ groups' = groups /\ gated' = gated
      /\ pendingSpill' = pendingSpill /\ spillSnap' = spillSnap
  BY DEF AuditedRewrite, tableVars, spillVars
<1> QED BY <1>2, <1>3, <1>4, <1>5, <1>6

\* The summary of a rewrite is well formed: its counts are counts of finite sets.
LEMMA SummaryType ==
    ASSUME TypeOK
    PROVE  AuditSnapshotSummary \in Summary /\ FlaggedKeys \subseteq Keys
<1>1. flagged \subseteq groups \X Keys /\ IsFiniteSet(groups \X Keys)
  BY KeysAssumption, FS_Product DEF TypeOK
<1>2. Cardinality(flagged) \in Nat BY <1>1, FS_Subset, FS_CardinalityType
<1>3. FlaggedKeys \subseteq Keys BY <1>1 DEF FlaggedKeys
<1>4. CrossGroupStaleWins \subseteq Keys BY DEF CrossGroupStaleWins
<1>5. Cardinality(CrossGroupStaleWins) \in Nat
  BY <1>4, KeysAssumption, FS_Subset, FS_CardinalityType
<1>6. NoSummary \in Summary /\ [NoSummary EXCEPT !.verdict = "undecidable"] \in Summary
  BY DEF NoSummary, Summary
<1>7. Spills \in BOOLEAN BY DEF Spills
<1> QED BY <1>2, <1>3, <1>4, <1>5, <1>6, <1>7 DEF AuditSnapshotSummary, Summary

\* Every table a rewrite may commit is a finite table.
LEMMA RewrittenTableType ==
    ASSUME TypeOK, NEW table \in RewrittenTables
    PROVE  table \in Table(Keys, Versions) /\ IsFiniteSet(table.data) /\ IsFiniteSet(table.dels)
<1> DEFINE id == CurrentId + 1
           kept == {r \in CurrentTable.data : r.file \notin UNION groups}
           Move(r) == [r EXCEPT !.file = <<id, r.file[2]>>, !.seq = start]
           moved == {Move(r) : r \in written}
<1>1. id \in Nat /\ start \in Nat
  <2>1. Len(snapshots) \in Nat /\ start \in 0..Len(snapshots)
    BY CurrentTableType DEF TypeOK, CurrentId
  <2> QED BY <2>1 DEF CurrentId
<1>2. /\ table.data = kept \cup moved /\ table.dels \subseteq CurrentTable.dels
      /\ table = [data |-> table.data, dels |-> table.dels]
  <2> DEFINE data == kept \cup moved
             droppable == {d \in CurrentTable.dels : \A r \in data : d.seq < r.seq}
  <2>1. table \in {[data |-> data, dels |-> CurrentTable.dels \ dropped] : dropped \in SUBSET droppable}
    BY Zenon DEF RewrittenTables
  <2> HIDE DEF data, droppable
  <2>2. PICK dropped : table = [data |-> data, dels |-> CurrentTable.dels \ dropped] BY <2>1
  <2> QED BY <2>2 DEF data
<1>3. kept \subseteq Row(Keys, Versions) /\ IsFiniteSet(kept)
  BY CurrentTableType, FS_Subset DEF Table
<1>4. moved \subseteq Row(Keys, Versions)
  <2> SUFFICES ASSUME NEW r \in Row(Keys, Versions) PROVE Move(r) \in Row(Keys, Versions)
    BY DEF TypeOK
  <2>1. r.file[2] \in Nat BY DEF Row, File
  <2> QED BY <1>1, <2>1 DEF Row, File
<1>5. IsFiniteSet(moved)
  <2>1. /\ [r \in written |-> Move(r)] \in [written -> moved]
        /\ \A t \in moved : \E r \in written : [q \in written |-> Move(q)][r] = t
    OBVIOUS
  <2>2. IsFiniteSet(written) BY DEF TypeOK
  <2> HIDE DEF moved, Move
  <2> QED BY <2>1, <2>2, FiniteImage
<1> HIDE DEF kept, moved
<1>6. table.dels \subseteq Del(Keys) /\ IsFiniteSet(table.dels)
  BY <1>2, CurrentTableType, FS_Subset DEF Table
<1>7. table.data \subseteq Row(Keys, Versions) /\ IsFiniteSet(table.data)
  BY <1>2, <1>3, <1>4, <1>5, FS_Union
<1> QED BY <1>2, <1>6, <1>7 DEF Table

\* and the commit of the rewrite.
LEMMA CommitRewriteType == TypeOK /\ CommitRewrite => TypeOK'
<1> SUFFICES ASSUME TypeOK, CommitRewrite PROVE TypeOK' OBVIOUS
<1> USE DEF TypeOK
<1>1. PICK table \in RewrittenTables :
        snapshots' = Append(snapshots, [table |-> table, summary |-> AuditSnapshotSummary, base |-> start])
  BY DEF CommitRewrite
<1> DEFINE s == [table |-> table, summary |-> AuditSnapshotSummary, base |-> start]
<1>2. table \in Table(Keys, Versions) /\ IsFiniteSet(table.data) /\ IsFiniteSet(table.dels)
  BY RewrittenTableType
<1>3. Len(snapshots) \in Nat BY CurrentTableType DEF CurrentId
<1>4. start \in Nat BY <1>3
<1>5. s \in Snapshot BY <1>2, <1>4, SummaryType DEF Snapshot
<1>6. s.table = table OBVIOUS
<1> HIDE DEF s
<1>7. /\ snapshots' \in Seq(Snapshot)
      /\ Len(snapshots') = Len(snapshots) + 1
      /\ \A i \in DOMAIN snapshots' :
            IsFiniteSet(snapshots'[i].table.data) /\ IsFiniteSet(snapshots'[i].table.dels)
  BY <1>1, <1>2, <1>5, <1>6, AppendSnapshot DEF s
<1>8. pendingSpill' \in [needed : BOOLEAN, keys : SUBSET Keys]
  BY SummaryType DEF CommitRewrite, NoSpill
<1>9. /\ phase = "rewriting" /\ phase' = "committed"
      /\ UNCHANGED <<statistics, start, groups, todo, runnerVars, spillSnap>>
  BY DEF CommitRewrite
<1> QED BY <1>3, <1>7, <1>8, <1>9 DEF runnerVars

\* What the variables hold is what their declarations say.
THEOREM TypeCorrect == Spec => []TypeOK
<1>1. Init => TypeOK
  BY FS_EmptySet DEF Init, TypeOK, NothingSeen, Partial, NoSpill
<1>2. TypeOK /\ [Next]_vars => TypeOK'
  <2> SUFFICES ASSUME TypeOK, [Next]_vars PROVE TypeOK' OBVIOUS
  <2>1. CASE Commit BY <2>1, CommitType
  <2>2. CASE PlanRewrite BY <2>2, PlanRewriteType
  <2>3. CASE \E g \in todo : StockRewrite(g) BY <2>3, StockRewriteType
  <2>4. CASE \E g \in todo : AuditedRewrite(g) BY <2>4, AuditedRewriteType
  <2>5. CASE CommitRewrite BY <2>5, CommitRewriteType
  <2>6. CASE WriteSpill
    <3>1. CurrentId \in Nat BY CurrentTableType
    <3> QED BY <2>6, <3>1 DEF WriteSpill, TypeOK, tableVars, runnerVars
  <2>7. CASE RegisterSpill
    BY <2>7 DEF RegisterSpill, TypeOK, NoSpill, runnerVars
  <2>8. CASE NothingToSpill
    BY <2>8 DEF NothingToSpill, TypeOK, tableVars, runnerVars, spillVars
  <2>9. CASE Abandon
    BY <2>9, FS_EmptySet DEF Abandon, TypeOK, NewRunner, NothingSeen, Partial, NoSpill, tableVars
  <2>10. CASE UNCHANGED vars
    BY <2>10 DEF vars, TypeOK, tableVars, actionVars, runnerVars, spillVars
  <2> QED BY <2>1, <2>2, <2>3, <2>4, <2>5, <2>6, <2>7, <2>8, <2>9, <2>10 DEF Next, RewriteStep
<1> QED BY <1>1, <1>2, PTL DEF Spec

-----------------------------------------------------------------------------
\* The strengthening: why the gate may trust bounds read from a later snapshot,
\* and why the rows a rewrite puts back are the rows it takes out.

\* A file's name carries the snapshot that created it, and nothing in a table is
\* younger than its snapshot.
NothingYounger ==
    \A i \in DOMAIN snapshots :
        /\ \A r \in snapshots[i].table.data : r.file[1] <= i /\ r.seq <= i
        /\ \A d \in snapshots[i].table.dels : d.seq <= i

\* While a rewrite is under way, every later snapshot still holds the files of
\* its groups, with the same rows, and the deletes the starting snapshot had.
Pinned ==
    phase = "rewriting" =>
        /\ \A g \in groups : g \subseteq Files(StartTable)
        /\ \A i \in start..Len(snapshots) :
              /\ \A g \in groups : {r \in snapshots[i].table.data : r.file \in g} = GroupRows(g)
              /\ {d \in snapshots[i].table.dels : d.seq <= start} = StartTable.dels

\* A cleared group was cleared by bounds read after the rewrite was planned.
Cleared ==
    phase = "rewriting" =>
        /\ boundsAt # 0 => boundsAt >= start
        /\ gated # {} => boundsAt # 0
        /\ \A g \in gated : ~MayContainStaleWins(g, boundsAt)

\* An append leaves the snapshots that are there alone.
LEMMA EarlierSnapshots ==
    ASSUME TypeOK, NEW s, snapshots' = Append(snapshots, s)
    PROVE  /\ Len(snapshots) \in Nat /\ Len(snapshots') = Len(snapshots) + 1
           /\ DOMAIN snapshots = 1..Len(snapshots)
           /\ DOMAIN snapshots' = 1..(Len(snapshots) + 1)
           /\ \A i \in 1..Len(snapshots) : snapshots'[i] = snapshots[i]
           /\ snapshots'[Len(snapshots) + 1] = s
<1>1. snapshots \in Seq(Snapshot) BY DEF TypeOK
<1> QED BY <1>1

\* What the gate read is what the snapshot still holds.
LEMMA SameBounds ==
    ASSUME snapshots'[boundsAt] = snapshots[boundsAt], boundsAt' = boundsAt, NEW g
    PROVE  MayContainStaleWins(g, boundsAt)' <=> MayContainStaleWins(g, boundsAt)
<1>1. \A f : HasBounds(f, boundsAt)' <=> HasBounds(f, boundsAt) BY DEF HasBounds
<1>2. BoundsRows(g, boundsAt)' = BoundsRows(g, boundsAt) BY DEF BoundsRows
<1>3. \A n : SpanOf(g, boundsAt, n)' = SpanOf(g, boundsAt, n) BY <1>2 DEF SpanOf
<1> QED BY <1>1, <1>2, <1>3 DEF MayContainStaleWins

\* The snapshot a writer's commit adds to the table that is current.
LEMMA CommitAdds ==
    ASSUME TypeOK, Commit
    PROVE  \E s : /\ snapshots' = Append(snapshots, s)
                  /\ s.base = 0
                  /\ s.table.data \subseteq CurrentTable.data \cup
                        {r \in Row(Keys, Versions) : r.file[1] = CurrentId + 1 /\ r.seq = CurrentId + 1}
                  /\ CurrentTable.data \subseteq s.table.data
                  /\ s.table.dels \subseteq CurrentTable.dels \cup {d \in Del(Keys) : d.seq = CurrentId + 1}
                  /\ CurrentTable.dels \subseteq s.table.dels
<1>1. PICK rows \in UNION {kSubset(n, NewRows) : n \in 0..MaxRowsPerCommit}, deletes \in SUBSET Keys :
        LET id == CurrentId + 1
            added == {[commit |-> id, part |-> r.part, key |-> r.key, ver |-> r.ver,
                       file |-> <<id, r.part>>, seq |-> id] : r \in rows}
        IN  /\ snapshots' = Append(snapshots,
                 [table |-> [data |-> CurrentTable.data \cup added,
                             dels |-> CurrentTable.dels \cup {[key |-> k, seq |-> id] : k \in deletes}],
                  summary |-> NoSummary,
                  base |-> 0])
  BY DEF Commit
<1> DEFINE id == CurrentId + 1
           added == {[commit |-> id, part |-> r.part, key |-> r.key, ver |-> r.ver,
                      file |-> <<id, r.part>>, seq |-> id] : r \in rows}
           deleted == {[key |-> k, seq |-> id] : k \in deletes}
           s == [table |-> [data |-> CurrentTable.data \cup added, dels |-> CurrentTable.dels \cup deleted],
                 summary |-> NoSummary, base |-> 0]
<1>2. rows \subseteq NewRows BY <1>1 DEF kSubset
<1>3. id \in Nat BY CurrentTableType
<1>4. added \subseteq {r \in Row(Keys, Versions) : r.file[1] = id /\ r.seq = id}
  <2>1. MaxParts \in Nat BY BoundsAssumption
  <2> QED BY <1>2, <1>3, <2>1 DEF NewRows, Row, File
<1>5. deleted \subseteq {d \in Del(Keys) : d.seq = id} BY <1>3 DEF Del
<1>6. snapshots' = Append(snapshots, s) BY <1>1
<1> HIDE DEF added, deleted
<1>7. /\ s.base = 0 /\ s.table.data = CurrentTable.data \cup added
      /\ s.table.dels = CurrentTable.dels \cup deleted
  OBVIOUS
<1> HIDE DEF s
<1> QED BY <1>4, <1>5, <1>6, <1>7 DEF id

\* The current table holds nothing younger than its snapshot, and numbers.
LEMMA CurrentTableBounds ==
    ASSUME TypeOK, NothingYounger
    PROVE  /\ \A r \in CurrentTable.data : /\ r.file[1] \in Nat /\ r.file[1] <= CurrentId
                                           /\ r.seq \in Nat /\ r.seq <= CurrentId
           /\ \A d \in CurrentTable.dels : d.seq \in Nat /\ d.seq <= CurrentId
<1>1. CASE snapshots = <<>>
  BY <1>1 DEF CurrentTable, EmptyTable
<1>2. CASE snapshots # <<>>
  <2>1. CurrentId \in DOMAIN snapshots /\ CurrentTable = snapshots[CurrentId].table
    BY <1>2 DEF TypeOK, CurrentTable, CurrentId
  <2>2. CurrentTable \in Table(Keys, Versions) BY CurrentTableType
  <2> QED BY <2>1, <2>2 DEF NothingYounger, Table, Row, Del, File
<1> QED BY <1>1, <1>2

\* A rewrite's table is made of the current one's rows and of its own files,
\* stamped with the starting snapshot.
LEMMA RewrittenTableBounds ==
    ASSUME TypeOK, NothingYounger, NEW table \in RewrittenTables
    PROVE  /\ \A r \in table.data : r.file[1] <= CurrentId + 1 /\ r.seq <= CurrentId + 1
           /\ table.dels \subseteq CurrentTable.dels
<1> DEFINE id == CurrentId + 1
           kept == {r \in CurrentTable.data : r.file \notin UNION groups}
           Move(r) == [r EXCEPT !.file = <<id, r.file[2]>>, !.seq = start]
           moved == {Move(r) : r \in written}
           data == kept \cup moved
           droppable == {d \in CurrentTable.dels : \A r \in data : d.seq < r.seq}
<1>1. table \in {[data |-> data, dels |-> CurrentTable.dels \ dropped] : dropped \in SUBSET droppable}
  BY Zenon DEF RewrittenTables
<1> HIDE DEF data, droppable
<1>2. PICK dropped : table = [data |-> data, dels |-> CurrentTable.dels \ dropped] BY <1>1
<1>3. CurrentId \in Nat /\ start \in Nat /\ start <= CurrentId
  BY CurrentTableType DEF TypeOK, CurrentId
<1>4. \A r \in kept : r.file[1] <= id /\ r.seq <= id BY <1>3, CurrentTableBounds
<1>5. \A r \in moved : r.file[1] <= id /\ r.seq <= id
  <2> SUFFICES ASSUME NEW r \in Row(Keys, Versions)
               PROVE  Move(r).file[1] <= id /\ Move(r).seq <= id
    BY DEF TypeOK
  <2>1. Move(r).file = <<id, r.file[2]>> /\ Move(r).seq = start BY DEF Row
  <2> QED BY <1>3, <2>1
<1> QED BY <1>2, <1>4, <1>5 DEF data

\* Nothing younger than its snapshot is ever added.
LEMMA NothingYoungerStep == TypeOK /\ NothingYounger /\ [Next]_vars => NothingYounger'
<1> SUFFICES ASSUME TypeOK, NothingYounger, [Next]_vars PROVE NothingYounger' OBVIOUS
<1>1. ASSUME NEW s, snapshots' = Append(snapshots, s),
             \A r \in s.table.data : r.file[1] <= CurrentId + 1 /\ r.seq <= CurrentId + 1,
             \A d \in s.table.dels : d.seq <= CurrentId + 1
      PROVE  NothingYounger'
  BY <1>1, EarlierSnapshots DEF NothingYounger, CurrentId
<1>2. CurrentId \in Nat BY CurrentTableType
<1>3. CASE Commit
  <2>1. PICK s : /\ snapshots' = Append(snapshots, s)
                 /\ s.table.data \subseteq CurrentTable.data \cup
                        {r \in Row(Keys, Versions) : r.file[1] = CurrentId + 1 /\ r.seq = CurrentId + 1}
                 /\ s.table.dels \subseteq CurrentTable.dels \cup {d \in Del(Keys) : d.seq = CurrentId + 1}
    BY <1>3, CommitAdds
  <2>2. \A r \in s.table.data : r.file[1] <= CurrentId + 1 /\ r.seq <= CurrentId + 1
    BY <1>2, <2>1, CurrentTableBounds
  <2>3. \A d \in s.table.dels : d.seq <= CurrentId + 1
    BY <1>2, <2>1, CurrentTableBounds
  <2> QED BY <1>1, <2>1, <2>2, <2>3
<1>4. CASE CommitRewrite
  <2>1. PICK table \in RewrittenTables :
          snapshots' = Append(snapshots, [table |-> table, summary |-> AuditSnapshotSummary, base |-> start])
    BY <1>4 DEF CommitRewrite
  <2>2. \A r \in table.data : r.file[1] <= CurrentId + 1 /\ r.seq <= CurrentId + 1
    BY RewrittenTableBounds
  <2>3. \A d \in table.dels : d.seq <= CurrentId + 1
    BY <1>2, RewrittenTableBounds, CurrentTableBounds
  <2> QED BY <1>1, <2>1, <2>2, <2>3
<1>5. CASE snapshots' = snapshots BY <1>5 DEF NothingYounger
<1>6. Commit \/ CommitRewrite \/ snapshots' = snapshots
  BY DEF Next, RewriteStep, PlanRewrite, StockRewrite, AuditedRewrite, WriteSpill, RegisterSpill,
         NothingToSpill, Abandon, tableVars, vars
<1> QED BY <1>3, <1>4, <1>5, <1>6

\* The rows and deletes a rewrite was planned on stay where they are.
LEMMA PinnedStep == TypeOK /\ NothingYounger /\ Pinned /\ [Next]_vars => Pinned'
<1> SUFFICES ASSUME TypeOK, NothingYounger, Pinned, [Next]_vars, phase' = "rewriting"
             PROVE  /\ \A g \in groups' : g \subseteq Files(StartTable)'
                    /\ \A i \in start'..Len(snapshots') :
                          /\ \A g \in groups' : {r \in snapshots'[i].table.data : r.file \in g} = GroupRows(g)'
                          /\ {d \in snapshots'[i].table.dels : d.seq <= start'} = StartTable'.dels
  BY DEF Pinned
<1>1. CASE PlanRewrite
  <2>1. /\ snapshots' = snapshots /\ start' = CurrentId /\ snapshots # <<>>
        /\ CurrentId \in Nat /\ CurrentId \in DOMAIN snapshots
    BY <1>1 DEF PlanRewrite, tableVars, CurrentId, TypeOK
  <2>2. StartTable' = CurrentTable BY <2>1 DEF StartTable, CurrentTable, CurrentId
  <2>3. \A g \in groups' : g \subseteq Files(CurrentTable)
    <3>1. PICK assignment \in [Files(CurrentTable) -> (IF PartialSelection THEN 0 ELSE 1)..MaxGroups] :
            groups' = {{f \in Files(CurrentTable) : assignment[f] = i} : i \in 1..MaxGroups} \ {{}}
      BY <1>1, Zenon DEF PlanRewrite
    <3> QED BY <3>1
  <2>4. \A i \in start'..Len(snapshots') : i = CurrentId BY <2>1 DEF CurrentId
  <2>5. snapshots'[CurrentId].table = CurrentTable BY <2>1 DEF CurrentTable
  <2>6. \A g : GroupRows(g)' = {r \in CurrentTable.data : r.file \in g} BY <2>2 DEF GroupRows
  <2>7. {d \in CurrentTable.dels : d.seq <= CurrentId} = CurrentTable.dels
    BY CurrentTableBounds
  <2>8. Files(StartTable)' = Files(CurrentTable) BY <2>2 DEF Files
  <2> QED BY <2>1, <2>2, <2>3, <2>4, <2>5, <2>6, <2>7, <2>8
<1>2. CASE Commit
  <2>1. phase = "rewriting" /\ start' = start /\ groups' = groups BY <1>2 DEF Commit, actionVars
  <2>2. PICK s : /\ snapshots' = Append(snapshots, s)
                 /\ s.table.data \subseteq CurrentTable.data \cup
                        {r \in Row(Keys, Versions) : r.file[1] = CurrentId + 1 /\ r.seq = CurrentId + 1}
                 /\ CurrentTable.data \subseteq s.table.data
                 /\ s.table.dels \subseteq CurrentTable.dels \cup {d \in Del(Keys) : d.seq = CurrentId + 1}
                 /\ CurrentTable.dels \subseteq s.table.dels
    BY <1>2, CommitAdds
  <2>3. /\ Len(snapshots) \in Nat /\ Len(snapshots') = Len(snapshots) + 1
        /\ \A i \in 1..Len(snapshots) : snapshots'[i] = snapshots[i]
        /\ snapshots'[Len(snapshots) + 1] = s
    BY <2>2, EarlierSnapshots
  <2>4. start \in 1..Len(snapshots) BY <2>1, <2>3 DEF TypeOK
  <2>5. StartTable' = StartTable BY <2>1, <2>3, <2>4 DEF StartTable
  <2>6. (\A g : GroupRows(g)' = GroupRows(g)) /\ Files(StartTable)' = Files(StartTable)
    BY <2>5 DEF GroupRows, Files
  <2>7. CurrentTable = snapshots[Len(snapshots)].table BY <2>3, <2>4 DEF CurrentTable, CurrentId
  <2>8. /\ \A g \in groups : {r \in s.table.data : r.file \in g} = GroupRows(g)
        /\ {d \in s.table.dels : d.seq <= start} = StartTable.dels
    <3>1. /\ \A g \in groups : {r \in CurrentTable.data : r.file \in g} = GroupRows(g)
          /\ {d \in CurrentTable.dels : d.seq <= start} = StartTable.dels
      BY <2>1, <2>3, <2>4, <2>7 DEF Pinned
    <3>2. ASSUME NEW g \in groups, NEW r, r.file \in g, r.file[1] = CurrentId + 1 PROVE FALSE
      <4>1. PICK q \in StartTable.data : q.file = r.file
        BY <2>1, <3>2 DEF Pinned, Files
      <4>2. q.file[1] <= start BY <2>3, <2>4, <4>1 DEF NothingYounger, StartTable
      <4> QED BY <2>3, <2>4, <3>2, <4>1, <4>2 DEF CurrentId
    <3>3. \A d \in Del(Keys) : d.seq = CurrentId + 1 => ~(d.seq <= start)
      BY <2>3, <2>4 DEF CurrentId
    <3>4. \A g \in groups : {r \in s.table.data : r.file \in g} = {r \in CurrentTable.data : r.file \in g}
      BY <2>2, <3>2
    <3>5. {d \in s.table.dels : d.seq <= start} = {d \in CurrentTable.dels : d.seq <= start}
      BY <2>2, <3>3
    <3> QED BY <3>1, <3>4, <3>5
  <2>9. \A i \in start..Len(snapshots) :
          /\ \A g \in groups : {r \in snapshots[i].table.data : r.file \in g} = GroupRows(g)
          /\ {d \in snapshots[i].table.dels : d.seq <= start} = StartTable.dels
    BY <2>1 DEF Pinned
  <2>10. \A g \in groups : g \subseteq Files(StartTable) BY <2>1 DEF Pinned
  <2>11. \A i \in start'..Len(snapshots') :
            (i \in start..Len(snapshots) /\ i \in 1..Len(snapshots)) \/ i = Len(snapshots) + 1
    BY <2>1, <2>3, <2>4
  <2> QED BY <2>1, <2>3, <2>5, <2>6, <2>8, <2>9, <2>10, <2>11
<1>3. CASE UNCHANGED <<snapshots, start, groups, phase>>
  BY <1>3 DEF Pinned, StartTable, GroupRows, Files
<1>4. PlanRewrite \/ Commit \/ UNCHANGED <<snapshots, start, groups, phase>>
  BY DEF Next, RewriteStep, StockRewrite, AuditedRewrite, CommitRewrite, WriteSpill, RegisterSpill,
         NothingToSpill, Abandon, tableVars, actionVars, vars
<1> QED BY <1>1, <1>2, <1>3, <1>4

\* A group stays cleared by the bounds that cleared it.
LEMMA ClearedStep == TypeOK /\ Pinned /\ Cleared /\ [Next]_vars => Cleared'
<1> SUFFICES ASSUME TypeOK, Pinned, Cleared, [Next]_vars, phase' = "rewriting"
             PROVE  /\ boundsAt' # 0 => boundsAt' >= start'
                    /\ gated' # {} => boundsAt' # 0
                    /\ \A g \in gated' : ~MayContainStaleWins(g, boundsAt)'
  BY DEF Cleared
<1>1. CASE PlanRewrite BY <1>1 DEF PlanRewrite, NewRunner
<1>2. CASE Commit
  <2>1. phase = "rewriting" /\ UNCHANGED <<start, boundsAt, gated>>
    BY <1>2 DEF Commit, actionVars, runnerVars
  <2>2. PICK s : snapshots' = Append(snapshots, s) BY <1>2, CommitAdds
  <2>3. boundsAt # 0 => snapshots'[boundsAt] = snapshots[boundsAt]
    BY <2>2, EarlierSnapshots DEF TypeOK
  <2>4. boundsAt # 0 => \A g : MayContainStaleWins(g, boundsAt)' <=> MayContainStaleWins(g, boundsAt)
    BY <2>1, <2>3, SameBounds
  <2> QED BY <2>1, <2>4 DEF Cleared
<1>3. CASE \E g \in todo : StockRewrite(g)
  <2>1. PICK g \in todo : StockRewrite(g) BY <1>3
  <2>2. /\ phase = "rewriting" /\ snapshots' = snapshots /\ start' = start
        /\ ~MayContainStaleWins(g, boundsAt') /\ boundsAt' = BoundsSnapshot
        /\ gated' = gated \cup {g}
    BY <2>1 DEF StockRewrite, tableVars
  <2>3. BoundsSnapshot \in Nat /\ BoundsSnapshot # 0 /\ BoundsSnapshot >= start
    BY <2>2, CurrentTableType DEF BoundsSnapshot, CurrentId, TypeOK, Cleared
  <2>4. gated # {} => boundsAt' = boundsAt BY <2>2 DEF BoundsSnapshot, Cleared
  <2>5. \A h : MayContainStaleWins(h, boundsAt)' <=> MayContainStaleWins(h, boundsAt')
    BY <2>2 DEF MayContainStaleWins, HasBounds, BoundsRows, SpanOf
  <2> QED BY <2>2, <2>3, <2>4, <2>5 DEF Cleared
<1>4. CASE \E g \in todo : AuditedRewrite(g)
  <2>1. PICK g \in todo : AuditedRewrite(g) BY <1>4
  <2>2. /\ phase = "rewriting" /\ snapshots' = snapshots /\ start' = start /\ gated' = gated
        /\ boundsAt' = IF GateOn THEN BoundsSnapshot ELSE boundsAt
    BY <2>1 DEF AuditedRewrite, tableVars
  <2>3. boundsAt' \in Nat /\ (boundsAt' # 0 => boundsAt' >= start) /\ (boundsAt # 0 => boundsAt' = boundsAt)
    BY <2>2, CurrentTableType DEF BoundsSnapshot, CurrentId, TypeOK, Cleared
  <2>4. gated # {} => boundsAt # 0 /\ boundsAt' = boundsAt BY <2>2, <2>3 DEF Cleared
  <2>5. \A h : MayContainStaleWins(h, boundsAt)' <=> MayContainStaleWins(h, boundsAt')
    BY <2>2 DEF MayContainStaleWins, HasBounds, BoundsRows, SpanOf
  <2> QED BY <2>2, <2>3, <2>4, <2>5 DEF Cleared
<1>5. CASE UNCHANGED <<snapshots, phase, start, boundsAt, gated>>
  BY <1>5, SameBounds DEF Cleared
<1>6. \/ PlanRewrite \/ Commit \/ (\E g \in todo : StockRewrite(g))
      \/ (\E g \in todo : AuditedRewrite(g)) \/ UNCHANGED <<snapshots, phase, start, boundsAt, gated>>
  BY DEF Next, RewriteStep, CommitRewrite, WriteSpill, RegisterSpill, NothingToSpill, Abandon,
         tableVars, actionVars, runnerVars, vars
<1> QED BY <1>1, <1>2, <1>3, <1>4, <1>5, <1>6

\* If a discarded version of a group out-orders a survivor, then the bounds of
\* the pinned rows show it: the discarded row is the older of the two.
LEMMA OutOrderedIsBounded ==
    ASSUME TypeOK, Pinned, phase = "rewriting", NEW at \in start..Len(snapshots),
           NEW g \in groups, NEW k \in Keys, OutOrders(PerKey(g)[k])
    PROVE  MayContainStaleWins(g, at)
<1> DEFINE S == BoundsRows(g, at)
           p == PerKey(g)[k]
<1>1. S = GroupRows(g) BY DEF Pinned, BoundsRows
<1>2. S \in SUBSET Row(Keys, Versions) /\ IsFiniteSet(S) BY <1>1, PerKeyType
<1>3. /\ p.dmax = MaxOrdering(Discarded(g, k)) /\ p.smax = MaxOrdering(Survivors(g, k))
      /\ p.dmax # NoVersion /\ p.smax # NoVersion /\ p.dmax > p.smax
  BY DEF PerKey, OutOrders
<1>4. /\ p.dmax \in Nat /\ p.dmax \in VersionsOf(Discarded(g, k))
      /\ p.smax \in Nat /\ p.smax \in VersionsOf(Survivors(g, k))
  BY <1>3, PerKeyType, MaxOrderingType
<1>5. PICK d \in Discarded(g, k) : d.ver = p.dmax BY <1>4 DEF VersionsOf
<1>6. PICK s \in Survivors(g, k) : s.ver = p.smax BY <1>4 DEF VersionsOf
<1>7. d \in S /\ s \in S /\ d.key = k /\ s.key = k BY <1>1 DEF Discarded, Survivors, RowsOf
<1>8. d.seq < s.seq
  <2>1. StartTable \in Table(Keys, Versions) BY StartTableType
  <2>2. d \in DeadRows(StartTable) /\ s \in LiveRows(StartTable)
    BY DEF Discarded, Survivors, RowsOf, GroupRows, DeadRows, LiveRows
  <2> QED BY <1>7, <2>1, <2>2, DiscardedBeforeSurvivor
<1>9. Max(SpanOf(g, at, d.seq)) >= p.dmax /\ Max(SpanOf(g, at, d.seq)) \in Nat
  <2> DEFINE Same == {r \in S : r.seq = d.seq}
  <2>1. SpanOf(g, at, d.seq) = VersionsOf(Same) BY DEF SpanOf
  <2>2. Same \in SUBSET Row(Keys, Versions) /\ IsFiniteSet(Same) BY <1>2, FS_Subset
  <2>3. p.dmax \in VersionsOf(Same) BY <1>3, <1>5, <1>7 DEF VersionsOf
  <2> HIDE DEF Same
  <2>4. VersionsOf(Same) \in SUBSET Nat /\ IsFiniteSet(VersionsOf(Same))
    BY <2>2, VersionsFinite, VersionsAssumption
  <2>5. Max(VersionsOf(Same)) \in VersionsOf(Same) /\ Max(VersionsOf(Same)) >= p.dmax
    BY <2>3, <2>4, MaxMin
  <2> QED BY <2>1, <2>4, <2>5
<1>10. Min(SpanOf(g, at, s.seq)) <= p.smax /\ Min(SpanOf(g, at, s.seq)) \in Nat
  <2> DEFINE Same == {r \in S : r.seq = s.seq}
  <2>1. SpanOf(g, at, s.seq) = VersionsOf(Same) BY DEF SpanOf
  <2>2. Same \in SUBSET Row(Keys, Versions) /\ IsFiniteSet(Same) BY <1>2, FS_Subset
  <2>3. p.smax \in VersionsOf(Same) BY <1>3, <1>6, <1>7 DEF VersionsOf
  <2> HIDE DEF Same
  <2>4. VersionsOf(Same) \in SUBSET Nat /\ IsFiniteSet(VersionsOf(Same))
    BY <2>2, VersionsFinite, VersionsAssumption
  <2>5. Min(VersionsOf(Same)) \in VersionsOf(Same) /\ Min(VersionsOf(Same)) <= p.smax
    BY <2>3, <2>4, MaxMin
  <2> QED BY <2>1, <2>4, <2>5
<1>11. Min(SpanOf(g, at, s.seq)) < Max(SpanOf(g, at, d.seq)) BY <1>3, <1>4, <1>9, <1>10
<1> HIDE DEF p
<1>12. \E m, n \in {r.seq : r \in S} : m < n /\ Min(SpanOf(g, at, n)) < Max(SpanOf(g, at, m))
  BY <1>7, <1>8, <1>11
<1> QED BY <1>12 DEF MayContainStaleWins

\* The gate is sound for every table, every grouping and every commit made
\* while the rewrite runs: a group that skips the audit has nothing to report.
THEOREM GateIsSound == Spec => []GateSound
<1>1. Init => NothingYounger /\ Pinned /\ Cleared
  BY DEF Init, NothingYounger, Pinned, Cleared
<1>2. TypeOK /\ Pinned /\ Cleared => GateSound
  <2> SUFFICES ASSUME TypeOK, Pinned, Cleared, phase = "rewriting",
                      NEW g \in gated, NEW k \in Keys, OutOrders(PerKey(g)[k])
               PROVE  FALSE
    BY DEF GateSound
  <2>1. boundsAt \in start..Len(snapshots) /\ g \in groups BY DEF TypeOK, Cleared
  <2> QED BY <2>1, OutOrderedIsBounded DEF Cleared
<1> QED BY <1>1, <1>2, TypeCorrect, NothingYoungerStep, PinnedStep, ClearedStep, PTL DEF Spec

-----------------------------------------------------------------------------
\* What a rewrite puts back is what it took out.

SameContent(a, b) == a.commit = b.commit /\ a.part = b.part /\ a.key = b.key /\ a.ver = b.ver

\* The rows written so far are the survivors of the groups rewritten so far.
WrittenSurvives ==
    phase = "rewriting" =>
        /\ \A w \in written : \E g \in groups \ todo :
              \E r \in GroupRows(g) \ DeadRows(StartTable) : SameContent(w, r)
        /\ \A g \in groups \ todo : \A r \in GroupRows(g) \ DeadRows(StartTable) :
              \E w \in written : SameContent(w, r)

\* A rewrite follows the snapshot it started from.
RewritesFollow == \A i \in Rewrites : snapshots[i].base < i

\* Rewriting one group adds its survivors to what is written.
LEMMA WriteSurvivorsKeeps ==
    ASSUME TypeOK, WrittenSurvives, phase = "rewriting", NEW g \in todo, WriteSurvivors(g),
           UNCHANGED <<snapshots, phase, start, groups>>
    PROVE  WrittenSurvives'
<1> DEFINE Live(h) == GroupRows(h) \ DeadRows(StartTable)
           n == Cardinality(groups) - Cardinality(todo) + 1
           Move(r) == [r EXCEPT !.file = <<0, n>>]
<1>1. groups \ todo' = (groups \ todo) \cup {g} BY DEF WriteSurvivors, TypeOK
<1>2. written' = written \cup {Move(r) : r \in Live(g)} BY DEF WriteSurvivors
<1>3. \A h : GroupRows(h)' \ DeadRows(StartTable)' = Live(h)
  BY DEF GroupRows, StartTable, DeadRows, IsDeleted
<1>4. ASSUME NEW r \in Live(g) PROVE SameContent(Move(r), r)
  <2>1. r \in Row(Keys, Versions) BY PerKeyType
  <2> QED BY <2>1 DEF Row, SameContent
<1>5. /\ \A w \in written : \E h \in groups \ todo : \E r \in Live(h) : SameContent(w, r)
      /\ \A h \in groups \ todo : \A r \in Live(h) : \E w \in written : SameContent(w, r)
  BY DEF WrittenSurvives
<1> HIDE DEF Live, Move
<1>6. \A w \in written' : \E h \in groups \ todo' : \E r \in Live(h) : SameContent(w, r)
  BY <1>1, <1>2, <1>4, <1>5
<1>7. \A h \in groups \ todo' : \A r \in Live(h) : \E w \in written' : SameContent(w, r)
  BY <1>1, <1>2, <1>4, <1>5
<1>8. phase' = "rewriting" /\ groups' = groups OBVIOUS
<1>9. \A w, r : SameContent(w, r)' <=> SameContent(w, r) BY DEF SameContent
<1> QED BY <1>3, <1>6, <1>7, <1>8 DEF WrittenSurvives, SameContent

\* Every step keeps WrittenSurvives.
LEMMA WrittenSurvivesStep == TypeOK /\ WrittenSurvives /\ [Next]_vars => WrittenSurvives'
<1> SUFFICES ASSUME TypeOK, WrittenSurvives, [Next]_vars, phase' = "rewriting"
             PROVE  WrittenSurvives'
  BY DEF WrittenSurvives
<1>1. CASE PlanRewrite
  BY <1>1 DEF PlanRewrite, NewRunner, WrittenSurvives
<1>2. CASE Commit
  <2>1. phase = "rewriting" /\ UNCHANGED <<phase, start, groups, todo, written>>
    BY <1>2 DEF Commit, actionVars, runnerVars
  <2>2. PICK s : snapshots' = Append(snapshots, s) BY <1>2, CommitAdds
  <2>3. StartTable' = StartTable
    BY <2>1, <2>2, EarlierSnapshots DEF TypeOK, StartTable
  <2>4. /\ \A g : GroupRows(g)' = GroupRows(g)
        /\ DeadRows(StartTable)' = DeadRows(StartTable)
    BY <2>3 DEF GroupRows, DeadRows, IsDeleted
  <2> QED BY <2>1, <2>4 DEF WrittenSurvives, SameContent
<1>3. CASE \E g \in todo : StockRewrite(g)
  BY <1>3, WriteSurvivorsKeeps DEF StockRewrite, tableVars
<1>4. CASE \E g \in todo : AuditedRewrite(g)
  BY <1>4, WriteSurvivorsKeeps DEF AuditedRewrite, tableVars
<1>5. CASE UNCHANGED vars
  <2>1. UNCHANGED <<snapshots, phase, start, groups, todo, written>>
    BY <1>5 DEF vars, tableVars, actionVars, runnerVars
  <2>2. StartTable' = StartTable BY <2>1 DEF StartTable
  <2>3. /\ \A g : GroupRows(g)' = GroupRows(g)
        /\ DeadRows(StartTable)' = DeadRows(StartTable)
    BY <2>2 DEF GroupRows, DeadRows, IsDeleted
  <2> QED BY <2>1, <2>3 DEF WrittenSurvives, SameContent
<1>6. \/ PlanRewrite \/ Commit \/ (\E g \in todo : StockRewrite(g))
      \/ (\E g \in todo : AuditedRewrite(g)) \/ UNCHANGED vars
  BY DEF Next, RewriteStep, CommitRewrite, WriteSpill, RegisterSpill, NothingToSpill, Abandon
<1> QED BY <1>1, <1>2, <1>3, <1>4, <1>5, <1>6

\* The heart of it: the new files take the sequence number of the starting
\* snapshot, so exactly the deletes committed since reach their rows.
LEMMA RewriteKeepsContent ==
    ASSUME TypeOK, NothingYounger, Pinned, WrittenSurvives, phase = "rewriting", todo = {},
           NEW table \in RewrittenTables
    PROVE  Content(LiveRows(table)) = Content(LiveRows(CurrentTable))
<1> DEFINE id == CurrentId + 1
           T == CurrentTable
           kept == {r \in T.data : r.file \notin UNION groups}
           Move(w) == [w EXCEPT !.file = <<id, w.file[2]>>, !.seq = start]
           moved == {Move(w) : w \in written}
           data == kept \cup moved
           droppable == {d \in T.dels : \A r \in data : d.seq < r.seq}
           Said(r) == [commit |-> r.commit, part |-> r.part, key |-> r.key, ver |-> r.ver]
<1>1. /\ table.data = data /\ table.dels \subseteq T.dels
      /\ \A d \in T.dels \ table.dels : \A r \in data : d.seq < r.seq
  <2>1. table \in {[data |-> data, dels |-> T.dels \ dropped] : dropped \in SUBSET droppable}
    BY Zenon DEF RewrittenTables
  <2> HIDE DEF data
  <2>2. PICK dropped \in SUBSET droppable : table = [data |-> data, dels |-> T.dels \ dropped]
    BY <2>1
  <2> QED BY <2>2
<1>2. start \in 1..Len(snapshots) /\ Len(snapshots) \in Nat /\ T = snapshots[Len(snapshots)].table
  <2>1. Len(snapshots) \in Nat /\ start \in 1..Len(snapshots)
    BY CurrentTableType DEF TypeOK, CurrentId
  <2> QED BY <2>1 DEF CurrentTable, CurrentId
<1>3. /\ \A g \in groups : {r \in T.data : r.file \in g} = GroupRows(g)
      /\ {d \in T.dels : d.seq <= start} = StartTable.dels
  BY <1>2 DEF Pinned
<1>4. T.data \subseteq Row(Keys, Versions) /\ T.dels \subseteq Del(Keys)
  BY CurrentTableType DEF Table
<1>5. ASSUME NEW w \in written
      PROVE  Move(w).seq = start /\ SameContent(Move(w), w)
  <2>1. w \in Row(Keys, Versions) BY DEF TypeOK
  <2> QED BY <2>1 DEF Row, SameContent
<1> HIDE DEF Move
<1>6. table.data = kept \cup moved BY <1>1
<1>7. /\ table.dels \subseteq T.dels
      /\ \A d \in T.dels \ table.dels : \A r \in table.data : d.seq < r.seq
  <2> HIDE DEF data
  <2> QED BY <1>1
<1> HIDE DEF data, droppable
<1>8. ASSUME NEW r \in kept PROVE IsDeleted(table, r) <=> IsDeleted(T, r)
  <2>1. r.seq \in Nat /\ \A d \in T.dels : d.seq \in Nat BY <1>4 DEF Row, Del
  <2> QED BY <1>6, <1>7, <2>1 DEF IsDeleted
<1>9. ASSUME NEW w \in written, NEW g \in groups, NEW r \in GroupRows(g) \ DeadRows(StartTable),
             SameContent(w, r)
      PROVE  /\ IsDeleted(table, Move(w)) <=> IsDeleted(T, r)
             /\ r \in T.data /\ Said(Move(w)) = Said(r)
  <2>1. r \in T.data /\ r \in StartTable.data BY <1>3 DEF GroupRows
  <2>2. r.seq \in Nat /\ start \in Nat /\ \A d \in T.dels : d.seq \in Nat
    BY <1>2, <1>4, <2>1 DEF Row, Del
  <2>3. r.seq <= start BY <1>2, <2>1 DEF NothingYounger, StartTable
  <2>4. Move(w).key = r.key /\ Move(w).seq = start /\ Move(w) \in table.data
    BY <1>5, <1>6, <1>9 DEF SameContent
  <2>5. ASSUME IsDeleted(table, Move(w)) PROVE IsDeleted(T, r)
    BY <1>7, <2>2, <2>3, <2>4, <2>5 DEF IsDeleted
  <2>6. ASSUME IsDeleted(T, r) PROVE IsDeleted(table, Move(w))
    <3>1. PICK d \in T.dels : d.key = r.key /\ d.seq > r.seq BY <2>6 DEF IsDeleted
    <3>2. d \notin StartTable.dels BY <2>1, <3>1 DEF DeadRows, IsDeleted
    <3>3. d.seq > start BY <1>3, <2>2, <3>2
    <3>4. d \in table.dels BY <1>7, <2>2, <2>4, <3>3
    <3> QED BY <2>4, <3>1, <3>3, <3>4 DEF IsDeleted
  <2>7. Said(Move(w)) = Said(r) BY <1>5, <1>9 DEF SameContent
  <2> QED BY <2>1, <2>5, <2>6, <2>7
<1>10. ASSUME NEW x \in LiveRows(table) PROVE \E r \in LiveRows(T) : Said(r) = Said(x)
  <2>1. CASE x \in kept BY <1>8, <2>1 DEF LiveRows
  <2>2. CASE x \in moved
    <3>1. PICK w \in written : x = Move(w) BY <2>2
    <3>2. PICK g \in groups : \E r \in GroupRows(g) \ DeadRows(StartTable) : SameContent(w, r)
      BY DEF WrittenSurvives
    <3>3. PICK r \in GroupRows(g) \ DeadRows(StartTable) : SameContent(w, r) BY <3>2
    <3>4. r \in LiveRows(T) /\ Said(r) = Said(x)
      BY <1>9, <3>1, <3>3 DEF LiveRows
    <3> QED BY <3>4
  <2> QED BY <1>6, <2>1, <2>2 DEF LiveRows
<1>11. ASSUME NEW r \in LiveRows(T) PROVE \E x \in LiveRows(table) : Said(x) = Said(r)
  <2>1. r \in T.data /\ ~IsDeleted(T, r) BY DEF LiveRows
  <2>2. CASE r.file \notin UNION groups BY <1>6, <1>8, <2>1, <2>2 DEF LiveRows
  <2>3. CASE r.file \in UNION groups
    <3>1. PICK g \in groups : r.file \in g BY <2>3
    <3>2. r \in GroupRows(g) BY <1>3, <2>1, <3>1
    <3>3. r \notin DeadRows(StartTable)
      BY <1>3, <2>1 DEF DeadRows, IsDeleted
    <3>4. PICK w \in written : SameContent(w, r) BY <3>2, <3>3 DEF WrittenSurvives
    <3>5. Move(w) \in LiveRows(table) /\ Said(Move(w)) = Said(r)
      BY <1>6, <1>9, <2>1, <3>2, <3>3, <3>4 DEF LiveRows
    <3> QED BY <3>5
  <2> QED BY <2>2, <2>3
<1> HIDE DEF T
<1>12. Content(LiveRows(table)) = {Said(r) : r \in LiveRows(table)} BY DEF Content
<1>13. Content(LiveRows(T)) = {Said(r) : r \in LiveRows(T)} BY DEF Content
<1> HIDE DEF Said
<1> QED BY <1>10, <1>11, <1>12, <1>13 DEF T

\* Every step keeps PreservesContent; the commit of a rewrite is what it is about.
LEMMA PreservesContentStep ==
    TypeOK /\ NothingYounger /\ Pinned /\ WrittenSurvives /\ RewritesFollow /\ PreservesContent
      /\ [Next]_vars => RewritesFollow' /\ PreservesContent'
<1> SUFFICES ASSUME TypeOK, NothingYounger, Pinned, WrittenSurvives, RewritesFollow,
                    PreservesContent, [Next]_vars
             PROVE  RewritesFollow' /\ PreservesContent'
  OBVIOUS
<1> USE DEF Rewrites, RewritesFollow
<1>1. ASSUME NEW i \in Rewrites PROVE i - 1 \in DOMAIN snapshots /\ i \in DOMAIN snapshots
  <2>1. snapshots \in Seq(Snapshot) BY DEF TypeOK
  <2>2. snapshots[i] \in Snapshot BY <1>1, <2>1
  <2>3. snapshots[i].base \in Nat BY <2>2 DEF Snapshot
  <2>4. snapshots[i].base # 0 /\ snapshots[i].base < i BY <1>1
  <2> QED BY <1>1, <2>1, <2>3, <2>4
<1>2. ASSUME NEW s, snapshots' = Append(snapshots, s),
             s.base # 0 => /\ s.base < Len(snapshots) + 1
                           /\ Content(LiveRows(s.table)) = Content(LiveRows(CurrentTable))
                           /\ snapshots # <<>>
      PROVE  RewritesFollow' /\ PreservesContent'
  <2>1. /\ Len(snapshots) \in Nat
        /\ DOMAIN snapshots = 1..Len(snapshots)
        /\ DOMAIN snapshots' = 1..(Len(snapshots) + 1)
        /\ \A i \in 1..Len(snapshots) : snapshots'[i] = snapshots[i]
        /\ snapshots'[Len(snapshots) + 1] = s
    BY <1>2, EarlierSnapshots
  <2>2. ASSUME NEW i \in Rewrites' PROVE snapshots'[i].base < i
    <3>1. i \in 1..(Len(snapshots) + 1) /\ snapshots'[i].base # 0 BY <2>1, <2>2
    <3>2. CASE i \in 1..Len(snapshots) BY <2>1, <3>1, <3>2
    <3>3. CASE i = Len(snapshots) + 1 BY <1>2, <2>1, <3>1, <3>3
    <3> QED BY <2>1, <3>1, <3>2, <3>3
  <2>3. ASSUME NEW i \in Rewrites'
        PROVE  Content(LiveRows(snapshots'[i].table)) = Content(LiveRows(snapshots'[i - 1].table))
    <3>1. CASE i \in 1..Len(snapshots)
      <4>1. i \in Rewrites BY <2>1, <2>3, <3>1
      <4>2. snapshots'[i] = snapshots[i] /\ snapshots'[i - 1] = snapshots[i - 1]
        BY <1>1, <2>1, <4>1
      <4> QED BY <4>1, <4>2 DEF PreservesContent, ReplacedTable
    <3>2. CASE i = Len(snapshots) + 1
      <4>1. s.base # 0 BY <2>1, <2>3, <3>2
      <4>2. snapshots # <<>> BY <1>2, <4>1
      <4>3. i - 1 = Len(snapshots) /\ Len(snapshots) \in 1..Len(snapshots)
        BY <2>1, <3>2, <4>2 DEF TypeOK
      <4>4. CurrentTable = snapshots[Len(snapshots)].table BY <4>2 DEF CurrentTable, CurrentId
      <4> QED BY <1>2, <2>1, <3>2, <4>1, <4>3, <4>4
    <3> QED BY <2>1, <2>3, <3>1, <3>2
  <2>4. PreservesContent'
    <3>1. \A i : ReplacedTable(i)' = snapshots'[i - 1].table BY DEF ReplacedTable
    <3>2. PreservesContent' <=>
             \A i \in Rewrites' :
                 Content(LiveRows(snapshots'[i].table)) = Content(LiveRows(snapshots'[i - 1].table))
      BY DEF PreservesContent, ReplacedTable, Content, LiveRows, IsDeleted
    <3> QED BY <2>3, <3>2
  <2> QED BY <2>2, <2>4
<1>3. CASE Commit
  <2>1. PICK s : snapshots' = Append(snapshots, s) /\ s.base = 0 BY <1>3, CommitAdds
  <2> QED BY <1>2, <2>1
<1>4. CASE CommitRewrite
  <2>1. phase = "rewriting" /\ todo = {} BY <1>4 DEF CommitRewrite
  <2>2. PICK table \in RewrittenTables :
          snapshots' = Append(snapshots, [table |-> table, summary |-> AuditSnapshotSummary, base |-> start])
    BY <1>4 DEF CommitRewrite
  <2>3. Content(LiveRows(table)) = Content(LiveRows(CurrentTable))
    BY <2>1, RewriteKeepsContent
  <2>4. start < Len(snapshots) + 1 /\ snapshots # <<>>
    <3>1. Len(snapshots) \in Nat /\ start \in 1..Len(snapshots)
      BY <2>1, CurrentTableType DEF TypeOK, CurrentId
    <3> QED BY <3>1
  <2>5. PICK s : s = [table |-> table, summary |-> AuditSnapshotSummary, base |-> start] OBVIOUS
  <2>6. s.base = start /\ s.table = table BY <2>5
  <2>7. snapshots' = Append(snapshots, s) BY <2>2, <2>5
  <2> QED BY <1>2, <2>3, <2>4, <2>6, <2>7
<1>5. CASE snapshots' = snapshots
  BY <1>5 DEF PreservesContent, ReplacedTable, Content, LiveRows, IsDeleted
<1>6. Commit \/ CommitRewrite \/ snapshots' = snapshots
  BY DEF Next, RewriteStep, PlanRewrite, StockRewrite, AuditedRewrite, WriteSpill, RegisterSpill,
         NothingToSpill, Abandon, tableVars, vars
<1> QED BY <1>3, <1>4, <1>5, <1>6

\* A rewrite changes nothing a reader sees, for every table and grouping, and
\* whatever rows and deletes are committed while it runs.
THEOREM RewritePreservesContent == Spec => []PreservesContent
<1>1. Init => /\ NothingYounger /\ Pinned /\ WrittenSurvives /\ RewritesFollow /\ PreservesContent
  BY DEF Init, NothingYounger, Pinned, WrittenSurvives, RewritesFollow, PreservesContent, Rewrites
<1> QED
  BY <1>1, TypeCorrect, NothingYoungerStep, PinnedStep, WrittenSurvivesStep,
     PreservesContentStep, PTL DEF Spec

-----------------------------------------------------------------------------
\* The verdict is exact.

Safeguarded ==
    /\ ~PartialSelection
    /\ AuditCrossGroup \/ (AuditFailClosed /\ AuditRequireSingleSurvivor)

-----------------------------------------------------------------------------
\* SQL's max, and what merging two groups' partials makes of it.

\* The ordering values of finitely many rows are finitely many numbers.
LEMMA OrderingValues ==
    ASSUME NEW rows \in SUBSET Row(Keys, Versions), IsFiniteSet(rows)
    PROVE  VersionsOf(rows) \in SUBSET Nat /\ NoVersion \notin VersionsOf(rows)
<1>1. VersionsOf(rows) \in SUBSET Nat BY VersionsFinite, VersionsAssumption
<1> QED BY <1>1, NoVersionAssumption

\* MaxOrdering is the largest value, or null if there is none.
LEMMA MaxOrderingIs ==
    ASSUME NEW rows \in SUBSET Row(Keys, Versions), IsFiniteSet(rows), NEW v
    PROVE  v = MaxOrdering(rows) <=>
              \/ VersionsOf(rows) = {} /\ v = NoVersion
              \/ v \in VersionsOf(rows) /\ \A w \in VersionsOf(rows) : v >= w
<1> DEFINE W == VersionsOf(rows)
           m == MaxOrdering(rows)
<1>1. W \in SUBSET Nat /\ NoVersion \notin W BY OrderingValues
<1>2. /\ m # NoVersion => m \in W
      /\ \A w \in W : m # NoVersion /\ m >= w
  BY MaxOrderingType
<1> HIDE DEF W, m
<1>3. CASE W = {} BY <1>2, <1>3 DEF W, m
<1>4. CASE W # {}
  <2>1. m \in W /\ m \in Nat /\ \A w \in W : m >= w BY <1>1, <1>2, <1>4
  <2>2. ASSUME v \in W, \A w \in W : v >= w PROVE v = m
    <3>1. v \in Nat /\ v >= m /\ m >= v BY <1>1, <2>1, <2>2
    <3> QED BY <2>1, <3>1
  <2> QED BY <1>4, <2>1, <2>2 DEF W, m
<1> QED BY <1>3, <1>4

\* Merging keeps the maxima (patch lines 431-447).
LEMMA MaxOrderingUnion ==
    ASSUME NEW A \in SUBSET Row(Keys, Versions), IsFiniteSet(A),
           NEW B \in SUBSET Row(Keys, Versions), IsFiniteSet(B)
    PROVE  MaxOrdering(A \cup B) = MaxOf(MaxOrdering(A), MaxOrdering(B))
<1> DEFINE a == MaxOrdering(A)
           b == MaxOrdering(B)
           VA == VersionsOf(A)
           VB == VersionsOf(B)
           v == MaxOf(a, b)
<1>1. VersionsOf(A \cup B) = VA \cup VB BY DEF VersionsOf
<1>2. VA \in SUBSET Nat /\ VB \in SUBSET Nat /\ NoVersion \notin VA \cup VB BY OrderingValues
<1>3. /\ (VA = {} /\ a = NoVersion) \/ (a \in VA /\ \A w \in VA : a >= w)
      /\ (VB = {} /\ b = NoVersion) \/ (b \in VB /\ \A w \in VB : b >= w)
  BY MaxOrderingIs
<1> HIDE DEF a, b, VA, VB
<1> DEFINE IsMax == \/ VA \cup VB = {} /\ v = NoVersion
                    \/ v \in VA \cup VB /\ \A w \in VA \cup VB : v >= w
<1>4. ASSUME VA = {}, a = NoVersion PROVE IsMax
  <2>1. v = b BY <1>4 DEF MaxOf
  <2> QED BY <1>3, <1>4, <2>1
<1>5. ASSUME VB = {}, b = NoVersion, a \in VA, \A w \in VA : a >= w PROVE IsMax
  BY <1>2, <1>5 DEF MaxOf
<1>6. ASSUME a \in VA, \A w \in VA : a >= w, b \in VB, \A w \in VB : b >= w PROVE IsMax
  <2>1. a \in Nat /\ b \in Nat /\ a # NoVersion /\ b # NoVersion BY <1>2, <1>6
  <2>2. v = IF a >= b THEN a ELSE b BY <2>1 DEF MaxOf
  <2>3. \A w \in VA \cup VB : v >= w BY <1>2, <1>6, <2>1, <2>2
  <2> QED BY <1>6, <2>2, <2>3
<1>7. IsMax BY <1>3, <1>4, <1>5, <1>6
<1>8. A \cup B \in SUBSET Row(Keys, Versions) /\ IsFiniteSet(A \cup B) BY FS_Union
<1> HIDE DEF v
<1>9. v = MaxOrdering(A \cup B) BY <1>1, <1>7, <1>8, MaxOrderingIs
<1> QED BY <1>9 DEF v, a, b

-----------------------------------------------------------------------------
\* What the checker finds and what the audit's partials say are the same thing.

DeadOf(table, k) == {r \in RowsOf(table.data, k) : IsDeleted(table, r)}

LiveOf(table, k) == {r \in RowsOf(table.data, k) : ~IsDeleted(table, r)}

PartialOf(table, k) ==
    [dmax |-> MaxOrdering(DeadOf(table, k)),
     smax |-> MaxOrdering(LiveOf(table, k)),
     scnt |-> Cardinality(LiveOf(table, k))]

\* A key's rows, live and discarded, are rows of the table and finitely many.
LEMMA RowsOfKey ==
    ASSUME NEW table \in Table(Keys, Versions), IsFiniteSet(table.data), NEW k
    PROVE  /\ DeadOf(table, k) \in SUBSET Row(Keys, Versions) /\ IsFiniteSet(DeadOf(table, k))
           /\ LiveOf(table, k) \in SUBSET Row(Keys, Versions) /\ IsFiniteSet(LiveOf(table, k))
<1>1. table.data \in SUBSET Row(Keys, Versions) BY DEF Table
<1>2. DeadOf(table, k) \subseteq table.data /\ LiveOf(table, k) \subseteq table.data
  BY DEF DeadOf, LiveOf, RowsOf
<1> QED BY <1>1, <1>2, FS_Subset

\* A key is a stale win if and only if it has one survivor and a discarded
\* version out-orders it (patch lines 563-577, classify.py lines 101-114).
LEMMA StaleWinByPartials ==
    ASSUME NEW table \in Table(Keys, Versions), IsFiniteSet(table.data), IsFiniteSet(table.dels),
           NEW k \in Keys
    PROVE  k \in StaleWinsKeys(table) <=>
              OutOrders(PartialOf(table, k)) /\ PartialOf(table, k).scnt = 1
<1> DEFINE Live == LiveOf(table, k)
           Dead == DeadOf(table, k)
           All == RowsOf(table.data, k)
           p == PartialOf(table, k)
<1>1. /\ Dead \in SUBSET Row(Keys, Versions) /\ IsFiniteSet(Dead)
      /\ Live \in SUBSET Row(Keys, Versions) /\ IsFiniteSet(Live)
  BY RowsOfKey
<1>2. Live = RowsOf(LiveRows(table), k) BY DEF LiveOf, LiveRows, RowsOf
<1>3. All = Live \cup Dead BY DEF LiveOf, DeadOf
<1>4. Classify(Layout(table, k, TRUE, FALSE)) = "STALE_WINS" <=>
         \E s : /\ Live = {s}
                /\ s.ver # NoVersion
                /\ \E d \in All : d.ver # NoVersion /\ d.ver > s.ver
  BY <1>2, StaleWinsMeaning, VersionsAssumption
<1>5. k \in StaleWinsKeys(table) <=>
         k \in LayoutKeys(table) /\ Classify(Layout(table, k, TRUE, FALSE)) = "STALE_WINS"
  BY DEF StaleWinsKeys, KeysWith
<1>6. Live # {} => k \in LayoutKeys(table) BY DEF LiveOf, RowsOf, LayoutKeys
<1>7. k \in StaleWinsKeys(table) <=>
         \E s : /\ Live = {s}
                /\ s.ver # NoVersion
                /\ \E d \in All : d.ver # NoVersion /\ d.ver > s.ver
  BY <1>4, <1>5, <1>6
<1>8. p.dmax = MaxOrdering(Dead) /\ p.smax = MaxOrdering(Live) /\ p.scnt = Cardinality(Live)
  BY DEF PartialOf
<1>9. Cardinality(Live) = 1 <=> \E s : Live = {s} BY <1>1, FS_Singleton
<1> HIDE DEF Live, Dead, All, p
<1>10. ASSUME NEW s, Live = {s}
       PROVE  OutOrders(p) <=> /\ s.ver # NoVersion
                               /\ \E d \in All : d.ver # NoVersion /\ d.ver > s.ver
  <2>1. s.ver \in Nat \cup {NoVersion} BY <1>1, <1>10, VersionsAssumption DEF Row
  <2>2. VersionsOf(Live) = {s.ver} \ {NoVersion} BY <1>10 DEF VersionsOf
  <2>3. p.smax = s.ver
    BY <1>1, <1>8, <2>1, <2>2, MaxOrderingIs
  <2>4. VersionsOf(Dead) \in SUBSET Nat /\ NoVersion \notin VersionsOf(Dead) BY <1>1, OrderingValues
  <2>5. \/ VersionsOf(Dead) = {} /\ p.dmax = NoVersion
        \/ p.dmax \in VersionsOf(Dead) /\ \A w \in VersionsOf(Dead) : p.dmax >= w
    BY <1>1, <1>8, MaxOrderingIs
  <2>6. \A d \in Dead : d.ver # NoVersion => d.ver \in VersionsOf(Dead) BY DEF VersionsOf
  <2>7. ASSUME s.ver # NoVersion, NEW d \in All, d.ver # NoVersion, d.ver > s.ver
        PROVE  OutOrders(p)
    <3>1. s.ver \in Nat BY <2>1, <2>7
    <3>2. d \in Dead BY <1>3, <1>10, <2>7, <3>1
    <3>3. d.ver \in VersionsOf(Dead) /\ d.ver \in Nat BY <2>4, <2>6, <2>7, <3>2
    <3>4. p.dmax \in Nat /\ p.dmax >= d.ver /\ p.dmax # NoVersion BY <2>4, <2>5, <3>3
    <3> QED BY <2>3, <2>7, <3>1, <3>3, <3>4 DEF OutOrders
  <2>8. ASSUME OutOrders(p)
        PROVE  s.ver # NoVersion /\ \E d \in All : d.ver # NoVersion /\ d.ver > s.ver
    <3>1. p.dmax # NoVersion /\ s.ver # NoVersion /\ p.dmax > s.ver BY <2>3, <2>8 DEF OutOrders
    <3>2. p.dmax \in VersionsOf(Dead) BY <2>5, <3>1
    <3>3. PICK d \in Dead : d.ver = p.dmax BY <3>2 DEF VersionsOf
    <3> QED BY <1>3, <3>1, <3>3
  <2> QED BY <2>7, <2>8
<1> QED BY <1>7, <1>8, <1>9, <1>10 DEF p

-----------------------------------------------------------------------------
\* The groups of a rewrite partition the files it was planned on.

Partition ==
    /\ \A g, h \in groups : g # h => g \cap h = {}
    /\ phase # "idle" => groups # {}
    /\ phase = "rewriting" /\ ~PartialSelection => UNION groups = Files(StartTable)

\* A commit of the writer leaves the pinned table alone.
LEMMA CommitPins ==
    ASSUME TypeOK, Commit, phase # "idle"
    PROVE  /\ StartTable' = StartTable
           /\ UNCHANGED <<phase, start, groups, todo, gated, flagged, cross, written>>
<1>1. UNCHANGED <<actionVars, runnerVars>> BY DEF Commit
<1>2. PICK s : snapshots' = Append(snapshots, s) BY CommitAdds
<1>3. start \in 1..Len(snapshots) BY CurrentTableType DEF TypeOK, CurrentId
<1>4. snapshots'[start] = snapshots[start] BY <1>2, <1>3, EarlierSnapshots
<1> QED BY <1>1, <1>4 DEF StartTable, actionVars, runnerVars

\* Every step keeps Partition.
LEMMA PartitionStep == TypeOK /\ Partition /\ [Next]_vars => Partition'
<1> SUFFICES ASSUME TypeOK, Partition, [Next]_vars PROVE Partition' OBVIOUS
<1>1. CASE PlanRewrite
  <2>1. PICK assignment \in [Files(CurrentTable) -> (IF PartialSelection THEN 0 ELSE 1)..MaxGroups] :
          groups' = {{f \in Files(CurrentTable) : assignment[f] = i} : i \in 1..MaxGroups} \ {{}}
    BY <1>1, Zenon DEF PlanRewrite
  <2>2. /\ snapshots' = snapshots /\ start' = CurrentId /\ snapshots # <<>> /\ groups' # {}
    BY <1>1 DEF PlanRewrite, tableVars
  <2>3. StartTable' = CurrentTable BY <2>2 DEF StartTable, CurrentTable, CurrentId
  <2>4. \A g, h \in groups' : g # h => g \cap h = {} BY <2>1
  <2>5. ASSUME ~PartialSelection PROVE UNION groups' = Files(CurrentTable)
    <3>1. \A f \in Files(CurrentTable) : assignment[f] \in 1..MaxGroups BY <2>1, <2>5
    <3>2. ASSUME NEW f \in Files(CurrentTable) PROVE f \in UNION groups'
      <4> DEFINE g == {e \in Files(CurrentTable) : assignment[e] = assignment[f]}
      <4>1. g \in groups' /\ f \in g BY <2>1, <3>1, <3>2
      <4> QED BY <4>1
    <3>3. UNION groups' \subseteq Files(CurrentTable) BY <2>1
    <3> QED BY <3>2, <3>3
  <2>6. Files(StartTable)' = Files(CurrentTable) BY <2>3 DEF Files
  <2> QED BY <2>2, <2>4, <2>5, <2>6 DEF Partition
<1>2. CASE Commit
  <2>1. CASE phase = "idle"
    <3>1. UNCHANGED <<phase, groups>> BY <1>2 DEF Commit, actionVars
    <3> QED BY <2>1, <3>1 DEF Partition
  <2>2. CASE phase # "idle"
    <3>1. StartTable' = StartTable /\ UNCHANGED <<phase, groups>> BY <1>2, <2>2, CommitPins
    <3>2. Files(StartTable)' = Files(StartTable) BY <3>1 DEF Files
    <3> QED BY <3>1, <3>2 DEF Partition
  <2> QED BY <2>1, <2>2
<1>3. CASE UNCHANGED <<snapshots, phase, start, groups>>
  BY <1>3 DEF Partition, StartTable, Files
<1>4. CASE phase' # "rewriting" /\ UNCHANGED groups /\ (phase' = "idle" \/ phase # "idle")
  BY <1>4 DEF Partition
<1>5. \/ PlanRewrite \/ Commit \/ UNCHANGED <<snapshots, phase, start, groups>>
      \/ phase' # "rewriting" /\ UNCHANGED groups /\ (phase' = "idle" \/ phase # "idle")
  BY DEF Next, RewriteStep, StockRewrite, AuditedRewrite, CommitRewrite, WriteSpill, RegisterSpill,
         NothingToSpill, Abandon, tableVars, actionVars, vars
<1> QED BY <1>1, <1>2, <1>3, <1>4, <1>5

-----------------------------------------------------------------------------
\* What has been gathered so far is about the rows of the groups rewritten so far.

Rewritten(r) == \E g \in groups \ todo : r.file \in g

SeenDead(k) == {r \in DeadOf(StartTable, k) : Rewritten(r)}

SeenLive(k) == {r \in LiveOf(StartTable, k) : Rewritten(r)}

\* The merged partials are those of the rewritten rows, as if they were one group.
Merged ==
    phase = "rewriting" /\ AuditCrossGroup =>
        \A k \in Keys : cross[k] = [dmax |-> MaxOrdering(SeenDead(k)),
                                    smax |-> MaxOrdering(SeenLive(k)),
                                    scnt |-> Cardinality(SeenLive(k))]

\* A key is in the list for a group exactly if the audit would find it there, whether
\* the group was audited or cleared.
Listed ==
    phase = "rewriting" /\ ~AuditCrossGroup =>
        \A g \in groups, k \in Keys :
            <<g, k>> \in flagged <=> g \notin todo /\ StaleWin(PerKey(g)[k])

\* Merging one group's partials adds its rows to those merged before.
LEMMA GroupMerged ==
    ASSUME TypeOK, Partition, Merged, AuditCrossGroup, NEW g \in todo, AuditedRewrite(g)
    PROVE  Merged'
<1> SUFFICES ASSUME NEW k \in Keys
             PROVE  cross'[k] = [dmax |-> MaxOrdering(SeenDead(k)'), smax |-> MaxOrdering(SeenLive(k)'),
                                 scnt |-> Cardinality(SeenLive(k)')]
  BY DEF Merged, MaxOrdering, VersionsOf
<1>1. /\ phase = "rewriting" /\ StartTable' = StartTable /\ groups' = groups /\ todo' = todo \ {g}
      /\ cross' = CollectCrossGroup(cross, PerKey(g))
  BY DEF AuditedRewrite, WriteSurvivors, tableVars, StartTable
<1>2. g \in groups /\ groups \ todo' = (groups \ todo) \cup {g} BY <1>1 DEF TypeOK
<1>3. \A r : Rewritten(r)' <=> Rewritten(r) \/ r.file \in g BY <1>1, <1>2 DEF Rewritten
<1>4. DeadOf(StartTable, k)' = DeadOf(StartTable, k) /\ LiveOf(StartTable, k)' = LiveOf(StartTable, k)
  BY <1>1 DEF DeadOf, LiveOf, RowsOf, IsDeleted
<1>5. /\ Discarded(g, k) = {r \in DeadOf(StartTable, k) : r.file \in g}
      /\ Survivors(g, k) = {r \in LiveOf(StartTable, k) : r.file \in g}
  BY DEF Discarded, Survivors, DeadOf, LiveOf, RowsOf, GroupRows
<1>6. SeenDead(k)' = SeenDead(k) \cup Discarded(g, k) /\ SeenLive(k)' = SeenLive(k) \cup Survivors(g, k)
  BY <1>3, <1>4, <1>5 DEF SeenDead, SeenLive
<1>7. SeenLive(k) \cap Survivors(g, k) = {}
  BY <1>2, <1>5 DEF SeenLive, Rewritten, Partition
<1>8. /\ SeenDead(k) \in SUBSET Row(Keys, Versions) /\ IsFiniteSet(SeenDead(k))
      /\ SeenLive(k) \in SUBSET Row(Keys, Versions) /\ IsFiniteSet(SeenLive(k))
      /\ Discarded(g, k) \in SUBSET Row(Keys, Versions) /\ IsFiniteSet(Discarded(g, k))
      /\ Survivors(g, k) \in SUBSET Row(Keys, Versions) /\ IsFiniteSet(Survivors(g, k))
  <2>1. /\ DeadOf(StartTable, k) \in SUBSET Row(Keys, Versions) /\ IsFiniteSet(DeadOf(StartTable, k))
        /\ LiveOf(StartTable, k) \in SUBSET Row(Keys, Versions) /\ IsFiniteSet(LiveOf(StartTable, k))
    BY <1>1, StartTableType, RowsOfKey
  <2>2. SeenDead(k) \subseteq DeadOf(StartTable, k) /\ SeenLive(k) \subseteq LiveOf(StartTable, k)
    BY DEF SeenDead, SeenLive
  <2>3. IsFiniteSet(SeenDead(k)) /\ IsFiniteSet(SeenLive(k)) BY <2>1, <2>2, FS_Subset
  <2> QED BY <1>1, <2>1, <2>2, <2>3, PerKeyType
<1>9. /\ MaxOrdering(SeenDead(k)') = MaxOf(MaxOrdering(SeenDead(k)), MaxOrdering(Discarded(g, k)))
      /\ MaxOrdering(SeenLive(k)') = MaxOf(MaxOrdering(SeenLive(k)), MaxOrdering(Survivors(g, k)))
  BY <1>6, <1>8, MaxOrderingUnion
<1>10. Cardinality(SeenLive(k)') = Cardinality(SeenLive(k)) + Cardinality(Survivors(g, k))
  <2>1. Cardinality(SeenLive(k) \cup Survivors(g, k))
           = Cardinality(SeenLive(k)) + Cardinality(Survivors(g, k)) - Cardinality({})
    BY <1>7, <1>8, FS_Union
  <2>2. Cardinality(SeenLive(k)) \in Nat /\ Cardinality(Survivors(g, k)) \in Nat
    BY <1>8, FS_CardinalityType
  <2> QED BY <1>6, <2>1, <2>2, FS_EmptySet
<1>11. cross'[k] = [dmax |-> MaxOf(cross[k].dmax, MaxOrdering(Discarded(g, k))),
                    smax |-> MaxOf(cross[k].smax, MaxOrdering(Survivors(g, k))),
                    scnt |-> cross[k].scnt + Cardinality(Survivors(g, k))]
  BY <1>1 DEF CollectCrossGroup, PerKey
<1>12. cross[k] = [dmax |-> MaxOrdering(SeenDead(k)), smax |-> MaxOrdering(SeenLive(k)),
                   scnt |-> Cardinality(SeenLive(k))]
  BY <1>1 DEF Merged
<1> QED BY <1>9, <1>10, <1>11, <1>12

\* The pinned table and the groups decide what Merged and Listed say.
LEMMA SameSeen ==
    ASSUME StartTable' = StartTable, UNCHANGED <<phase, groups, todo, flagged, cross>>
    PROVE  (Merged => Merged') /\ (Listed => Listed')
<1>1. \A k : SeenDead(k)' = SeenDead(k) /\ SeenLive(k)' = SeenLive(k)
  BY DEF SeenDead, SeenLive, DeadOf, LiveOf, RowsOf, IsDeleted, Rewritten
<1>2. \A k : MaxOrdering(SeenDead(k))' = MaxOrdering(SeenDead(k)) /\ MaxOrdering(SeenLive(k))' = MaxOrdering(SeenLive(k))
  BY <1>1 DEF MaxOrdering, VersionsOf
<1>3. \A k : Cardinality(SeenLive(k))' = Cardinality(SeenLive(k)) BY <1>1
<1>4. ASSUME Merged PROVE Merged' BY <1>2, <1>3, <1>4 DEF Merged
<1>5. \A g : PerKey(g)' = PerKey(g)
  BY DEF PerKey, MaxOrdering, VersionsOf, Discarded, Survivors, RowsOf, GroupRows, IsDeleted
<1>6. ASSUME Listed PROVE Listed' BY <1>5, <1>6 DEF Listed, StaleWin, OutOrders
<1> QED BY <1>4, <1>6

\* Every step keeps what the accumulators say of the groups done.
LEMMA SeenStep ==
    TypeOK /\ Partition /\ Pinned /\ Cleared /\ Merged /\ Listed /\ [Next]_vars => Merged' /\ Listed'
<1> SUFFICES ASSUME TypeOK, Partition, Pinned, Cleared, Merged, Listed, [Next]_vars
             PROVE  Merged' /\ Listed'
  OBVIOUS
<1>1. CASE PlanRewrite
  <2>1. groups' \ todo' = {} /\ todo' = groups' /\ flagged' = {} /\ cross' = NothingSeen
    BY <1>1 DEF PlanRewrite, NewRunner
  <2>2. \A k : SeenDead(k)' = {} /\ SeenLive(k)' = {} BY <2>1 DEF SeenDead, SeenLive, Rewritten
  <2>3. \A k : /\ MaxOrdering(SeenDead(k))' = NoVersion /\ MaxOrdering(SeenLive(k))' = NoVersion
               /\ Cardinality(SeenLive(k))' = 0
    BY <2>2, FS_EmptySet DEF MaxOrdering, VersionsOf
  <2> QED BY <2>1, <2>3 DEF Merged, Listed, NothingSeen
<1>2. CASE Commit
  <2>1. UNCHANGED <<phase, groups, todo, flagged, cross>>
    BY <1>2 DEF Commit, actionVars, runnerVars
  <2>2. CASE phase = "idle" BY <2>1, <2>2 DEF Merged, Listed
  <2>3. CASE phase # "idle" BY <1>2, <2>1, <2>3, CommitPins, SameSeen
  <2> QED BY <2>2, <2>3
<1>3. ASSUME NEW g \in todo, AuditedRewrite(g), AuditCrossGroup PROVE Merged' /\ Listed'
  BY <1>3, GroupMerged DEF Listed
<1>4. ASSUME NEW g \in todo, StockRewrite(g) \/ AuditedRewrite(g), ~AuditCrossGroup
      PROVE  Merged' /\ Listed'
  <2>1. /\ phase = "rewriting" /\ phase' = phase /\ StartTable' = StartTable
        /\ groups' = groups /\ todo' = todo \ {g} /\ g \in groups
    BY <1>4 DEF StockRewrite, AuditedRewrite, WriteSurvivors, tableVars, StartTable, TypeOK
  <2>2. \A h : PerKey(h)' = PerKey(h)
    BY <2>1 DEF PerKey, MaxOrdering, VersionsOf, Discarded, Survivors, RowsOf, GroupRows, IsDeleted
  <2>3. \A h \in groups, k \in Keys : <<h, k>> \in flagged <=> h \notin todo /\ StaleWin(PerKey(h)[k])
    BY <1>4, <2>1 DEF Listed
  <2>4. \A h \in groups, k \in Keys :
           <<h, k>> \in flagged' <=> <<h, k>> \in flagged \/ (h = g /\ StaleWin(PerKey(g)[k]))
    <3>1. CASE AuditedRewrite(g) BY <3>1 DEF AuditedRewrite
    <3>2. CASE StockRewrite(g)
      <4>1. BoundsSnapshot \in start..Len(snapshots)
        BY <2>1, CurrentTableType DEF BoundsSnapshot, CurrentId, TypeOK, Cleared
      <4>2. ~MayContainStaleWins(g, BoundsSnapshot) /\ flagged' = flagged BY <3>2 DEF StockRewrite
      <4>3. \A k \in Keys : ~OutOrders(PerKey(g)[k]) BY <2>1, <4>1, <4>2, OutOrderedIsBounded
      <4> QED BY <4>2, <4>3 DEF StaleWin
    <3> QED BY <1>4, <3>1, <3>2
  <2>5. \A h \in groups, k \in Keys : <<h, k>> \in flagged' <=> h \notin todo' /\ StaleWin(PerKey(h)[k])
    BY <2>1, <2>3, <2>4
  <2> QED BY <1>4, <2>1, <2>2, <2>5 DEF Merged, Listed, StaleWin, OutOrders
<1>5. CASE phase' # "rewriting" BY <1>5 DEF Merged, Listed
<1>6. CASE UNCHANGED vars
  BY <1>6, SameSeen DEF vars, tableVars, actionVars, runnerVars, StartTable
<1>7. \/ PlanRewrite \/ Commit \/ (\E g \in todo : AuditedRewrite(g) /\ AuditCrossGroup)
      \/ (\E g \in todo : (StockRewrite(g) \/ AuditedRewrite(g)) /\ ~AuditCrossGroup)
      \/ phase' # "rewriting" \/ UNCHANGED vars
  BY DEF Next, RewriteStep, StockRewrite, GateOn, CommitRewrite, WriteSpill, RegisterSpill,
         NothingToSpill, Abandon
<1> QED BY <1>1, <1>2, <1>3, <1>4, <1>5, <1>6, <1>7

-----------------------------------------------------------------------------
\* When every group has been rewritten, what was gathered is the verdict.

\* What a decided summary says of the table it is about.
SaysExactly(summary, table) ==
    summary.verdict = "decided" =>
        /\ summary.count = Cardinality(StaleWinsKeys(table))
        /\ AuditCrossGroup => summary.crossKeys = StaleWinsKeys(table)
        /\ ~AuditCrossGroup /\ ~summary.spilled => summary.keys = StaleWinsKeys(table)

\* A stale win is a key.
LEMMA StaleWinsAreKeys ==
    ASSUME NEW table \in Table(Keys, Versions)
    PROVE  StaleWinsKeys(table) \subseteq Keys
<1>1. LayoutKeys(table) \subseteq Keys BY DEF LayoutKeys, Table, Row, Del
<1> QED BY <1>1 DEF StaleWinsKeys, KeysWith

\* The merged partials of all the groups are those of the table.
LEMMA MergedVerdict ==
    ASSUME TypeOK, Partition, Merged, ~PartialSelection, AuditCrossGroup,
           phase = "rewriting", todo = {}
    PROVE  CrossGroupStaleWins = StaleWinsKeys(StartTable)
<1>1. /\ StartTable \in Table(Keys, Versions)
      /\ IsFiniteSet(StartTable.data) /\ IsFiniteSet(StartTable.dels)
  BY StartTableType
<1>2. ASSUME NEW k \in Keys PROVE cross[k] = PartialOf(StartTable, k)
  <2>1. ASSUME NEW r \in StartTable.data PROVE Rewritten(r)
    <3>1. r.file \in UNION groups BY DEF Partition, Files
    <3> QED BY <3>1 DEF Rewritten
  <2>2. SeenDead(k) = DeadOf(StartTable, k) /\ SeenLive(k) = LiveOf(StartTable, k)
    BY <2>1 DEF SeenDead, SeenLive, DeadOf, LiveOf, RowsOf
  <2> QED BY <2>2 DEF Merged, PartialOf
<1>3. \A k \in Keys : k \in StaleWinsKeys(StartTable) <=> OutOrders(cross[k]) /\ cross[k].scnt = 1
  BY <1>1, <1>2, StaleWinByPartials
<1> QED BY <1>1, <1>3, StaleWinsAreKeys DEF CrossGroupStaleWins

\* A rewrite that does not abstain formed one group, which is the whole table.
LEMMA OneGroupVerdict ==
    ASSUME TypeOK, Partition, Listed, Safeguarded, ~AuditCrossGroup, ~Abstains,
           phase = "rewriting", todo = {}
    PROVE  /\ FlaggedKeys = StaleWinsKeys(StartTable)
           /\ Cardinality(flagged) = Cardinality(StaleWinsKeys(StartTable))
<1> DEFINE SW == StaleWinsKeys(StartTable)
<1>1. /\ StartTable \in Table(Keys, Versions)
      /\ IsFiniteSet(StartTable.data) /\ IsFiniteSet(StartTable.dels)
  BY StartTableType
<1>2. PICK g : groups = {g}
  <2>1. IsFiniteSet(groups) /\ groups # {} BY DEF TypeOK, Partition
  <2>2. Cardinality(groups) \in Nat /\ Cardinality(groups) # 0 /\ ~(Cardinality(groups) > 1)
    BY <2>1, FS_CardinalityType, FS_EmptySet DEF Safeguarded, Abstains
  <2>3. Cardinality(groups) = 1 BY <2>2
  <2> QED BY <2>1, <2>3, FS_Singleton
<1>3. g = Files(StartTable) BY <1>2 DEF Partition, Safeguarded
<1>4. ASSUME NEW k \in Keys PROVE PerKey(g)[k] = PartialOf(StartTable, k)
  <2>1. GroupRows(g) = StartTable.data BY <1>3 DEF GroupRows, Files
  <2>2. Discarded(g, k) = DeadOf(StartTable, k) /\ Survivors(g, k) = LiveOf(StartTable, k)
    BY <2>1 DEF Discarded, Survivors, DeadOf, LiveOf
  <2> QED BY <2>2 DEF PerKey, PartialOf
<1>5. \A k \in Keys : <<g, k>> \in flagged <=> k \in SW
  BY <1>1, <1>2, <1>4, StaleWinByPartials DEF Listed, StaleWin, Safeguarded
<1>6. SW \subseteq Keys /\ IsFiniteSet(SW)
  BY <1>1, StaleWinsAreKeys, KeysAssumption, FS_Subset
<1> HIDE DEF SW
<1>7. flagged \subseteq {g} \X Keys BY <1>2 DEF TypeOK
<1>8. flagged = {g} \X SW BY <1>5, <1>6, <1>7
<1>9. FlaggedKeys = SW
  <2>1. \A x \in flagged : \E k \in SW : x = <<g, k>> BY <1>8
  <2>2. \A k \in SW : <<g, k>> \in flagged /\ <<g, k>>[2] = k BY <1>8
  <2>3. FlaggedKeys \subseteq SW BY <2>1, <2>2 DEF FlaggedKeys
  <2>4. SW \subseteq FlaggedKeys
    <3> SUFFICES ASSUME NEW k \in SW PROVE \E x \in flagged : x[2] = k BY DEF FlaggedKeys
    <3> QED BY <2>2
  <2> QED BY <2>3, <2>4
<1>10. Cardinality(flagged) = Cardinality(SW)
  <2> DEFINE f == [k \in SW |-> <<g, k>>]
  <2>1. f \in Bijection(SW, flagged)
    <3>1. f \in [SW -> flagged] BY <1>8
    <3>2. \A j, k \in SW : f[j] = f[k] => j = k
      <4> SUFFICES ASSUME NEW j \in SW, NEW k \in SW, <<g, j>> = <<g, k>> PROVE j = k OBVIOUS
      <4> QED OBVIOUS
    <3>3. \A x \in flagged : \E k \in SW : f[k] = x
      <4>1. \A x \in flagged : \E k \in SW : x = <<g, k>> BY <1>8
      <4> QED BY <4>1
    <3> HIDE DEF f
    <3> QED BY <3>1, <3>2, <3>3 DEF Bijection, Injection, IsInjective, Surjection
  <2> HIDE DEF f
  <2>2. ExistsBijection(SW, flagged) BY <2>1 DEF ExistsBijection
  <2> QED BY <1>6, <2>2, FS_Bijection
<1> QED BY <1>9, <1>10 DEF SW

\* What the commit puts in the summary, and in the list a blob will carry.
LEMMA SummaryExact ==
    ASSUME TypeOK, Partition, Merged, Listed, Safeguarded, phase = "rewriting", todo = {}
    PROVE  /\ SaysExactly(AuditSnapshotSummary, StartTable)
           /\ ~AuditCrossGroup /\ Spills => FlaggedKeys = StaleWinsKeys(StartTable)
<1>1. CASE Abstains
  <2>1. AuditSnapshotSummary = [NoSummary EXCEPT !.verdict = "undecidable"] /\ ~Spills
    BY <1>1 DEF AuditSnapshotSummary, Spills
  <2>2. AuditSnapshotSummary.verdict = "undecidable" BY <2>1 DEF NoSummary
  <2> QED BY <2>1, <2>2 DEF SaysExactly
<1>2. CASE ~Abstains
  <2>1. /\ AuditSnapshotSummary.count = IF AuditCrossGroup THEN Cardinality(CrossGroupStaleWins)
                                        ELSE Cardinality(flagged)
        /\ AuditSnapshotSummary.spilled = Spills
        /\ AuditSnapshotSummary.keys = IF Spills THEN {} ELSE FlaggedKeys
        /\ AuditSnapshotSummary.crossKeys = IF AuditCrossGroup THEN CrossGroupStaleWins ELSE {}
    BY <1>2 DEF AuditSnapshotSummary
  <2>2. CASE AuditCrossGroup
    BY <2>1, <2>2, MergedVerdict DEF SaysExactly, Safeguarded
  <2>3. CASE ~AuditCrossGroup
    BY <1>2, <2>1, <2>3, OneGroupVerdict DEF SaysExactly
  <2> QED BY <2>2, <2>3
<1> QED BY <1>1, <1>2

-----------------------------------------------------------------------------
\* What is stored stays exact.

SummariesExact == \A i \in Rewrites : SaysExactly(snapshots[i].summary, AuditedTable(i))

\* A blob filed under a rewrite's snapshot holds the stale wins that rewrite found.  A
\* blob may be filed under a later commit of the writer instead.
BlobsExact ==
    ~AuditCrossGroup =>
        \A s \in statistics :
            /\ s.snap <= Len(snapshots)
            /\ s.snap \in Rewrites => s.keys = StaleWinsKeys(AuditedTable(s.snap))

\* The list a blob will carry is that of the last rewrite, and no older snapshot gets it.
PendingExact ==
    /\ phase = "spilled" => pendingSpill.needed
    /\ phase \in {"committed", "spilled"} /\ pendingSpill.needed /\ ~AuditCrossGroup =>
          \E j \in Rewrites :
              /\ pendingSpill.keys = StaleWinsKeys(AuditedTable(j))
              /\ \A i \in Rewrites : i <= j
              /\ phase = "spilled" => j <= spillSnap /\ spillSnap <= Len(snapshots)

StoredExact == SummariesExact /\ BlobsExact /\ PendingExact

\* An append leaves the rewrites that are there alone, and the tables they audited.
LEMMA EarlierRewrites ==
    ASSUME TypeOK, RewritesFollow, NEW s, snapshots' = Append(snapshots, s)
    PROVE  /\ Len(snapshots) \in Nat /\ Len(snapshots') = Len(snapshots) + 1
           /\ Rewrites \subseteq 1..Len(snapshots) /\ Rewrites \subseteq Rewrites'
           /\ Rewrites' = IF s.base = 0 THEN Rewrites ELSE Rewrites \cup {Len(snapshots) + 1}
           /\ snapshots'[Len(snapshots) + 1] = s
           /\ \A i \in Rewrites : /\ snapshots'[i] = snapshots[i]
                                  /\ AuditedTable(i)' = AuditedTable(i)
<1>1. /\ Len(snapshots) \in Nat /\ Len(snapshots') = Len(snapshots) + 1
      /\ DOMAIN snapshots = 1..Len(snapshots)
      /\ DOMAIN snapshots' = 1..(Len(snapshots) + 1)
      /\ \A i \in 1..Len(snapshots) : snapshots'[i] = snapshots[i]
      /\ snapshots'[Len(snapshots) + 1] = s
  BY EarlierSnapshots
<1>2. Rewrites \subseteq 1..Len(snapshots) BY <1>1 DEF Rewrites
<1>3. Rewrites' = IF s.base = 0 THEN Rewrites ELSE Rewrites \cup {Len(snapshots) + 1}
  <2>1. \A i \in Rewrites' : i \in Rewrites \/ (i = Len(snapshots) + 1 /\ s.base # 0)
    BY <1>1 DEF Rewrites
  <2>2. Rewrites \subseteq Rewrites' BY <1>1 DEF Rewrites
  <2>3. s.base # 0 => Len(snapshots) + 1 \in Rewrites' BY <1>1 DEF Rewrites
  <2>4. Len(snapshots) + 1 \notin Rewrites BY <1>1, <1>2
  <2> QED BY <2>1, <2>2, <2>3, <2>4
<1>4. ASSUME NEW i \in Rewrites
      PROVE  snapshots'[i] = snapshots[i] /\ AuditedTable(i)' = AuditedTable(i)
  <2>1. snapshots'[i] = snapshots[i] BY <1>1, <1>2
  <2>2. snapshots[i] \in Snapshot BY <1>1, <1>2 DEF TypeOK
  <2>3. snapshots[i].base \in 1..Len(snapshots)
    <3>1. snapshots[i].base \in Nat /\ snapshots[i].base # 0 /\ snapshots[i].base < i
      BY <2>2 DEF RewritesFollow, Rewrites, Snapshot
    <3> QED BY <1>1, <1>2, <3>1
  <2> QED BY <1>1, <2>1, <2>3 DEF AuditedTable
<1> QED BY <1>1, <1>2, <1>3, <1>4

\* What is stored about the earlier rewrites, after an append.
LEMMA StoredStays ==
    ASSUME TypeOK, RewritesFollow, SummariesExact, BlobsExact, NEW s,
           snapshots' = Append(snapshots, s), statistics' = statistics,
           s.base # 0 => SaysExactly(s.summary, snapshots'[s.base].table)
    PROVE  SummariesExact' /\ BlobsExact'
<1>1. /\ Len(snapshots) \in Nat /\ Len(snapshots') = Len(snapshots) + 1
      /\ Rewrites' = IF s.base = 0 THEN Rewrites ELSE Rewrites \cup {Len(snapshots) + 1}
      /\ snapshots'[Len(snapshots) + 1] = s
      /\ \A i \in Rewrites : snapshots'[i] = snapshots[i] /\ AuditedTable(i)' = AuditedTable(i)
  BY EarlierRewrites
<1>2. \A i : AuditedTable(i)' = snapshots'[snapshots'[i].base].table BY DEF AuditedTable
<1>3. ASSUME NEW i \in Rewrites' PROVE SaysExactly(snapshots'[i].summary, AuditedTable(i)')
  <2>1. CASE i \in Rewrites BY <1>1, <2>1 DEF SummariesExact
  <2>2. CASE i = Len(snapshots) + 1 /\ s.base # 0 BY <1>1, <1>2, <2>2
  <2> QED BY <1>1, <1>3, <2>1, <2>2
<1>4. SummariesExact'
  BY <1>3 DEF SummariesExact, SaysExactly, StaleWinsKeys
<1>5. ASSUME ~AuditCrossGroup, NEW b \in statistics
      PROVE  /\ b.snap <= Len(snapshots')
             /\ b.snap \in Rewrites' => b.keys = StaleWinsKeys(AuditedTable(b.snap)')
  <2>1. b.snap \in Nat /\ b.snap <= Len(snapshots) BY <1>5 DEF TypeOK, BlobsExact
  <2>2. b.snap # Len(snapshots) + 1 BY <1>1, <2>1
  <2> QED BY <1>1, <1>5, <2>1, <2>2 DEF BlobsExact
<1>6. BlobsExact' BY <1>5 DEF BlobsExact, StaleWinsKeys
<1> QED BY <1>4, <1>6

\* Every step keeps the stored verdicts exact.
LEMMA StoredExactStep ==
    ASSUME Safeguarded
    PROVE  TypeOK /\ Partition /\ Merged /\ Listed /\ RewritesFollow /\ StoredExact /\ [Next]_vars
              => StoredExact'
<1> SUFFICES ASSUME TypeOK, Partition, Merged, Listed, RewritesFollow, StoredExact, [Next]_vars
             PROVE  StoredExact'
  OBVIOUS
<1> USE DEF StoredExact
<1>1. CASE Commit
  <2>1. PICK s : snapshots' = Append(snapshots, s) /\ s.base = 0 BY <1>1, CommitAdds
  <2>2. UNCHANGED <<statistics, phase, pendingSpill, spillSnap>>
    BY <1>1 DEF Commit, actionVars, spillVars
  <2>3. SummariesExact' /\ BlobsExact' BY <2>1, <2>2, StoredStays
  <2>4. /\ Len(snapshots) \in Nat /\ Len(snapshots') = Len(snapshots) + 1
        /\ Rewrites' = Rewrites /\ spillSnap \in Nat
        /\ \A i \in Rewrites : AuditedTable(i)' = AuditedTable(i)
    BY <2>1, EarlierRewrites DEF TypeOK
  <2>5. PendingExact'
    <3> SUFFICES ASSUME phase \in {"committed", "spilled"}, pendingSpill.needed, ~AuditCrossGroup
                 PROVE  \E j \in Rewrites' :
                          /\ pendingSpill.keys = StaleWinsKeys(AuditedTable(j)')
                          /\ \A i \in Rewrites' : i <= j
                          /\ phase = "spilled" => j <= spillSnap /\ spillSnap <= Len(snapshots')
      BY <2>2 DEF PendingExact, StaleWinsKeys
    <3>1. PICK j \in Rewrites : /\ pendingSpill.keys = StaleWinsKeys(AuditedTable(j))
                                /\ \A i \in Rewrites : i <= j
                                /\ phase = "spilled" => j <= spillSnap /\ spillSnap <= Len(snapshots)
      BY DEF PendingExact
    <3> QED BY <2>4, <3>1
  <2> QED BY <2>3, <2>5
<1>2. CASE CommitRewrite
  <2>1. /\ phase = "rewriting" /\ todo = {} /\ phase' = "committed"
        /\ statistics' = statistics
        /\ pendingSpill' = IF Spills THEN [needed |-> TRUE, keys |-> FlaggedKeys] ELSE NoSpill
    BY <1>2 DEF CommitRewrite
  <2>2. PICK table \in RewrittenTables :
          snapshots' = Append(snapshots, [table |-> table, summary |-> AuditSnapshotSummary, base |-> start])
    BY <1>2 DEF CommitRewrite
  <2>3. PICK s : s = [table |-> table, summary |-> AuditSnapshotSummary, base |-> start] OBVIOUS
  <2>4. s.base = start /\ s.summary = AuditSnapshotSummary /\ snapshots' = Append(snapshots, s)
    BY <2>2, <2>3
  <2>5. start # 0 /\ start \in 1..Len(snapshots) /\ snapshots'[start].table = StartTable
    <3>1. Len(snapshots) \in Nat /\ start \in 1..Len(snapshots)
      BY <2>1, CurrentTableType DEF TypeOK, CurrentId
    <3> QED BY <2>4, <3>1, EarlierSnapshots DEF StartTable
  <2>6. /\ SaysExactly(AuditSnapshotSummary, StartTable)
        /\ ~AuditCrossGroup /\ Spills => FlaggedKeys = StaleWinsKeys(StartTable)
    BY <2>1, SummaryExact
  <2>7. SummariesExact' /\ BlobsExact' BY <2>1, <2>4, <2>5, <2>6, StoredStays
  <2>8. PICK id : /\ Rewrites' = Rewrites \cup {id}
                  /\ snapshots'[id] = s /\ (\A i \in Rewrites : i <= id) /\ id <= id
    <3>1. /\ Len(snapshots) \in Nat /\ Rewrites \subseteq 1..Len(snapshots)
          /\ Rewrites' = Rewrites \cup {Len(snapshots) + 1}
          /\ snapshots'[Len(snapshots) + 1] = s
      BY <2>4, <2>5, EarlierRewrites
    <3>2. (\A i \in Rewrites : i <= Len(snapshots) + 1) /\ Len(snapshots) + 1 <= Len(snapshots) + 1
      BY <3>1
    <3> QED BY <3>1, <3>2
  <2>9. AuditedTable(id)' = StartTable BY <2>4, <2>5, <2>8 DEF AuditedTable
  <2>10. ASSUME ~AuditCrossGroup, Spills
         PROVE  \E j \in Rewrites' : /\ FlaggedKeys = StaleWinsKeys(AuditedTable(j)')
                                     /\ \A i \in Rewrites' : i <= j
    BY <2>6, <2>8, <2>9, <2>10
  <2>11. PendingExact' BY <2>1, <2>10 DEF PendingExact, NoSpill, StaleWinsKeys
  <2> QED BY <2>7, <2>11
<1>3. CASE WriteSpill
  <2>1. /\ phase = "committed" /\ pendingSpill.needed /\ phase' = "spilled"
        /\ spillSnap' = Len(snapshots) /\ UNCHANGED <<snapshots, statistics, pendingSpill>>
    BY <1>3 DEF WriteSpill, CurrentId, tableVars
  <2>2. Rewrites' = Rewrites /\ \A i : AuditedTable(i)' = AuditedTable(i)
    BY <2>1 DEF Rewrites, AuditedTable
  <2>3. Rewrites \subseteq 1..Len(snapshots) /\ Len(snapshots) \in Nat
    BY DEF TypeOK, Rewrites
  <2>4. SummariesExact' /\ BlobsExact'
    BY <2>1, <2>2 DEF SummariesExact, SaysExactly, BlobsExact, StaleWinsKeys
  <2>5. PendingExact'
    <3> SUFFICES ASSUME ~AuditCrossGroup
                 PROVE  \E j \in Rewrites :
                          /\ pendingSpill.keys = StaleWinsKeys(AuditedTable(j))
                          /\ \A i \in Rewrites : i <= j
                          /\ j <= Len(snapshots) /\ Len(snapshots) <= Len(snapshots)
      BY <2>1, <2>2 DEF PendingExact, StaleWinsKeys
    <3> QED BY <2>1, <2>3 DEF PendingExact
  <2> QED BY <2>4, <2>5
<1>4. CASE RegisterSpill
  <2>1. /\ phase = "spilled" /\ phase' = "idle" /\ snapshots' = snapshots
        /\ statistics' = {s \in statistics : s.snap # spillSnap}
                            \cup {[snap |-> spillSnap, keys |-> pendingSpill.keys]}
    BY <1>4 DEF RegisterSpill
  <2>2. Rewrites' = Rewrites /\ \A i : AuditedTable(i)' = AuditedTable(i)
    BY <2>1 DEF Rewrites, AuditedTable
  <2>3. SummariesExact' BY <2>1, <2>2 DEF SummariesExact, SaysExactly, StaleWinsKeys
  <2>4. ASSUME ~AuditCrossGroup, NEW b \in statistics'
        PROVE  /\ b.snap <= Len(snapshots)
               /\ b.snap \in Rewrites => b.keys = StaleWinsKeys(AuditedTable(b.snap))
    <3>1. CASE b \in statistics BY <2>4, <3>1 DEF BlobsExact
    <3>2. CASE b = [snap |-> spillSnap, keys |-> pendingSpill.keys]
      <4>1. PICK j \in Rewrites : /\ pendingSpill.keys = StaleWinsKeys(AuditedTable(j))
                                  /\ \A i \in Rewrites : i <= j
                                  /\ j <= spillSnap /\ spillSnap <= Len(snapshots)
        BY <2>1, <2>4 DEF PendingExact
      <4>2. j \in Nat /\ spillSnap \in Nat BY DEF TypeOK, Rewrites
      <4>3. spillSnap \in Rewrites => spillSnap = j BY <4>1, <4>2
      <4> QED BY <3>2, <4>1, <4>3
    <3> QED BY <2>1, <2>4, <3>1, <3>2
  <2>5. BlobsExact' BY <2>1, <2>2, <2>4 DEF BlobsExact, StaleWinsKeys
  <2>6. PendingExact' BY <2>1 DEF PendingExact
  <2> QED BY <2>3, <2>5, <2>6
<1>5. CASE snapshots' = snapshots /\ statistics' = statistics
           /\ (phase' \in {"idle", "rewriting"} \/ UNCHANGED <<phase, pendingSpill, spillSnap>>)
  <2>1. Rewrites' = Rewrites /\ \A i : AuditedTable(i)' = AuditedTable(i)
    BY <1>5 DEF Rewrites, AuditedTable
  <2>2. SummariesExact' /\ BlobsExact'
    BY <1>5, <2>1 DEF SummariesExact, SaysExactly, BlobsExact, StaleWinsKeys
  <2>3. PendingExact' BY <1>5, <2>1 DEF PendingExact, StaleWinsKeys
  <2> QED BY <2>2, <2>3
<1>6. \/ Commit \/ CommitRewrite \/ WriteSpill \/ RegisterSpill
      \/ snapshots' = snapshots /\ statistics' = statistics
           /\ (phase' \in {"idle", "rewriting"} \/ UNCHANGED <<phase, pendingSpill, spillSnap>>)
  BY DEF Next, RewriteStep, PlanRewrite, StockRewrite, AuditedRewrite, NothingToSpill, Abandon,
         tableVars, actionVars, runnerVars, spillVars, vars
<1> QED BY <1>1, <1>2, <1>3, <1>4, <1>5, <1>6

\* Everything the two theorems below need holds throughout.
LEMMA AlwaysExact == ASSUME Safeguarded PROVE Spec => [](TypeOK /\ StoredExact)
<1> DEFINE Frame == /\ NothingYounger /\ Pinned /\ Cleared /\ WrittenSurvives
                    /\ RewritesFollow /\ PreservesContent /\ Partition /\ Merged /\ Listed
<1>1. Init => Frame /\ StoredExact
  BY DEF Init, NothingYounger, Pinned, Cleared, WrittenSurvives, RewritesFollow, PreservesContent,
         Rewrites, Partition, Merged, Listed, StoredExact, SummariesExact, BlobsExact, PendingExact
<1>2. TypeOK /\ Frame /\ StoredExact /\ [Next]_vars => Frame' /\ StoredExact'
  BY NothingYoungerStep, PinnedStep, ClearedStep, WrittenSurvivesStep, PreservesContentStep,
     PartitionStep, SeenStep, StoredExactStep
<1> QED BY <1>1, <1>2, TypeCorrect, PTL DEF Spec

\* A decided verdict names only stale wins, for every table, grouping of its files
\* and commit made meanwhile, if no file was left out and either the groups were
\* merged or a rewrite of several abstains (patch lines 563-577 and 602-608).
THEOREM DecidedIsOneSided == ASSUME Safeguarded PROVE Spec => []OneSided
<1>1. TypeOK /\ StoredExact => OneSided
  <2> SUFFICES ASSUME TypeOK, StoredExact, NEW i \in Rewrites, Decided(i), NEW k \in VerdictKeys(i)
               PROVE  k \in StaleWinsKeys(AuditedTable(i))
    BY DEF OneSided
  <2>1. SaysExactly(snapshots[i].summary, AuditedTable(i)) BY DEF StoredExact, SummariesExact
  <2>2. CASE AuditCrossGroup \/ ~snapshots[i].summary.spilled
    BY <2>1, <2>2 DEF SaysExactly, Decided, VerdictKeys
  <2>3. CASE ~AuditCrossGroup /\ snapshots[i].summary.spilled
    BY <2>3 DEF StoredExact, BlobsExact, VerdictKeys, Blobs
  <2> QED BY <2>2, <2>3
<1> QED BY <1>1, AlwaysExact, PTL

\* Under the same conditions it misses none, and counts them right even when the
\* list itself cannot be read (patch lines 545-599 and 92-136).
THEOREM DecidedIsComplete == ASSUME Safeguarded PROVE Spec => []Complete
<1>1. TypeOK /\ StoredExact => Complete
  <2> SUFFICES ASSUME TypeOK, StoredExact, NEW i \in Rewrites, Decided(i)
               PROVE  /\ Readable(i) => StaleWinsKeys(AuditedTable(i)) \subseteq VerdictKeys(i)
                      /\ snapshots[i].summary.count = Cardinality(StaleWinsKeys(AuditedTable(i)))
    BY DEF Complete
  <2>1. SaysExactly(snapshots[i].summary, AuditedTable(i)) BY DEF StoredExact, SummariesExact
  <2>2. ASSUME AuditCrossGroup \/ ~snapshots[i].summary.spilled
        PROVE  StaleWinsKeys(AuditedTable(i)) \subseteq VerdictKeys(i)
    BY <2>1, <2>2 DEF SaysExactly, Decided, VerdictKeys
  <2>3. ASSUME ~AuditCrossGroup, snapshots[i].summary.spilled, Readable(i)
        PROVE  StaleWinsKeys(AuditedTable(i)) \subseteq VerdictKeys(i)
    BY <2>3 DEF StoredExact, BlobsExact, VerdictKeys, Blobs, Readable
  <2> QED BY <2>1, <2>2, <2>3 DEF SaysExactly, Decided
<1> QED BY <1>1, AlwaysExact, PTL

-----------------------------------------------------------------------------
\* Where a blob is filed, when nobody commits while the action runs.

\* The rewrite whose list is pending made the snapshot that is current.
PendingIsCurrent ==
    phase \in {"committed", "spilled"} /\ pendingSpill.needed =>
        /\ CurrentId \in Rewrites
        /\ Decided(CurrentId) /\ snapshots[CurrentId].summary.spilled
        /\ phase = "spilled" => spillSnap = CurrentId

FiledRight ==
    \A s \in statistics :
        s.snap \in Rewrites /\ Decided(s.snap) /\ snapshots[s.snap].summary.spilled

\* Without other writers every step keeps blobs under their own snapshot.
LEMMA FiledStep ==
    ASSUME ~ConcurrentCommits
    PROVE  TypeOK /\ RewritesFollow /\ PendingExact /\ PendingIsCurrent /\ FiledRight /\ [Next]_vars
              => PendingIsCurrent' /\ FiledRight'
<1> SUFFICES ASSUME TypeOK, RewritesFollow, PendingExact, PendingIsCurrent, FiledRight, [Next]_vars
             PROVE  PendingIsCurrent' /\ FiledRight'
  OBVIOUS
<1>1. ASSUME NEW s, snapshots' = Append(snapshots, s), statistics' = statistics
      PROVE  FiledRight'
  BY <1>1, EarlierRewrites DEF FiledRight, Decided
<1>2. CASE Commit
  <2>1. PICK s : snapshots' = Append(snapshots, s) BY <1>2, CommitAdds
  <2>2. phase = "idle" /\ phase' = phase /\ statistics' = statistics
    BY <1>2 DEF Commit, actionVars
  <2> QED BY <1>1, <2>1, <2>2 DEF PendingIsCurrent
<1>3. CASE CommitRewrite
  <2>1. PICK table \in RewrittenTables :
          snapshots' = Append(snapshots, [table |-> table, summary |-> AuditSnapshotSummary, base |-> start])
    BY <1>3 DEF CommitRewrite
  <2>2. PICK s : s = [table |-> table, summary |-> AuditSnapshotSummary, base |-> start] OBVIOUS
  <2>3. s.base = start /\ s.summary = AuditSnapshotSummary /\ snapshots' = Append(snapshots, s)
    BY <2>1, <2>2
  <2>4. /\ phase = "rewriting" /\ phase' = "committed" /\ statistics' = statistics /\ start # 0
        /\ pendingSpill' = IF Spills THEN [needed |-> TRUE, keys |-> FlaggedKeys] ELSE NoSpill
    BY <1>3 DEF CommitRewrite, TypeOK
  <2>5. PICK id : id = CurrentId' /\ id \in Rewrites' /\ snapshots'[id] = s
    BY <2>3, <2>4, EarlierRewrites DEF CurrentId
  <2>6. Spills => AuditSnapshotSummary.verdict = "decided" /\ AuditSnapshotSummary.spilled
    BY DEF AuditSnapshotSummary, Spills
  <2>7. PendingIsCurrent' BY <2>3, <2>4, <2>5, <2>6 DEF PendingIsCurrent, Decided, NoSpill
  <2> QED BY <1>1, <2>3, <2>4, <2>7
<1>4. CASE WriteSpill
  BY <1>4 DEF WriteSpill, tableVars, PendingIsCurrent, FiledRight, CurrentId, Rewrites, Decided
<1>5. CASE RegisterSpill
  <2>1. /\ phase = "spilled" /\ phase' = "idle" /\ snapshots' = snapshots
        /\ statistics' = {s \in statistics : s.snap # spillSnap}
                            \cup {[snap |-> spillSnap, keys |-> pendingSpill.keys]}
    BY <1>5 DEF RegisterSpill
  <2>2. /\ spillSnap \in Rewrites /\ Decided(spillSnap) /\ snapshots[spillSnap].summary.spilled
    BY <2>1 DEF PendingExact, PendingIsCurrent
  <2>3. \A b \in statistics' : b \in statistics \/ b.snap = spillSnap BY <2>1
  <2> QED BY <2>1, <2>2, <2>3 DEF PendingIsCurrent, FiledRight, Rewrites, Decided
<1>6. CASE snapshots' = snapshots /\ statistics' = statistics
           /\ (phase' \in {"idle", "rewriting"} \/ UNCHANGED <<phase, pendingSpill, spillSnap>>)
  BY <1>6 DEF PendingIsCurrent, FiledRight, CurrentId, Rewrites, Decided
<1>7. \/ Commit \/ CommitRewrite \/ WriteSpill \/ RegisterSpill
      \/ snapshots' = snapshots /\ statistics' = statistics
           /\ (phase' \in {"idle", "rewriting"} \/ UNCHANGED <<phase, pendingSpill, spillSnap>>)
  BY DEF Next, RewriteStep, PlanRewrite, StockRewrite, AuditedRewrite, NothingToSpill, Abandon,
         tableVars, actionVars, runnerVars, spillVars, vars
<1> QED BY <1>2, <1>3, <1>4, <1>5, <1>6, <1>7

\* If nobody commits between the rewrite's commit and the blob's, every registered blob
\* is the verdict of the rewrite whose snapshot it is filed under (patch lines 92-136).
THEOREM BlobsAreFiledRight ==
    ASSUME Safeguarded, ~ConcurrentCommits, ~AuditCrossGroup
    PROVE  Spec => []BlobsBelong
<1>1. Init => /\ NothingYounger /\ Pinned /\ WrittenSurvives /\ RewritesFollow /\ PreservesContent
              /\ PendingIsCurrent /\ FiledRight
  BY DEF Init, NothingYounger, Pinned, WrittenSurvives, RewritesFollow, PreservesContent,
         Rewrites, PendingIsCurrent, FiledRight
<1>2. TypeOK /\ StoredExact /\ FiledRight => BlobsBelong
  BY DEF StoredExact, BlobsExact, FiledRight, BlobsBelong
<1>3. StoredExact => PendingExact BY DEF StoredExact
<1> QED
  BY <1>1, <1>2, <1>3, AlwaysExact, NothingYoungerStep, PinnedStep, WrittenSurvivesStep,
     PreservesContentStep, FiledStep, PTL DEF Spec

-----------------------------------------------------------------------------
\* The audited rewrite implements AuditPromise.

\* No row is there twice, although a rewrite stores it under another name.

UniqueContent ==
    \A i \in DOMAIN snapshots :
        /\ \A r \in snapshots[i].table.data : r.commit <= i
        /\ \A q, r \in snapshots[i].table.data : SameContent(q, r) => q = r

WrittenOnce ==
    phase = "rewriting" => \A v, w \in written : SameContent(v, w) => v = w

\* The current snapshot's rows are unique, as every snapshot's are.
LEMMA CurrentUnique ==
    ASSUME TypeOK, UniqueContent
    PROVE  /\ \A r \in CurrentTable.data : r.commit \in Nat /\ r.commit <= CurrentId
           /\ \A q, r \in CurrentTable.data : SameContent(q, r) => q = r
<1>1. CASE snapshots = <<>>
  BY <1>1 DEF CurrentTable, EmptyTable
<1>2. CASE snapshots # <<>>
  <2>1. CurrentId \in DOMAIN snapshots /\ CurrentTable = snapshots[CurrentId].table
    BY <1>2 DEF TypeOK, CurrentTable, CurrentId
  <2>2. CurrentTable \in Table(Keys, Versions) BY CurrentTableType
  <2> QED BY <2>1, <2>2 DEF UniqueContent, Table, Row
<1> QED BY <1>1, <1>2

\* The rows a writer's commit adds, and the summary it does not have.
LEMMA CommitRows ==
    ASSUME TypeOK, Commit
    PROVE  \E s, added :
              /\ snapshots' = Append(snapshots, s)
              /\ s.base = 0 /\ s.summary = NoSummary
              /\ s.table.data = CurrentTable.data \cup added
              /\ \A r \in added : r.commit = CurrentId + 1
              /\ \A q, r \in added : SameContent(q, r) => q = r
<1>1. PICK rows \in UNION {kSubset(n, NewRows) : n \in 0..MaxRowsPerCommit}, deletes \in SUBSET Keys :
        LET id == CurrentId + 1
            added == {[commit |-> id, part |-> r.part, key |-> r.key, ver |-> r.ver,
                       file |-> <<id, r.part>>, seq |-> id] : r \in rows}
        IN  /\ snapshots' = Append(snapshots,
                 [table |-> [data |-> CurrentTable.data \cup added,
                             dels |-> CurrentTable.dels \cup {[key |-> k, seq |-> id] : k \in deletes}],
                  summary |-> NoSummary,
                  base |-> 0])
  BY DEF Commit
<1> DEFINE id == CurrentId + 1
           Stored(r) == [commit |-> id, part |-> r.part, key |-> r.key, ver |-> r.ver,
                         file |-> <<id, r.part>>, seq |-> id]
           added == {Stored(r) : r \in rows}
           s == [table |-> [data |-> CurrentTable.data \cup added,
                            dels |-> CurrentTable.dels \cup {[key |-> k, seq |-> id] : k \in deletes}],
                 summary |-> NoSummary, base |-> 0]
<1>2. \A q, r \in added : SameContent(q, r) => q = r BY DEF SameContent
<1>3. \A r \in added : r.commit = CurrentId + 1 OBVIOUS
<1>4. snapshots' = Append(snapshots, s) BY <1>1
<1> HIDE DEF added
<1>5. s.base = 0 /\ s.summary = NoSummary /\ s.table.data = CurrentTable.data \cup added OBVIOUS
<1> HIDE DEF s
<1> QED BY <1>2, <1>3, <1>4, <1>5

\* What a rewrite's table is made of.
Kept == {r \in CurrentTable.data : r.file \notin UNION groups}

MovedRow(w) == [w EXCEPT !.file = <<CurrentId + 1, w.file[2]>>, !.seq = start]

\* What a rewrite's table keeps of the current one, and what it puts in its place.
LEMMA RewrittenParts ==
    ASSUME TypeOK, NEW table \in RewrittenTables
    PROVE  /\ table.data = Kept \cup {MovedRow(w) : w \in written}
           /\ \A w \in written : SameContent(MovedRow(w), w)
<1> DEFINE data == Kept \cup {MovedRow(w) : w \in written}
           droppable == {d \in CurrentTable.dels : \A r \in data : d.seq < r.seq}
<1>1. table \in {[data |-> data, dels |-> CurrentTable.dels \ dropped] : dropped \in SUBSET droppable}
  BY Zenon DEF RewrittenTables, Kept, MovedRow
<1> HIDE DEF data, droppable
<1>2. PICK dropped : table = [data |-> data, dels |-> CurrentTable.dels \ dropped] BY <1>1
<1>3. ASSUME NEW w \in written PROVE SameContent(MovedRow(w), w)
  <2>1. w \in Row(Keys, Versions) BY DEF TypeOK
  <2> QED BY <2>1 DEF Row, SameContent, MovedRow
<1> QED BY <1>2, <1>3 DEF data

\* Every row a rewrite puts back is one it takes out.
LEMMA MovedFrom ==
    ASSUME TypeOK, Pinned, WrittenSurvives, phase = "rewriting", NEW w \in written
    PROVE  \E r \in CurrentTable.data : r.file \in UNION groups /\ SameContent(w, r)
<1>1. CurrentId \in start..Len(snapshots) /\ CurrentTable = snapshots[CurrentId].table
  <2>1. Len(snapshots) \in Nat /\ start \in 1..Len(snapshots)
    BY CurrentTableType DEF TypeOK, CurrentId
  <2> QED BY <2>1 DEF CurrentTable, CurrentId
<1>2. PICK g \in groups \ todo : \E r \in GroupRows(g) \ DeadRows(StartTable) : SameContent(w, r)
  BY DEF WrittenSurvives
<1>3. GroupRows(g) = {r \in CurrentTable.data : r.file \in g} BY <1>1, <1>2 DEF Pinned
<1> QED BY <1>2, <1>3

\* A rewrite's table holds no row twice.
LEMMA RewrittenUnique ==
    ASSUME TypeOK, Pinned, WrittenSurvives, UniqueContent, WrittenOnce, phase = "rewriting",
           NEW table \in RewrittenTables
    PROVE  /\ \A r \in table.data : r.commit <= CurrentId + 1
           /\ \A q, r \in table.data : SameContent(q, r) => q = r
<1> DEFINE Moved == {MovedRow(w) : w \in written}
<1>1. table.data = Kept \cup Moved /\ \A w \in written : SameContent(MovedRow(w), w)
  BY RewrittenParts
<1>2. ASSUME NEW x \in Moved
      PROVE  \E r \in CurrentTable.data : r.file \in UNION groups /\ SameContent(x, r)
  <2>1. PICK w \in written : x = MovedRow(w) OBVIOUS
  <2>2. PICK r \in CurrentTable.data : r.file \in UNION groups /\ SameContent(w, r) BY MovedFrom
  <2> QED BY <1>1, <2>1, <2>2 DEF SameContent
<1>3. ASSUME NEW x \in Moved, NEW y \in Moved, SameContent(x, y) PROVE x = y
  <2>1. PICK v \in written, w \in written : x = MovedRow(v) /\ y = MovedRow(w) OBVIOUS
  <2>2. SameContent(v, w) BY <1>1, <1>3, <2>1 DEF SameContent
  <2> QED BY <2>1, <2>2 DEF WrittenOnce
<1> HIDE DEF Moved
<1>4. /\ \A r \in CurrentTable.data : r.commit \in Nat /\ r.commit <= CurrentId
      /\ \A q, r \in CurrentTable.data : SameContent(q, r) => q = r
  BY CurrentUnique
<1>5. ASSUME NEW x \in Moved, NEW q \in Kept PROVE ~SameContent(x, q) /\ ~SameContent(q, x)
  <2>1. PICK r \in CurrentTable.data : r.file \in UNION groups /\ SameContent(x, r) BY <1>2
  <2>2. q \in CurrentTable.data /\ q # r BY <2>1 DEF Kept
  <2>3. ~SameContent(q, r) BY <1>4, <2>1, <2>2
  <2> QED BY <2>1, <2>3 DEF SameContent
<1>6. ASSUME NEW r \in table.data PROVE r.commit <= CurrentId + 1
  <2>1. CurrentId \in Nat BY CurrentTableType
  <2>2. \E q \in CurrentTable.data : r.commit = q.commit
    BY <1>1, <1>2, <1>6 DEF Kept, SameContent
  <2> QED BY <1>4, <2>1, <2>2
<1>7. ASSUME NEW q \in table.data, NEW r \in table.data, SameContent(q, r) PROVE q = r
  <2>1. CASE q \in Kept /\ r \in Kept BY <1>4, <1>7, <2>1 DEF Kept
  <2> QED BY <1>1, <1>3, <1>5, <1>7, <2>1
<1> QED BY <1>6, <1>7

\* A rewrite creates no stale win.
LEMMA NoNewStaleWins ==
    ASSUME TypeOK, NothingYounger, Pinned, WrittenSurvives, UniqueContent,
           phase = "rewriting", todo = {}, NEW table \in RewrittenTables
    PROVE  StaleWinsKeys(table) \subseteq StaleWinsKeys(CurrentTable)
<1> SUFFICES ASSUME NEW k \in StaleWinsKeys(table) PROVE k \in StaleWinsKeys(CurrentTable)
  OBVIOUS
<1> DEFINE T == CurrentTable
           Said(r) == [commit |-> r.commit, part |-> r.part, key |-> r.key, ver |-> r.ver]
<1>1. /\ table \in Table(Keys, Versions) /\ IsFiniteSet(table.data) /\ IsFiniteSet(table.dels)
      /\ T \in Table(Keys, Versions) /\ IsFiniteSet(T.data) /\ IsFiniteSet(T.dels)
  BY RewrittenTableType, CurrentTableType
<1>2. Classify(Layout(table, k, TRUE, FALSE)) = "STALE_WINS" BY DEF StaleWinsKeys, KeysWith
<1>3. PICK s : /\ RowsOf(LiveRows(table), k) = {s}
               /\ s.ver # NoVersion
               /\ \E d \in RowsOf(table.data, k) : d.ver # NoVersion /\ d.ver > s.ver
  BY <1>1, <1>2, StaleWinsMeaning, VersionsAssumption
<1>4. PICK d \in RowsOf(table.data, k) : d.ver # NoVersion /\ d.ver > s.ver BY <1>3
<1> HIDE DEF T
<1>5. {Said(r) : r \in LiveRows(table)} = {Said(r) : r \in LiveRows(T)}
  BY RewriteKeepsContent DEF Content, T
<1>6. \A q, r : Said(q) = Said(r) => SameContent(q, r) BY DEF SameContent
<1>7. (\A q \in LiveRows(table) : \E r \in LiveRows(T) : Said(q) = Said(r))
      /\ (\A r \in LiveRows(T) : \E q \in LiveRows(table) : Said(q) = Said(r))
  <2> HIDE DEF Said
  <2> QED BY <1>5
<1> HIDE DEF Said
<1>8. s \in LiveRows(table) /\ s.key = k BY <1>3 DEF RowsOf
<1>9. PICK t \in LiveRows(T) : SameContent(s, t) BY <1>6, <1>7, <1>8
<1>10. \A q, r \in T.data : SameContent(q, r) => q = r BY CurrentUnique DEF T
<1>11. RowsOf(LiveRows(T), k) = {t}
  <2>1. t \in RowsOf(LiveRows(T), k) BY <1>8, <1>9 DEF SameContent, RowsOf
  <2>2. ASSUME NEW r \in RowsOf(LiveRows(T), k) PROVE r = t
    <3>1. r \in LiveRows(T) /\ r.key = k BY <2>2 DEF RowsOf
    <3>2. PICK q \in LiveRows(table) : SameContent(q, r) BY <1>6, <1>7, <3>1
    <3>3. q = s BY <1>3, <3>1, <3>2 DEF SameContent, RowsOf
    <3>4. SameContent(r, t) /\ r \in T.data /\ t \in T.data
      BY <1>9, <3>1, <3>2, <3>3 DEF SameContent, LiveRows
    <3> QED BY <1>10, <3>4
  <2> QED BY <2>1, <2>2
<1>12. \E e \in RowsOf(T.data, k) : e.ver = d.ver
  <2>1. d \in table.data /\ d.key = k BY DEF RowsOf
  <2>2. CASE d \in Kept BY <2>1, <2>2 DEF Kept, RowsOf, T
  <2>3. CASE d \notin Kept
    <3>1. PICK w \in written : d = MovedRow(w) BY <2>1, <2>3, RewrittenParts
    <3>2. PICK r \in CurrentTable.data : SameContent(w, r) BY MovedFrom
    <3>3. SameContent(d, w) BY <3>1, RewrittenParts
    <3> QED BY <2>1, <3>2, <3>3 DEF SameContent, RowsOf, T
  <2> QED BY <2>2, <2>3
<1>13. t.ver = s.ver BY <1>9 DEF SameContent
<1>14. Classify(Layout(T, k, TRUE, FALSE)) = "STALE_WINS"
  BY <1>1, <1>3, <1>4, <1>11, <1>12, <1>13, StaleWinsMeaning, VersionsAssumption
<1>15. k \in LayoutKeys(T) BY <1>11 DEF LayoutKeys, RowsOf, LiveRows
<1> QED BY <1>14, <1>15 DEF StaleWinsKeys, KeysWith, T

\* Writing a group's survivors writes each of them once.
LEMMA WrittenOnceKeeps ==
    ASSUME TypeOK, Partition, WrittenSurvives, UniqueContent, WrittenOnce, phase = "rewriting",
           NEW g \in todo, WriteSurvivors(g)
    PROVE  \A v, w \in written' : SameContent(v, w) => v = w
<1> DEFINE Live(h) == GroupRows(h) \ DeadRows(StartTable)
           n == Cardinality(groups) - Cardinality(todo) + 1
           Move(r) == [r EXCEPT !.file = <<0, n>>]
           New == {Move(r) : r \in Live(g)}
<1>1. written' = written \cup New BY DEF WriteSurvivors
<1>2. ASSUME NEW r \in Live(g) PROVE SameContent(Move(r), r)
  <2>1. r \in Row(Keys, Versions) BY PerKeyType
  <2> QED BY <2>1 DEF Row, SameContent
<1>3. \A q, r \in StartTable.data : SameContent(q, r) => q = r
  BY StartTableType DEF UniqueContent, StartTable
<1>4. \A h, r : r \in Live(h) => r \in StartTable.data /\ r.file \in h BY DEF GroupRows
<1>5. \A w \in written : \E h \in groups \ todo : \E r \in Live(h) : SameContent(w, r)
  BY DEF WrittenSurvives
<1>6. g \in groups BY DEF TypeOK
<1> HIDE DEF Live, Move
<1>7. ASSUME NEW x \in New, NEW y \in New, SameContent(x, y) PROVE x = y
  <2>1. PICK q \in Live(g), r \in Live(g) : x = Move(q) /\ y = Move(r) OBVIOUS
  <2>2. SameContent(q, r) BY <1>2, <1>7, <2>1 DEF SameContent
  <2> QED BY <1>3, <1>4, <2>1, <2>2
<1>8. ASSUME NEW w \in written, NEW x \in New PROVE ~SameContent(w, x) /\ ~SameContent(x, w)
  <2>1. PICK h \in groups \ todo : \E r \in Live(h) : SameContent(w, r) BY <1>5
  <2>2. PICK r \in Live(h) : SameContent(w, r) BY <2>1
  <2>3. PICK q \in Live(g) : x = Move(q) OBVIOUS
  <2>4. g # h /\ g \cap h = {} BY <1>6 DEF Partition
  <2>5. ~SameContent(q, r) BY <1>3, <1>4, <2>4
  <2>6. SameContent(x, q) BY <1>2, <2>3
  <2> QED BY <2>2, <2>5, <2>6 DEF SameContent
<1> HIDE DEF New
<1> QED BY <1>1, <1>7, <1>8 DEF WrittenOnce

\* No step makes a row occur twice.
LEMMA UniqueStep ==
    TypeOK /\ Pinned /\ Partition /\ WrittenSurvives /\ UniqueContent /\ WrittenOnce /\ [Next]_vars
        => UniqueContent' /\ WrittenOnce'
<1> SUFFICES ASSUME TypeOK, Pinned, Partition, WrittenSurvives, UniqueContent, WrittenOnce, [Next]_vars
             PROVE  UniqueContent' /\ WrittenOnce'
  OBVIOUS
<1>1. ASSUME NEW s, snapshots' = Append(snapshots, s),
             \A r \in s.table.data : r.commit <= CurrentId + 1,
             \A q, r \in s.table.data : SameContent(q, r) => q = r
      PROVE  UniqueContent'
  <2>1. /\ Len(snapshots) \in Nat /\ DOMAIN snapshots = 1..Len(snapshots)
        /\ DOMAIN snapshots' = 1..(Len(snapshots) + 1)
        /\ \A i \in 1..Len(snapshots) : snapshots'[i] = snapshots[i]
        /\ snapshots'[Len(snapshots) + 1] = s
    BY <1>1, EarlierSnapshots
  <2>2. ASSUME NEW i \in DOMAIN snapshots'
        PROVE  /\ \A r \in snapshots'[i].table.data : r.commit <= i
               /\ \A q, r \in snapshots'[i].table.data : SameContent(q, r) => q = r
    <3>1. CASE i \in 1..Len(snapshots) BY <2>1, <3>1 DEF UniqueContent
    <3>2. CASE i = Len(snapshots) + 1 BY <1>1, <2>1, <3>2 DEF CurrentId
    <3> QED BY <2>1, <3>1, <3>2
  <2> QED BY <2>2 DEF UniqueContent, SameContent
<1>2. CASE Commit
  <2>1. PICK s, added : /\ snapshots' = Append(snapshots, s)
                        /\ s.table.data = CurrentTable.data \cup added
                        /\ \A r \in added : r.commit = CurrentId + 1
                        /\ \A q, r \in added : SameContent(q, r) => q = r
    BY <1>2, CommitRows
  <2>2. /\ CurrentId \in Nat
        /\ \A r \in CurrentTable.data : r.commit \in Nat /\ r.commit <= CurrentId
        /\ \A q, r \in CurrentTable.data : SameContent(q, r) => q = r
    BY CurrentTableType, CurrentUnique
  <2>3. \A r \in s.table.data : r.commit <= CurrentId + 1 BY <2>1, <2>2
  <2>4. \A q, r \in s.table.data : SameContent(q, r) => q = r
    <3>1. \A q \in CurrentTable.data, r \in added : q.commit # r.commit BY <2>1, <2>2
    <3> QED BY <2>1, <2>2, <3>1 DEF SameContent
  <2>5. phase' = phase /\ written' = written BY <1>2 DEF Commit, actionVars, runnerVars
  <2> QED BY <1>1, <2>1, <2>3, <2>4, <2>5 DEF WrittenOnce, SameContent
<1>3. CASE CommitRewrite
  <2>1. phase = "rewriting" /\ phase' = "committed" BY <1>3 DEF CommitRewrite
  <2>2. PICK table \in RewrittenTables :
          snapshots' = Append(snapshots, [table |-> table, summary |-> AuditSnapshotSummary, base |-> start])
    BY <1>3 DEF CommitRewrite
  <2>3. PICK s : s = [table |-> table, summary |-> AuditSnapshotSummary, base |-> start] OBVIOUS
  <2>4. s.table = table /\ snapshots' = Append(snapshots, s) BY <2>2, <2>3
  <2>5. /\ \A r \in table.data : r.commit <= CurrentId + 1
        /\ \A q, r \in table.data : SameContent(q, r) => q = r
    BY <2>1, RewrittenUnique
  <2> QED BY <1>1, <2>1, <2>4, <2>5 DEF WrittenOnce
<1>4. ASSUME NEW g \in todo, StockRewrite(g) \/ AuditedRewrite(g)
      PROVE  UniqueContent' /\ WrittenOnce'
  <2>1. snapshots' = snapshots /\ phase = "rewriting" /\ WriteSurvivors(g)
    BY <1>4 DEF StockRewrite, AuditedRewrite, tableVars
  <2> QED BY <2>1, WrittenOnceKeeps DEF UniqueContent, WrittenOnce, SameContent
<1>5. CASE snapshots' = snapshots /\ (phase' # "rewriting" \/ written' = {} \/ UNCHANGED <<phase, written>>)
  BY <1>5 DEF UniqueContent, WrittenOnce, SameContent
<1>6. \/ Commit \/ CommitRewrite \/ (\E g \in todo : StockRewrite(g) \/ AuditedRewrite(g))
      \/ snapshots' = snapshots /\ (phase' # "rewriting" \/ written' = {} \/ UNCHANGED <<phase, written>>)
  BY DEF Next, RewriteStep, PlanRewrite, NewRunner, WriteSpill, RegisterSpill, NothingToSpill, Abandon,
         tableVars, actionVars, runnerVars, spillVars, vars
<1> QED BY <1>2, <1>3, <1>4, <1>5, <1>6

-----------------------------------------------------------------------------
\* Which reports can be read.

\* A writer's commit has no verdict.
WritersSilent == \A i \in DOMAIN snapshots : snapshots[i].base = 0 => snapshots[i].summary = NoSummary

\* The snapshot whose list is pending has no blob yet, and no blob is filed ahead of
\* the snapshots.
PendingUnread ==
    /\ \A s \in statistics : s.snap <= Len(snapshots)
    /\ phase = "spilled" => spillSnap <= Len(snapshots)
    /\ phase \in {"committed", "spilled"} /\ pendingSpill.needed =>
          \A j \in Rewrites :
              (\A i \in Rewrites : i <= j) =>
                  /\ Decided(j) /\ snapshots[j].summary.spilled
                  /\ \A s \in statistics : s.snap < j

\* Every step keeps a writer's snapshot without a verdict, and a pending list without a blob.
LEMMA ReadingStep ==
    TypeOK /\ RewritesFollow /\ WritersSilent /\ PendingUnread /\ [Next]_vars
        => WritersSilent' /\ PendingUnread'
<1> SUFFICES ASSUME TypeOK, RewritesFollow, WritersSilent, PendingUnread, [Next]_vars
             PROVE  WritersSilent' /\ PendingUnread'
  OBVIOUS
<1>1. ASSUME NEW s, snapshots' = Append(snapshots, s), s.base = 0 => s.summary = NoSummary
      PROVE  WritersSilent'
  BY <1>1, EarlierSnapshots DEF WritersSilent
<1>2. CASE Commit
  <2>1. PICK s, added : snapshots' = Append(snapshots, s) /\ s.base = 0 /\ s.summary = NoSummary
    BY <1>2, CommitRows
  <2>2. UNCHANGED <<statistics, phase, pendingSpill, spillSnap>>
    BY <1>2 DEF Commit, actionVars, spillVars
  <2>3. /\ Len(snapshots) \in Nat /\ Len(snapshots') = Len(snapshots) + 1
        /\ Rewrites' = Rewrites /\ \A i \in Rewrites : snapshots'[i] = snapshots[i]
    BY <2>1, EarlierRewrites
  <2>4. spillSnap \in Nat /\ \A t \in statistics : t.snap \in Nat BY DEF TypeOK
  <2>5. \A j \in Rewrites : Decided(j)' = Decided(j) BY <2>3 DEF Decided
  <2>6. PendingUnread' BY <2>2, <2>3, <2>4, <2>5 DEF PendingUnread
  <2> QED BY <1>1, <2>1, <2>6
<1>3. CASE CommitRewrite
  <2>1. PICK table \in RewrittenTables :
          snapshots' = Append(snapshots, [table |-> table, summary |-> AuditSnapshotSummary, base |-> start])
    BY <1>3 DEF CommitRewrite
  <2>2. PICK s : s = [table |-> table, summary |-> AuditSnapshotSummary, base |-> start] OBVIOUS
  <2>3. s.base = start /\ s.summary = AuditSnapshotSummary /\ snapshots' = Append(snapshots, s)
    BY <2>1, <2>2
  <2>4. /\ phase = "rewriting" /\ phase' = "committed" /\ statistics' = statistics /\ start # 0
        /\ pendingSpill' = IF Spills THEN [needed |-> TRUE, keys |-> FlaggedKeys] ELSE NoSpill
    BY <1>3 DEF CommitRewrite, TypeOK
  <2>5. PICK id \in Nat : /\ id = Len(snapshots) + 1 /\ Len(snapshots') = id /\ Len(snapshots) \in Nat
                          /\ Rewrites \subseteq 1..Len(snapshots)
                          /\ Rewrites' = Rewrites \cup {id} /\ snapshots'[id] = s
    BY <2>3, <2>4, EarlierRewrites
  <2>6. Spills => AuditSnapshotSummary.verdict = "decided" /\ AuditSnapshotSummary.spilled
    BY DEF AuditSnapshotSummary, Spills
  <2>7. \A b \in statistics : b.snap \in Nat /\ b.snap <= Len(snapshots)
    BY DEF TypeOK, PendingUnread
  <2>8. \A j \in Rewrites' : (\A i \in Rewrites' : i <= j) => j = id
    BY <2>5
  <2>9. \A b \in statistics : b.snap < id /\ b.snap <= id BY <2>5, <2>7
  <2>10. PendingUnread'
    BY <2>3, <2>4, <2>5, <2>6, <2>8, <2>9 DEF PendingUnread, Decided, NoSpill
  <2> QED BY <1>1, <2>3, <2>4, <2>10
<1>4. CASE WriteSpill
  <2>1. CurrentId \in Nat BY CurrentTableType
  <2> QED BY <1>4, <2>1 DEF WriteSpill, tableVars, PendingUnread, WritersSilent, CurrentId, Rewrites, Decided
<1>5. CASE RegisterSpill
  BY <1>5 DEF RegisterSpill, PendingUnread, WritersSilent
<1>6. CASE snapshots' = snapshots /\ statistics' = statistics
           /\ (phase' \in {"idle", "rewriting"} \/ UNCHANGED <<phase, pendingSpill, spillSnap>>)
  BY <1>6 DEF PendingUnread, WritersSilent, Rewrites, Decided
<1>7. \/ Commit \/ CommitRewrite \/ WriteSpill \/ RegisterSpill
      \/ snapshots' = snapshots /\ statistics' = statistics
           /\ (phase' \in {"idle", "rewriting"} \/ UNCHANGED <<phase, pendingSpill, spillSnap>>)
  BY DEF Next, RewriteStep, PlanRewrite, StockRewrite, AuditedRewrite, NothingToSpill, Abandon,
         tableVars, actionVars, runnerVars, spillVars, vars
<1> QED BY <1>2, <1>3, <1>4, <1>5, <1>6, <1>7

-----------------------------------------------------------------------------
\* The history a table shows.

Entry(i) == [content |-> Content(LiveRows(snapshots[i].table)),
             stale   |-> StaleWinsKeys(snapshots[i].table),
             report  |-> Report(i)]

\* The length of a function that is a sequence.
LEMMA LengthOf ==
    ASSUME NEW n \in Nat, NEW f, f = [i \in 1..n |-> f[i]]
    PROVE  Len(f) = n /\ (n = 0 => f = <<>>)
<1> DEFINE S == {f[i] : i \in 1..n}
<1>1. f \in [1..n -> S] BY DEF S
<1> HIDE DEF S
<1>2. f \in Seq(S) BY <1>1, SeqDef
<1>3. Len(f) \in Nat /\ DOMAIN f = 1..Len(f) BY <1>2, LenProperties
<1>4. DOMAIN f = 1..n BY <1>1
<1>5. Len(f) = n BY <1>3, <1>4
<1> QED BY <1>2, <1>5, EmptySeq

\* The abstract history has an entry for each snapshot.
LEMMA HistoryIs ==
    ASSUME TypeOK
    PROVE  /\ Len(History) = Len(snapshots) /\ DOMAIN History = 1..Len(snapshots)
           /\ \A i \in 1..Len(snapshots) : History[i] = Entry(i)
<1>1. DOMAIN snapshots = 1..Len(snapshots) /\ Len(snapshots) \in Nat BY DEF TypeOK
<1>2. History = [i \in 1..Len(snapshots) |-> Entry(i)] BY <1>1 DEF History, Entry
<1>3. Len(History) = Len(snapshots) BY <1>1, <1>2, LengthOf
<1> QED BY <1>2, <1>3

\* So it has after a step.
LEMMA NextHistoryIs ==
    ASSUME TypeOK'
    PROVE  /\ Len(History') = Len(snapshots') /\ DOMAIN History' = 1..Len(snapshots')
           /\ \A i \in 1..Len(snapshots') : History'[i] = Entry(i)'
<1>1. DOMAIN snapshots' = 1..Len(snapshots') /\ Len(snapshots') \in Nat BY DEF TypeOK
<1>2. History' = [i \in 1..Len(snapshots') |-> Entry(i)'] BY <1>1 DEF History, Entry
<1>3. Len(History') = Len(snapshots') BY <1>1, <1>2, LengthOf
<1> QED BY <1>2, <1>3

\* A report depends on the snapshot's summary and on the blobs filed under it.
LEMMA SameEntry ==
    ASSUME NEW i, snapshots'[i] = snapshots[i], Blobs(i)' = Blobs(i)
    PROVE  Entry(i)' = Entry(i)
<1>1. Report(i)' = Report(i) BY DEF Report, Readable, VerdictKeys
<1> QED BY <1>1 DEF Entry, Content, LiveRows, IsDeleted, StaleWinsKeys

\* An append extends the history by one entry.
LEMMA HistoryExtends ==
    ASSUME TypeOK, TypeOK', NEW s, snapshots' = Append(snapshots, s), statistics' = statistics,
           NEW n, n = Len(snapshots')
    PROVE  /\ Promise!ExtendsBy1(History')
           /\ Promise!Last(History') = Entry(n)'
           /\ snapshots'[n] = s /\ n \in Nat /\ n = Len(snapshots) + 1
<1>1. /\ Len(snapshots) \in Nat /\ Len(snapshots') = Len(snapshots) + 1
      /\ \A i \in 1..Len(snapshots) : snapshots'[i] = snapshots[i]
      /\ snapshots'[Len(snapshots) + 1] = s
  BY EarlierSnapshots
<1>2. \A i \in 1..Len(snapshots) : Entry(i)' = Entry(i)
  BY <1>1, SameEntry DEF Blobs
<1>3. \A i \in DOMAIN History : History'[i] = History[i]
  BY <1>1, <1>2, HistoryIs, NextHistoryIs
<1>4. Len(History') = Len(History) + 1 BY <1>1, HistoryIs, NextHistoryIs
<1>5. n \in 1..Len(snapshots') /\ n = Len(snapshots) + 1 BY <1>1
<1>6. History'[Len(History')] = Entry(n)' BY <1>5, NextHistoryIs
<1> QED BY <1>1, <1>3, <1>4, <1>5, <1>6 DEF Promise!ExtendsBy1, Promise!Last

-----------------------------------------------------------------------------
\* One lemma per kind of step: what it is in the promise.

\* The current snapshot is the last of the history.
LEMMA LastIsCurrent ==
    ASSUME TypeOK, snapshots # <<>>
    PROVE  History # <<>> /\ Promise!Last(History) = Entry(CurrentId)
<1>1. Len(snapshots) \in Nat /\ Len(snapshots) # 0 BY DEF TypeOK
<1>2. Len(History) = Len(snapshots) /\ History[Len(snapshots)] = Entry(CurrentId)
  BY <1>1, HistoryIs DEF CurrentId
<1> QED BY <1>1, <1>2, EmptySeq DEF Promise!Last

\* A writer's commit is the promise's Write.
LEMMA CommitWrites == ASSUME TypeOK, TypeOK', Commit PROVE Promise!Write
<1>1. PICK s, added : snapshots' = Append(snapshots, s) /\ s.base = 0 /\ s.summary = NoSummary
  BY CommitRows
<1>2. statistics' = statistics BY DEF Commit
<1>3. PICK n : n = Len(snapshots') OBVIOUS
<1>4. /\ Promise!ExtendsBy1(History') /\ Promise!Last(History') = Entry(n)'
      /\ snapshots'[n] = s
  BY <1>1, <1>2, <1>3, HistoryExtends
<1>5. Report(n)' = [status |-> "none", base |-> 0, keys |-> {}]
  <2>1. snapshots'[n].summary = NoSummary /\ snapshots'[n].base = 0 BY <1>1, <1>4
  <2>2. Readable(n)' /\ VerdictKeys(n)' = {} BY <2>1 DEF Readable, VerdictKeys, NoSummary
  <2> QED BY <2>1, <2>2 DEF Report, NoSummary
<1>6. Entry(n)'.report = Report(n)' BY DEF Entry
<1> QED BY <1>4, <1>5, <1>6 DEF Promise!Write, Promise!NoReport

\* The report of a rewrite when it commits: its verdict, or a blob that is due.
LEMMA NewReport ==
    ASSUME TypeOK, Safeguarded, Partition, Merged, Listed, PendingUnread,
           phase = "rewriting", todo = {}, statistics' = statistics,
           NEW n \in Nat, n = Len(snapshots) + 1,
           snapshots'[n].summary = AuditSnapshotSummary, snapshots'[n].base = start
    PROVE  /\ Report(n)'.base = start
           /\ \/ Report(n)'.status = "decided" /\ Report(n)'.keys = StaleWinsKeys(StartTable)
              \/ Report(n)'.status \in {"undecidable", "pending"} /\ Report(n)'.keys = {}
<1> DEFINE s == AuditSnapshotSummary
<1>1. Blobs(n)' = {}
  <2>1. \A b \in statistics : b.snap \in Nat /\ b.snap <= Len(snapshots) /\ Len(snapshots) \in Nat
    BY DEF TypeOK, PendingUnread
  <2>2. \A b \in statistics : b.snap # n BY <2>1
  <2> QED BY <2>2 DEF Blobs
<1>2. /\ Readable(n)' <=> AuditCrossGroup \/ ~s.spilled
      /\ VerdictKeys(n)' = IF AuditCrossGroup THEN s.crossKeys
                           ELSE IF s.spilled THEN UNION {b.keys : b \in Blobs(n)'} ELSE s.keys
      /\ Report(n)' = [status |-> IF ~Readable(n)' THEN "pending" ELSE s.verdict,
                       base |-> start,
                       keys |-> IF Readable(n)' THEN VerdictKeys(n)' ELSE {}]
  BY <1>1 DEF Readable, VerdictKeys, Report
<1>3. SaysExactly(s, StartTable) BY SummaryExact
<1>4. CASE Abstains
  <2>1. s = [NoSummary EXCEPT !.verdict = "undecidable"] /\ ~AuditCrossGroup
    BY <1>4 DEF AuditSnapshotSummary, Abstains
  <2>2. s.verdict = "undecidable" /\ s.keys = {} /\ ~s.spilled BY <2>1 DEF NoSummary
  <2> HIDE DEF s
  <2>3. Report(n)' = [status |-> "undecidable", base |-> start, keys |-> {}] BY <1>2, <2>1, <2>2
  <2> QED BY <2>3
<1>5. CASE ~Abstains
  <2>1. s.verdict = "decided" BY <1>5 DEF AuditSnapshotSummary
  <2> HIDE DEF s
  <2>2. CASE Readable(n)'
    <3>1. VerdictKeys(n)' = StaleWinsKeys(StartTable) BY <1>2, <1>3, <2>1, <2>2 DEF SaysExactly
    <3>2. Report(n)' = [status |-> "decided", base |-> start, keys |-> StaleWinsKeys(StartTable)]
      BY <1>2, <2>1, <2>2, <3>1
    <3> QED BY <3>2
  <2>3. CASE ~Readable(n)'
    <3>1. Report(n)' = [status |-> "pending", base |-> start, keys |-> {}] BY <1>2, <2>3
    <3> QED BY <3>1
  <2> QED BY <2>2, <2>3
<1> QED BY <1>4, <1>5

\* The rewrite's commit is the promise's Compact.
LEMMA CommitCompacts ==
    ASSUME TypeOK, TypeOK', Safeguarded, NothingYounger, Pinned, WrittenSurvives, UniqueContent,
           Partition, Merged, Listed, PendingUnread, CommitRewrite
    PROVE  Promise!Compact
<1>1. phase = "rewriting" /\ todo = {} /\ statistics' = statistics BY DEF CommitRewrite
<1>2. PICK table \in RewrittenTables :
        snapshots' = Append(snapshots, [table |-> table, summary |-> AuditSnapshotSummary, base |-> start])
  BY DEF CommitRewrite
<1>3. PICK s : s = [table |-> table, summary |-> AuditSnapshotSummary, base |-> start] OBVIOUS
<1>4. s.table = table /\ s.summary = AuditSnapshotSummary /\ s.base = start BY <1>3
<1>5. PICK n : n = Len(snapshots') OBVIOUS
<1>6. /\ Promise!ExtendsBy1(History') /\ Promise!Last(History') = Entry(n)'
      /\ snapshots'[n] = s /\ n \in Nat /\ n = Len(snapshots) + 1
  BY <1>1, <1>2, <1>3, <1>5, HistoryExtends
<1>7. start \in 1..Len(snapshots) /\ snapshots # <<>>
  <2>1. Len(snapshots) \in Nat /\ start \in 1..Len(snapshots)
    BY <1>1, CurrentTableType DEF TypeOK, CurrentId
  <2> QED BY <2>1
<1>8. History # <<>> /\ Promise!Last(History) = Entry(CurrentId) BY <1>7, LastIsCurrent
<1>9. Entry(CurrentId).content = Content(LiveRows(CurrentTable))
      /\ Entry(CurrentId).stale = StaleWinsKeys(CurrentTable)
  BY <1>7 DEF Entry, CurrentTable
<1>10. Entry(n)'.content = Content(LiveRows(table)) /\ Entry(n)'.stale = StaleWinsKeys(table)
       /\ Entry(n)'.report = Report(n)'
  BY <1>4, <1>6 DEF Entry, Content, LiveRows, IsDeleted, StaleWinsKeys
<1>11. Content(LiveRows(table)) = Content(LiveRows(CurrentTable)) BY <1>1, RewriteKeepsContent
<1>12. StaleWinsKeys(table) \subseteq StaleWinsKeys(CurrentTable) BY <1>1, NoNewStaleWins
<1>13. /\ Report(n)'.base = start
       /\ \/ Report(n)'.status = "decided" /\ Report(n)'.keys = StaleWinsKeys(StartTable)
          \/ Report(n)'.status \in {"undecidable", "pending"} /\ Report(n)'.keys = {}
  BY <1>1, <1>4, <1>6, NewReport
<1>14. start \in DOMAIN History /\ History[start].stale = StaleWinsKeys(StartTable)
  BY <1>7, HistoryIs DEF Entry, StartTable
<1>15. Promise!IsFaithful(Promise!Last(History').report, History)
  BY <1>6, <1>10, <1>13, <1>14 DEF Promise!IsFaithful
<1> QED
  BY <1>6, <1>8, <1>9, <1>10, <1>11, <1>12, <1>13, <1>14, <1>15 DEF Promise!Compact

\* A registered blob publishes the report of the rewrite it was written for, or, filed
\* under a writer's later commit, changes no report.
LEMMA RegisterPublishes ==
    ASSUME TypeOK, TypeOK', RewritesFollow, StoredExact, WritersSilent, PendingUnread, RegisterSpill
    PROVE  (\E i \in DOMAIN History : Promise!Publish(i)) \/ History' = History
<1>1. /\ phase = "spilled" /\ snapshots' = snapshots
      /\ statistics' = {s \in statistics : s.snap # spillSnap}
                          \cup {[snap |-> spillSnap, keys |-> pendingSpill.keys]}
  BY DEF RegisterSpill
<1>2. PICK n : n = spillSnap OBVIOUS
<1>3. \A i : i # n => Blobs(i)' = Blobs(i) BY <1>1, <1>2 DEF Blobs
<1>4. /\ DOMAIN History = 1..Len(snapshots) /\ DOMAIN History' = 1..Len(snapshots)
      /\ \A i \in 1..Len(snapshots) : History[i] = Entry(i) /\ History'[i] = Entry(i)'
  BY <1>1, HistoryIs, NextHistoryIs
<1>5. \A i \in 1..Len(snapshots) : i # n => History'[i] = History[i]
  BY <1>1, <1>3, <1>4, SameEntry
<1>6. History = [i \in 1..Len(snapshots) |-> History[i]]
      /\ History' = [i \in 1..Len(snapshots) |-> History'[i]]
  BY <1>4 DEF History
<1>7. CASE n \in 1..Len(snapshots) => (AuditCrossGroup \/ ~snapshots[n].summary.spilled)
  <2>1. ASSUME n \in 1..Len(snapshots) PROVE Entry(n)' = Entry(n)
    <3>1. Report(n)' = Report(n) BY <1>1, <1>7, <2>1 DEF Report, Readable, VerdictKeys
    <3> QED BY <1>1, <3>1 DEF Entry, Content, LiveRows, IsDeleted, StaleWinsKeys
  <2>2. \A i \in 1..Len(snapshots) : History'[i] = History[i] BY <1>4, <1>5, <2>1
  <2> QED BY <1>6, <2>2
<1>8. CASE n \in 1..Len(snapshots) /\ ~AuditCrossGroup /\ snapshots[n].summary.spilled
  <2>1. n \in DOMAIN snapshots BY <1>8 DEF TypeOK
  <2>2. n \in Rewrites BY <1>8, <2>1 DEF WritersSilent, NoSummary, Rewrites
  <2>3. PICK j \in Rewrites : /\ pendingSpill.keys = StaleWinsKeys(AuditedTable(j))
                              /\ \A i \in Rewrites : i <= j
                              /\ j <= n
    BY <1>1, <1>2, <1>8 DEF StoredExact, PendingExact
  <2>4. n = j
    <3>1. n \in Nat /\ j \in Nat BY <1>8, <2>3 DEF TypeOK, Rewrites
    <3> QED BY <2>2, <2>3, <3>1
  <2>5. Decided(n) /\ Blobs(n) = {}
    <3>1. Decided(n) /\ \A s \in statistics : s.snap < n
      BY <1>1, <2>2, <2>3, <2>4 DEF PendingUnread, StoredExact, PendingExact
    <3>2. \A s \in statistics : s.snap \in Nat BY DEF TypeOK
    <3> QED BY <1>8, <3>1, <3>2 DEF Blobs
  <2> DEFINE base == snapshots[n].base
             K == StaleWinsKeys(snapshots[base].table)
  <2>6. Blobs(n)' = {[snap |-> n, keys |-> K]}
    <3>1. Blobs(n)' = {s \in statistics' : s.snap = n} BY DEF Blobs
    <3>2. pendingSpill.keys = K BY <2>3, <2>4 DEF AuditedTable
    <3> QED BY <1>1, <1>2, <3>1, <3>2
  <2>7. Report(n) = [status |-> "pending", base |-> base, keys |-> {}]
    BY <1>8, <2>5 DEF Report, Readable
  <2>8. Report(n)' = [status |-> "decided", base |-> base, keys |-> K]
    <3>1. Readable(n)' BY <2>6 DEF Readable
    <3>2. VerdictKeys(n)' = UNION {s.keys : s \in Blobs(n)'} BY <1>1, <1>8 DEF VerdictKeys
    <3>3. VerdictKeys(n)' = K
      <4> HIDE DEF K
      <4> QED BY <2>6, <3>2
    <3>4. snapshots'[n].summary.verdict = "decided" /\ snapshots'[n].base = base
      BY <1>1, <2>5 DEF Decided
    <3> HIDE DEF base, K
    <3> QED BY <3>1, <3>3, <3>4 DEF Report
  <2>9. base \in 1..Len(snapshots)
    <3>1. snapshots[n] \in Snapshot BY <2>1 DEF TypeOK
    <3>2. base \in Nat /\ base # 0 /\ base < n BY <2>2, <3>1 DEF Rewrites, RewritesFollow, Snapshot
    <3>3. Len(snapshots) \in Nat BY DEF TypeOK
    <3> QED BY <1>8, <3>2, <3>3
  <2>10. History[n].report = [status |-> "pending", base |-> base, keys |-> {}]
    <3>1. History[n].report = Report(n) BY <1>4, <1>8 DEF Entry
    <3> HIDE DEF base
    <3> QED BY <2>7, <3>1
  <2>11. History[base].stale = K BY <1>4, <2>9 DEF Entry
  <2> DEFINE R == [status |-> "decided", base |-> base, keys |-> K]
  <2>12. History'[n] = [History[n] EXCEPT !.report = R]
    <3>1. History'[n] = [content |-> Content(LiveRows(snapshots[n].table)),
                         stale |-> StaleWinsKeys(snapshots[n].table), report |-> Report(n)']
      BY <1>1, <1>4, <1>8 DEF Entry, Content, LiveRows, IsDeleted, StaleWinsKeys
    <3>2. History[n] = [content |-> Content(LiveRows(snapshots[n].table)),
                        stale |-> StaleWinsKeys(snapshots[n].table), report |-> Report(n)]
      BY <1>4, <1>8 DEF Entry
    <3>3. Report(n)' = R BY <2>8
    <3> HIDE DEF R
    <3> QED BY <3>1, <3>2, <3>3
  <2> HIDE DEF R
  <2>13. History' = [History EXCEPT ![n] = [History[n] EXCEPT !.report = R]]
    BY <1>4, <1>5, <1>6, <1>8, <2>12
  <2>14. R = [status |-> "decided", base |-> History[n].report.base,
              keys |-> History[History[n].report.base].stale]
    BY <2>10, <2>11 DEF R
  <2>15. History' = [History EXCEPT ![n].report = R] BY <2>13
  <2>16. Promise!Publish(n) BY <2>10, <2>14, <2>15 DEF Promise!Publish
  <2> QED BY <1>4, <1>8, <2>16
<1> QED BY <1>7, <1>8

\* The mechanism implements the promise: every step is a write, a compaction that keeps
\* what a reader sees and reports exactly the stale wins of the snapshot it read, or
\* abstains, the publication of such a report, or no step at all (README.md
\* "Audit-preserving compaction"; patch lines 92-136, 431-447 and 545-608).
THEOREM RewriteKeepsPromise == ASSUME Safeguarded PROVE Spec => KeepsPromise
<1> DEFINE Frame == /\ NothingYounger /\ Pinned /\ Cleared /\ WrittenSurvives
                    /\ RewritesFollow /\ PreservesContent /\ Partition /\ Merged /\ Listed
                    /\ UniqueContent /\ WrittenOnce /\ WritersSilent /\ PendingUnread
           Known == TypeOK /\ StoredExact /\ Frame
<1>1. Init => Frame
  BY DEF Init, NothingYounger, Pinned, Cleared, WrittenSurvives, RewritesFollow, PreservesContent,
         Rewrites, Partition, Merged, Listed, UniqueContent, WrittenOnce, WritersSilent, PendingUnread
<1>2. TypeOK /\ StoredExact /\ Frame /\ [Next]_vars => Frame'
  BY NothingYoungerStep, PinnedStep, ClearedStep, WrittenSurvivesStep, PreservesContentStep,
     PartitionStep, SeenStep, UniqueStep, ReadingStep
<1>3. Init => Promise!Init
  <2> SUFFICES ASSUME Init PROVE History = <<>> BY DEF Promise!Init
  <2>1. snapshots = <<>> /\ Len(snapshots) = 0 /\ DOMAIN snapshots = 1..0 BY DEF Init
  <2>2. History = [i \in 1..0 |-> History[i]] BY <2>1 DEF History
  <2> QED BY <2>2, LengthOf
<1>4. Known /\ Known' /\ [Next]_vars => [Promise!Next]_History
  <2> SUFFICES ASSUME Known, TypeOK', [Next]_vars PROVE Promise!Next \/ History' = History
    OBVIOUS
  <2>1. CASE Commit BY <2>1, CommitWrites DEF Promise!Next
  <2>2. CASE CommitRewrite BY <2>2, CommitCompacts DEF Promise!Next
  <2>3. CASE RegisterSpill BY <2>3, RegisterPublishes DEF Promise!Next
  <2>4. CASE snapshots' = snapshots /\ statistics' = statistics
    <3>1. \A i : Report(i)' = Report(i) BY <2>4 DEF Report, Readable, VerdictKeys, Blobs
    <3> QED BY <2>4, <3>1 DEF History, Content, LiveRows, IsDeleted, StaleWinsKeys
  <2> QED
    BY <2>1, <2>2, <2>3, <2>4
    DEF Next, RewriteStep, PlanRewrite, StockRewrite, AuditedRewrite, WriteSpill, NothingToSpill, Abandon,
        tableVars, actionVars, runnerVars, spillVars, vars
<1>5. Spec => []Known BY <1>1, <1>2, AlwaysExact, PTL DEF Spec
<1> QED BY <1>3, <1>4, <1>5, PTL DEF Spec, KeepsPromise, Promise!Spec
==============================================================================
