--------------------------- MODULE IcebergAdapter ---------------------------
(***************************************************************************)
(* An Iceberg table snapshot as the checker's adapter reads it             *)
(* (checker/src/mor_checker/adapters/iceberg.py), and the merge-on-read    *)
(* view the engine returns for it.                                         *)
(*                                                                         *)
(* A table is a record [data, dels].  A row of data carries the file that  *)
(* holds it, the file's data sequence number, its key and its version; the *)
(* fields commit and part name the write that first produced the row, so   *)
(* that copies of one row stay distinct and a row keeps its identity when  *)
(* a rewrite moves it to another file.  An equality delete is a key and    *)
(* the sequence number of its delete file.                                 *)
(***************************************************************************)
EXTENDS MorModel

File == Nat \X Nat

Row(keys, versions) ==
    [commit : Nat, part : Nat, key : keys, ver : versions, file : File, seq : Nat]

Del(keys) == [key : keys, seq : Nat]

Table(keys, versions) == [data : SUBSET Row(keys, versions), dels : SUBSET Del(keys)]

EmptyTable == [data |-> {}, dels |-> {}]

RowsOf(rows, k) == {r \in rows : r.key = k}

\* Equality deletes apply table-wide, to rows of strictly lower sequence number.
IsDeleted(table, r) == \E d \in table.dels : d.key = r.key /\ d.seq > r.seq

LiveRows(table) == {r \in table.data : ~IsDeleted(table, r)}

DeadRows(table) == {r \in table.data : IsDeleted(table, r)}

Layout(table, k, hasVersion, upsertOnly) ==
    [data            |-> RowsOf(table.data, k),
     dels            |-> {d.seq : d \in {e \in table.dels : e.key = k}},
     hasVersion      |-> hasVersion,
     deletesPossible |-> ~upsertOnly]

\* The keys the checker reports on: every key with a data row or a delete.
LayoutKeys(table) == {r.key : r \in table.data} \cup {d.key : d \in table.dels}

KeysWith(table, verdict, hasVersion, upsertOnly) ==
    {k \in LayoutKeys(table) : Classify(Layout(table, k, hasVersion, upsertOnly)) = verdict}

\* What an audit with the version column reports as stale wins.
StaleWinsKeys(table) == KeysWith(table, "STALE_WINS", TRUE, FALSE)

DuplicateKeys(table) == KeysWith(table, "DUPLICATE", TRUE, FALSE)

\* What a row says, apart from where it is stored.
Content(rows) == {[commit |-> r.commit, part |-> r.part, key |-> r.key, ver |-> r.ver] : r \in rows}
=============================================================================
