---------------------------- MODULE AuditGroups ----------------------------
(***************************************************************************)
(* What one audited compaction says of a table, given the groups its       *)
(* planner formed: the function the audit studies (cost-study/studies/     *)
(* audit) exercise and score.  How the audit gets there, thread by thread  *)
(* and commit by commit, is AuditRewrite's subject; here a study runs      *)
(* alone and only the outcome matters.  Every row has an ordering value,   *)
(* as every row of a study does.                                           *)
(***************************************************************************)
EXTENDS IcebergAdapter

\* The options a study passes to rewrite_data_files.
Options == [gate : BOOLEAN, cross : BOOLEAN, guard : BOOLEAN, failClosed : BOOLEAN]

Defaults == [gate |-> TRUE, cross |-> FALSE, guard |-> TRUE, failClosed |-> TRUE]

FilesOf(table) == {r.file : r \in table.data}

GroupRows(table, g) == {r \in table.data : r.file \in g}

\* The groups Iceberg's planner may form, at most n of them: files are packed
\* up to a cap in the order planning delivers them, and a group with fewer than
\* min-input-files files is skipped.  What fits under the cap is one group; more
\* files than n groups hold have no plan here.
Plans(files, cap, minFiles, n) ==
    LET Parts(a) == {{f \in files : a[f] = i} : i \in 1..n} \ {{}}
        places == IF Cardinality(files) <= n * cap THEN [files -> 1..n] ELSE {}
        packed == IF Cardinality(files) <= cap THEN {{files}}
                  ELSE {Parts(a) : a \in {b \in places :
                            \A i \in 1..n : Cardinality({f \in files : b[f] = i}) <= cap}}
    IN  {{g \in plan : Cardinality(g) >= minFiles} : plan \in packed}

-----------------------------------------------------------------------------
\* The gate.

SeqsOf(table, g) == {r.seq : r \in GroupRows(table, g)}

\* The ordering values one data sequence number spans in a group.
SeqSpan(table, g, seq) == {r.ver : r \in {s \in GroupRows(table, g) : s.seq = seq}}

\* Mutant: the sequence numbers in the wrong order.
MayContainStaleWins_Reversed(table, g) ==
    \E s, t \in SeqsOf(table, g) :
        s > t /\ Min(SeqSpan(table, g, t)) < Max(SeqSpan(table, g, s))

\* Mutant: the intervals of single files are compared, whatever their sequence numbers.
MayContainStaleWins_PerFile(table, g) ==
    \E e, f \in g :
        /\ e # f
        /\ LET Span(h) == {r.ver : r \in {s \in table.data : s.file = h}}
               seq(h) == Min({r.seq : r \in {s \in table.data : s.file = h}})
           IN  seq(e) <= seq(f) /\ Min(Span(f)) < Max(Span(e))

MayContainStaleWins(table, g) ==
    \E s, t \in SeqsOf(table, g) :
        s < t /\ Min(SeqSpan(table, g, t)) < Max(SeqSpan(table, g, s))

Audited(table, plan, o) ==
    {g \in plan : o.gate /\ ~o.cross => MayContainStaleWins(table, g)}

-----------------------------------------------------------------------------
\* The per-key audit.

\* The versions of a key in a group, split by the table-wide delete filter.
DeadIn(table, g, k) == VersionsOf(RowsOf(GroupRows(table, g), k) \cap DeadRows(table))

\* Mutant: the group elects a survivor, its row of the highest sequence number.
LiveIn_Elected(table, g, k) ==
    LET rows == RowsOf(GroupRows(table, g), k)
    IN  {r \in rows : \A s \in rows : s.seq <= r.seq}

LiveIn(table, g, k) == RowsOf(GroupRows(table, g), k) \cap LiveRows(table)

StaleWin(table, g, k, guard) ==
    /\ DeadIn(table, g, k) # {} /\ LiveIn(table, g, k) # {}
    /\ Max(DeadIn(table, g, k)) > Max(VersionsOf(LiveIn(table, g, k)))
    /\ guard => Cardinality(LiveIn(table, g, k)) = 1

FlaggedIn(table, g, guard) ==
    {k \in {r.key : r \in GroupRows(table, g)} : StaleWin(table, g, k, guard)}

-----------------------------------------------------------------------------
\* The summary.

NoSummary == [present |-> FALSE, groups |-> 0, gated |-> 0, audited |-> 0, decided |-> FALSE,
              keys |-> {}, crossGroup |-> FALSE, crossKeys |-> {}]

\* Mutant: the merged verdict is the union of what the groups flagged.
Summary_Union(table, plan, o) ==
    LET audited == Audited(table, plan, o)
        decided == o.cross \/ ~o.failClosed \/ Cardinality(plan) <= 1
        flagged == UNION {FlaggedIn(table, g, o.guard) : g \in audited}
    IN  IF plan = {} THEN NoSummary ELSE
        [present |-> TRUE, groups |-> Cardinality(plan),
         gated |-> Cardinality(plan \ audited), audited |-> Cardinality(audited),
         decided |-> decided, keys |-> IF decided THEN flagged ELSE {},
         crossGroup |-> o.cross, crossKeys |-> IF o.cross THEN flagged ELSE {}]

\* Counters, and the key list unless the audit abstains (several groups, judged
\* one by one, fail-closed).  Cross-group mode judges the merged rows of every
\* group and adds that list.  Nothing to rewrite leaves no summary.
Summary(table, plan, o) ==
    LET audited == Audited(table, plan, o)
        decided == o.cross \/ ~o.failClosed \/ Cardinality(plan) <= 1
    IN  IF plan = {} THEN NoSummary ELSE
        [present |-> TRUE, groups |-> Cardinality(plan),
         gated |-> Cardinality(plan \ audited), audited |-> Cardinality(audited),
         decided |-> decided,
         keys |-> IF decided THEN UNION {FlaggedIn(table, g, o.guard) : g \in audited} ELSE {},
         crossGroup |-> o.cross,
         crossKeys |-> IF o.cross THEN FlaggedIn(table, UNION plan, TRUE) ELSE {}]

\* The list a reader takes as the verdict.
Captured(summary) == IF summary.crossGroup THEN summary.crossKeys ELSE summary.keys

\* A key has versions in several of the groups, or in a file no group has.
Straddles(table, plan, k) ==
    LET files == {r.file : r \in RowsOf(table.data, k)}
    IN  \A g \in plan : ~(files \subseteq g)

\* The compaction: the groups' surviving rows move to new files under the
\* sequence number of the snapshot it started from.
Compacted(table, plan, snapshot) ==
    [table EXCEPT !.data =
        {r \in table.data : r.file \notin UNION plan} \cup
        {[r EXCEPT !.file = <<snapshot + 1, 1>>, !.seq = snapshot] :
            r \in {s \in LiveRows(table) : s.file \in UNION plan}}]
=============================================================================
