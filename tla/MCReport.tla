------------------------------- MODULE MCReport -------------------------------
\* CheckerCases on two key columns, one of which may be null.
EXTENDS CheckerCases

MCKeys == {<<1, 1>>, <<1, 2>>, <<1, NullValue>>}

MCPlainKeys == {<<1, 1>>, <<1, 2>>}

MCVersions == {1, 2}

\* --all-keys changes only which findings are listed.
MCCommandLines == {o \in Options : o.allKeys => ~o.hasVersion /\ ~o.upsertOnly}
=============================================================================
