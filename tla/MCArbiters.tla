----------------------------- MODULE MCArbiters -----------------------------
(* The Hudi and Delta runs for TLC. *)
EXTENDS CdcArbiters

HudiRun == [format |-> "hudi", mode |-> "unsafe", outOfOrder |-> TRUE, schema |-> TRUE,
            duplicates |-> TRUE, coarsening |-> 1, upsertOnly |-> FALSE, keys |-> {"k1"},
            updates |-> 2, skew |-> 1]

DeltaRun == [HudiRun EXCEPT !.format = "delta", !.outOfOrder = FALSE, !.skew = 0]

\* Hudi under skew, with ties, ordered by the timestamp and by the lsn; Delta
\* enforced over two keys, and flushed.
MCConfigs ==
    {HudiRun,
     [HudiRun EXCEPT !.updates = 1, !.skew = 2],
     [HudiRun EXCEPT !.mode = "safe"],
     [DeltaRun EXCEPT !.mode = "safe", !.keys = Keys, !.updates = 1],
     [DeltaRun EXCEPT !.updates = 3]}

\* Delta and a schema flush.
FlushedRun == {[DeltaRun EXCEPT !.duplicates = FALSE, !.updates = 1]}
=============================================================================
