---------------------------- MODULE MCMaintenance ----------------------------
\* One table under maintenance, of the format picked at the start: the Iceberg,
\* the Delta and the Hudi studies share nothing.
EXTENDS IcebergMaintenance, DeltaHistory, HudiSlices

VARIABLE format

Init ==
    /\ format \in {"iceberg", "delta", "hudi"}
    /\ IceInit
    /\ DeltaInit
    /\ HudiInit

Next ==
    /\ UNCHANGED format
    /\ \/ format = "iceberg" /\ IceNext /\ UNCHANGED <<deltaVars, hudiVars>>
       \/ format = "delta" /\ DeltaNext /\ UNCHANGED <<iceVars, hudiVars>>
       \/ format = "hudi" /\ HudiNext /\ UNCHANGED <<iceVars, deltaVars>>

\* Whatever the format: a rewrite leaves the current state with exactly the rows that
\* were served before it and destroys no version; only expiry, orphan removal, VACUUM
\* or the cleaner destroys one, and never one of the current state; a writer's commit
\* destroys none and serves none again that was superseded (README.md "Compaction
\* masking, in detail").
MaintenanceKeepsEvidence == IcebergKeepsEvidence /\ DeltaKeepsEvidence /\ HudiKeepsEvidence
=============================================================================
