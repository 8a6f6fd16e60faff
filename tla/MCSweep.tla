------------------------------ MODULE MCSweep ------------------------------
(* The sweep for TLC. *)
EXTENDS Sweep

\* Three configurations, one of them twice in the list.
RepeatedList == <<"a", "b", "a", "c">>

\* The first of them has a column that only Iceberg's driver measures.
MeasuredColumns == [h \in {"a", "b", "c"} |-> IF h = "a" THEN {"cost", "live_rows"} ELSE {"cost"}]

\* Sweeps that nobody kills.
UnkilledSpec ==
    SweepInit /\ [][Start \/ Skip \/ Run \/ AppendRecord \/ EndLoop \/ WriteCsv]_sweepVars
=============================================================================
