------------------------------- MODULE MCCdc -------------------------------
(* The Iceberg runs for TLC: each knob alone, all of them, and both enforced modes. *)
EXTENDS CdcAudit

Quiet == [format |-> "iceberg", mode |-> "unsafe", outOfOrder |-> FALSE, schema |-> FALSE,
          duplicates |-> FALSE, coarsening |-> 1, upsertOnly |-> FALSE, keys |-> {"k1"},
          updates |-> 2, skew |-> 0]

AllKnobs == [Quiet EXCEPT !.outOfOrder = TRUE, !.schema = TRUE, !.duplicates = TRUE]

\* Two keys whose histories differ, under knobs that enforcement must ignore.
SafeRun == [AllKnobs EXCEPT !.mode = "safe_compact", !.keys = Keys, !.updates = 1, !.coarsening = 2]

MCConfigs ==
    {SafeRun,
     [SafeRun EXCEPT !.mode = "safe"],
     [Quiet EXCEPT !.outOfOrder = TRUE, !.upsertOnly = TRUE],
     [Quiet EXCEPT !.outOfOrder = TRUE, !.keys = Keys, !.updates = 1],
     [Quiet EXCEPT !.schema = TRUE, !.duplicates = TRUE, !.coarsening = 2],
     [AllKnobs EXCEPT !.coarsening = 2],
     [AllKnobs EXCEPT !.mode = "unsafe_compact"],
     [AllKnobs EXCEPT !.mode = "unsafe_compact", !.schema = FALSE]}

MCOptions ==
    {Defaults,
     [Defaults EXCEPT !.failClosed = FALSE],
     [Defaults EXCEPT !.cross = TRUE]}
=============================================================================
