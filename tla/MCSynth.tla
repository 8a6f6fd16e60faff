------------------------------ MODULE MCSynth ------------------------------
(* Instances of AuditStudies for TLC: many parameters in one file a commit, *)
(* and small tables split into files.                                       *)
EXTENDS AuditStudies

Params(C, R, files, scatter, interleave) ==
    {p \in [C : C, R : R, nDel : 1..Max(R), nDup : 0..1, inverted : BOOLEAN,
            files : files, scatter : scatter, interleave : interleave] :
        p.nDel <= p.R /\ p.nDup <= p.nDel /\ p.files <= p.R}

MCConfigs ==
    Params(1..6, 1..5, {1}, {FALSE}, {FALSE})
        \cup Params(1..3, {3}, {2}, BOOLEAN, {FALSE})
        \cup {p \in Params({3}, {3}, {1, 2}, {TRUE}, {TRUE}) : ~p.inverted /\ p.nDup = 0 /\ p.nDel = 2}
        \cup {p \in Params({99, 100}, {1}, {1}, {FALSE}, {FALSE}) : p.nDup = 1 /\ (p.C = 100 => p.inverted)}

\* Beyond the bound: the first commit count from which the injected ordering value
\* is not above every row of its key.
HighConfigs ==
    {p \in Params({101}, {1}, {1}, {FALSE}, {FALSE}) : p.nDup = 1 /\ p.inverted}

MCOptions ==
    {Defaults,
     [Defaults EXCEPT !.gate = FALSE],
     [Defaults EXCEPT !.failClosed = FALSE],
     [Defaults EXCEPT !.cross = TRUE],
     [Defaults EXCEPT !.guard = FALSE]}
=============================================================================
