------------------------------- MODULE MCSink -------------------------------
\* The two pipelines of phase8-cdc: the race of the parallel sink, and the run in
\* which the inversion is induced.  One of them is run, they share nothing.
EXTENDS ParallelSink, CdcChain

VARIABLE pipeline

MCInit ==
    /\ pipeline \in {"parallel", "induced"}
    /\ Init
    /\ ChainInit
    /\ pipeline = "induced" => events = [lsn \in Lsns |-> [key |-> CHOOSE k \in Keys : TRUE, subtask |-> 0]]

Race == pipeline = "parallel" /\ UNCHANGED <<pipeline, chainVars>>

Induced == pipeline = "induced" /\ UNCHANGED <<pipeline, vars>>

MCNext == (Race /\ Next) \/ (Induced /\ ChainNext)

MCSpec ==
    /\ MCInit
    /\ [][MCNext]_<<pipeline, vars, chainVars>>
    /\ \A s \in Subtasks : WF_vars(Race /\ (Write(s) \/ Finish(s)))
    /\ WF_vars(Race /\ Coordinator)

\* Terminates, of the run that races: see ParallelSink.
RaceTerminates == pipeline = "parallel" => Terminates
=============================================================================
