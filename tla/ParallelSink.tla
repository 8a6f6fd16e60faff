---------------------------- MODULE ParallelSink ----------------------------
(***************************************************************************)
(* The parallel-sink run of phase8-cdc (MorPhase8ParallelTest.java): change*)
(* events are shuffled on a non-key column to subtasks, each a thread with *)
(* an Iceberg writer of its own, while a coordinator fires barriers on a   *)
(* timer.  A barrier asks the writers one after the other, each under its  *)
(* own lock, for what they hold and commits it all as one snapshot.  Which *)
(* events precede a barrier is left to the schedule.                       *)
(*                                                                         *)
(* The connector's writer turns the first write of a key since its last    *)
(* barrier into an equality delete and a row; a further write of the key   *)
(* deletes the row before it by position.                                  *)
(***************************************************************************)
EXTENDS IcebergAdapter, Sequences

CONSTANTS
    Keys,
    Subtasks,      \* 0 .. PARALLELISM - 1
    Barriers,      \* mor.barriers: the timed barriers
    NEvents,       \* bound: the number of events
    CanFail        \* a subtask or a commit may throw

ASSUME SinkAssumption ==
    /\ IsFiniteSet(Subtasks) /\ Subtasks # {} /\ Subtasks = 0..Cardinality(Subtasks) - 1
    /\ Barriers \in Nat /\ NEvents \in Nat \ {0} /\ CanFail \in BOOLEAN

VARIABLES
    events,       \* the event of each lsn: its key and the subtask its note hashes to
    thread,       \* each subtask's thread: "running", "done" or "dead"
    taken,        \* the lsn up to which each subtask has gone through its events
    buffer,       \* the lsns each writer holds since its last barrier
    coordinator,  \* "check", "sleep", "prepare", "commit", "await", "closed" or "aborted"
    asked,        \* during a barrier: the next writer to ask
    requests,     \* during a barrier: what the writers have handed over, by subtask
    final,        \* the barrier is the final one
    cp,           \* barriers fired
    commits,      \* commits made, which is the last sequence number
    table,
    posdels       \* the lsns of the rows deleted by position

writerVars == <<thread, taken>>
coordVars == <<coordinator, asked, final, cp>>
tableVars == <<commits, table, posdels>>
vars == <<events, writerVars, buffer, requests, coordVars, tableVars>>

Lsns == 1..NEvents

NoRequests == [s \in Subtasks |-> {}]

\* The events of subtask s it has not written yet.
Remaining(s) == {lsn \in Lsns : events[lsn].subtask = s /\ lsn > taken[s]}

Init ==
    /\ events \in [Lsns -> [key : Keys, subtask : Subtasks]]
    /\ thread = [s \in Subtasks |-> "running"]
    /\ taken = [s \in Subtasks |-> 0]
    /\ buffer = [s \in Subtasks |-> {}]
    /\ coordinator = "check" /\ asked = 0 /\ requests = NoRequests
    /\ final = FALSE /\ cp = 0
    /\ commits = 0 /\ table = EmptyTable /\ posdels = {}

-----------------------------------------------------------------------------
\* The subtasks.

\* One event, under the writer's lock.
Write(s) ==
    /\ thread[s] = "running" /\ Remaining(s) # {}
    /\ taken' = [taken EXCEPT ![s] = Min(Remaining(s))]
    /\ buffer' = [buffer EXCEPT ![s] = @ \cup {Min(Remaining(s))}]
    /\ UNCHANGED <<events, thread, requests, coordVars, tableVars>>

\* The subtask has written all its events and counts the latch down.
Finish(s) ==
    /\ thread[s] = "running" /\ Remaining(s) = {}
    /\ thread' = [thread EXCEPT ![s] = "done"]
    /\ UNCHANGED <<events, taken, buffer, requests, coordVars, tableVars>>

\* Mutant: without the finally a thread that dies counts nothing down.
LatchOpen_NoFinally == \A s \in Subtasks : thread[s] = "done"

\* done.getCount() = 0: a thread that died has counted down too.
LatchOpen == \A s \in Subtasks : thread[s] # "running"

\* A subtask's thread ends with an exception nobody looks at.
Die(s) ==
    /\ CanFail /\ thread[s] = "running"
    /\ thread' = [thread EXCEPT ![s] = "dead"]
    /\ UNCHANGED <<events, taken, buffer, requests, coordVars, tableVars>>

-----------------------------------------------------------------------------
\* The coordinator.

Check ==
    /\ coordinator = "check"
    /\ coordinator' = IF cp < Barriers /\ ~LatchOpen THEN "sleep" ELSE "await"
    /\ UNCHANGED <<events, writerVars, buffer, requests, asked, final, cp, tableVars>>

StartBarrier(last) ==
    /\ cp' = cp + 1
    /\ final' = last
    /\ asked' = 0
    /\ requests' = NoRequests
    /\ coordinator' = "prepare"
    /\ UNCHANGED <<events, writerVars, buffer, tableVars>>

Wake == coordinator = "sleep" /\ StartBarrier(FALSE)

Await == coordinator = "await" /\ LatchOpen /\ StartBarrier(TRUE)

\* Mutant: the writer keeps what it has handed over.
Prepare_Keeping ==
    /\ coordinator = "prepare"
    /\ requests' = [requests EXCEPT ![asked] = buffer[asked]]
    /\ asked' = asked + 1
    /\ coordinator' = IF asked + 1 \in Subtasks THEN "prepare" ELSE "commit"
    /\ UNCHANGED <<events, writerVars, buffer, final, cp, tableVars>>

\* prepareCommit of one writer, under its lock.
Prepare ==
    /\ coordinator = "prepare"
    /\ requests' = [requests EXCEPT ![asked] = buffer[asked]]
    /\ buffer' = [buffer EXCEPT ![asked] = {}]
    /\ asked' = asked + 1
    /\ coordinator' = IF asked + 1 \in Subtasks THEN "prepare" ELSE "commit"
    /\ UNCHANGED <<events, writerVars, final, cp, tableVars>>

Written(s) ==
    {[commit |-> cp, part |-> s, key |-> events[lsn].key, ver |-> lsn, file |-> <<cp, s>>,
      seq |-> commits + 1] : lsn \in requests[s]}

\* Mutant: positions are remembered across barriers.
Overwritten_AnyBatch(s) ==
    {lsn \in Lsns : \E later \in Lsns : later > lsn /\ events[later].key = events[lsn].key}

\* The rows of one batch that a later write of their key deleted by position.
Overwritten(s) ==
    {lsn \in requests[s] : \E later \in requests[s] :
        later > lsn /\ events[later].key = events[lsn].key}

AllRequested == UNION {requests[s] : s \in Subtasks}

AfterCommit == IF final THEN "closed" ELSE "check"

\* A barrier that found nothing commits nothing.
CommitAll ==
    /\ coordinator = "commit"
    /\ IF AllRequested = {} THEN UNCHANGED tableVars
       ELSE /\ commits' = commits + 1
            /\ table' = [data |-> table.data \cup UNION {Written(s) : s \in Subtasks},
                         dels |-> table.dels \cup {[key |-> events[lsn].key, seq |-> commits + 1] :
                                                   lsn \in AllRequested}]
            /\ posdels' = posdels \cup UNION {Overwritten(s) : s \in Subtasks}
    /\ coordinator' = AfterCommit
    /\ UNCHANGED <<events, writerVars, buffer, requests, asked, final, cp>>

\* A commit that throws ends the test; the subtasks go on for nothing.
CommitFails ==
    /\ CanFail /\ coordinator = "commit" /\ AllRequested # {}
    /\ coordinator' = "aborted"
    /\ UNCHANGED <<events, writerVars, buffer, requests, asked, final, cp, tableVars>>

Subtask(s) == Write(s) \/ Finish(s) \/ Die(s)

Coordinator == Check \/ Wake \/ Await \/ Prepare \/ CommitAll \/ CommitFails

Next == (\E s \in Subtasks : Subtask(s)) \/ Coordinator

Spec == Init /\ [][Next]_vars

\* Threads are scheduled, sleeps end, and a writer's lock is held briefly.
FairSpec ==
    /\ Spec
    /\ \A s \in Subtasks : WF_vars(Write(s) \/ Finish(s))
    /\ WF_vars(Coordinator)

-----------------------------------------------------------------------------
Committed == {r.ver : r \in table.data}

\* Every event is at one place only: not yet taken, in a writer, on its way
\* through a barrier, or committed once; the locks lose and repeat none.  When the
\* run ends, every event of a subtask that did not die is committed.
NothingLostOrTwice ==
    /\ \A lsn \in Lsns : LET s == events[lsn].subtask
                             waiting == coordinator = "commit" \/ coordinator = "prepare"
                             places == <<lsn \in Remaining(s), lsn \in buffer[s],
                                         waiting /\ lsn \in requests[s], lsn \in Committed>>
                         IN  coordinator # "aborted" =>
                                 Cardinality({i \in 1..4 : places[i]}) = 1
    /\ \A q, r \in table.data : q.ver = r.ver => q = r
    /\ coordinator = "closed" =>
           \A lsn \in Lsns : thread[events[lsn].subtask] # "dead" => lsn \in Committed

\* What a reader is served.
Served(k) == {r \in RowsOf(LiveRows(table), k) : r.ver \notin posdels}

Latest(k) == Max({r.ver : r \in RowsOf(table.data, k)})

-----------------------------------------------------------------------------
\* verify_parallel_race.py, run on the table when the test is over.

\* The checker leaves position deletes unanalyzed.
Flagged == StaleWinsKeys(table)

\* lsn_oracle.json holds every event, those of a dead subtask too.
OracleLatest(k) == Max({lsn \in Lsns : events[lsn].key = k})

StaleByOracle == {k \in Keys : \E r \in Served(k) : r.ver < OracleLatest(k)}

\* rewrite_data_files with two input files at least.
RaceRewritten ==
    [data |-> {[r EXCEPT !.file = <<cp + 1, 0>>, !.seq = commits] : r \in UNION {Served(k) : k \in Keys}},
     dels |-> table.dels]

Rewrites == Cardinality({r.file : r \in table.data}) >= 2

\* With nothing flagged the script stops, before it looks for keys that were missed.
RaceOutcome ==
    IF Flagged = {} THEN "null"
    ELSE IF /\ Flagged = StaleByOracle
            /\ Rewrites /\ StaleWinsKeys(RaceRewritten) = {}
            /\ \A k \in Flagged : Content(RowsOf(LiveRows(RaceRewritten), k)) = Content(Served(k))
         THEN "pass" ELSE "fail"

\* A flagged key serves one row, Postgres agrees that it is stale, and the rewrite takes
\* the flag away and leaves the row: the script fails over nothing but a stale key that
\* the checker missed (verify_parallel_race.py:100-152).  And what is stale is a race: a
\* younger event of the key went through the other subtask and was not committed later.
RaceFailsOnlyOnMissed ==
    /\ \A k \in Keys : RowsOf(table.data, k) # {} =>
           \A r \in Served(k) : r.ver < Latest(k) =>
               \E q \in RowsOf(table.data, k) : q.ver > r.ver /\ q.part # r.part /\ q.seq <= r.seq
    /\ \A k \in Flagged : k \in StaleByOracle /\ Cardinality(Served(k)) = 1
    /\ coordinator = "closed" /\ RaceOutcome = "fail" => ~(StaleByOracle \subseteq Flagged)

\* verify_parallel_race.py:118: "a key the checker did NOT flag must not be stale either
\* -- guards against under-reporting".
NullResultHidesNothing ==
    coordinator = "closed" /\ RaceOutcome = "null" => StaleByOracle = {}

\* The run ends, whether or not a subtask dies: the latch is counted down in a
\* finally, and the final barrier waits for nothing else.
Terminates == <>(coordinator \in {"closed", "aborted"})
=============================================================================
