--------------------------- MODULE Phase8_proofs ---------------------------
(***************************************************************************)
(* The two pipelines of phase8-cdc.  The parallel sink, for any number of  *)
(* keys, subtasks, barriers and events: the locks lose and repeat no event,*)
(* and what the run serves stale is the product of a race between two      *)
(* subtasks.  The induced run, for any log, delivery and moment of capture:*)
(* a plan that is built shows its stale win, and inverts nothing else.     *)
(***************************************************************************)
EXTENDS ParallelSink, CdcChain, LayoutLemmas, SequenceTheorems

Waiting == coordinator \in {"prepare", "commit"}

TypeOK ==
    /\ events \in [Lsns -> [key : Keys, subtask : Subtasks]]
    /\ thread \in [Subtasks -> {"running", "done", "dead"}]
    /\ taken \in [Subtasks -> Nat]
    /\ buffer \in [Subtasks -> SUBSET Lsns]
    /\ requests \in [Subtasks -> SUBSET Lsns]
    /\ coordinator \in {"check", "sleep", "prepare", "commit", "await", "closed", "aborted"}
    /\ asked \in Nat /\ cp \in Nat /\ commits \in Nat
    /\ final \in BOOLEAN
    /\ table \in Table(Keys, Lsns)
    /\ IsFiniteSet(table.dels)
    /\ posdels \subseteq Lsns

-----------------------------------------------------------------------------
\* Where the events are.

\* A subtask holds its own events only, and none it has not taken.
OwnOnly ==
    \A s \in Subtasks : \A lsn \in buffer[s] \cup requests[s] :
        events[lsn].subtask = s /\ lsn <= taken[s]

\* A row is that of its event.
RowsAreEvents ==
    \A r \in table.data :
        /\ r.key = events[r.ver].key /\ r.part = events[r.ver].subtask
        /\ r.ver <= taken[r.part] /\ r.seq <= commits /\ r.file[2] = r.part

\* What a subtask has taken moves on in the order it was taken: committed rows, then
\* the events on their way through a barrier, then those in the writer.
Ordered ==
    \A s \in Subtasks :
        /\ \A r \in table.data : r.part = s => \A lsn \in buffer[s] : r.ver < lsn
        /\ Waiting => /\ \A r \in table.data : r.part = s => \A lsn \in requests[s] : r.ver < lsn
                      /\ \A lsn \in requests[s], m \in buffer[s] : lsn < m

\* What has been taken is somewhere.
Kept ==
    coordinator # "aborted" =>
        \A lsn \in Lsns : LET s == events[lsn].subtask
                          IN  lsn <= taken[s] => \/ lsn \in buffer[s]
                                                 \/ Waiting /\ lsn \in requests[s]
                                                 \/ lsn \in Committed

\* A barrier asks the writers in turn.
Asking ==
    /\ coordinator = "prepare" => /\ asked \in Subtasks
                                  /\ \A s \in Subtasks : s >= asked => requests[s] = {}
    /\ coordinator \in {"commit", "closed"} => \A s \in Subtasks : s < asked

\* The final barrier finds no thread running, and after it no writer holds anything.
Closing ==
    /\ coordinator = "closed" => final
    /\ final /\ coordinator \in {"prepare", "commit", "closed"} =>
           /\ LatchOpen
           /\ \A s \in Subtasks : s < asked => buffer[s] = {}
    /\ \A s \in Subtasks : thread[s] = "done" => Remaining(s) = {}

-----------------------------------------------------------------------------
\* What is in the table.

OneRowEach == \A q, r \in table.data : q.ver = r.ver => q = r

\* Every row came with a delete of its key.
DeletesComeWithRows ==
    /\ \A r \in table.data : [key |-> r.key, seq |-> r.seq] \in table.dels
    /\ \A d \in table.dels : d.seq <= commits

\* Of one subtask's rows the younger was not committed before the older.
SubtaskOrder ==
    \A q, r \in table.data : q.part = r.part /\ q.ver > r.ver => q.seq >= r.seq

\* A position delete is that of a row whose key was written again in the same batch.
PositionDeletes ==
    /\ \A q, r \in table.data :
           q.part = r.part /\ q.key = r.key /\ q.seq = r.seq /\ q.ver > r.ver => r.ver \in posdels
    /\ \A lsn \in posdels : \E q, r \in table.data :
           r.ver = lsn /\ q.key = r.key /\ q.seq = r.seq /\ q.ver > r.ver

IInv ==
    /\ TypeOK
    /\ OwnOnly /\ RowsAreEvents /\ Ordered /\ Kept /\ Asking /\ Closing
    /\ OneRowEach /\ DeletesComeWithRows /\ SubtaskOrder /\ PositionDeletes

-----------------------------------------------------------------------------
\* Lemmas.

\* The next event of a subtask is younger than all it has taken, and the oldest left.
LEMMA NextEvent ==
    ASSUME TypeOK, NEW s \in Subtasks, Remaining(s) # {}
    PROVE  LET m == Min(Remaining(s))
           IN  /\ m \in Lsns /\ events[m].subtask = s /\ m > taken[s]
               /\ \A lsn \in Lsns : events[lsn].subtask = s /\ lsn > taken[s] => lsn >= m
<1>1. Lsns \in SUBSET Nat /\ IsFiniteSet(Lsns) BY SinkAssumption, FS_Interval DEF Lsns
<1>2. Remaining(s) \in SUBSET Lsns BY DEF Remaining
<1>3. Remaining(s) \in SUBSET Nat /\ IsFiniteSet(Remaining(s)) BY <1>1, <1>2, FS_Subset
<1>4. Min(Remaining(s)) \in Remaining(s) /\ \A y \in Remaining(s) : Min(Remaining(s)) <= y
  BY <1>3, MaxMin
<1>5. \A lsn \in Lsns : events[lsn].subtask = s /\ lsn > taken[s] => lsn \in Remaining(s)
  BY DEF Remaining
<1>6. Min(Remaining(s)) \in Nat /\ taken[s] \in Nat BY <1>1, <1>2, <1>4 DEF TypeOK
<1> QED BY <1>1, <1>4, <1>5, <1>6 DEF Remaining

\* The writers of an untouched table are as they were.
LEMMA TableUnchanged ==
    ASSUME IInv, UNCHANGED <<events, tableVars>>,
           \A s \in Subtasks : taken[s] <= taken'[s], TypeOK'
    PROVE  /\ RowsAreEvents' /\ OneRowEach' /\ DeletesComeWithRows' /\ SubtaskOrder'
           /\ PositionDeletes'
<1>1. table' = table /\ commits' = commits /\ posdels' = posdels /\ events' = events
  BY DEF tableVars
<1>2. OneRowEach' /\ DeletesComeWithRows' /\ SubtaskOrder' /\ PositionDeletes'
  BY <1>1 DEF IInv, OneRowEach, DeletesComeWithRows, SubtaskOrder, PositionDeletes
<1>3. RowsAreEvents'
  <2>1. SUFFICES ASSUME NEW r \in table.data PROVE r.ver <= taken'[r.part]
    BY <1>1 DEF IInv, RowsAreEvents
  <2>2. r.ver \in Lsns /\ r.ver \in Nat BY SinkAssumption DEF IInv, TypeOK, Table, Row, Lsns
  <2>3. r.part \in Subtasks BY <2>2 DEF IInv, TypeOK, RowsAreEvents
  <2>4. r.ver <= taken[r.part] /\ taken[r.part] \in Nat /\ taken'[r.part] \in Nat
    BY <2>3 DEF IInv, TypeOK, RowsAreEvents
  <2> QED BY <2>2, <2>3, <2>4
<1> QED BY <1>2, <1>3

\* Subtasks are numbered from 0.
LEMMA SubtasksInOrder == \E n \in Nat : Subtasks = 0..n
<1>1. Cardinality(Subtasks) \in Nat BY SinkAssumption, FS_CardinalityType
<1>2. Cardinality(Subtasks) # 0 BY SinkAssumption, FS_EmptySet
<1>3. Cardinality(Subtasks) - 1 \in Nat BY <1>1, <1>2
<1> QED BY <1>3, SinkAssumption

\* Log sequence numbers are finitely many numbers.
LEMMA LsnsAreNumbers == Lsns \subseteq Nat /\ IsFiniteSet(Lsns)
BY SinkAssumption, FS_Interval DEF Lsns

-----------------------------------------------------------------------------
\* The invariants are inductive.

\* The invariant holds at the start.
LEMMA Initially == Init => IInv
<1>1. SUFFICES ASSUME Init PROVE IInv OBVIOUS
<1>2. IsFiniteSet(EmptyTable.dels) BY FS_EmptySet DEF EmptyTable
<1>3. TypeOK BY <1>1, <1>2 DEF Init, TypeOK, NoRequests, EmptyTable, Table
<1>4. Committed = {} BY <1>1 DEF Init, Committed, EmptyTable
<1>5. \A lsn \in Lsns : ~(lsn <= 0) BY SinkAssumption DEF Lsns
<1>6. OwnOnly /\ RowsAreEvents /\ Ordered /\ Asking /\ Closing
  BY <1>1 DEF Init, OwnOnly, RowsAreEvents, Ordered, Asking, Closing, Waiting, NoRequests, EmptyTable
<1>7. Kept BY <1>1, <1>3, <1>5 DEF Init, Kept, TypeOK
<1>8. OneRowEach /\ DeletesComeWithRows /\ SubtaskOrder /\ PositionDeletes
  BY <1>1 DEF Init, OneRowEach, DeletesComeWithRows, SubtaskOrder, PositionDeletes, EmptyTable
<1> QED BY <1>3, <1>6, <1>7, <1>8 DEF IInv

\* The next event of a subtask goes into its writer, behind all that is under way.
LEMMA WriteStep == ASSUME IInv, NEW s \in Subtasks, Write(s) PROVE IInv'
<1> DEFINE m == Min(Remaining(s))
<1>1. /\ thread[s] = "running" /\ Remaining(s) # {}
      /\ taken' = [taken EXCEPT ![s] = m] /\ buffer' = [buffer EXCEPT ![s] = @ \cup {m}]
      /\ events' = events /\ thread' = thread /\ requests' = requests
      /\ coordinator' = coordinator /\ asked' = asked /\ final' = final /\ cp' = cp
      /\ commits' = commits /\ table' = table /\ posdels' = posdels
  BY DEF Write, coordVars, tableVars
<1>2. /\ m \in Lsns /\ events[m].subtask = s /\ m > taken[s]
      /\ \A lsn \in Lsns : events[lsn].subtask = s /\ lsn > taken[s] => lsn >= m
  BY <1>1, NextEvent DEF IInv
<1> HIDE DEF m
<1>3. m \in Nat /\ Lsns \subseteq Nat BY <1>2, LsnsAreNumbers
<1>4. TypeOK' BY <1>1, <1>2, <1>3 DEF IInv, TypeOK
<1>5. \A t \in Subtasks :
        /\ taken[t] \in Nat /\ taken'[t] = IF t = s THEN m ELSE taken[t]
        /\ buffer'[t] = IF t = s THEN buffer[s] \cup {m} ELSE buffer[t]
        /\ buffer[t] \subseteq Lsns /\ requests[t] \subseteq Lsns
  BY <1>1 DEF IInv, TypeOK
<1>6. RowsAreEvents' /\ OneRowEach' /\ DeletesComeWithRows' /\ SubtaskOrder' /\ PositionDeletes'
  <2>1. \A t \in Subtasks : taken[t] <= taken'[t] BY <1>2, <1>3, <1>5
  <2> QED BY <1>1, <1>4, <2>1, TableUnchanged DEF tableVars
<1>7. OwnOnly'
  <2>1. SUFFICES ASSUME NEW t \in Subtasks, NEW lsn \in buffer'[t] \cup requests[t]
                 PROVE  events[lsn].subtask = t /\ lsn <= taken'[t]
    BY <1>1 DEF OwnOnly
  <2>2. CASE lsn \in buffer[t] \cup requests[t]
    <3>1. events[lsn].subtask = t /\ lsn <= taken[t] BY <2>2 DEF IInv, OwnOnly
    <3>2. lsn \in Nat BY <1>3, <1>5, <2>2
    <3> QED BY <1>2, <1>3, <1>5, <3>1, <3>2
  <2>3. CASE t = s /\ lsn = m BY <1>2, <1>3, <1>5, <2>3
  <2> QED BY <1>5, <2>1, <2>2, <2>3
<1>8. Ordered'
  <2>1. ASSUME NEW r \in table.data, r.part = s PROVE r.ver < m
    <3>1. r.ver \in Lsns BY DEF IInv, TypeOK, Table, Row
    <3>2. r.ver <= taken[s] BY <2>1 DEF IInv, RowsAreEvents
    <3>3. r.ver \in Nat /\ taken[s] \in Nat BY <1>3, <1>5, <3>1
    <3> QED BY <1>2, <1>3, <3>2, <3>3
  <2>2. ASSUME NEW lsn \in requests[s] PROVE lsn < m
    <3>1. lsn <= taken[s] BY DEF IInv, OwnOnly
    <3>2. lsn \in Nat BY <1>3, <1>5
    <3> QED BY <1>2, <1>3, <1>5, <3>1, <3>2
  <2>3. Waiting' = Waiting BY <1>1 DEF Waiting
  <2> QED BY <1>1, <1>5, <2>1, <2>2, <2>3 DEF IInv, Ordered
<1>9. Kept'
  <2>1. SUFFICES ASSUME coordinator # "aborted", NEW lsn \in Lsns,
                        lsn <= taken'[events[lsn].subtask]
                 PROVE  \/ lsn \in buffer'[events[lsn].subtask]
                        \/ Waiting /\ lsn \in requests[events[lsn].subtask]
                        \/ lsn \in Committed
    BY <1>1 DEF Kept, Waiting, Committed
  <2>2. events[lsn].subtask \in Subtasks BY DEF IInv, TypeOK
  <2>3. CASE lsn <= taken[events[lsn].subtask]
    BY <1>5, <2>1, <2>2, <2>3 DEF IInv, Kept
  <2>4. CASE ~(lsn <= taken[events[lsn].subtask])
    <3>1. events[lsn].subtask = s /\ lsn <= m BY <1>5, <2>1, <2>2, <2>4
    <3>2. lsn > taken[s] BY <1>3, <1>5, <2>2, <2>4, <3>1
    <3>3. lsn = m BY <1>2, <1>3, <3>1, <3>2
    <3> QED BY <1>5, <3>1, <3>3
  <2> QED BY <2>3, <2>4
<1>10. Asking' BY <1>1 DEF IInv, Asking
<1>11. Closing'
  <2>1. ~(final /\ coordinator \in {"prepare", "commit", "closed"})
    BY <1>1 DEF IInv, Closing, LatchOpen
  <2>2. \A t \in Subtasks : thread[t] = "done" => Remaining(t)' = Remaining(t)
    BY <1>1, <1>5 DEF Remaining
  <2> QED BY <1>1, <2>1, <2>2 DEF IInv, Closing
<1> QED BY <1>4, <1>6, <1>7, <1>8, <1>9, <1>10, <1>11 DEF IInv

\* A thread that ends, well or not.
LEMMA EndStep == ASSUME IInv, NEW s \in Subtasks, Finish(s) \/ Die(s) PROVE IInv'
<1>1. /\ thread[s] = "running"
      /\ \/ Remaining(s) = {} /\ thread' = [thread EXCEPT ![s] = "done"]
         \/ thread' = [thread EXCEPT ![s] = "dead"]
      /\ events' = events /\ taken' = taken /\ buffer' = buffer /\ requests' = requests
      /\ coordinator' = coordinator /\ asked' = asked /\ final' = final /\ cp' = cp
      /\ commits' = commits /\ table' = table /\ posdels' = posdels
  BY DEF Finish, Die, coordVars, tableVars
<1>2. TypeOK' BY <1>1 DEF IInv, TypeOK
<1>3. RowsAreEvents' /\ OneRowEach' /\ DeletesComeWithRows' /\ SubtaskOrder' /\ PositionDeletes'
  <2>1. \A t \in Subtasks : taken[t] <= taken'[t] BY <1>1 DEF IInv, TypeOK
  <2> QED BY <1>1, <1>2, <2>1, TableUnchanged DEF tableVars
<1>4. OwnOnly' /\ Ordered' /\ Kept' /\ Asking'
  BY <1>1 DEF IInv, OwnOnly, Ordered, Kept, Asking, Waiting, Committed
<1>5. Closing'
  <2>1. \A t \in Subtasks : Remaining(t)' = Remaining(t) BY <1>1 DEF Remaining
  <2>2. \A t \in Subtasks : thread'[t] = "running" => thread[t] = "running"
    BY <1>1 DEF IInv, TypeOK
  <2>3. \A t \in Subtasks : thread'[t] = "done" => Remaining(t) = {}
    BY <1>1 DEF IInv, TypeOK, Closing
  <2> QED BY <1>1, <2>1, <2>2, <2>3 DEF IInv, Closing, LatchOpen
<1> QED BY <1>2, <1>3, <1>4, <1>5 DEF IInv

\* The coordinator decides, sleeps, or starts a barrier that has asked nobody yet.
LEMMA BarrierStarts == ASSUME IInv, Check \/ Wake \/ Await PROVE IInv'
<1>1. /\ events' = events /\ thread' = thread /\ taken' = taken /\ buffer' = buffer
      /\ commits' = commits /\ table' = table /\ posdels' = posdels
  BY DEF Check, Wake, Await, StartBarrier, writerVars, tableVars
<1>2. ~Waiting /\ coordinator # "aborted" BY DEF Check, Wake, Await, Waiting
<1>3. \A t \in Subtasks : Remaining(t)' = Remaining(t) BY <1>1 DEF Remaining
<1>4. ASSUME TypeOK' PROVE RowsAreEvents' /\ OneRowEach' /\ DeletesComeWithRows' /\ SubtaskOrder' /\ PositionDeletes'
  <2>1. \A t \in Subtasks : taken[t] <= taken'[t] BY <1>1 DEF IInv, TypeOK
  <2> QED BY <1>1, <1>4, <2>1, TableUnchanged DEF tableVars
<1>5. CASE Check
  <2>1. /\ requests' = requests /\ asked' = asked /\ final' = final /\ cp' = cp
        /\ coordinator' \in {"sleep", "await"}
    BY <1>5 DEF Check
  <2>2. TypeOK' BY <1>1, <2>1 DEF IInv, TypeOK
  <2>3. OwnOnly' /\ Ordered' /\ Kept' /\ Asking'
    BY <1>1, <1>2, <2>1 DEF IInv, OwnOnly, Ordered, Kept, Asking, Waiting, Committed
  <2>4. Closing' BY <1>1, <1>3, <2>1 DEF IInv, Closing
  <2> QED BY <1>4, <2>2, <2>3, <2>4 DEF IInv
<1>6. CASE Wake \/ Await
  <2>1. requests' = NoRequests /\ asked' = 0 /\ cp' = cp + 1 /\ coordinator' = "prepare"
    BY <1>6 DEF Wake, Await, StartBarrier
  <2>2. final' = FALSE \/ (final' = TRUE /\ LatchOpen) BY <1>6 DEF Wake, Await, StartBarrier
  <2>3. \A t \in Subtasks : requests'[t] = {} BY <2>1 DEF NoRequests
  <2>4. TypeOK'
    <3>1. requests' \in [Subtasks -> SUBSET Lsns] BY <2>1 DEF NoRequests
    <3>2. final' \in BOOLEAN BY <2>2
    <3> QED BY <1>1, <2>1, <3>1, <3>2 DEF IInv, TypeOK
  <2>5. OwnOnly' /\ Ordered' BY <1>1, <2>3 DEF IInv, OwnOnly, Ordered
  <2>6. Kept' BY <1>1, <1>2, <2>1 DEF IInv, Kept, Committed
  <2>7. 0 \in Subtasks /\ \A t \in Subtasks : t \in Nat BY SubtasksInOrder
  <2>8. Asking' BY <2>1, <2>3, <2>7 DEF Asking
  <2>9. Closing'
    <3>1. final' => LatchOpen' BY <1>1, <2>2 DEF LatchOpen
    <3>2. \A t \in Subtasks : ~(t < asked') BY <2>1, <2>7
    <3> QED BY <1>1, <1>3, <2>1, <3>1, <3>2 DEF IInv, Closing
  <2> QED BY <1>4, <2>4, <2>5, <2>6, <2>8, <2>9 DEF IInv
<1> QED BY <1>5, <1>6

\* One writer hands over all it holds.
LEMMA PrepareStep == ASSUME IInv, Prepare PROVE IInv'
<1>1. /\ coordinator = "prepare" /\ asked \in Subtasks
      /\ requests' = [requests EXCEPT ![asked] = buffer[asked]]
      /\ buffer' = [buffer EXCEPT ![asked] = {}]
      /\ asked' = asked + 1
      /\ coordinator' = IF asked + 1 \in Subtasks THEN "prepare" ELSE "commit"
      /\ events' = events /\ thread' = thread /\ taken' = taken
      /\ final' = final /\ cp' = cp
      /\ commits' = commits /\ table' = table /\ posdels' = posdels
  BY DEF IInv, Asking, Prepare, writerVars, tableVars
<1>2. \A t \in Subtasks :
        /\ requests'[t] = IF t = asked THEN buffer[asked] ELSE requests[t]
        /\ buffer'[t] = IF t = asked THEN {} ELSE buffer[t]
  BY <1>1 DEF IInv, TypeOK
<1>3. PICK n \in Nat : Subtasks = 0..n BY SubtasksInOrder
<1>4. asked \in Nat BY DEF IInv, TypeOK
<1>5. requests[asked] = {} BY <1>1, <1>4 DEF IInv, Asking
<1>6. Waiting /\ Waiting' BY <1>1 DEF Waiting
<1>7. TypeOK' BY <1>1 DEF IInv, TypeOK
<1>8. RowsAreEvents' /\ OneRowEach' /\ DeletesComeWithRows' /\ SubtaskOrder' /\ PositionDeletes'
  <2>1. \A t \in Subtasks : taken[t] <= taken'[t] BY <1>1 DEF IInv, TypeOK
  <2> QED BY <1>1, <1>7, <2>1, TableUnchanged DEF tableVars
<1>9. OwnOnly' BY <1>1, <1>2 DEF IInv, OwnOnly
<1>10. Ordered' BY <1>1, <1>2, <1>6 DEF IInv, Ordered
<1>11. Kept'
  <2>1. SUFFICES ASSUME NEW lsn \in Lsns, lsn <= taken[events[lsn].subtask]
                 PROVE  \/ lsn \in buffer'[events[lsn].subtask]
                        \/ lsn \in requests'[events[lsn].subtask]
                        \/ lsn \in Committed
    BY <1>1, <1>6 DEF Kept, Committed
  <2>2. events[lsn].subtask \in Subtasks BY DEF IInv, TypeOK
  <2>3. \/ lsn \in buffer[events[lsn].subtask]
        \/ lsn \in requests[events[lsn].subtask]
        \/ lsn \in Committed
    BY <1>1, <2>1 DEF IInv, Kept
  <2> QED BY <1>2, <1>5, <2>2, <2>3
<1>12. Asking'
  <2>1. CASE asked + 1 \in Subtasks
    <3>1. \A t \in Subtasks : t >= asked + 1 => requests'[t] = {}
      BY <1>1, <1>2, <1>3, <1>4 DEF IInv, Asking
    <3> QED BY <1>1, <2>1, <3>1 DEF Asking
  <2>2. CASE asked + 1 \notin Subtasks
    <3>1. \A t \in Subtasks : t < asked + 1 BY <1>1, <1>3, <1>4, <2>2
    <3> QED BY <1>1, <2>2, <3>1 DEF Asking
  <2> QED BY <2>1, <2>2
<1>13. Closing'
  <2>1. \A t \in Subtasks : Remaining(t)' = Remaining(t) BY <1>1 DEF Remaining
  <2>2. ASSUME final, NEW t \in Subtasks, t < asked + 1 PROVE buffer'[t] = {}
    <3>1. t = asked \/ t < asked BY <1>3, <1>4, <2>2
    <3> QED BY <1>1, <1>2, <2>2, <3>1 DEF IInv, Closing
  <2> QED BY <1>1, <2>1, <2>2 DEF IInv, Closing, LatchOpen
<1> QED BY <1>7, <1>8, <1>9, <1>10, <1>11, <1>12, <1>13 DEF IInv

\* A commit with nothing in it, or one that throws.
LEMMA NoCommitStep ==
    ASSUME IInv, \/ CommitAll /\ AllRequested = {}
                 \/ CommitFails
    PROVE  IInv'
<1>1. /\ coordinator = "commit"
      /\ \/ coordinator' = "aborted"
         \/ AllRequested = {} /\ coordinator' = AfterCommit
      /\ events' = events /\ thread' = thread /\ taken' = taken /\ buffer' = buffer
      /\ requests' = requests /\ asked' = asked /\ final' = final /\ cp' = cp
      /\ commits' = commits /\ table' = table /\ posdels' = posdels
  BY DEF CommitAll, CommitFails, writerVars, tableVars
<1>2. coordinator' \in {"aborted", "closed", "check"} /\ (coordinator' = "closed" => final)
  BY <1>1 DEF AfterCommit
<1>3. TypeOK' BY <1>1, <1>2 DEF IInv, TypeOK
<1>4. RowsAreEvents' /\ OneRowEach' /\ DeletesComeWithRows' /\ SubtaskOrder' /\ PositionDeletes'
  <2>1. \A t \in Subtasks : taken[t] <= taken'[t] BY <1>1 DEF IInv, TypeOK
  <2> QED BY <1>1, <1>3, <2>1, TableUnchanged DEF tableVars
<1>5. OwnOnly' BY <1>1 DEF IInv, OwnOnly
<1>6. Ordered' BY <1>1, <1>2 DEF IInv, Ordered, Waiting
<1>7. Kept'
  <2>1. CASE coordinator' = "aborted" BY <2>1 DEF Kept
  <2>2. CASE coordinator' # "aborted"
    <3>1. \A t \in Subtasks : requests[t] = {} BY <1>1, <2>2 DEF AllRequested
    <3>2. \A lsn \in Lsns : events[lsn].subtask \in Subtasks BY DEF IInv, TypeOK
    <3> QED BY <1>1, <3>1, <3>2 DEF IInv, Kept, Committed
  <2> QED BY <2>1, <2>2
<1>8. Asking' BY <1>1, <1>2 DEF IInv, Asking
<1>9. Closing'
  <2>1. \A t \in Subtasks : Remaining(t)' = Remaining(t) BY <1>1 DEF Remaining
  <2> QED BY <1>1, <1>2, <2>1 DEF IInv, Closing, LatchOpen
<1> QED BY <1>3, <1>4, <1>5, <1>6, <1>7, <1>8, <1>9 DEF IInv

\* What a commit adds: a row and a delete for every event handed over, and a position
\* delete for every one that is written again in the batch.
LEMMA CommitAdds ==
    ASSUME IInv, CommitAll, AllRequested # {}
    PROVE  /\ AllRequested \subseteq Lsns
           /\ \A lsn \in AllRequested : lsn \in requests[events[lsn].subtask]
           /\ \A s \in Subtasks : requests[s] \subseteq AllRequested
           /\ \A r : r \in table'.data <=>
                     \/ r \in table.data
                     \/ \E lsn \in AllRequested :
                            r = [commit |-> cp, part |-> events[lsn].subtask,
                                 key |-> events[lsn].key, ver |-> lsn,
                                 file |-> <<cp, events[lsn].subtask>>, seq |-> commits + 1]
           /\ \A d : d \in table'.dels <=>
                     \/ d \in table.dels
                     \/ \E lsn \in AllRequested : d = [key |-> events[lsn].key, seq |-> commits + 1]
           /\ \A lsn : lsn \in posdels' <=>
                     \/ lsn \in posdels
                     \/ /\ lsn \in AllRequested
                        /\ \E later \in AllRequested :
                              /\ later > lsn /\ events[later].key = events[lsn].key
                              /\ events[later].subtask = events[lsn].subtask
           /\ DOMAIN table' = {"data", "dels"} /\ table' = [data |-> table'.data, dels |-> table'.dels]
<1>1. AllRequested \subseteq Lsns BY DEF IInv, TypeOK, AllRequested
<1>2. \A s \in Subtasks : \A lsn \in requests[s] : events[lsn].subtask = s BY DEF IInv, OwnOnly
<1>3. \A lsn \in AllRequested : lsn \in requests[events[lsn].subtask]
  BY <1>2 DEF AllRequested
<1>4. \A s \in Subtasks : requests[s] \subseteq AllRequested BY DEF AllRequested
<1>5. \A lsn \in AllRequested : events[lsn].subtask \in Subtasks BY <1>1 DEF IInv, TypeOK
<1> DEFINE RowFor(lsn) == [commit |-> cp, part |-> events[lsn].subtask,
                           key |-> events[lsn].key, ver |-> lsn,
                           file |-> <<cp, events[lsn].subtask>>, seq |-> commits + 1]
           New == UNION {Written(s) : s \in Subtasks}
           NewDels == {[key |-> events[lsn].key, seq |-> commits + 1] : lsn \in AllRequested}
<1>6. \A r : r \in New <=> \E lsn \in AllRequested : r = RowFor(lsn)
  <2>1. ASSUME NEW s \in Subtasks, NEW lsn \in requests[s]
        PROVE  [commit |-> cp, part |-> s, key |-> events[lsn].key, ver |-> lsn,
                file |-> <<cp, s>>, seq |-> commits + 1] = RowFor(lsn)
    BY <1>2
  <2>2. \A s \in Subtasks : Written(s) = {RowFor(lsn) : lsn \in requests[s]}
    BY <2>1 DEF Written
  <2> HIDE DEF RowFor
  <2> QED BY <1>3, <1>4, <1>5, <2>2
<1>7. /\ table' = [data |-> table.data \cup New, dels |-> table.dels \cup NewDels]
      /\ posdels' = posdels \cup UNION {Overwritten(s) : s \in Subtasks}
  BY DEF CommitAll
<1>8. \A lsn : lsn \in UNION {Overwritten(s) : s \in Subtasks} <=>
                /\ lsn \in AllRequested
                /\ \E later \in AllRequested :
                      /\ later > lsn /\ events[later].key = events[lsn].key
                      /\ events[later].subtask = events[lsn].subtask
  BY <1>2, <1>3, <1>4, <1>5 DEF Overwritten
<1> HIDE DEF RowFor, New
<1>9. table'.data = table.data \cup New /\ table'.dels = table.dels \cup NewDels BY <1>7
<1>10. table' = [data |-> table'.data, dels |-> table'.dels] /\ DOMAIN table' = {"data", "dels"}
  BY <1>7
<1> QED BY <1>1, <1>3, <1>4, <1>6, <1>7, <1>8, <1>9, <1>10 DEF RowFor

\* A commit of what the writers handed over keeps the invariant.
LEMMA CommitStep == ASSUME IInv, CommitAll, AllRequested # {} PROVE IInv'
<1> DEFINE RowFor(lsn) == [commit |-> cp, part |-> events[lsn].subtask,
                           key |-> events[lsn].key, ver |-> lsn,
                           file |-> <<cp, events[lsn].subtask>>, seq |-> commits + 1]
           DelFor(lsn) == [key |-> events[lsn].key, seq |-> commits + 1]
<1>1. /\ coordinator = "commit" /\ coordinator' \in {"closed", "check"}
      /\ coordinator' = "closed" => final
      /\ commits' = commits + 1
      /\ events' = events /\ thread' = thread /\ taken' = taken /\ buffer' = buffer
      /\ requests' = requests /\ asked' = asked /\ final' = final /\ cp' = cp
  BY DEF CommitAll, AfterCommit, writerVars
<1>2. /\ AllRequested \subseteq Lsns
      /\ \A lsn \in AllRequested : lsn \in requests[events[lsn].subtask]
      /\ \A s \in Subtasks : requests[s] \subseteq AllRequested
  BY CommitAdds
<1>3. \A r : r \in table'.data <=> r \in table.data \/ \E lsn \in AllRequested : r = RowFor(lsn)
  BY CommitAdds
<1>4. \A d : d \in table'.dels <=> d \in table.dels \/ \E lsn \in AllRequested : d = DelFor(lsn)
  BY CommitAdds
<1>5. \A lsn : lsn \in posdels' <=>
         \/ lsn \in posdels
         \/ /\ lsn \in AllRequested
            /\ \E later \in AllRequested :
                  /\ later > lsn /\ events[later].key = events[lsn].key
                  /\ events[later].subtask = events[lsn].subtask
  BY CommitAdds
<1>6. table' = [data |-> table'.data, dels |-> table'.dels] BY CommitAdds
<1>7. \A lsn \in Lsns : events[lsn].key \in Keys /\ events[lsn].subtask \in Subtasks /\ lsn \in Nat
  BY LsnsAreNumbers DEF IInv, TypeOK
<1>8. Subtasks \subseteq Nat /\ commits \in Nat /\ cp \in Nat BY SubtasksInOrder DEF IInv, TypeOK
<1>9. Waiting BY <1>1 DEF Waiting
<1>10. \A lsn \in Lsns : /\ RowFor(lsn).ver = lsn /\ RowFor(lsn).key = events[lsn].key
                         /\ RowFor(lsn).part = events[lsn].subtask
                         /\ RowFor(lsn).seq = commits + 1
                         /\ RowFor(lsn).file[2] = events[lsn].subtask
                         /\ RowFor(lsn) \in Row(Keys, Lsns)
                         /\ DelFor(lsn) \in Del(Keys)
                         /\ DelFor(lsn).seq = commits + 1
                         /\ [key |-> RowFor(lsn).key, seq |-> RowFor(lsn).seq] = DelFor(lsn)
  <2>1. TAKE lsn \in Lsns
  <2>2. events[lsn].key \in Keys /\ events[lsn].subtask \in Nat /\ commits + 1 \in Nat /\ cp \in Nat
    <3>1. events[lsn].key \in Keys /\ events[lsn].subtask \in Subtasks BY <1>7
    <3>2. events[lsn].subtask \in Nat BY <1>8, <3>1
    <3> QED BY <1>8, <3>1, <3>2
  <2>3. <<cp, events[lsn].subtask>> \in File BY <2>2 DEF File
  <2>4. RowFor(lsn) \in Row(Keys, Lsns) BY <2>2, <2>3 DEF Row
  <2>5. DelFor(lsn) \in Del(Keys) BY <2>2 DEF Del
  <2>6. /\ RowFor(lsn).ver = lsn /\ RowFor(lsn).key = events[lsn].key
        /\ RowFor(lsn).part = events[lsn].subtask /\ RowFor(lsn).seq = commits + 1
        /\ RowFor(lsn).file = <<cp, events[lsn].subtask>> /\ DelFor(lsn).seq = commits + 1
    OBVIOUS
  <2>7. [key |-> RowFor(lsn).key, seq |-> RowFor(lsn).seq] = DelFor(lsn) OBVIOUS
  <2> HIDE DEF RowFor, DelFor
  <2>8. RowFor(lsn).file[2] = events[lsn].subtask BY <2>6
  <2> QED BY <2>4, <2>5, <2>6, <2>7, <2>8
<1>11. \A r \in table.data : /\ r.ver \in Lsns /\ r.ver \in Nat /\ r.seq \in Nat /\ r.seq <= commits
                             /\ r.part = events[r.ver].subtask
                             /\ r.key = events[r.ver].key
                             /\ r.ver <= taken[r.part] /\ r.file[2] = r.part
  BY LsnsAreNumbers DEF IInv, TypeOK, Table, Row, RowsAreEvents
<1>12. ASSUME NEW r \in table.data, NEW lsn \in AllRequested, r.part = events[lsn].subtask
       PROVE  r.ver < lsn
  <2>1. events[lsn].subtask \in Subtasks /\ lsn \in requests[events[lsn].subtask]
    BY <1>2, <1>7
  <2> QED BY <1>9, <1>12, <2>1 DEF IInv, Ordered
<1> HIDE DEF RowFor, DelFor
<1>13. TypeOK'
  <2>1. table' \in Table(Keys, Lsns)
    <3>1. table'.data \subseteq Row(Keys, Lsns) /\ table'.dels \subseteq Del(Keys)
      BY <1>2, <1>3, <1>4, <1>10 DEF IInv, TypeOK, Table
    <3> QED BY <1>6, <3>1 DEF Table
  <2>2. IsFiniteSet(table'.dels)
    <3> DEFINE NewDels == {DelFor(lsn) : lsn \in AllRequested}
    <3>1. IsFiniteSet(AllRequested) BY <1>2, LsnsAreNumbers, FS_Subset
    <3>2. /\ [lsn \in AllRequested |-> DelFor(lsn)] \in [AllRequested -> NewDels]
          /\ \A d \in NewDels : \E lsn \in AllRequested :
                [m \in AllRequested |-> DelFor(m)][lsn] = d
      OBVIOUS
    <3>3. table'.dels = table.dels \cup NewDels BY <1>4
    <3> HIDE DEF NewDels
    <3>4. IsFiniteSet(NewDels) BY <3>1, <3>2, FiniteImage
    <3>5. IsFiniteSet(table.dels) BY DEF IInv, TypeOK
    <3>6. IsFiniteSet(table.dels \cup NewDels) BY <3>4, <3>5, FS_Union
    <3> QED BY <3>3, <3>6
  <2>3. posdels' \subseteq Lsns BY <1>2, <1>5 DEF IInv, TypeOK
  <2>4. commits' \in Nat BY <1>1, <1>8
  <2>5. coordinator' \in {"closed", "check"} BY <1>1
  <2> QED BY <1>1, <2>1, <2>2, <2>3, <2>4, <2>5 DEF IInv, TypeOK
<1>14. OwnOnly' BY <1>1 DEF IInv, OwnOnly
<1>15. RowsAreEvents'
  <2>1. SUFFICES ASSUME NEW r \in table'.data
                 PROVE  /\ r.key = events[r.ver].key /\ r.part = events[r.ver].subtask
                        /\ r.ver <= taken[r.part] /\ r.seq <= commits + 1 /\ r.file[2] = r.part
    BY <1>1 DEF RowsAreEvents
  <2>2. CASE r \in table.data BY <1>8, <1>11, <2>2
  <2>3. ASSUME NEW lsn \in AllRequested, r = RowFor(lsn)
        PROVE  /\ r.key = events[r.ver].key /\ r.part = events[r.ver].subtask
               /\ r.ver <= taken[r.part] /\ r.seq <= commits + 1 /\ r.file[2] = r.part
    <3>1. lsn \in Lsns /\ lsn \in requests[events[lsn].subtask] /\ events[lsn].subtask \in Subtasks
      BY <1>2, <1>7
    <3>2. lsn <= taken[events[lsn].subtask] BY <3>1 DEF IInv, OwnOnly
    <3> QED BY <1>8, <1>10, <2>3, <3>1, <3>2
  <2> QED BY <1>3, <2>2, <2>3
<1>16. Ordered'
  <2>1. ~Waiting' BY <1>1 DEF Waiting
  <2>2. ASSUME NEW s \in Subtasks, NEW r \in table'.data, r.part = s, NEW m \in buffer[s]
        PROVE  r.ver < m
    <3>1. CASE r \in table.data BY <2>2, <3>1 DEF IInv, Ordered
    <3>2. ASSUME NEW lsn \in AllRequested, r = RowFor(lsn) PROVE r.ver < m
      <4>1. lsn \in requests[s] /\ r.ver = lsn BY <1>2, <1>10, <2>2, <3>2
      <4> QED BY <1>9, <2>2, <4>1 DEF IInv, Ordered
    <3> QED BY <1>3, <3>1, <3>2
  <2> QED BY <1>1, <2>1, <2>2 DEF Ordered
<1>17. Kept'
  <2>1. \A lsn \in Lsns : lsn \in Committed' <=> lsn \in Committed \/ lsn \in AllRequested
    BY <1>2, <1>3, <1>10 DEF Committed
  <2>2. \A lsn \in Lsns : lsn \in requests[events[lsn].subtask] => lsn \in AllRequested
    BY <1>2, <1>7
  <2> QED BY <1>1, <2>1, <2>2 DEF IInv, Kept
<1>18. Asking' BY <1>1 DEF IInv, Asking
<1>19. Closing'
  <2>1. \A t \in Subtasks : Remaining(t)' = Remaining(t) BY <1>1 DEF Remaining
  <2> QED BY <1>1, <2>1 DEF IInv, Closing, LatchOpen
<1>20. OneRowEach'
  <2>1. SUFFICES ASSUME NEW q \in table'.data, NEW r \in table'.data, q.ver = r.ver PROVE q = r
    BY DEF OneRowEach
  <2>2. ASSUME NEW x \in table.data, NEW lsn \in AllRequested PROVE x.ver # lsn
    BY <1>11, <1>12
  <2> QED BY <1>2, <1>3, <1>10, <2>1, <2>2 DEF IInv, OneRowEach
<1>21. DeletesComeWithRows'
  <2>1. \A r \in table'.data : [key |-> r.key, seq |-> r.seq] \in table'.dels
    <3>1. TAKE r \in table'.data
    <3>2. CASE r \in table.data BY <1>4, <3>2 DEF IInv, DeletesComeWithRows
    <3>3. ASSUME NEW lsn \in AllRequested, r = RowFor(lsn)
          PROVE  [key |-> r.key, seq |-> r.seq] \in table'.dels
      <4>1. [key |-> r.key, seq |-> r.seq] = DelFor(lsn) BY <1>2, <1>10, <3>3
      <4> QED BY <1>4, <4>1
    <3> QED BY <1>3, <3>2, <3>3
  <2>2. ASSUME NEW d \in table'.dels PROVE d.seq <= commits + 1
    <3>1. CASE d \in table.dels
      <4>1. d.seq \in Nat BY <3>1 DEF IInv, TypeOK, Table, Del
      <4>2. d.seq <= commits BY <3>1 DEF IInv, DeletesComeWithRows
      <4> QED BY <1>8, <4>1, <4>2
    <3>2. CASE d \notin table.dels BY <1>2, <1>4, <1>8, <1>10, <3>2
    <3> QED BY <3>1, <3>2
  <2> QED BY <1>1, <2>1, <2>2 DEF DeletesComeWithRows
<1>22. SubtaskOrder'
  <2>1. SUFFICES ASSUME NEW q \in table'.data, NEW r \in table'.data, q.part = r.part, q.ver > r.ver
                 PROVE  q.seq >= r.seq
    BY DEF SubtaskOrder
  <2>2. CASE q \in table.data /\ r \in table.data BY <2>1, <2>2 DEF IInv, SubtaskOrder
  <2>3. ASSUME NEW lsn \in AllRequested, q = RowFor(lsn) PROVE q.seq >= r.seq
    BY <1>2, <1>3, <1>8, <1>10, <1>11, <2>3
  <2>4. ASSUME q \in table.data, NEW lsn \in AllRequested, r = RowFor(lsn) PROVE FALSE
    <3>1. r.ver = lsn /\ r.part = events[lsn].subtask BY <1>2, <1>10, <2>4
    <3>2. q.ver < lsn BY <1>12, <2>1, <2>4, <3>1
    <3>3. q.ver \in Nat /\ lsn \in Nat BY <1>2, <1>7, <1>11, <2>4
    <3> QED BY <2>1, <3>1, <3>2, <3>3
  <2> QED BY <1>3, <2>2, <2>3, <2>4
<1>23. PositionDeletes'
  <2>1. ASSUME NEW q \in table'.data, NEW r \in table'.data,
               q.part = r.part, q.key = r.key, q.seq = r.seq, q.ver > r.ver
        PROVE  r.ver \in posdels'
    <3>1. CASE q \in table.data /\ r \in table.data
      BY <1>5, <2>1, <3>1 DEF IInv, PositionDeletes
    <3>2. ASSUME NEW x \in table.data, NEW lsn \in AllRequested PROVE x.seq # RowFor(lsn).seq
      BY <1>2, <1>8, <1>10, <1>11
    <3>3. ASSUME NEW l \in AllRequested, q = RowFor(l), NEW m \in AllRequested, r = RowFor(m)
          PROVE  r.ver \in posdels'
      BY <1>2, <1>5, <1>10, <2>1, <3>3
    <3> QED BY <1>3, <2>1, <3>1, <3>2, <3>3
  <2>2. ASSUME NEW lsn \in posdels'
        PROVE  \E q, r \in table'.data :
                   r.ver = lsn /\ q.key = r.key /\ q.seq = r.seq /\ q.ver > r.ver
    <3>1. CASE lsn \in posdels BY <1>3, <3>1 DEF IInv, PositionDeletes
    <3>2. ASSUME lsn \in AllRequested, NEW later \in AllRequested,
                 later > lsn, events[later].key = events[lsn].key
          PROVE  \E q, r \in table'.data :
                     r.ver = lsn /\ q.key = r.key /\ q.seq = r.seq /\ q.ver > r.ver
      <4>1. RowFor(later) \in table'.data /\ RowFor(lsn) \in table'.data BY <1>3, <3>2
      <4> QED BY <1>2, <1>10, <3>2, <4>1
    <3> QED BY <1>5, <3>1, <3>2
  <2> QED BY <2>1, <2>2 DEF PositionDeletes
<1> QED BY <1>13, <1>14, <1>15, <1>16, <1>17, <1>18, <1>19, <1>20, <1>21, <1>22, <1>23 DEF IInv

\* The invariant holds throughout.
THEOREM SinkInvariant == Spec => []IInv
<1>1. ASSUME IInv, [Next]_vars PROVE IInv'
  <2>1. CASE \E s \in Subtasks : Subtask(s) BY <1>1, <2>1, WriteStep, EndStep DEF Subtask
  <2>2. CASE Coordinator
    BY <1>1, <2>2, BarrierStarts, PrepareStep, NoCommitStep, CommitStep DEF Coordinator
  <2>3. CASE UNCHANGED vars
    <3>1. /\ events' = events /\ thread' = thread /\ taken' = taken /\ buffer' = buffer
          /\ requests' = requests /\ coordinator' = coordinator /\ asked' = asked
          /\ final' = final /\ cp' = cp /\ commits' = commits /\ table' = table
          /\ posdels' = posdels
      BY <2>3 DEF vars, writerVars, coordVars, tableVars
    <3>2. TypeOK' BY <1>1, <3>1 DEF IInv, TypeOK
    <3>3. \A t \in Subtasks : taken[t] <= taken'[t] BY <1>1, <3>1 DEF IInv, TypeOK
    <3>4. RowsAreEvents' /\ OneRowEach' /\ DeletesComeWithRows' /\ SubtaskOrder' /\ PositionDeletes'
      BY <1>1, <3>1, <3>2, <3>3, TableUnchanged DEF tableVars
    <3>5. OwnOnly' /\ Ordered' /\ Kept' /\ Asking' /\ Closing'
      BY <1>1, <3>1
         DEF IInv, OwnOnly, Ordered, Kept, Asking, Closing, Waiting, Committed, Remaining, LatchOpen
    <3> QED BY <3>2, <3>4, <3>5 DEF IInv
  <2> QED BY <1>1, <2>1, <2>2, <2>3 DEF Next
<1> QED BY <1>1, Initially, PTL DEF Spec

-----------------------------------------------------------------------------
\* The properties.

\* Of four conditions that exclude each other and one of which holds, one holds.
LEMMA ExactlyOne ==
    ASSUME NEW a \in BOOLEAN, NEW b \in BOOLEAN, NEW c \in BOOLEAN, NEW d \in BOOLEAN,
           a \/ b \/ c \/ d,
           ~(a /\ b) /\ ~(a /\ c) /\ ~(a /\ d) /\ ~(b /\ c) /\ ~(b /\ d) /\ ~(c /\ d)
    PROVE  Cardinality({i \in 1..4 : <<a, b, c, d>>[i]}) = 1
<1> DEFINE p == <<a, b, c, d>>
<1>1. p[1] = a /\ p[2] = b /\ p[3] = c /\ p[4] = d BY Zenon
<1>2. 1..4 = {1, 2, 3, 4} OBVIOUS
<1> HIDE DEF p
<1>3. \E j \in {1, 2, 3, 4} : \A i \in {1, 2, 3, 4} : p[i] <=> i = j
  <2>1. 1 # 2 /\ 1 # 3 /\ 1 # 4 /\ 2 # 3 /\ 2 # 4 /\ 3 # 4 OBVIOUS
  <2> QED BY <1>1, <2>1, Zenon
<1>4. \E j : {i \in 1..4 : p[i]} = {j}
  <2>1. PICK j \in 1..4 : \A i \in 1..4 : p[i] <=> i = j BY <1>2, <1>3, Zenon
  <2>2. \A i : i \in {n \in 1..4 : p[n]} <=> i \in {j} BY <2>1, Zenon
  <2> QED BY <2>2, Zenon
<1>5. Cardinality({i \in 1..4 : p[i]}) = 1 BY <1>4, FS_Singleton
<1> QED BY <1>5 DEF p

\* The locks and the latch lose and repeat no event, whoever dies or throws.
THEOREM EventsAreConserved == Spec => []NothingLostOrTwice
<1>1. ASSUME IInv PROVE NothingLostOrTwice
  <2>1. ASSUME coordinator # "aborted", NEW lsn \in Lsns
        PROVE  LET s == events[lsn].subtask
                   waiting == coordinator = "commit" \/ coordinator = "prepare"
                   places == <<lsn \in Remaining(s), lsn \in buffer[s],
                               waiting /\ lsn \in requests[s], lsn \in Committed>>
               IN  Cardinality({i \in 1..4 : places[i]}) = 1
    <3> DEFINE s == events[lsn].subtask
               a == lsn \in Remaining(s)
               b == lsn \in buffer[s]
               c == (coordinator = "commit" \/ coordinator = "prepare") /\ lsn \in requests[s]
               d == lsn \in Committed
    <3>1. s \in Subtasks /\ lsn \in Nat /\ taken[s] \in Nat
      BY <1>1, LsnsAreNumbers DEF IInv, TypeOK
    <3>2. Waiting <=> coordinator = "commit" \/ coordinator = "prepare" BY DEF Waiting
    <3>3. a <=> lsn > taken[s] BY DEF Remaining
    <3>4. b \/ c => lsn <= taken[s] BY <1>1, <3>1 DEF IInv, OwnOnly
    <3>5. ASSUME d PROVE lsn <= taken[s] /\ ~b /\ ~c
      <4>1. PICK r \in table.data : r.ver = lsn BY <3>5 DEF Committed
      <4>2. r.part = s /\ lsn <= taken[s] BY <1>1, <4>1 DEF IInv, RowsAreEvents
      <4>3. \A m \in buffer[s] : lsn < m BY <1>1, <3>1, <4>1, <4>2 DEF IInv, Ordered
      <4>4. Waiting => \A m \in requests[s] : lsn < m
        BY <1>1, <3>1, <4>1, <4>2 DEF IInv, Ordered
      <4> QED BY <3>1, <3>2, <4>2, <4>3, <4>4
    <3>6. ~(b /\ c)
      <4>1. Waiting => \A l \in requests[s], m \in buffer[s] : l < m
        BY <1>1, <3>1 DEF IInv, Ordered
      <4> QED BY <3>1, <3>2, <4>1
    <3>7. lsn <= taken[s] => b \/ c \/ d BY <1>1, <2>1, <3>2 DEF IInv, Kept
    <3>8. a \in BOOLEAN /\ b \in BOOLEAN /\ c \in BOOLEAN /\ d \in BOOLEAN OBVIOUS
    <3>9. (lsn > taken[s]) <=> ~(lsn <= taken[s]) BY <3>1
    <3> HIDE DEF a, b, c, d
    <3>10. a \/ b \/ c \/ d BY <3>3, <3>7, <3>9
    <3>11. ~(a /\ b) /\ ~(a /\ c) /\ ~(a /\ d) /\ ~(b /\ c) /\ ~(b /\ d) /\ ~(c /\ d)
      BY <3>3, <3>4, <3>5, <3>6, <3>9
    <3>12. Cardinality({i \in 1..4 : <<a, b, c, d>>[i]}) = 1 BY <3>8, <3>10, <3>11, ExactlyOne
    <3> QED BY <3>12 DEF a, b, c, d
  <2>2. \A q, r \in table.data : q.ver = r.ver => q = r BY <1>1 DEF IInv, OneRowEach
  <2>3. ASSUME coordinator = "closed", NEW lsn \in Lsns, thread[events[lsn].subtask] # "dead"
        PROVE  lsn \in Committed
    <3> DEFINE s == events[lsn].subtask
    <3>1. s \in Subtasks /\ lsn \in Nat /\ taken[s] \in Nat
      BY <1>1, LsnsAreNumbers DEF IInv, TypeOK
    <3>2. thread[s] = "done" /\ buffer[s] = {}
      BY <1>1, <2>3, <3>1 DEF IInv, TypeOK, Closing, LatchOpen, Asking
    <3>3. lsn <= taken[s] BY <1>1, <3>1, <3>2 DEF IInv, Closing, Remaining
    <3> QED BY <1>1, <2>3, <3>2, <3>3 DEF IInv, Kept, Waiting
  <2> QED BY <2>1, <2>2, <2>3 DEF NothingLostOrTwice
<1> QED BY <1>1, SinkInvariant, PTL

-----------------------------------------------------------------------------
\* What the verification script finds.

\* What the invariant says of the table, for the lemmas about layouts.
LEMMA TableIs ==
    ASSUME IInv
    PROVE  /\ table \in Table(Keys, Lsns) /\ Lsns \subseteq Nat /\ Lsns \subseteq Nat \cup {NoVersion}
           /\ IsFiniteSet(table.dels) /\ IsFiniteSet(table.data)
           /\ \A r \in table.data : /\ r.key \in Keys /\ r.ver \in Lsns /\ r.ver \in Nat
                                   /\ r.ver # NoVersion /\ r.seq \in Nat /\ r.part \in Nat
<1>1. table \in Table(Keys, Lsns) /\ IsFiniteSet(table.dels) BY DEF IInv, TypeOK
<1>2. Lsns \subseteq Nat /\ IsFiniteSet(Lsns) BY LsnsAreNumbers
<1>3. \A r \in table.data : /\ r.key \in Keys /\ r.ver \in Lsns /\ r.ver \in Nat
                            /\ r.ver # NoVersion /\ r.seq \in Nat /\ r.part \in Nat
  BY <1>1, <1>2, NoVersionAssumption DEF Table, Row
<1>4. [r \in table.data |-> r.ver] \in Injection(table.data, Lsns)
  <2>1. [r \in table.data |-> r.ver] \in [table.data -> Lsns] BY <1>3
  <2> QED BY <2>1 DEF IInv, OneRowEach, Injection, IsInjective
<1> QED BY <1>1, <1>2, <1>3, <1>4, FS_Injection

\* A younger row of the key of a row that is served went through another subtask and
\* was not committed later.
LEMMA YoungerIsElsewhere ==
    ASSUME IInv, NEW k, NEW r \in Served(k), NEW q \in RowsOf(table.data, k), q.ver > r.ver
    PROVE  q.part # r.part /\ q.seq <= r.seq
<1>1. /\ r \in table.data /\ ~IsDeleted(table, r) /\ r.ver \notin posdels
      /\ q \in table.data /\ r.key = k /\ q.key = k
  BY DEF Served, RowsOf, LiveRows
<1>2. q.seq \in Nat /\ r.seq \in Nat BY <1>1, TableIs
<1>3. q.seq <= r.seq
  <2>1. [key |-> q.key, seq |-> q.seq] \in table.dels BY <1>1 DEF IInv, DeletesComeWithRows
  <2>2. ~(q.seq > r.seq) BY <1>1, <2>1 DEF IsDeleted
  <2> QED BY <1>2, <2>2
<1>4. q.part # r.part
  <2>1. SUFFICES ASSUME q.part = r.part PROVE FALSE OBVIOUS
  <2>2. q.seq = r.seq BY <1>1, <1>2, <1>3, <2>1 DEF IInv, SubtaskOrder
  <2> QED BY <1>1, <2>1, <2>2 DEF IInv, PositionDeletes
<1> QED BY <1>3, <1>4

\* A flagged key serves one row, and has a younger one.
LEMMA FlaggedIs ==
    ASSUME IInv, NEW k \in Flagged
    PROVE  /\ k \in Keys
           /\ \E s \in table.data, d \in RowsOf(table.data, k) : Served(k) = {s} /\ d.ver > s.ver
<1>1. k \in LayoutKeys(table) /\ Classify(Layout(table, k, TRUE, FALSE)) = "STALE_WINS"
  BY DEF Flagged, StaleWinsKeys, KeysWith
<1>2. PICK s : /\ RowsOf(LiveRows(table), k) = {s}
               /\ \E d \in RowsOf(table.data, k) : d.ver > s.ver
  BY <1>1, TableIs, StaleWinsMeaning
<1>3. s \in table.data /\ s.key = k /\ ~IsDeleted(table, s) BY <1>2 DEF RowsOf, LiveRows
<1>4. s.ver \notin posdels
  <2>1. SUFFICES ASSUME s.ver \in posdels PROVE FALSE OBVIOUS
  <2>2. PICK q, r \in table.data : r.ver = s.ver /\ q.key = r.key /\ q.seq = r.seq /\ q.ver > r.ver
    BY <2>1 DEF IInv, PositionDeletes
  <2>3. r = s BY <1>3, <2>2 DEF IInv, OneRowEach
  <2>4. q \in RowsOf(LiveRows(table), k) BY <1>3, <2>2, <2>3 DEF RowsOf, LiveRows, IsDeleted
  <2>5. q = s /\ s.ver \in Nat BY <1>2, <1>3, <2>4, TableIs
  <2> QED BY <2>2, <2>3, <2>5
<1>5. Served(k) = {s} BY <1>2, <1>4 DEF Served
<1>6. k \in Keys BY <1>3, TableIs
<1> QED BY <1>2, <1>3, <1>5, <1>6

\* The oracle holds every event, and so nothing younger than its last.
LEMMA OracleIsLast ==
    ASSUME IInv, NEW k, NEW d \in RowsOf(table.data, k)
    PROVE  OracleLatest(k) \in Nat /\ d.ver <= OracleLatest(k)
<1> DEFINE E == {lsn \in Lsns : events[lsn].key = k}
<1>1. E \in SUBSET Nat /\ IsFiniteSet(E) BY LsnsAreNumbers, FS_Subset
<1>2. d \in table.data /\ d.key = k BY DEF RowsOf
<1>3. d.ver \in E BY <1>2, TableIs DEF IInv, RowsAreEvents
<1> HIDE DEF E
<1>4. Max(E) \in E /\ \A y \in E : Max(E) >= y BY <1>1, <1>3, MaxMin
<1>5. d.ver \in Nat /\ Max(E) \in Nat BY <1>1, <1>3, <1>4
<1> QED BY <1>3, <1>4, <1>5 DEF OracleLatest, E

\* The rewritten table shows all it holds, and nothing in it is stale.
LEMMA RewrittenIs ==
    ASSUME IInv
    PROVE  /\ StaleWinsKeys(RaceRewritten) = {}
           /\ \A k \in Keys : Content(RowsOf(LiveRows(RaceRewritten), k)) = Content(Served(k))
<1> DEFINE T == RaceRewritten
           Moved(r) == [r EXCEPT !.file = <<cp + 1, 0>>, !.seq = commits]
           All == UNION {Served(k) : k \in Keys}
<1>1. \A k : Served(k) \subseteq {r \in table.data : r.key = k} BY DEF Served, RowsOf, LiveRows
<1>2. All \subseteq table.data BY <1>1
<1>3. T.data = {Moved(r) : r \in All} /\ T.dels = table.dels /\ T = [data |-> T.data, dels |-> T.dels]
  BY DEF RaceRewritten
<1>4. \A r \in table.data :
         /\ Moved(r) \in Row(Keys, Lsns) /\ Moved(r).seq = commits
         /\ Moved(r).commit = r.commit /\ Moved(r).part = r.part
         /\ Moved(r).key = r.key /\ Moved(r).ver = r.ver
  <2>1. TAKE r \in table.data
  <2>2. r \in Row(Keys, Lsns) BY TableIs DEF Table
  <2>3. <<cp + 1, 0>> \in File /\ commits \in Nat BY DEF IInv, TypeOK, File
  <2>4. Moved(r) \in Row(Keys, Lsns) BY <2>2, <2>3 DEF Row
  <2> QED BY <2>2, <2>4 DEF Row
<1> HIDE DEF T, Moved
<1>5. T \in Table(Keys, Lsns) BY <1>2, <1>3, <1>4, TableIs DEF Table
<1>6. IsFiniteSet(T.data)
  <2>1. IsFiniteSet(All) BY <1>2, TableIs, FS_Subset
  <2>2. [r \in All |-> Moved(r)] \in [All -> T.data] BY <1>3
  <2>3. \A t \in T.data : \E r \in All : [q \in All |-> Moved(q)][r] = t BY <1>3
  <2> HIDE DEF All
  <2> QED BY <2>1, <2>2, <2>3, FiniteImage
<1>7. \A t \in T.data : ~IsDeleted(T, t)
  <2>1. SUFFICES ASSUME NEW t \in T.data, NEW d \in table.dels PROVE ~(d.seq > t.seq)
    BY <1>3 DEF IsDeleted
  <2>2. t.seq = commits BY <1>2, <1>3, <1>4
  <2>3. d.seq \in Nat /\ commits \in Nat BY TableIs DEF IInv, TypeOK, Table, Del
  <2>4. d.seq <= commits BY DEF IInv, DeletesComeWithRows
  <2> QED BY <2>2, <2>3, <2>4
<1>8. LiveRows(T) = T.data BY <1>7 DEF LiveRows
<1>9. StaleWinsKeys(T) = {}
  <2>1. SUFFICES ASSUME NEW k, Classify(Layout(T, k, TRUE, FALSE)) = "STALE_WINS" PROVE FALSE
    BY DEF StaleWinsKeys, KeysWith
  <2>2. PICK s : /\ RowsOf(T.data, k) = {s}
                 /\ \E d \in RowsOf(T.data, k) : d.ver > s.ver
    <3>1. IsFiniteSet(T.dels) BY <1>3, TableIs
    <3> QED BY <1>5, <1>6, <1>8, <2>1, <3>1, TableIs, StaleWinsMeaning
  <2>3. s.ver > s.ver BY <2>2
  <2>4. s \in T.data BY <2>2 DEF RowsOf
  <2>5. s.ver \in Nat BY <1>5, <2>4, TableIs DEF Table, Row
  <2> QED BY <2>3, <2>5
<1>10. ASSUME NEW k \in Keys PROVE Content(RowsOf(LiveRows(T), k)) = Content(Served(k))
  <2>1. RowsOf(T.data, k) = {Moved(r) : r \in Served(k)}
    <3>1. \A r \in All : Moved(r).key = k <=> r \in Served(k)
      BY <1>1, <1>2, <1>4
    <3>2. Served(k) \subseteq All BY <1>10
    <3> HIDE DEF All
    <3> QED BY <1>3, <3>1, <3>2 DEF RowsOf
  <2>2. \A r \in Served(k) : r \in table.data BY <1>1
  <2> QED BY <1>4, <1>8, <2>1, <2>2 DEF Content
<1> QED BY <1>9, <1>10 DEF T

\* verify_parallel_race.py ends in failure over nothing but a stale key that the checker
\* did not flag, and whatever is served stale was overtaken through another subtask:
\* for every hash of the events, every interleaving, and every death or failed commit.
THEOREM RaceIsARace == Spec => []RaceFailsOnlyOnMissed
<1>1. ASSUME IInv PROVE RaceFailsOnlyOnMissed
  <2>1. ASSUME NEW k \in Keys, RowsOf(table.data, k) # {}, NEW r \in Served(k), r.ver < Latest(k)
        PROVE  \E q \in RowsOf(table.data, k) : q.ver > r.ver /\ q.part # r.part /\ q.seq <= r.seq
    <3> DEFINE V == {q.ver : q \in RowsOf(table.data, k)}
    <3>1. V \in SUBSET Lsns /\ V # {} BY <1>1, <2>1, TableIs DEF RowsOf
    <3>2. V \in SUBSET Nat /\ IsFiniteSet(V) BY <3>1, LsnsAreNumbers, FS_Subset
    <3>3. Max(V) \in V
      <4> HIDE DEF V
      <4> QED BY <3>1, <3>2, MaxMin
    <3>4. PICK q \in RowsOf(table.data, k) : q.ver = Latest(k) BY <3>3 DEF Latest
    <3>5. r \in table.data /\ q \in table.data BY DEF Served, RowsOf, LiveRows
    <3>6. q.ver > r.ver BY <1>1, <2>1, <3>4, <3>5, TableIs
    <3> QED BY <1>1, <3>6, YoungerIsElsewhere
  <2>2. ASSUME NEW k \in Flagged PROVE k \in StaleByOracle /\ Cardinality(Served(k)) = 1
    <3>1. PICK s \in table.data, d \in RowsOf(table.data, k) : Served(k) = {s} /\ d.ver > s.ver
      BY <1>1, FlaggedIs
    <3>2. Cardinality(Served(k)) = 1 BY <3>1, FS_Singleton
    <3>3. OracleLatest(k) \in Nat /\ d.ver <= OracleLatest(k) BY <1>1, OracleIsLast
    <3>4. d.ver \in Nat /\ s.ver \in Nat BY <1>1, TableIs DEF RowsOf
    <3>5. s.ver < OracleLatest(k) BY <3>1, <3>3, <3>4
    <3> QED BY <1>1, <3>1, <3>2, <3>5, FlaggedIs DEF StaleByOracle
  <2>3. ASSUME Flagged # {} PROVE Rewrites
    <3>1. PICK k \in Flagged : TRUE BY <2>3
    <3>2. PICK s \in table.data, d \in RowsOf(table.data, k) : Served(k) = {s} /\ d.ver > s.ver
      BY <1>1, FlaggedIs
    <3>3. d.part # s.part BY <1>1, <3>2, YoungerIsElsewhere
    <3>4. d \in table.data BY DEF RowsOf
    <3>5. d.file # s.file BY <1>1, <3>3, <3>4 DEF IInv, RowsAreEvents
    <3> DEFINE F == {r.file : r \in table.data}
    <3>6. IsFiniteSet(F)
      <4>1. [r \in table.data |-> r.file] \in [table.data -> F] OBVIOUS
      <4>2. \A f \in F : \E r \in table.data : [q \in table.data |-> q.file][r] = f OBVIOUS
      <4>3. IsFiniteSet(table.data) BY <1>1, TableIs
      <4> HIDE DEF F
      <4> QED BY <4>1, <4>2, <4>3, FiniteImage
    <3>7. d.file \in F /\ s.file \in F BY <3>4
    <3> HIDE DEF F
    <3>8. Cardinality(F) \in Nat /\ Cardinality(F) # 0 /\ Cardinality(F) # 1
      <4>1. F # {} BY <3>7
      <4>2. ~\E x : F = {x} BY <3>5, <3>7
      <4> QED BY <3>6, <4>1, <4>2, FS_CardinalityType, FS_EmptySet, FS_Singleton
    <3> QED BY <3>8 DEF Rewrites, F
  <2>4. ASSUME RaceOutcome = "fail" PROVE ~(StaleByOracle \subseteq Flagged)
    <3>1. Flagged # {} BY <2>4 DEF RaceOutcome
    <3>2. StaleWinsKeys(RaceRewritten) = {} BY <1>1, RewrittenIs
    <3>3. \A k \in Flagged : Content(RowsOf(LiveRows(RaceRewritten), k)) = Content(Served(k))
      BY <1>1, FlaggedIs, RewrittenIs
    <3>4. Flagged # StaleByOracle BY <2>3, <2>4, <3>1, <3>2, <3>3 DEF RaceOutcome
    <3> QED BY <2>2, <3>4
  <2> QED BY <2>1, <2>2, <2>4 DEF RaceFailsOnlyOnMissed
<1> QED BY <1>1, SinkInvariant, PTL

-----------------------------------------------------------------------------
\* Elements by rank.

\* R orders the elements of S strictly and totally.
OrdersAll(S, R) ==
    /\ \A x \in S : <<x, x>> \notin R
    /\ \A x, y, z \in S : <<x, y>> \in R /\ <<y, z>> \in R => <<x, z>> \in R
    /\ \A x, y \in S : x # y => <<x, y>> \in R \/ <<y, x>> \in R

\* How many come before x.
RankIn(S, R, x) == Cardinality({y \in S : <<y, x>> \in R})

\* f lists the elements of S in the order R.
Lists(f, S, R) ==
    /\ f \in [1..Cardinality(S) -> S]
    /\ \A x \in S : \E n \in 1..Cardinality(S) : f[n] = x
    /\ \A m, n \in 1..Cardinality(S) : m < n <=> <<f[m], f[n]>> \in R

\* In a finite strict total order no two elements have the same rank, and every rank is
\* taken (InOrder, the sorts of the three scripts).
LEMMA RanksAreTaken ==
    ASSUME NEW S, IsFiniteSet(S), NEW R, OrdersAll(S, R)
    PROVE  /\ \A x, y \in S : <<x, y>> \in R <=> RankIn(S, R, x) < RankIn(S, R, y)
           /\ \A x \in S : RankIn(S, R, x) \in 0..Cardinality(S) - 1
           /\ \A n \in 1..Cardinality(S) : \E x \in S : RankIn(S, R, x) = n - 1
<1> DEFINE Before(x) == {y \in S : <<y, x>> \in R}
           C == Cardinality(S)
<1>1. \A x \in S : Before(x) \subseteq S /\ IsFiniteSet(Before(x)) /\ x \notin Before(x) BY FS_Subset DEF OrdersAll
<1>2. \A x \in S : Cardinality(Before(x)) \in Nat /\ C \in Nat BY <1>1, FS_CardinalityType
<1>3. ASSUME NEW x \in S, NEW y \in S, <<x, y>> \in R
      PROVE  Cardinality(Before(x)) < Cardinality(Before(y))
  <2>1. Before(x) \in SUBSET Before(y) BY <1>3 DEF OrdersAll
  <2>2. x \in Before(y) /\ x \notin Before(x) BY <1>3, <1>1
  <2>3. Before(x) # Before(y) BY <2>2
  <2> HIDE DEF Before
  <2>4. /\ Cardinality(Before(x)) <= Cardinality(Before(y))
        /\ Cardinality(Before(x)) # Cardinality(Before(y))
    BY <1>1, <2>1, <2>3, FS_Subset
  <2> QED BY <1>2, <2>4
<1>4. \A x, y \in S : <<x, y>> \in R <=> Cardinality(Before(x)) < Cardinality(Before(y))
  <2> SUFFICES ASSUME NEW x \in S, NEW y \in S, <<x, y>> \notin R
               PROVE  ~(Cardinality(Before(x)) < Cardinality(Before(y)))
    BY <1>3
  <2>1. CASE x = y
    <3> HIDE DEF Before
    <3> QED BY <1>2, <2>1
  <2>2. CASE x # y
    <3>1. <<y, x>> \in R BY <2>2 DEF OrdersAll
    <3>2. Cardinality(Before(y)) < Cardinality(Before(x)) BY <1>3, <3>1
    <3> HIDE DEF Before
    <3> QED BY <1>2, <3>2
  <2> QED BY <2>1, <2>2
<1>5. \A x \in S : Cardinality(Before(x)) \in 0..C - 1
  <2> TAKE x \in S
  <2>1. Before(x) \in SUBSET S /\ Before(x) # S BY <1>1
  <2> HIDE DEF Before
  <2>2. Cardinality(Before(x)) <= C /\ Cardinality(Before(x)) # C BY <2>1, FS_Subset
  <2> QED BY <1>2, <2>2
<1>6. \A n \in 1..C : \E x \in S : Cardinality(Before(x)) = n - 1
  <2> DEFINE f == [x \in S |-> Cardinality(Before(x))]
             T == 0..C - 1
  <2>1. IsFiniteSet(T) /\ Cardinality(T) = C
    <3>1. 0 \in Int /\ C - 1 \in Int BY FS_CardinalityType
    <3> QED BY <3>1, FS_Interval, FS_CardinalityType
  <2>2. f \in [S -> T] BY <1>5
  <2>3. \A x, y \in S : f[x] = f[y] => x = y
    <3> SUFFICES ASSUME NEW x \in S, NEW y \in S, f[x] = f[y], x # y PROVE FALSE OBVIOUS
    <3>1. <<x, y>> \in R \/ <<y, x>> \in R BY DEF OrdersAll
    <3> HIDE DEF Before
    <3> QED BY <1>2, <1>4, <3>1
  <2>4. f \in Injection(S, T)
    <3> HIDE DEF f, T
    <3> QED BY <2>2, <2>3 DEF Injection, IsInjective
  <2>5. f \in Surjection(S, T)
    <3> HIDE DEF f, T
    <3> QED BY <2>1, <2>4, FS_Injection
  <2>6. \A t \in T : \E x \in S : f[x] = t
    <3> HIDE DEF f, T
    <3> QED BY <2>5 DEF Surjection
  <2>7. \A n \in 1..C : n - 1 \in T BY FS_CardinalityType
  <2> HIDE DEF T
  <2> QED BY <2>6, <2>7
<1> QED BY <1>4, <1>5, <1>6 DEF RankIn

\* A function that takes an element of each rank lists them in order.
LEMMA ListedByRank ==
    ASSUME NEW S, IsFiniteSet(S), NEW R, OrdersAll(S, R),
           NEW f, f = [n \in 1..Cardinality(S) |-> f[n]],
           \A n \in 1..Cardinality(S) :
               (\E x \in S : RankIn(S, R, x) = n - 1) => f[n] \in S /\ RankIn(S, R, f[n]) = n - 1
    PROVE  Lists(f, S, R)
<1> DEFINE C == Cardinality(S)
<1>1. C \in Nat BY FS_CardinalityType
<1>2. \A n \in 1..C : f[n] \in S /\ RankIn(S, R, f[n]) = n - 1 BY RanksAreTaken
<1>3. f \in [1..C -> S] BY <1>2
<1>4. \A m, n \in 1..C : m < n <=> <<f[m], f[n]>> \in R
  <2> SUFFICES ASSUME NEW m \in 1..C, NEW n \in 1..C PROVE m < n <=> <<f[m], f[n]>> \in R OBVIOUS
  <2>1. <<f[m], f[n]>> \in R <=> m - 1 < n - 1 BY <1>2, RanksAreTaken
  <2> QED BY <1>1, <2>1
<1>5. \A x \in S : \E n \in 1..C : f[n] = x
  <2> TAKE x \in S
  <2>1. RankIn(S, R, x) \in 0..C - 1 BY RanksAreTaken
  <2>2. PICK n \in 1..C : n = RankIn(S, R, x) + 1 BY <1>1, <2>1
  <2>3. RankIn(S, R, f[n]) = RankIn(S, R, x) BY <1>2, <2>1, <2>2
  <2>4. ~(<<f[n], x>> \in R) /\ ~(<<x, f[n]>> \in R)
    <3>1. RankIn(S, R, f[n]) \in 0..C - 1 BY <1>2, RanksAreTaken
    <3> QED BY <1>1, <1>2, <2>1, <2>3, <3>1, RanksAreTaken
  <2> QED BY <1>2, <2>4 DEF OrdersAll
<1> QED BY <1>3, <1>4, <1>5 DEF Lists

\* Numbers by size.
Ascending == {p \in Nat \X Nat : p[1] < p[2]}

NumbersUp(S) == InOrder(S, <)

\* InOrder with < lists a finite set of numbers from the smallest to the largest.
LEMMA NumbersInOrder ==
    ASSUME NEW S \in SUBSET Nat, IsFiniteSet(S)
    PROVE  Lists(NumbersUp(S), S, Ascending)
<1> DEFINE f == NumbersUp(S)
<1>1. OrdersAll(S, Ascending) BY DEF OrdersAll, Ascending
<1>2. \A x \in S : {y \in S : y < x} = {y \in S : <<y, x>> \in Ascending} BY DEF Ascending
<1>3. f = [n \in 1..Cardinality(S) |-> f[n]]
  <2> DEFINE h(n) == CHOOSE x \in S : Cardinality({y \in S : y < x}) = n - 1
  <2>1. f = [n \in 1..Cardinality(S) |-> h(n)] BY DEF InOrder, NumbersUp
  <2> HIDE DEF f, h
  <2> QED BY <2>1
<1>4. ASSUME NEW n \in 1..Cardinality(S), \E x \in S : RankIn(S, Ascending, x) = n - 1
      PROVE  f[n] \in S /\ RankIn(S, Ascending, f[n]) = n - 1
  <2>1. \E x \in S : Cardinality({y \in S : y < x}) = n - 1 BY <1>2, <1>4 DEF RankIn
  <2>2. f[n] \in S /\ Cardinality({y \in S : y < f[n]}) = n - 1 BY <2>1 DEF InOrder, NumbersUp
  <2> HIDE DEF f
  <2> QED BY <1>2, <2>2 DEF RankIn
<1>5. Lists(f, S, Ascending)
  <2> HIDE DEF f
  <2> QED BY <1>1, <1>3, <1>4, ListedByRank
<1> QED BY <1>5

-----------------------------------------------------------------------------
\* The versions of a key.

ChangeEvent == [key : ChainKeys, lsn : Nat]

Arrived(evs, k) == {i \in DOMAIN evs : evs[i].key = k}

\* By lsn, and by arrival where that is the same.
ArrivalOrder(evs) ==
    {p \in (DOMAIN evs) \X (DOMAIN evs) :
        evs[p[1]].lsn < evs[p[2]].lsn \/ (evs[p[1]].lsn = evs[p[2]].lsn /\ p[1] < p[2])}

\* A key's versions are the lsns of its events, each as often as it arrived, in
\* ascending order (capture_lsn_oracle.py, the sort of each key's versions).
VersionsOfKey(V, evs, k) ==
    /\ V \in [1..Cardinality(Arrived(evs, k)) -> Nat]
    /\ \A n \in 1..Cardinality(Arrived(evs, k)) : \E i \in Arrived(evs, k) : V[n] = evs[i].lsn
    /\ \A i \in Arrived(evs, k) : \E n \in 1..Cardinality(Arrived(evs, k)) : V[n] = evs[i].lsn
    /\ \A m, n \in 1..Cardinality(Arrived(evs, k)) : m < n => V[m] <= V[n]

\* There are no more of them than events.
LEMMA ArrivedFinite ==
    ASSUME NEW evs \in Seq(ChangeEvent), NEW k
    PROVE  /\ IsFiniteSet(Arrived(evs, k))
           /\ Cardinality(Arrived(evs, k)) \in 0..Len(evs)
           /\ Arrived(evs, k) \subseteq 1..Len(evs)
<1>1. DOMAIN evs = 1..Len(evs) /\ Len(evs) \in Nat BY LenProperties
<1>2. 1 \in Int /\ Len(evs) \in Int BY <1>1
<1>3. IsFiniteSet(1..Len(evs)) /\ Cardinality(1..Len(evs)) = Len(evs) BY <1>1, <1>2, FS_Interval
<1>4. Arrived(evs, k) \in SUBSET (1..Len(evs)) BY <1>1 DEF Arrived
<1>5. IsFiniteSet(Arrived(evs, k)) /\ Cardinality(Arrived(evs, k)) <= Len(evs)
  BY <1>3, <1>4, FS_Subset
<1>6. Cardinality(Arrived(evs, k)) \in Nat BY <1>5, FS_CardinalityType
<1> QED BY <1>1, <1>4, <1>5, <1>6

\* KeyVersions computes them.
LEMMA KeyVersionsAre ==
    ASSUME NEW evs \in Seq(ChangeEvent), NEW k
    PROVE  /\ VersionsOfKey(KeyVersions(evs, k), evs, k)
           /\ Len(KeyVersions(evs, k)) = Cardinality(Arrived(evs, k))
<1> DEFINE A == Arrived(evs, k)
           R == ArrivalOrder(evs)
           Before(i, j) == evs[i].lsn < evs[j].lsn \/ (evs[i].lsn = evs[j].lsn /\ i < j)
           h(n) == CHOOSE x \in A : Cardinality({y \in A : Before(y, x)}) = n - 1
           f == [n \in 1..Cardinality(A) |-> h(n)]
<1>1. IsFiniteSet(A) /\ A \subseteq 1..Len(evs) /\ DOMAIN evs = 1..Len(evs) /\ Len(evs) \in Nat
  BY ArrivedFinite, LenProperties
<1>2. \A i \in DOMAIN evs : evs[i].lsn \in Nat /\ i \in Nat
  <2>1. \A i \in 1..Len(evs) : evs[i] \in ChangeEvent BY ElementOfSeq
  <2> QED BY <1>1, <2>1 DEF ChangeEvent
<1>3. OrdersAll(A, R)
  <2> HIDE DEF A
  <2>1. \A i, j \in A : <<i, j>> \in R <=> Before(i, j) BY <1>1 DEF ArrivalOrder
  <2>2. \A i \in A : i \in Nat /\ evs[i].lsn \in Nat BY <1>1, <1>2
  <2> HIDE DEF R
  <2> QED BY <2>1, <2>2 DEF OrdersAll
<1>4. \A x \in A : {y \in A : Before(y, x)} = {y \in A : <<y, x>> \in R}
  <2> HIDE DEF A
  <2> QED BY <1>1 DEF ArrivalOrder
<1>5. ASSUME NEW n \in 1..Cardinality(A), \E x \in A : RankIn(A, R, x) = n - 1
      PROVE  f[n] \in A /\ RankIn(A, R, f[n]) = n - 1
  <2> HIDE DEF A, R, Before
  <2>1. \E x \in A : Cardinality({y \in A : Before(y, x)}) = n - 1 BY <1>4, <1>5 DEF RankIn
  <2>2. h(n) \in A /\ Cardinality({y \in A : Before(y, h(n))}) = n - 1 BY <2>1
  <2>3. f[n] = h(n) OBVIOUS
  <2> HIDE DEF f, h
  <2> QED BY <1>4, <2>2, <2>3 DEF RankIn
<1>6. Lists(f, A, R)
  <2>1. f = [n \in 1..Cardinality(A) |-> f[n]]
    <3> HIDE DEF h, A
    <3> QED OBVIOUS
  <2> HIDE DEF f, A, R
  <2> QED BY <1>1, <1>3, <1>5, <2>1, ListedByRank
<1>7. KeyVersions(evs, k) = [n \in DOMAIN f |-> evs[f[n]].lsn]
  BY DEF KeyVersions, InOrder, Arrived
<1> DEFINE V == [n \in DOMAIN f |-> evs[f[n]].lsn]
<1>8. VersionsOfKey(V, evs, k)
  <2> HIDE DEF f
  <2>1. DOMAIN f = 1..Cardinality(A) /\ \A n \in 1..Cardinality(A) : f[n] \in A BY <1>6 DEF Lists
  <2>2. \A n \in 1..Cardinality(A) : V[n] = evs[f[n]].lsn BY <2>1
  <2>3. V \in [1..Cardinality(A) -> Nat] BY <1>1, <1>2, <2>1
  <2>4. ASSUME NEW m \in 1..Cardinality(A), NEW n \in 1..Cardinality(A), m < n PROVE V[m] <= V[n]
    <3>1. <<f[m], f[n]>> \in R BY <1>6, <2>4 DEF Lists
    <3>2. evs[f[m]].lsn \in Nat /\ evs[f[n]].lsn \in Nat BY <1>1, <1>2, <2>1
    <3> QED BY <2>2, <3>1, <3>2 DEF ArrivalOrder
  <2>5. \A i \in A : \E n \in 1..Cardinality(A) : V[n] = evs[i].lsn BY <1>6, <2>2 DEF Lists
  <2> HIDE DEF V
  <2> QED BY <2>1, <2>2, <2>3, <2>4, <2>5 DEF VersionsOfKey
<1>9. Len(V) = Cardinality(A)
  <2>1. Cardinality(A) \in Nat BY <1>1, FS_CardinalityType
  <2>2. V \in [1..Cardinality(A) -> Nat] BY <1>8 DEF VersionsOfKey
  <2> HIDE DEF A, V
  <2>3. V \in Seq(Nat) BY <2>1, <2>2, SeqDef
  <2> QED BY <2>1, <2>2, <2>3, LenProperties
<1> QED BY <1>7, <1>8, <1>9

\* The last of them is the youngest lsn that arrived.
LEMMA LatestIs ==
    ASSUME NEW evs \in Seq(ChangeEvent), NEW k, Arrived(evs, k) # {}
    PROVE  /\ LogicallyLatest(evs, k) \in Nat
           /\ \A i \in Arrived(evs, k) : evs[i].lsn <= LogicallyLatest(evs, k)
           /\ \E i \in Arrived(evs, k) : evs[i].lsn = LogicallyLatest(evs, k)
<1> DEFINE V == KeyVersions(evs, k)
           C == Cardinality(Arrived(evs, k))
<1>1. C \in Nat \ {0} BY ArrivedFinite, FS_EmptySet
<1>2. VersionsOfKey(V, evs, k) /\ LogicallyLatest(evs, k) = V[C] BY KeyVersionsAre DEF LogicallyLatest, Last
<1>3. C \in 1..C /\ \A n \in 1..C : n < C \/ n = C BY <1>1
<1> HIDE DEF V
<1>4. /\ V \in [1..C -> Nat]
      /\ \A n \in 1..C : \E i \in Arrived(evs, k) : V[n] = evs[i].lsn
      /\ \A i \in Arrived(evs, k) : \E n \in 1..C : V[n] = evs[i].lsn
      /\ \A m, n \in 1..C : m < n => V[m] <= V[n]
  BY <1>2 DEF VersionsOfKey
<1> HIDE DEF C
<1>5. ASSUME NEW n \in 1..C PROVE V[n] \in Nat /\ V[n] <= V[C]
  <2>1. V[n] \in Nat /\ V[C] \in Nat BY <1>3, <1>4
  <2>2. CASE n < C BY <1>3, <1>4, <2>1, <2>2
  <2>3. CASE n = C BY <2>1, <2>3
  <2> QED BY <1>3, <2>2, <2>3
<1> QED BY <1>2, <1>3, <1>4, <1>5

-----------------------------------------------------------------------------
\* The plan.

KeysOf(evs) == {e.key : e \in ToSet(evs)}

PlanRows == [cp : 1..4, key : ChainKeys, lsn : Nat]

\* They are the keys that arrived, and finitely many.
LEMMA KeysAre ==
    ASSUME NEW evs \in Seq(ChangeEvent)
    PROVE  /\ KeysOf(evs) \subseteq ChainKeys /\ KeysOf(evs) \subseteq Nat
           /\ IsFiniteSet(KeysOf(evs))
           /\ \A k : k \in KeysOf(evs) <=> Arrived(evs, k) # {}
<1>1. DOMAIN evs = 1..Len(evs) /\ Len(evs) \in Nat BY LenProperties
<1>2. \A i \in DOMAIN evs : evs[i] \in ChangeEvent BY <1>1, ElementOfSeq
<1>3. \A k : k \in KeysOf(evs) <=> \E i \in DOMAIN evs : evs[i].key = k BY DEF KeysOf, ToSet
<1>4. KeysOf(evs) \subseteq ChainKeys BY <1>2, <1>3 DEF ChangeEvent
<1>5. IsFiniteSet(KeysOf(evs))
  <2> DEFINE D == DOMAIN evs
             f == [i \in D |-> evs[i].key]
             T == KeysOf(evs)
  <2>1. IsFiniteSet(D)
    <3>1. 1 \in Int /\ Len(evs) \in Int BY <1>1
    <3> QED BY <1>1, <3>1, FS_Interval
  <2>2. f \in [D -> T] BY <1>3
  <2>3. \A k \in T : \E i \in D : f[i] = k BY <1>3
  <2> HIDE DEF D, f, T
  <2>4. IsFiniteSet(T) BY <2>1, <2>2, <2>3, FiniteImage
  <2> QED BY <2>4 DEF T
<1> QED BY <1>3, <1>4, <1>5, ChainAssumption DEF Arrived

\* Checkpoint 1 holds one row of each key, its first version.
LEMMA FirstRowsAre ==
    ASSUME NEW evs \in Seq(ChangeEvent)
    PROVE  /\ FirstRows(evs) \in Seq(PlanRows)
           /\ \A n \in DOMAIN FirstRows(evs) :
                 /\ FirstRows(evs)[n].cp = 1
                 /\ FirstRows(evs)[n].key \in KeysOf(evs)
                 /\ FirstRows(evs)[n].lsn = KeyVersions(evs, FirstRows(evs)[n].key)[1]
           /\ \A k \in KeysOf(evs) : \E n \in DOMAIN FirstRows(evs) :
                 /\ FirstRows(evs)[n].key = k
                 /\ \A m \in DOMAIN FirstRows(evs) : FirstRows(evs)[m].key = k => m = n
<1> DEFINE K == NumbersUp(KeysOf(evs))
           C == Cardinality(KeysOf(evs))
           F == [n \in 1..C |-> PlanRow(1, K[n], KeyVersions(evs, K[n])[1])]
<1>1. Lists(K, KeysOf(evs), Ascending) BY KeysAre, NumbersInOrder
<1>2. C \in Nat BY KeysAre, FS_CardinalityType
<1>3. FirstRows(evs) = [n \in DOMAIN K |-> PlanRow(1, K[n], KeyVersions(evs, K[n])[1])]
  BY DEF FirstRows, NumbersUp, InOrder, KeysOf
<1> HIDE DEF K
<1>4. DOMAIN K = 1..C /\ \A n \in 1..C : K[n] \in KeysOf(evs) BY <1>1 DEF Lists
<1>5. FirstRows(evs) = F BY <1>3, <1>4
<1>6. ASSUME NEW k \in KeysOf(evs) PROVE KeyVersions(evs, k)[1] \in Nat
  <2>1. Cardinality(Arrived(evs, k)) \in Nat \ {0} BY KeysAre, ArrivedFinite, FS_EmptySet
  <2>2. 1 \in 1..Cardinality(Arrived(evs, k)) BY <2>1
  <2>3. KeyVersions(evs, k) \in [1..Cardinality(Arrived(evs, k)) -> Nat]
    BY KeyVersionsAre DEF VersionsOfKey
  <2> QED BY <2>2, <2>3
<1>7. \A n \in 1..C : /\ F[n] \in PlanRows
                      /\ F[n].cp = 1 /\ F[n].key = K[n] /\ F[n].lsn = KeyVersions(evs, K[n])[1]
  BY <1>4, <1>6, KeysAre DEF PlanRow, PlanRows
<1>8. F \in [1..C -> PlanRows] BY <1>7
<1>9. F \in Seq(PlanRows) BY <1>2, <1>8, SeqDef
<1>10. DOMAIN F = 1..C OBVIOUS
<1> HIDE DEF F
<1>11. \A k \in KeysOf(evs) : \E n \in 1..C : K[n] = k BY <1>1 DEF Lists
<1>12. \A m, n \in 1..C : K[m] = K[n] => m = n
  <2> TAKE m \in 1..C, n \in 1..C
  <2>1. m < n <=> <<K[m], K[n]>> \in Ascending BY <1>1 DEF Lists
  <2>2. n < m <=> <<K[n], K[m]>> \in Ascending BY <1>1 DEF Lists
  <2> QED BY <1>2, <1>4, <2>1, <2>2, KeysAre DEF Ascending
<1>13. ASSUME NEW k \in KeysOf(evs)
       PROVE  \E n \in 1..C : F[n].key = k /\ \A m \in 1..C : F[m].key = k => m = n
  BY <1>7, <1>11, <1>12
<1> HIDE DEF C
<1> QED BY <1>4, <1>5, <1>7, <1>9, <1>10, <1>13

\* The places of the versions after the first that checkpoint 2 takes.
LaterVersions(evs) ==
    LET V(k) == KeyVersions(evs, k)
        swapped == {V(Target)[Len(V(Target))], V(Target)[Len(V(Target)) - 1]}
    IN  {at \in KeysOf(evs) \X (2..Len(evs)) :
            /\ at[2] <= Len(V(at[1]))
            /\ at[1] = Target => V(Target)[at[2]] \notin swapped}

VersionAt(evs, at) == KeyVersions(evs, at[1])[at[2]]

\* By version, then by key, then by place.
VersionOrder(evs) ==
    {p \in LaterVersions(evs) \X LaterVersions(evs) :
        \/ VersionAt(evs, p[1]) < VersionAt(evs, p[2])
        \/ /\ VersionAt(evs, p[1]) = VersionAt(evs, p[2])
           /\ p[1][1] < p[2][1] \/ (p[1][1] = p[2][1] /\ p[1][2] < p[2][2])}

\* What is known of such a place.
LEMMA LaterVersionsAre ==
    ASSUME NEW evs \in Seq(ChangeEvent)
    PROVE  /\ IsFiniteSet(LaterVersions(evs))
           /\ OrdersAll(LaterVersions(evs), VersionOrder(evs))
           /\ \A at \in LaterVersions(evs) :
                 /\ at[1] \in KeysOf(evs) /\ at[2] \in 2..Cardinality(Arrived(evs, at[1]))
                 /\ VersionAt(evs, at) \in Nat
           /\ \A k \in KeysOf(evs) \ {Target} : \A n \in 2..Cardinality(Arrived(evs, k)) :
                 <<k, n>> \in LaterVersions(evs)
<1> DEFINE S == LaterVersions(evs)
           R == VersionOrder(evs)
<1>1. IsFiniteSet(S)
  <2>1. Len(evs) \in Nat BY LenProperties
  <2>2. 2 \in Int /\ Len(evs) \in Int BY <2>1
  <2>3. IsFiniteSet(2..Len(evs)) BY <2>2, FS_Interval
  <2>4. IsFiniteSet(KeysOf(evs) \X (2..Len(evs))) BY <2>3, KeysAre, FS_Product
  <2>5. S \in SUBSET (KeysOf(evs) \X (2..Len(evs))) BY DEF LaterVersions
  <2> QED BY <2>4, <2>5, FS_Subset
<1>2. ASSUME NEW at \in S
      PROVE  /\ at = <<at[1], at[2]>>
             /\ at[1] \in KeysOf(evs) /\ at[1] \in Nat
             /\ at[2] \in 2..Cardinality(Arrived(evs, at[1])) /\ at[2] \in Nat
             /\ VersionAt(evs, at) \in Nat
  <2>1. /\ at \in KeysOf(evs) \X (2..Len(evs))
        /\ at[2] <= Len(KeyVersions(evs, at[1]))
    BY DEF LaterVersions
  <2>2. /\ at[1] \in KeysOf(evs) /\ at[2] \in 2..Len(evs) /\ at = <<at[1], at[2]>> BY <2>1
  <2>3. Len(KeyVersions(evs, at[1])) = Cardinality(Arrived(evs, at[1])) BY KeyVersionsAre
  <2>4. at[2] \in 2..Cardinality(Arrived(evs, at[1])) BY <2>1, <2>2, <2>3, ArrivedFinite
  <2>5. at[2] \in 1..Cardinality(Arrived(evs, at[1])) BY <2>4, ArrivedFinite
  <2>6. KeyVersions(evs, at[1]) \in [1..Cardinality(Arrived(evs, at[1])) -> Nat]
    BY KeyVersionsAre DEF VersionsOfKey
  <2>7. VersionAt(evs, at) \in Nat BY <2>5, <2>6 DEF VersionAt
  <2> QED BY <2>2, <2>4, <2>5, <2>7, KeysAre
<1>3. OrdersAll(S, R)
  <2>1. \A a, b \in S : <<a, b>> \in R <=>
           \/ VersionAt(evs, a) < VersionAt(evs, b)
           \/ /\ VersionAt(evs, a) = VersionAt(evs, b)
              /\ a[1] < b[1] \/ (a[1] = b[1] /\ a[2] < b[2])
    BY DEF VersionOrder
  <2>2. \A a, b \in S : a[1] = b[1] /\ a[2] = b[2] => a = b BY <1>2
  <2> HIDE DEF S, R
  <2> QED BY <1>2, <2>1, <2>2 DEF OrdersAll
<1>4. ASSUME NEW k \in KeysOf(evs) \ {Target}, NEW n \in 2..Cardinality(Arrived(evs, k))
      PROVE  <<k, n>> \in S
  <2>1. n \in 2..Len(evs) BY ArrivedFinite
  <2>2. n <= Len(KeyVersions(evs, k)) BY KeyVersionsAre, ArrivedFinite
  <2> QED BY <2>1, <2>2 DEF LaterVersions
<1> QED BY <1>1, <1>2, <1>3, <1>4

\* Checkpoint 2 holds the later versions, a key's youngest after its others.
LEMMA MidRowsAre ==
    ASSUME NEW evs \in Seq(ChangeEvent)
    PROVE  /\ MidRows(evs) \in Seq(PlanRows)
           /\ \A n \in DOMAIN MidRows(evs) :
                 /\ MidRows(evs)[n].cp = 2
                 /\ Cardinality(Arrived(evs, MidRows(evs)[n].key)) >= 2
           /\ \A k \in KeysOf(evs) \ {Target} : Cardinality(Arrived(evs, k)) >= 2 =>
                 \E n \in DOMAIN MidRows(evs) :
                    /\ MidRows(evs)[n].key = k
                    /\ MidRows(evs)[n].lsn = LogicallyLatest(evs, k)
                    /\ \A m \in DOMAIN MidRows(evs) : MidRows(evs)[m].key = k => m <= n
<1> DEFINE S == LaterVersions(evs)
           R == VersionOrder(evs)
           C == Cardinality(S)
           V(key) == KeyVersions(evs, key)
           Before(a, b) == \/ V(a[1])[a[2]] < V(b[1])[b[2]]
                           \/ /\ V(a[1])[a[2]] = V(b[1])[b[2]]
                              /\ a[1] < b[1] \/ (a[1] = b[1] /\ a[2] < b[2])
           h(n) == CHOOSE x \in S : Cardinality({y \in S : Before(y, x)}) = n - 1
           f == [n \in 1..C |-> h(n)]
           M == [n \in 1..C |-> PlanRow(2, f[n][1], V(f[n][1])[f[n][2]])]
<1>1. C \in Nat BY LaterVersionsAre, FS_CardinalityType
<1>2. \A x \in S : {y \in S : Before(y, x)} = {y \in S : <<y, x>> \in R}
  BY DEF VersionOrder, VersionAt
<1>3. ASSUME NEW n \in 1..C, \E x \in S : RankIn(S, R, x) = n - 1
      PROVE  f[n] \in S /\ RankIn(S, R, f[n]) = n - 1
  <2> HIDE DEF S, R, Before
  <2>1. \E x \in S : Cardinality({y \in S : Before(y, x)}) = n - 1 BY <1>2, <1>3 DEF RankIn
  <2>2. h(n) \in S /\ Cardinality({y \in S : Before(y, h(n))}) = n - 1 BY <2>1
  <2>3. f[n] = h(n) OBVIOUS
  <2> HIDE DEF f, h
  <2> QED BY <1>2, <2>2, <2>3 DEF RankIn
<1>4. Lists(f, S, R)
  <2>1. f = [n \in 1..C |-> f[n]]
    <3> HIDE DEF h, S, C
    <3> QED OBVIOUS
  <2>2. IsFiniteSet(S) /\ OrdersAll(S, R) BY LaterVersionsAre
  <2> HIDE DEF f, S, R
  <2> QED BY <1>3, <2>1, <2>2, ListedByRank
<1>5. MidRows(evs) = M
  <2> DEFINE Rest == {at \in {e.key : e \in ToSet(evs)} \X (2..Len(evs)) :
                         /\ at[2] <= Len(V(at[1])) - 0
                         /\ at[1] = Target => V(Target)[at[2]] \notin {V(Target)[Len(V(Target))], V(Target)[Len(V(Target)) - 1]}}
             g == [n \in 1..Cardinality(Rest) |->
                      CHOOSE x \in Rest : Cardinality({y \in Rest : Before(y, x)}) = n - 1]
  <2>1. MidRows(evs) = [n \in DOMAIN g |-> PlanRow(2, g[n][1], V(g[n][1])[g[n][2]])]
    BY DEF MidRows, MidRowsUpTo, InOrder
  <2>2. Rest = S
    <3>1. ASSUME NEW at \in KeysOf(evs) \X (2..Len(evs))
          PROVE  at[2] <= Len(V(at[1])) - 0 <=> at[2] <= Len(V(at[1]))
      <4>1. Len(V(at[1])) = Cardinality(Arrived(evs, at[1])) BY KeyVersionsAre
      <4>2. Cardinality(Arrived(evs, at[1])) \in Nat BY ArrivedFinite
      <4> QED BY <4>1, <4>2
    <3> QED BY <3>1 DEF LaterVersions, KeysOf
  <2> HIDE DEF Rest, S, Before
  <2>3. g = f BY <2>2
  <2> HIDE DEF g, f
  <2>4. DOMAIN f = 1..C BY <1>4 DEF Lists
  <2> QED BY <2>1, <2>3, <2>4
<1> HIDE DEF f
<1>6. \A n \in 1..C : f[n] \in S BY <1>4 DEF Lists
<1>7. ASSUME NEW n \in 1..C
      PROVE  /\ M[n] \in PlanRows /\ M[n].cp = 2 /\ M[n].key = f[n][1] /\ M[n].lsn = VersionAt(evs, f[n])
             /\ Cardinality(Arrived(evs, M[n].key)) >= 2
  <2>1. M[n] = PlanRow(2, f[n][1], VersionAt(evs, f[n])) BY DEF VersionAt
  <2>2. /\ f[n][1] \in KeysOf(evs) /\ VersionAt(evs, f[n]) \in Nat
        /\ f[n][2] \in 2..Cardinality(Arrived(evs, f[n][1]))
    BY <1>6, LaterVersionsAre
  <2>3. Cardinality(Arrived(evs, f[n][1])) \in Nat BY ArrivedFinite
  <2>4. Cardinality(Arrived(evs, f[n][1])) >= 2 BY <2>2, <2>3
  <2> HIDE DEF M
  <2> QED BY <2>1, <2>2, <2>4, KeysAre DEF PlanRow, PlanRows
<1>8. M \in Seq(PlanRows) /\ DOMAIN M = 1..C
  <2>1. DOMAIN M = 1..C OBVIOUS
  <2>2. M \in [1..C -> PlanRows] BY <1>7
  <2> HIDE DEF M
  <2> QED BY <1>1, <2>1, <2>2, SeqDef
<1> HIDE DEF M
<1>9. ASSUME NEW k \in KeysOf(evs) \ {Target}, Cardinality(Arrived(evs, k)) >= 2
      PROVE  \E n \in 1..C : /\ M[n].key = k
                             /\ M[n].lsn = LogicallyLatest(evs, k)
                             /\ \A m \in 1..C : M[m].key = k => m <= n
  <2> DEFINE L == Cardinality(Arrived(evs, k))
  <2>1. L \in Nat BY ArrivedFinite
  <2>2. L \in 2..L /\ L \in 1..L BY <1>9, <2>1
  <2>3. <<k, L>> \in S BY <2>2, LaterVersionsAre
  <2>4. PICK n \in 1..C : f[n] = <<k, L>> BY <1>4, <2>3 DEF Lists
  <2>5. VersionAt(evs, <<k, L>>) = LogicallyLatest(evs, k)
    BY KeyVersionsAre DEF VersionAt, LogicallyLatest, Last
  <2>6. ASSUME NEW m \in 1..C, M[m].key = k PROVE m <= n
    <3>1. f[m] \in S /\ f[m][1] = k BY <1>6, <1>7, <2>6
    <3>2. f[m][2] \in 2..L BY <3>1, LaterVersionsAre
    <3>3. f[m][2] \in 1..L /\ (f[m][2] < L \/ f[m][2] = L) BY <2>1, <3>2
    <3>4. VersionAt(evs, f[m]) <= VersionAt(evs, <<k, L>>)
      <4>1. VersionsOfKey(V(k), evs, k) BY KeyVersionsAre
      <4>2. /\ V(k) \in [1..L -> Nat]
            /\ \A i, j \in 1..L : i < j => V(k)[i] <= V(k)[j]
        BY <4>1 DEF VersionsOfKey
      <4>3. VersionAt(evs, f[m]) = V(k)[f[m][2]] /\ VersionAt(evs, <<k, L>>) = V(k)[L]
        BY <3>1 DEF VersionAt
      <4> HIDE DEF V, L
      <4>4. V(k)[L] \in Nat /\ V(k)[f[m][2]] \in Nat BY <2>2, <3>3, <4>2
      <4>5. V(k)[f[m][2]] <= V(k)[L] BY <2>2, <3>3, <4>2, <4>4
      <4> QED BY <4>3, <4>5
    <3>5. <<f[n], f[m]>> \notin R
      <4> SUFFICES ASSUME <<f[n], f[m]>> \in R PROVE FALSE OBVIOUS
      <4>1. VersionAt(evs, f[n]) \in Nat /\ VersionAt(evs, f[m]) \in Nat
        BY <1>6, LaterVersionsAre
      <4>2. f[n][1] = k /\ f[n][2] = L BY <2>4
      <4>3. \/ VersionAt(evs, f[n]) < VersionAt(evs, f[m])
            \/ f[n][1] < f[m][1]
            \/ f[n][1] = f[m][1] /\ f[n][2] < f[m][2]
        BY DEF VersionOrder
      <4>4. k \in Nat BY KeysAre
      <4> HIDE DEF L
      <4> QED BY <2>1, <2>4, <3>1, <3>3, <3>4, <4>1, <4>2, <4>3, <4>4
    <3>6. ~(n < m) BY <1>4, <3>5 DEF Lists
    <3> QED BY <1>1, <3>6
  <2> QED BY <1>7, <2>4, <2>5, <2>6
<1> HIDE DEF C, V
<1> QED BY <1>5, <1>7, <1>8, <1>9

\* A row of a plan after which no row of the same key comes, in its checkpoint or later.
LastOfKey(rows, i) ==
    \A j \in DOMAIN rows : rows[j].key = rows[i].key /\ j # i => j < i /\ rows[j].cp <= rows[i].cp

\* A plan ends with the swapped rows of the target, and every other key's last row is its
\* youngest version (build_write_plan.py).
PlanFor(rows, evs) ==
    LET n == Len(rows)
        V == KeyVersions(evs, Target)
    IN  /\ rows \in Seq(PlanRows)
        /\ n \in Nat /\ n >= 2
        /\ rows[n] = PlanRow(4, Target, V[Len(V) - 1])
        /\ rows[n - 1] = PlanRow(3, Target, V[Len(V)])
        /\ \A i \in 1..n : i # n => rows[i].cp < 4
        /\ \A k \in KeysOf(evs) \ {Target} : \E i \in 1..n :
              /\ rows[i].key = k /\ rows[i].lsn = LogicallyLatest(evs, k)
              /\ LastOfKey(rows, i)

\* PlanOf makes such a plan.
LEMMA PlanIsFor ==
    ASSUME NEW evs \in Seq(ChangeEvent), OracleOk(evs)
    PROVE  PlanFor(PlanOf(evs), evs)
<1> DEFINE F == FirstRows(evs)
           M == MidRows(evs)
           S == SwappedRows(evs)
           V == KeyVersions(evs, Target)
           rows == PlanOf(evs)
           f == Len(F)
           m == Len(M)
<1>1. Len(V) \in Nat /\ Len(V) >= 2
  <2>1. Len(V) \in Nat BY KeyVersionsAre, ArrivedFinite
  <2> QED BY <2>1 DEF OracleOk
<1>2. V[Len(V)] \in Nat /\ V[Len(V) - 1] \in Nat
  <2>1. V \in [1..Len(V) -> Nat] BY KeyVersionsAre DEF VersionsOfKey
  <2>2. Len(V) \in 1..Len(V) /\ Len(V) - 1 \in 1..Len(V) BY <1>1
  <2> HIDE DEF V
  <2> QED BY <2>1, <2>2
<1>3. S = <<PlanRow(3, Target, V[Len(V)]), PlanRow(4, Target, V[Len(V) - 1])>> BY DEF SwappedRows
<1>4. S \in Seq(PlanRows) /\ Len(S) = 2
  <2>1. PlanRow(3, Target, V[Len(V)]) \in PlanRows /\ PlanRow(4, Target, V[Len(V) - 1]) \in PlanRows
    BY <1>2, ChainAssumption DEF PlanRow, PlanRows
  <2> HIDE DEF S
  <2> QED BY <1>3, <2>1
<1>5. F \in Seq(PlanRows) /\ f \in Nat /\ DOMAIN F = 1..f BY FirstRowsAre, LenProperties
<1>6. M \in Seq(PlanRows) /\ m \in Nat /\ DOMAIN M = 1..m BY MidRowsAre, LenProperties
<1>7. /\ F \o M \in Seq(PlanRows) /\ Len(F \o M) = f + m
      /\ \A i \in 1..f + m : (F \o M)[i] = IF i <= f THEN F[i] ELSE M[i - f]
  BY <1>5, <1>6, ConcatProperties
<1>8. /\ rows \in Seq(PlanRows) /\ Len(rows) = f + m + 2
      /\ \A i \in 1..f + m + 2 : rows[i] = IF i <= f + m THEN (F \o M)[i] ELSE S[i - (f + m)]
  <2> HIDE DEF F, M, S, f, m
  <2>1. rows = (F \o M) \o S BY DEF PlanOf, F, M, S
  <2>2. /\ (F \o M) \o S \in Seq(PlanRows) /\ Len((F \o M) \o S) = Len(F \o M) + Len(S)
        /\ \A i \in 1..Len(F \o M) + Len(S) :
              ((F \o M) \o S)[i] = IF i <= Len(F \o M) THEN (F \o M)[i] ELSE S[i - Len(F \o M)]
    BY <1>4, <1>7, ConcatProperties
  <2> HIDE DEF rows
  <2> QED BY <1>4, <1>7, <2>1, <2>2
<1> HIDE DEF F, M, S, f, m, rows
<1>9. \A i \in 1..f : rows[i] = F[i]
  <2> TAKE i \in 1..f
  <2>1. i \in 1..f + m /\ i \in 1..f + m + 2 BY <1>5, <1>6
  <2> QED BY <1>5, <1>6, <1>7, <1>8, <2>1
<1>10. \A i \in 1..m : rows[f + i] = M[i]
  <2> TAKE i \in 1..m
  <2>1. f + i \in 1..f + m /\ f + i \in 1..f + m + 2 /\ ~(f + i <= f) /\ f + i <= f + m BY <1>5, <1>6
  <2>2. (f + i) - f = i BY <1>5, <1>6
  <2> QED BY <1>7, <1>8, <2>1, <2>2
<1>11. rows[f + m + 1] = S[1] /\ rows[f + m + 2] = S[2]
  <2>1. f + m + 1 \in 1..f + m + 2 /\ f + m + 2 \in 1..f + m + 2 BY <1>5, <1>6
  <2>2. ~(f + m + 1 <= f + m) /\ ~(f + m + 2 <= f + m) BY <1>5, <1>6
  <2>3. (f + m + 1) - (f + m) = 1 /\ (f + m + 2) - (f + m) = 2 BY <1>5, <1>6
  <2> QED BY <1>8, <2>1, <2>2, <2>3
<1>12. \A i \in 1..f + m + 2 : \/ i \in 1..f
                               \/ \E j \in 1..m : i = f + j
                               \/ i = f + m + 1 \/ i = f + m + 2
  <2> TAKE i \in 1..f + m + 2
  <2>1. CASE i <= f BY <1>5, <1>6, <2>1
  <2>2. CASE i > f /\ i <= f + m
    <3>1. i - f \in 1..m /\ i = f + (i - f) BY <1>5, <1>6, <2>2
    <3> QED BY <3>1
  <2>3. CASE i > f + m BY <1>5, <1>6, <2>3
  <2> QED BY <1>5, <1>6, <2>1, <2>2, <2>3
<1>13. \A i \in 1..f : rows[i].cp = 1 BY <1>5, <1>9, FirstRowsAre DEF F
<1>14. \A i \in 1..m : rows[f + i].cp = 2 BY <1>6, <1>10, MidRowsAre DEF M
<1>15. /\ rows[f + m + 1] = PlanRow(3, Target, V[Len(V)])
       /\ rows[f + m + 2] = PlanRow(4, Target, V[Len(V) - 1])
  BY <1>3, <1>11
<1> HIDE DEF V
<1>16. \A i \in 1..f + m + 2 : i # f + m + 2 => rows[i].cp < 4
  BY <1>12, <1>13, <1>14, <1>15 DEF PlanRow
<1>17. ASSUME NEW k \in KeysOf(evs) \ {Target}
       PROVE  \E i \in 1..f + m + 2 :
                /\ rows[i].key = k /\ rows[i].lsn = LogicallyLatest(evs, k)
                /\ LastOfKey(rows, i)
  <2> DEFINE L == Cardinality(Arrived(evs, k))
  <2>1. L \in Nat \ {0} BY KeysAre, ArrivedFinite, FS_EmptySet
  <2>2. PICK n \in 1..f : F[n].key = k /\ \A j \in 1..f : F[j].key = k => j = n
    BY <1>5, FirstRowsAre DEF F
  <2>3. DOMAIN rows = 1..f + m + 2 BY <1>8, LenProperties
  <2>4. rows[f + m + 1].key # k /\ rows[f + m + 2].key # k BY <1>15 DEF PlanRow
  <2>5. CASE L = 1
    <3>1. \A j \in 1..m : M[j].key # k BY <2>5, <1>6, MidRowsAre DEF M
    <3>2. \A j \in 1..f + m + 2 : rows[j].key = k => j = n BY <1>9, <1>10, <1>12, <2>2, <2>4, <3>1
    <3>3. rows[n].key = k BY <1>9, <2>2
    <3>4. rows[n].lsn = LogicallyLatest(evs, k)
      <4>1. F[n].lsn = KeyVersions(evs, k)[1] BY <1>5, <2>2, FirstRowsAre DEF F
      <4>2. LogicallyLatest(evs, k) = KeyVersions(evs, k)[1]
        BY <2>5, KeyVersionsAre DEF LogicallyLatest, Last
      <4> QED BY <1>9, <4>1, <4>2
    <3>5. n \in 1..f + m + 2 BY <1>5, <1>6
    <3> QED BY <2>3, <3>2, <3>3, <3>4, <3>5 DEF LastOfKey
  <2>6. CASE L # 1
    <3>1. L >= 2 BY <2>1, <2>6
    <3>2. PICK p \in 1..m : /\ M[p].key = k /\ M[p].lsn = LogicallyLatest(evs, k)
                            /\ \A j \in 1..m : M[j].key = k => j <= p
      BY <1>6, <3>1, MidRowsAre DEF M
    <3>3. rows[f + p].key = k /\ rows[f + p].lsn = LogicallyLatest(evs, k) BY <1>10, <3>2
    <3>4. ASSUME NEW j \in 1..f + m + 2, rows[j].key = k, j # f + p
          PROVE  j < f + p /\ rows[j].cp <= rows[f + p].cp
      <4>1. rows[f + p].cp = 2 BY <1>14
      <4>2. CASE j \in 1..f BY <1>5, <1>6, <1>13, <4>1, <4>2
      <4>3. ASSUME NEW q \in 1..m, j = f + q PROVE j < f + p /\ rows[j].cp <= rows[f + p].cp
        <5>1. M[q].key = k /\ q # p BY <1>10, <3>4, <4>3
        <5>2. q < p BY <1>6, <3>2, <5>1
        <5>3. j < f + p BY <1>5, <1>6, <4>3, <5>2
        <5> QED BY <1>14, <4>1, <4>3, <5>3
      <4> QED BY <1>12, <2>4, <3>4, <4>2, <4>3
    <3>5. f + p \in 1..f + m + 2 BY <1>5, <1>6
    <3> QED BY <2>3, <3>3, <3>4, <3>5 DEF LastOfKey
  <2> QED BY <2>5, <2>6
<1>18. /\ f + m + 2 \in Nat /\ f + m + 2 >= 2 /\ (f + m + 2) - 1 = f + m + 1 BY <1>5, <1>6
<1>19. PlanFor(rows, evs) BY <1>8, <1>15, <1>16, <1>17, <1>18 DEF PlanFor, V
<1> QED BY <1>19 DEF rows

-----------------------------------------------------------------------------
\* The table a plan is replayed into.

CheckpointsOf(rows) == {rows[i].cp : i \in DOMAIN rows}

\* The commit that row i of the plan goes into.
CommitOf(rows, i) ==
    CHOOSE n \in 1..Cardinality(CheckpointsOf(rows)) : Checkpoints(rows)[n] = rows[i].cp

RowAt(rows, i) ==
    [commit |-> CommitOf(rows, i), part |-> i, key |-> rows[i].key, ver |-> rows[i].lsn,
     file |-> <<CommitOf(rows, i), 1>>, seq |-> CommitOf(rows, i)]

\* Checkpoints are committed in order, one commit each.
LEMMA CommitsAre ==
    ASSUME NEW rows \in Seq(PlanRows)
    PROVE  /\ IsFiniteSet(CheckpointsOf(rows))
           /\ DOMAIN Checkpoints(rows) = 1..Cardinality(CheckpointsOf(rows))
           /\ \A n \in DOMAIN Checkpoints(rows), i \in DOMAIN rows :
                 rows[i].cp = Checkpoints(rows)[n] <=> n = CommitOf(rows, i)
           /\ \A i \in DOMAIN rows : CommitOf(rows, i) \in DOMAIN Checkpoints(rows) /\ CommitOf(rows, i) \in Nat \ {0}
           /\ \A i, j \in DOMAIN rows : CommitOf(rows, i) < CommitOf(rows, j) <=> rows[i].cp < rows[j].cp
<1> DEFINE S == CheckpointsOf(rows)
           C == Cardinality(S)
           f == NumbersUp(S)
<1>1. DOMAIN rows = 1..Len(rows) /\ Len(rows) \in Nat BY LenProperties
<1>2. \A i \in DOMAIN rows : rows[i].cp \in 1..4 /\ rows[i].cp \in S
  <2>1. \A i \in DOMAIN rows : rows[i] \in PlanRows BY <1>1, ElementOfSeq
  <2> QED BY <2>1 DEF PlanRows, CheckpointsOf
<1>3. S \in SUBSET Nat BY <1>2 DEF CheckpointsOf
<1>4. IsFiniteSet(S)
  <2>1. \A s \in S : s <= 4 BY <1>2 DEF CheckpointsOf
  <2> HIDE DEF S
  <2> QED BY <1>3, <2>1, FS_BoundedSetOfNaturals
<1>5. Lists(f, S, Ascending)
  <2> HIDE DEF S
  <2> QED BY <1>3, <1>4, NumbersInOrder
<1>6. Checkpoints(rows) = f
  <2>1. {r.cp : r \in ToSet(rows)} = S BY DEF ToSet, CheckpointsOf
  <2>2. Checkpoints(rows) = [n \in 1..Cardinality({r.cp : r \in ToSet(rows)}) |->
            CHOOSE x \in {r.cp : r \in ToSet(rows)} :
                Cardinality({y \in {r.cp : r \in ToSet(rows)} : y < x}) = n - 1]
    BY DEF Checkpoints, InOrder
  <2>3. f = [n \in 1..Cardinality(S) |-> CHOOSE x \in S : Cardinality({y \in S : y < x}) = n - 1]
    BY DEF NumbersUp, InOrder
  <2> HIDE DEF S, f
  <2> QED BY <2>1, <2>2, <2>3
<1> HIDE DEF f
<1>7. C \in Nat BY <1>4, FS_CardinalityType
<1>8. DOMAIN f = 1..C /\ \A n \in 1..C : f[n] \in S /\ f[n] \in Nat BY <1>3, <1>5 DEF Lists
<1>9. \A m, n \in 1..C : m < n <=> f[m] < f[n]
  <2> TAKE m \in 1..C, n \in 1..C
  <2>1. m < n <=> <<f[m], f[n]>> \in Ascending BY <1>5 DEF Lists
  <2> HIDE DEF C
  <2> QED BY <1>8, <2>1 DEF Ascending
<1>10. \A m, n \in 1..C : f[m] = f[n] => m = n
  <2> TAKE m \in 1..C, n \in 1..C
  <2> HIDE DEF C
  <2> QED BY <1>7, <1>8, <1>9
<1>11. \A i \in DOMAIN rows : CommitOf(rows, i) \in 1..C /\ f[CommitOf(rows, i)] = rows[i].cp
  <2> TAKE i \in DOMAIN rows
  <2>1. \E n \in 1..C : f[n] = rows[i].cp BY <1>2, <1>5 DEF Lists
  <2> QED BY <1>6, <2>1 DEF CommitOf
<1>12. \A i \in DOMAIN rows : CommitOf(rows, i) \in Nat \ {0}
  <2> HIDE DEF C
  <2> QED BY <1>7, <1>11
<1> HIDE DEF C
<1>13. \A i, j \in DOMAIN rows : CommitOf(rows, i) < CommitOf(rows, j) <=> rows[i].cp < rows[j].cp
  BY <1>9, <1>11
<1>14. \A n \in 1..C : \A i \in DOMAIN rows : rows[i].cp = f[n] <=> n = CommitOf(rows, i)
  BY <1>10, <1>11
<1> QED BY <1>4, <1>6, <1>8, <1>11, <1>12, <1>13, <1>14 DEF C

\* The replayed table row by row, and what of it is live, or overwritten within its commit.
LEMMA ReplayedAre ==
    ASSUME NEW rows \in Seq(PlanRows)
    PROVE  /\ ReplayedTable(rows) \in Table(ChainKeys, Nat)
           /\ IsFiniteSet(ReplayedTable(rows).data) /\ IsFiniteSet(ReplayedTable(rows).dels)
           /\ \A r : r \in ReplayedTable(rows).data <=> \E i \in DOMAIN rows : r = RowAt(rows, i)
           /\ \A d : d \in ReplayedTable(rows).dels <=>
                        \E i \in DOMAIN rows : d = [key |-> rows[i].key, seq |-> CommitOf(rows, i)]
           /\ \A i \in DOMAIN rows :
                 /\ RowAt(rows, i) \in LiveRows(ReplayedTable(rows)) <=>
                       \A j \in DOMAIN rows : rows[j].key = rows[i].key => rows[j].cp <= rows[i].cp
                 /\ RowAt(rows, i) \in Overwrites(rows) <=>
                       \E j \in DOMAIN rows : rows[j].key = rows[i].key /\ rows[j].cp = rows[i].cp /\ j > i
<1> DEFINE D == DOMAIN rows
           T == ReplayedTable(rows)
<1>1. D = 1..Len(rows) /\ Len(rows) \in Nat BY LenProperties
<1>2. \A i \in D : /\ rows[i].cp \in 1..4 /\ rows[i].key \in ChainKeys /\ rows[i].lsn \in Nat
                   /\ i \in Nat /\ CommitOf(rows, i) \in Nat
  <2>1. \A i \in D : rows[i] \in PlanRows BY <1>1, ElementOfSeq
  <2>2. \A i \in D : CommitOf(rows, i) \in Nat BY CommitsAre
  <2>3. \A i \in D : rows[i].cp \in 1..4 /\ rows[i].key \in ChainKeys /\ rows[i].lsn \in Nat
    BY <2>1 DEF PlanRows
  <2> QED BY <1>1, <2>2, <2>3
<1>3. \A r : r \in ReplayedRows(rows) <=> \E i \in D : r = RowAt(rows, i)
  <2> TAKE r
  <2>1. r \in ReplayedRows(rows) <=>
          \E n \in DOMAIN Checkpoints(rows) : \E i \in D :
             /\ rows[i].cp = Checkpoints(rows)[n]
             /\ r = [commit |-> n, part |-> i, key |-> rows[i].key, ver |-> rows[i].lsn, file |-> <<n, 1>>, seq |-> n]
    BY DEF ReplayedRows
  <2> QED BY <2>1, CommitsAre DEF RowAt
<1>4. T.data = ReplayedRows(rows) /\ T.dels = {[key |-> r.key, seq |-> r.seq] : r \in ReplayedRows(rows)}
  BY DEF ReplayedTable
<1> DEFINE del(r) == [key |-> r.key, seq |-> r.seq]
<1>4a. \A i \in D : /\ RowAt(rows, i).key = rows[i].key /\ RowAt(rows, i).seq = CommitOf(rows, i)
                   /\ RowAt(rows, i).part = i
                   /\ del(RowAt(rows, i)) = [key |-> rows[i].key, seq |-> CommitOf(rows, i)]
  BY DEF RowAt
<1>5. \A d : d \in T.dels <=> \E i \in D : d = [key |-> rows[i].key, seq |-> CommitOf(rows, i)]
  <2> TAKE d
  <2> HIDE DEF T
  <2>1. d \in T.dels <=> \E r \in ReplayedRows(rows) : d = del(r) BY <1>4
  <2> HIDE DEF del
  <2>2. d \in T.dels <=> \E i \in D : d = del(RowAt(rows, i)) BY <1>3, <2>1
  <2> QED BY <1>4a, <2>2
<1>6. T \in Table(ChainKeys, Nat)
  <2>1. \A i \in D : RowAt(rows, i) \in Row(ChainKeys, Nat) BY <1>2 DEF RowAt, Row, File
  <2>2. T.data \subseteq Row(ChainKeys, Nat) BY <1>3, <1>4, <2>1
  <2>3. \A i \in D : [key |-> rows[i].key, seq |-> CommitOf(rows, i)] \in Del(ChainKeys) BY <1>2 DEF Del
  <2>4. T.dels \subseteq Del(ChainKeys) BY <1>5, <2>3
  <2>5. T = [data |-> T.data, dels |-> T.dels] BY DEF ReplayedTable
  <2> HIDE DEF T
  <2> QED BY <2>2, <2>4, <2>5 DEF Table
<1>7. IsFiniteSet(D)
  <2>1. 1 \in Int /\ Len(rows) \in Int BY <1>1
  <2> QED BY <1>1, <2>1, FS_Interval
<1>8. IsFiniteSet(T.data)
  <2> DEFINE A == T.data
             f == [i \in D |-> RowAt(rows, i)]
  <2>1. f \in [D -> A] /\ \A r \in A : \E i \in D : f[i] = r BY <1>3, <1>4
  <2> HIDE DEF A, f, D
  <2>2. IsFiniteSet(A) BY <1>7, <2>1, FiniteImage
  <2> QED BY <2>2 DEF A
<1>9. IsFiniteSet(T.dels)
  <2> DEFINE A == T.dels
             f == [i \in D |-> [key |-> rows[i].key, seq |-> CommitOf(rows, i)]]
  <2>1. f \in [D -> A] /\ \A r \in A : \E i \in D : f[i] = r BY <1>5
  <2> HIDE DEF A, f, D
  <2>2. IsFiniteSet(A) BY <1>7, <2>1, FiniteImage
  <2> QED BY <2>2 DEF A
<1> HIDE DEF T
<1>10. ASSUME NEW i \in D
       PROVE  RowAt(rows, i) \in LiveRows(T) <=>
                 \A j \in D : rows[j].key = rows[i].key => rows[j].cp <= rows[i].cp
  <2>1. RowAt(rows, i) \in T.data BY <1>3, <1>4
  <2>2. IsDeleted(T, RowAt(rows, i)) <=>
           \E j \in D : rows[j].key = rows[i].key /\ CommitOf(rows, j) > CommitOf(rows, i)
    <3>1. IsDeleted(T, RowAt(rows, i)) <=>
             \E d \in T.dels : d.key = rows[i].key /\ d.seq > CommitOf(rows, i)
      BY <1>4a DEF IsDeleted
    <3>2. ASSUME NEW d \in T.dels, d.key = rows[i].key, d.seq > CommitOf(rows, i)
          PROVE  \E j \in D : rows[j].key = rows[i].key /\ CommitOf(rows, j) > CommitOf(rows, i)
      <4>1. PICK j \in D : d = [key |-> rows[j].key, seq |-> CommitOf(rows, j)] BY <1>5
      <4> QED BY <3>2, <4>1
    <3>3. ASSUME NEW j \in D, rows[j].key = rows[i].key, CommitOf(rows, j) > CommitOf(rows, i)
          PROVE  \E d \in T.dels : d.key = rows[i].key /\ d.seq > CommitOf(rows, i)
      <4>1. [key |-> rows[j].key, seq |-> CommitOf(rows, j)] \in T.dels BY <1>5
      <4> QED BY <3>3, <4>1
    <3> QED BY <3>1, <3>2, <3>3
  <2>3. \A j \in D : CommitOf(rows, j) > CommitOf(rows, i) <=> ~(rows[j].cp <= rows[i].cp)
    BY <1>2, CommitsAre
  <2> QED BY <2>1, <2>2, <2>3 DEF LiveRows
<1>11. ASSUME NEW i \in D
       PROVE  RowAt(rows, i) \in Overwrites(rows) <=>
                 \E j \in D : rows[j].key = rows[i].key /\ rows[j].cp = rows[i].cp /\ j > i
  <2>1. RowAt(rows, i) \in Overwrites(rows) <=>
           \E j \in D : CommitOf(rows, j) = CommitOf(rows, i) /\ rows[j].key = rows[i].key /\ j > i
    <3>1. RowAt(rows, i) \in ReplayedRows(rows) BY <1>3
    <3>2. RowAt(rows, i) \in Overwrites(rows) <=>
             \E q \in ReplayedRows(rows) : q.seq = CommitOf(rows, i) /\ q.key = rows[i].key /\ q.part > i
      BY <1>4a, <3>1 DEF Overwrites
    <3>3. ASSUME NEW q \in ReplayedRows(rows),
                 q.seq = CommitOf(rows, i), q.key = rows[i].key, q.part > i
          PROVE  \E j \in D : CommitOf(rows, j) = CommitOf(rows, i) /\ rows[j].key = rows[i].key /\ j > i
      <4>1. PICK j \in D : q = RowAt(rows, j) BY <1>3
      <4> QED BY <1>4a, <3>3, <4>1
    <3>4. ASSUME NEW j \in D, CommitOf(rows, j) = CommitOf(rows, i), rows[j].key = rows[i].key, j > i
          PROVE  \E q \in ReplayedRows(rows) : q.seq = CommitOf(rows, i) /\ q.key = rows[i].key /\ q.part > i
      <4>1. RowAt(rows, j) \in ReplayedRows(rows) BY <1>3
      <4> QED BY <1>4a, <3>4, <4>1
    <3> QED BY <3>2, <3>3, <3>4
  <2>2. \A j \in D : CommitOf(rows, j) = CommitOf(rows, i) <=> rows[j].cp = rows[i].cp
    BY <1>2, CommitsAre
  <2> QED BY <2>1, <2>2
<1> QED BY <1>3, <1>4, <1>5, <1>6, <1>8, <1>9, <1>10, <1>11 DEF T

\* The table and the position deletes are those of a replay of the plan.
Replayed(rows) == lake = ReplayedTable(rows) /\ posRows = Overwrites(rows)

\* A reader is served the last row of a key and no other.
LEMMA LastIsServed ==
    ASSUME NEW rows \in Seq(PlanRows), NEW i \in DOMAIN rows, LastOfKey(rows, i), Replayed(rows)
    PROVE  ServedRows(rows[i].key) = {RowAt(rows, i)}
<1>1. DOMAIN rows = 1..Len(rows) /\ Len(rows) \in Nat BY LenProperties
<1>2. \A j \in DOMAIN rows : j \in Nat /\ rows[j].cp \in Nat
  <2>1. \A j \in DOMAIN rows : rows[j] \in PlanRows BY <1>1, ElementOfSeq
  <2> QED BY <1>1, <2>1 DEF PlanRows
<1>3. \A j \in DOMAIN rows : rows[j].key = rows[i].key => rows[j].cp <= rows[i].cp /\ ~(j > i)
  BY <1>2 DEF LastOfKey
<1>4. \A r : r \in lake.data <=> \E j \in DOMAIN rows : r = RowAt(rows, j) BY ReplayedAre DEF Replayed
<1>5. RowAt(rows, i) \in LiveRows(lake) /\ RowAt(rows, i) \notin posRows
  BY <1>3, ReplayedAre DEF Replayed
<1>6. RowAt(rows, i).key = rows[i].key BY DEF RowAt
<1>7. ASSUME NEW r \in LiveRows(lake), r.key = rows[i].key, r \notin posRows
      PROVE  r = RowAt(rows, i)
  <2>1. PICK j \in DOMAIN rows : r = RowAt(rows, j) BY <1>4 DEF LiveRows
  <2>2. rows[j].key = rows[i].key BY <1>7, <2>1 DEF RowAt
  <2>3. rows[i].cp <= rows[j].cp BY <2>1, <2>2, ReplayedAre DEF Replayed
  <2>4. j # i => j < i /\ rows[j].cp = rows[i].cp BY <1>2, <1>3, <2>2, <2>3
  <2>5. RowAt(rows, j) \in posRows <=>
          \E q \in DOMAIN rows : rows[q].key = rows[j].key /\ rows[q].cp = rows[j].cp /\ q > j
    BY ReplayedAre DEF Replayed
  <2> QED BY <1>2, <1>7, <2>1, <2>2, <2>4, <2>5
<1> QED BY <1>5, <1>6, <1>7 DEF ServedRows, RowsOf

\* What the target's last two versions are worth.
LEMMA LastTwo ==
    ASSUME NEW evs \in Seq(ChangeEvent), OracleOk(evs)
    PROVE  LET V == KeyVersions(evs, Target)
           IN  /\ Len(V) \in Nat /\ Len(V) >= 2
               /\ V[Len(V)] \in Nat /\ V[Len(V) - 1] \in Nat
               /\ V[Len(V) - 1] < V[Len(V)]
               /\ V[Len(V)] = LogicallyLatest(evs, Target)
               /\ Arrived(evs, Target) # {}
<1> DEFINE V == KeyVersions(evs, Target)
           L == Cardinality(Arrived(evs, Target))
<1>1. Len(V) = L /\ VersionsOfKey(V, evs, Target) BY KeyVersionsAre
<1>2. L \in Nat /\ L >= 2
  <2>1. L \in Nat BY ArrivedFinite
  <2> QED BY <1>1, <2>1 DEF OracleOk
<1>3. L \in 1..L /\ L - 1 \in 1..L /\ L - 1 < L BY <1>2
<1>4. V \in [1..L -> Nat] /\ \A m, n \in 1..L : m < n => V[m] <= V[n]
  BY <1>1 DEF VersionsOfKey
<1>5. \A m, n \in 1..L : V[m] = V[n] => m = n
  <2>1. IsInjective(V) BY DEF OracleOk
  <2>2. DOMAIN V = 1..L BY <1>4
  <2> HIDE DEF V, L
  <2> QED BY <2>1, <2>2 DEF IsInjective
<1>6. Arrived(evs, Target) # {} BY <1>2, FS_EmptySet
<1>7. V[Len(V)] = LogicallyLatest(evs, Target) BY DEF LogicallyLatest, Last
<1> HIDE DEF V, L
<1>8. V[L] \in Nat /\ V[L - 1] \in Nat BY <1>3, <1>4
<1>9. V[L - 1] <= V[L] /\ V[L - 1] # V[L]
  <2>1. V[L - 1] <= V[L] BY <1>3, <1>4
  <2>2. V[L - 1] # V[L]
    <3>1. L - 1 # L BY <1>2
    <3> QED BY <1>3, <1>5, <3>1
  <2> QED BY <2>1, <2>2
<1>10. V[L - 1] < V[L] BY <1>8, <1>9
<1> QED BY <1>1, <1>2, <1>6, <1>7, <1>8, <1>10 DEF V

\* The plan's last row is what the target is served, under a younger one that is deleted:
\* the checker calls it a stale win.
LEMMA TargetIsStale ==
    ASSUME NEW evs \in Seq(ChangeEvent), OracleOk(evs),
           NEW rows, PlanFor(rows, evs), Replayed(rows)
    PROVE  LET r == RowAt(rows, Len(rows))
               V == KeyVersions(evs, Target)
           IN  /\ r.key = Target /\ r.ver = V[Len(V) - 1]
               /\ ServedRows(Target) = {r} /\ r \in lake.data
               /\ TargetVerdict = "STALE_WINS"
               /\ \E q \in lake.data : q.file # r.file
               /\ lake \in Table(ChainKeys, Nat) /\ IsFiniteSet(lake.data) /\ IsFiniteSet(lake.dels)
               /\ \A d \in lake.dels : \E q \in lake.data : d.seq = q.seq
<1> DEFINE n == Len(rows)
           V == KeyVersions(evs, Target)
           r == RowAt(rows, n)
           q == RowAt(rows, n - 1)
<1>1. rows \in Seq(PlanRows) /\ n \in Nat /\ n >= 2 /\ DOMAIN rows = 1..n
  BY LenProperties DEF PlanFor
<1>2. n \in DOMAIN rows /\ n - 1 \in DOMAIN rows
  <2> HIDE DEF n
  <2> QED BY <1>1
<1>3. /\ rows[n] = PlanRow(4, Target, V[Len(V) - 1])
      /\ rows[n - 1] = PlanRow(3, Target, V[Len(V)])
      /\ \A i \in 1..n : i # n => rows[i].cp < 4
  BY DEF PlanFor
<1> HIDE DEF n, V
<1>4. /\ rows[n].cp = 4 /\ rows[n].key = Target /\ rows[n].lsn = V[Len(V) - 1]
      /\ rows[n - 1].cp = 3 /\ rows[n - 1].key = Target /\ rows[n - 1].lsn = V[Len(V)]
  BY <1>3 DEF PlanRow
<1>5. \A j \in DOMAIN rows : rows[j].cp \in 1..4 /\ (j # n => j < n /\ rows[j].cp < 4)
  <2>1. \A j \in DOMAIN rows : rows[j] \in PlanRows BY <1>1, ElementOfSeq
  <2>2. \A j \in DOMAIN rows : rows[j].cp \in 1..4 BY <2>1 DEF PlanRows
  <2> QED BY <1>1, <1>3, <2>2
<1>6. LastOfKey(rows, n) BY <1>4, <1>5 DEF LastOfKey
<1>7. ServedRows(Target) = {r} BY <1>1, <1>2, <1>4, <1>6, LastIsServed
<1>8. /\ lake \in Table(ChainKeys, Nat) /\ IsFiniteSet(lake.data) /\ IsFiniteSet(lake.dels)
      /\ r \in lake.data /\ q \in lake.data
      /\ \A x : x \in lake.data <=> \E i \in DOMAIN rows : x = RowAt(rows, i)
  BY <1>1, <1>2, ReplayedAre DEF Replayed
<1>9. RowsOf(LiveRows(lake), Target) = {r}
  <2>1. r \in LiveRows(lake) /\ r.key = Target
    <3>1. \A j \in DOMAIN rows : rows[j].cp <= rows[n].cp BY <1>4, <1>5
    <3> QED BY <1>1, <1>2, <1>4, <3>1, ReplayedAre DEF Replayed, RowAt
  <2>2. ASSUME NEW x \in LiveRows(lake), x.key = Target PROVE x = r
    <3>1. PICK j \in DOMAIN rows : x = RowAt(rows, j) BY <1>8 DEF LiveRows
    <3>2. rows[j].key = Target BY <2>2, <3>1 DEF RowAt
    <3>3. rows[n].cp <= rows[j].cp BY <1>1, <1>2, <1>4, <3>1, <3>2, ReplayedAre DEF Replayed
    <3>4. j = n BY <1>4, <1>5, <3>3
    <3> QED BY <3>1, <3>4
  <2> QED BY <2>1, <2>2 DEF RowsOf
<1>10. /\ r.key = Target /\ r.ver = V[Len(V) - 1]
       /\ q.key = Target /\ q.ver = V[Len(V)]
  BY <1>4 DEF RowAt
<1>11. /\ V[Len(V)] \in Nat /\ V[Len(V) - 1] \in Nat /\ V[Len(V) - 1] < V[Len(V)]
  BY LastTwo DEF V
<1>12. Classify(Layout(lake, Target, TRUE, FALSE)) = "STALE_WINS"
  <2>1. q \in RowsOf(lake.data, Target) /\ q.ver > r.ver BY <1>8, <1>10, <1>11 DEF RowsOf
  <2>2. r.ver # NoVersion /\ q.ver # NoVersion BY <1>10, <1>11, NoVersionAssumption
  <2> HIDE DEF r, q
  <2> QED BY <1>8, <1>9, <2>1, <2>2, StaleWinsMeaning
<1>13. Target \in LayoutKeys(lake) BY <1>8, <1>10 DEF LayoutKeys
<1>14. q.file # r.file
  <2>1. CommitOf(rows, n - 1) # CommitOf(rows, n)
    <3>3. rows[n - 1].cp < rows[n].cp BY <1>4
    <3>1. CommitOf(rows, n - 1) < CommitOf(rows, n) BY <1>1, <1>2, <3>3, CommitsAre
    <3>2. CommitOf(rows, n - 1) \in Nat /\ CommitOf(rows, n) \in Nat BY <1>1, <1>2, CommitsAre
    <3> QED BY <3>1, <3>2
  <2> QED BY <2>1 DEF RowAt
<1>15. ASSUME NEW d \in lake.dels PROVE \E x \in lake.data : d.seq = x.seq
  <2>1. PICK i \in DOMAIN rows : d = [key |-> rows[i].key, seq |-> CommitOf(rows, i)]
    BY <1>1, ReplayedAre DEF Replayed
  <2>2. RowAt(rows, i) \in lake.data /\ RowAt(rows, i).seq = CommitOf(rows, i) BY <1>8 DEF RowAt
  <2> QED BY <2>1, <2>2
<1>16. TargetVerdict = "STALE_WINS" BY <1>12, <1>13 DEF TargetVerdict
<1> HIDE DEF r, q
<1>17. /\ r.key = Target /\ r.ver = V[Len(V) - 1]
       /\ ServedRows(Target) = {r} /\ r \in lake.data
       /\ \E x \in lake.data : x.file # r.file
  BY <1>7, <1>8, <1>10, <1>14
<1> QED BY <1>8, <1>15, <1>16, <1>17 DEF r, n, V

-----------------------------------------------------------------------------
\* The invariant of the induced run.

PrefixOf(s, t) == Len(s) <= Len(t) /\ \A i \in 1..Len(s) : s[i] = t[i]

ChainTypeOK ==
    /\ wal \in Seq(ChangeEvent) /\ topic \in Seq(ChangeEvent)
    /\ oracle.events \in Seq(ChangeEvent) /\ writePlan.of \in Seq(ChangeEvent)
    /\ offset \in 0..Len(wal)

\* The topic holds nothing that was not committed, however often the connector starts over.
TopicIsLog == \A i \in DOMAIN topic : \E j \in DOMAIN wal : wal[j] = topic[i]

\* The plan was made of an earlier capture, that capture of an earlier topic.
CapturedInTurn == PrefixOf(writePlan.of, oracle.events) /\ PrefixOf(oracle.events, topic)

Controlled ==
    /\ oracle.ok => OracleOk(oracle.events)
    /\ writePlan.rows # <<>> => OracleOk(writePlan.of) /\ PlanFor(writePlan.rows, writePlan.of)

\* What the verification has seen, stage by stage.
SeenSoFar ==
    /\ e2e.stage \in {"idle", "built", "observed", "done"}
    /\ e2e.stage # "idle" => writePlan.rows # <<>>
    /\ e2e.stage \in {"built", "observed"} => Replayed(writePlan.rows)
    /\ e2e.stage = "built" =>
          e2e.latest \in Nat /\ e2e.latest >= LogicallyLatest(writePlan.of, Target)
    /\ e2e.stage = "observed" =>
          e2e.ok /\ e2e.verdict = "STALE_WINS" /\ e2e.served = ServedRows(Target)
    /\ e2e.stage = "done" =>
          /\ e2e.passed /\ e2e.before.verdict = "STALE_WINS" /\ e2e.verdict = "FAITHFUL"
          /\ \E r : /\ ServedRows(Target) = {r}
                    /\ r.ver \in Nat /\ r.ver < LogicallyLatest(writePlan.of, Target)
                    /\ Content(e2e.before.served) = Content({r})

ChainInv == ChainTypeOK /\ TopicIsLog /\ CapturedInTurn /\ Controlled /\ SeenSoFar

\* More events can only make the latest version younger.
LEMMA PrefixLatest ==
    ASSUME NEW s \in Seq(ChangeEvent), NEW t \in Seq(ChangeEvent), PrefixOf(s, t),
           NEW k, Arrived(s, k) # {}
    PROVE  LogicallyLatest(s, k) <= LogicallyLatest(t, k)
<1>1. DOMAIN s = 1..Len(s) /\ DOMAIN t = 1..Len(t) /\ Len(s) \in Nat /\ Len(t) \in Nat BY LenProperties
<1>2. Arrived(s, k) \subseteq Arrived(t, k) BY <1>1 DEF PrefixOf, Arrived
<1>3. PICK i \in Arrived(s, k) : s[i].lsn = LogicallyLatest(s, k) BY LatestIs
<1>4. i \in Arrived(t, k) /\ t[i] = s[i] BY <1>1, <1>2 DEF PrefixOf, Arrived
<1>5. t[i].lsn <= LogicallyLatest(t, k) BY <1>4, LatestIs
<1> QED BY <1>3, <1>4, <1>5

\* What the oracle of the plan knew, Postgres had committed.
LEMMA KnownIsCommitted ==
    ASSUME ChainInv, Arrived(writePlan.of, Target) # {}
    PROVE  LogicallyLatest(writePlan.of, Target) <= TrueLatest(Target) /\ TrueLatest(Target) \in Nat
<1> DEFINE L == {wal[i].lsn : i \in {j \in DOMAIN wal : wal[j].key = Target}}
           s == writePlan.of
<1>1. /\ DOMAIN s = 1..Len(s) /\ DOMAIN topic = 1..Len(topic) /\ DOMAIN wal = 1..Len(wal)
      /\ Len(s) \in Nat /\ Len(topic) \in Nat /\ Len(wal) \in Nat /\ Len(oracle.events) \in Nat
  BY LenProperties DEF ChainInv, ChainTypeOK
<1>2. PICK i \in Arrived(s, Target) : s[i].lsn = LogicallyLatest(s, Target)
  BY LatestIs DEF ChainInv, ChainTypeOK
<1>3. i \in DOMAIN topic /\ topic[i] = s[i] /\ s[i].key = Target
  BY <1>1 DEF ChainInv, CapturedInTurn, PrefixOf, Arrived
<1>4. PICK j \in DOMAIN wal : wal[j] = s[i] BY <1>3 DEF ChainInv, TopicIsLog
<1>5. s[i].lsn \in L BY <1>3, <1>4
<1>6. L \in SUBSET Nat
  <2>1. \A x \in DOMAIN wal : wal[x] \in ChangeEvent BY <1>1, ElementOfSeq DEF ChainInv, ChainTypeOK
  <2> QED BY <2>1 DEF ChangeEvent
<1>7. IsFiniteSet(L)
  <2> DEFINE D == {x \in DOMAIN wal : wal[x].key = Target}
             f == [x \in D |-> wal[x].lsn]
  <2>1. IsFiniteSet(1..Len(wal))
    <3>1. 1 \in Int /\ Len(wal) \in Int BY <1>1
    <3> QED BY <3>1, FS_Interval
  <2>2. D \in SUBSET (1..Len(wal)) BY <1>1
  <2>3. IsFiniteSet(D)
    <3> HIDE DEF D
    <3> QED BY <2>1, <2>2, FS_Subset
  <2>4. f \in [D -> L] /\ \A x \in L : \E y \in D : f[y] = x OBVIOUS
  <2> HIDE DEF D, f, L
  <2> QED BY <2>3, <2>4, FiniteImage
<1>8. TrueLatest(Target) = Max(L) BY DEF TrueLatest
<1> HIDE DEF L
<1>9. Max(L) \in L /\ Max(L) >= s[i].lsn BY <1>5, <1>6, <1>7, MaxMin
<1> QED BY <1>2, <1>5, <1>6, <1>8, <1>9

\* Nothing has been captured at the start.
LEMMA ChainStarts == ChainInit => ChainInv
<1> SUFFICES ASSUME ChainInit PROVE ChainInv OBVIOUS
<1>1. <<>> \in Seq(ChangeEvent) /\ Len(<<>>) = 0 BY EmptySeq
<1>2. ChainTypeOK /\ TopicIsLog /\ CapturedInTurn
  BY <1>1 DEF ChainInit, ChainTypeOK, NoOracle, TopicIsLog, CapturedInTurn, PrefixOf
<1>3. Controlled /\ SeenSoFar BY DEF ChainInit, NoOracle, Controlled, SeenSoFar
<1> QED BY <1>2, <1>3 DEF ChainInv

\* The log, the topic and the captures.
LEMMA SourceKeeps ==
    ASSUME ChainInv, (\E k \in ChainKeys : WalCommit(k)) \/ Publish \/ ConnectorRestarts \/ Capture \/ BuildPlan
    PROVE  ChainTypeOK' /\ TopicIsLog' /\ CapturedInTurn'
<1> USE DEF ChainInv, ChainTypeOK
<1>1. /\ DOMAIN wal = 1..Len(wal) /\ DOMAIN topic = 1..Len(topic)
      /\ Len(wal) \in Nat /\ Len(topic) \in Nat /\ Len(oracle.events) \in Nat /\ Len(writePlan.of) \in Nat
  BY LenProperties
<1>2. ASSUME NEW k \in ChainKeys, WalCommit(k) PROVE ChainTypeOK' /\ TopicIsLog' /\ CapturedInTurn'
  <2> DEFINE last == IF wal = <<>> THEN 1 ELSE Last(wal).lsn
  <2>1. last \in Nat
    <3>1. CASE wal # <<>>
      <4>1. Len(wal) \in 1..Len(wal) BY <1>1, <3>1, EmptySeq
      <4>2. wal[Len(wal)] \in ChangeEvent BY <4>1, ElementOfSeq
      <4> QED BY <3>1, <4>2 DEF Last, ChangeEvent
    <3> QED BY <3>1
  <2>2. PICK lsn \in {last, last + 1} : wal' = Append(wal, [key |-> k, lsn |-> lsn]) BY <1>2 DEF WalCommit
  <2>3. UNCHANGED <<topic, oracle, writePlan, offset>> BY <1>2 DEF WalCommit, ToolVars
  <2>4. [key |-> k, lsn |-> lsn] \in ChangeEvent BY <2>1, <2>2 DEF ChangeEvent
  <2>5. /\ wal' \in Seq(ChangeEvent) /\ Len(wal') = Len(wal) + 1
        /\ \A i \in 1..Len(wal) : wal'[i] = wal[i]
    <3> HIDE DEF last
    <3> QED BY <2>2, <2>4, AppendProperties
  <2>6. DOMAIN wal' = 1..Len(wal) + 1 BY <2>5, LenProperties
  <2>7. offset' \in 0..Len(wal') BY <1>1, <2>3, <2>5
  <2>8. TopicIsLog'
    <3>1. \A j \in DOMAIN wal : j \in DOMAIN wal' /\ wal'[j] = wal[j] BY <1>1, <2>5, <2>6
    <3> QED BY <2>3, <3>1 DEF TopicIsLog
  <2>9. CapturedInTurn' BY <2>3 DEF CapturedInTurn, PrefixOf
  <2> QED BY <2>3, <2>5, <2>7, <2>8, <2>9
<1>3. CASE Publish
  <2>1. /\ offset < Len(wal) /\ topic' = Append(topic, wal[offset + 1]) /\ offset' = offset + 1
        /\ UNCHANGED <<wal, oracle, writePlan>>
    BY <1>3 DEF Publish, ToolVars
  <2>2. offset + 1 \in 1..Len(wal) BY <1>1, <2>1
  <2>3. wal[offset + 1] \in ChangeEvent BY <2>2, ElementOfSeq
  <2>4. /\ topic' \in Seq(ChangeEvent) /\ Len(topic') = Len(topic) + 1
        /\ \A i \in 1..Len(topic) : topic'[i] = topic[i]
        /\ topic'[Len(topic) + 1] = wal[offset + 1]
    BY <2>1, <2>3, AppendProperties
  <2>5. DOMAIN topic' = 1..Len(topic) + 1 BY <2>4, LenProperties
  <2>6. TopicIsLog'
    <3> SUFFICES ASSUME NEW i \in DOMAIN topic' PROVE \E j \in DOMAIN wal : wal[j] = topic'[i]
      BY <2>1 DEF TopicIsLog
    <3>1. i \in 1..Len(topic) \/ i = Len(topic) + 1 BY <1>1, <2>5
    <3> QED BY <1>1, <2>2, <2>4, <3>1 DEF TopicIsLog
  <2>7. CapturedInTurn'
    <3>1. \A i \in 1..Len(oracle.events) : i \in 1..Len(topic) BY <1>1 DEF CapturedInTurn, PrefixOf
    <3> QED BY <1>1, <2>1, <2>4, <3>1 DEF CapturedInTurn, PrefixOf
  <2>8. offset' \in 0..Len(wal') BY <1>1, <2>1
  <2> QED BY <2>1, <2>4, <2>6, <2>7, <2>8
<1>4. CASE ConnectorRestarts
  <2>1. offset' \in 0..offset - 1 /\ UNCHANGED <<wal, topic, oracle, writePlan>>
    BY <1>4 DEF ConnectorRestarts, ToolVars
  <2>2. offset' \in 0..Len(wal') BY <1>1, <2>1
  <2> QED BY <2>1, <2>2 DEF TopicIsLog, CapturedInTurn, PrefixOf
<1>5. CASE Capture
  <2>1. oracle'.events = topic /\ UNCHANGED <<wal, offset, topic, writePlan>> BY <1>5 DEF Capture, sourceVars
  <2>2. \A i \in 1..Len(writePlan.of) : i \in 1..Len(oracle.events) BY <1>1 DEF CapturedInTurn, PrefixOf
  <2>3. CapturedInTurn' BY <1>1, <2>1, <2>2 DEF CapturedInTurn, PrefixOf
  <2> QED BY <2>1, <2>3 DEF TopicIsLog
<1>6. CASE BuildPlan
  <2>1. writePlan'.of = oracle.events /\ UNCHANGED <<wal, offset, topic, oracle>> BY <1>6 DEF BuildPlan, sourceVars
  <2>2. CapturedInTurn' BY <1>1, <2>1 DEF CapturedInTurn, PrefixOf
  <2> QED BY <2>1, <2>2 DEF TopicIsLog
<1> QED BY <1>2, <1>3, <1>4, <1>5, <1>6

\* The controls hold of what is captured and planned, and a plan that is being verified is
\* not made anew.
LEMMA SourceSees ==
    ASSUME ChainInv, (\E k \in ChainKeys : WalCommit(k)) \/ Publish \/ ConnectorRestarts \/ Capture \/ BuildPlan
    PROVE  Controlled' /\ SeenSoFar'
<1>1. ASSUME UNCHANGED <<writePlan, lake, posRows, e2e>> PROVE SeenSoFar'
  <2>1. ServedRows(Target)' = ServedRows(Target) BY <1>1 DEF ServedRows
  <2>2. Replayed(writePlan.rows)' = Replayed(writePlan.rows) BY <1>1 DEF Replayed
  <2> QED BY <1>1, <2>1, <2>2 DEF ChainInv, SeenSoFar
<1>2. CASE (\E k \in ChainKeys : WalCommit(k)) \/ Publish \/ ConnectorRestarts
  <2>1. UNCHANGED <<oracle, writePlan, lake, posRows, e2e>>
    BY <1>2 DEF WalCommit, Publish, ConnectorRestarts, ToolVars
  <2> QED BY <1>1, <2>1 DEF ChainInv, Controlled
<1>3. CASE Capture
  <2>1. /\ oracle' = [events |-> topic, ok |-> OracleOk(topic)]
        /\ UNCHANGED <<writePlan, lake, posRows, e2e>>
    BY <1>3 DEF Capture
  <2> QED BY <1>1, <2>1 DEF ChainInv, Controlled
<1>4. CASE BuildPlan
  <2>1. /\ oracle.ok /\ e2e.stage = "idle" /\ UNCHANGED <<oracle, e2e>>
        /\ writePlan' = [rows |-> PlanOf(oracle.events), of |-> oracle.events]
    BY <1>4 DEF BuildPlan
  <2>2. OracleOk(oracle.events) BY <2>1 DEF ChainInv, Controlled
  <2>3. PlanFor(PlanOf(oracle.events), oracle.events) BY <2>2, PlanIsFor DEF ChainInv, ChainTypeOK
  <2>4. Controlled' BY <2>1, <2>2, <2>3 DEF Controlled
  <2>5. SeenSoFar' BY <2>1 DEF SeenSoFar
  <2> QED BY <2>4, <2>5
<1> QED BY <1>2, <1>3, <1>4

\* The verification up to the rewrite.
LEMMA BuiltAndObserved ==
    ASSUME ChainInv, Regenerate \/ Observe
    PROVE  Controlled' /\ SeenSoFar'
<1> DEFINE s == writePlan.of
<1>1. UNCHANGED <<oracle, writePlan>> BY DEF Regenerate, Observe
<1>2. Controlled' BY <1>1 DEF ChainInv, Controlled
<1>3. writePlan.rows # <<>> => OracleOk(s) /\ PlanFor(writePlan.rows, s) /\ s \in Seq(ChangeEvent)
  BY DEF ChainInv, Controlled, ChainTypeOK
<1>4. CASE Regenerate
  <2>1. /\ writePlan.rows # <<>>
        /\ lake' = ReplayedTable(writePlan.rows) /\ posRows' = Overwrites(writePlan.rows)
        /\ e2e' = [stage |-> "built", latest |-> LogicallyLatest(oracle.events, Target)]
    BY <1>4 DEF Regenerate
  <2>2. Arrived(s, Target) # {} BY <1>3, <2>1, LastTwo
  <2>3. LogicallyLatest(s, Target) <= LogicallyLatest(oracle.events, Target)
    BY <2>2, PrefixLatest DEF ChainInv, ChainTypeOK, CapturedInTurn
  <2>4. Arrived(oracle.events, Target) # {}
    <3>1. /\ Len(s) \in Nat /\ Len(oracle.events) \in Nat
          /\ DOMAIN s = 1..Len(s) /\ DOMAIN oracle.events = 1..Len(oracle.events)
      BY LenProperties DEF ChainInv, ChainTypeOK
    <3> QED BY <2>2, <3>1 DEF Arrived, ChainInv, CapturedInTurn, PrefixOf
  <2>5. LogicallyLatest(s, Target) \in Nat /\ LogicallyLatest(oracle.events, Target) \in Nat
    BY <2>2, <2>4, LatestIs DEF ChainInv, ChainTypeOK
  <2>6. e2e'.latest \in Nat /\ e2e'.latest >= LogicallyLatest(s, Target) BY <2>1, <2>3, <2>5
  <2>7. Replayed(writePlan.rows)' BY <1>1, <2>1 DEF Replayed
  <2> QED BY <1>1, <1>2, <2>1, <2>6, <2>7 DEF SeenSoFar
<1>5. CASE Observe
  <2>1. /\ e2e.stage = "built" /\ UNCHANGED <<lake, posRows>>
        /\ e2e' = [stage |-> "observed", served |-> ServedRows(Target), verdict |-> TargetVerdict, ok |-> ConfirmedBefore]
    BY <1>5 DEF Observe
  <2>2. /\ writePlan.rows # <<>> /\ Replayed(writePlan.rows)
        /\ e2e.latest \in Nat /\ e2e.latest >= LogicallyLatest(s, Target)
    BY <2>1 DEF ChainInv, SeenSoFar
  <2> DEFINE r == RowAt(writePlan.rows, Len(writePlan.rows))
             V == KeyVersions(s, Target)
  <2>3. /\ r.ver = V[Len(V) - 1] /\ ServedRows(Target) = {r} /\ TargetVerdict = "STALE_WINS"
    BY <1>3, <2>2, TargetIsStale
  <2>4. V[Len(V) - 1] \in Nat /\ V[Len(V)] \in Nat /\ V[Len(V) - 1] < V[Len(V)] /\ V[Len(V)] = LogicallyLatest(s, Target)
    BY <1>3, <2>2, LastTwo
  <2> HIDE DEF r, V
  <2>5. r.ver < e2e.latest BY <2>2, <2>3, <2>4
  <2>6. ConfirmedBefore BY <2>3, <2>5, FS_Singleton DEF ConfirmedBefore
  <2>7. ServedRows(Target)' = ServedRows(Target) BY <2>1 DEF ServedRows
  <2>8. Replayed(writePlan.rows)' BY <1>1, <2>1, <2>2 DEF Replayed
  <2> QED BY <1>1, <1>2, <2>1, <2>2, <2>3, <2>6, <2>7, <2>8 DEF SeenSoFar
<1> QED BY <1>4, <1>5

\* The rewrite keeps the row that is served, and with the deleted one the finding goes.
LEMMA RewrittenIsFaithful ==
    ASSUME ChainInv, RewriteAndObserve
    PROVE  Controlled' /\ SeenSoFar'
<1> DEFINE s == writePlan.of
           n == Len(writePlan.rows)
           r == RowAt(writePlan.rows, n)
           V == KeyVersions(s, Target)
           served == UNION {ServedRows(k) : k \in ChainKeys}
           top == NextSeq - 1
           moved(x) == [x EXCEPT !.file = <<NextSeq, 1>>, !.seq = top]
           seqs == {x.seq : x \in lake.data}
<1>1. /\ e2e.stage = "observed" /\ UNCHANGED <<oracle, writePlan>>
      /\ lake' = Rewritten /\ posRows' = {}
  BY DEF RewriteAndObserve
<1>2. Controlled' BY <1>1 DEF ChainInv, Controlled
<1>3. /\ writePlan.rows # <<>> /\ Replayed(writePlan.rows)
      /\ e2e.ok /\ e2e.verdict = "STALE_WINS" /\ e2e.served = ServedRows(Target)
  BY <1>1 DEF ChainInv, SeenSoFar
<1>4. OracleOk(s) /\ PlanFor(writePlan.rows, s) /\ s \in Seq(ChangeEvent)
  BY <1>3 DEF ChainInv, Controlled, ChainTypeOK
<1>5. /\ r.key = Target /\ r.ver = V[Len(V) - 1]
      /\ ServedRows(Target) = {r} /\ r \in lake.data
      /\ \E q \in lake.data : q.file # r.file
      /\ lake \in Table(ChainKeys, Nat) /\ IsFiniteSet(lake.data) /\ IsFiniteSet(lake.dels)
      /\ \A d \in lake.dels : \E q \in lake.data : d.seq = q.seq
  BY <1>3, <1>4, TargetIsStale
<1>6. V[Len(V) - 1] \in Nat /\ V[Len(V)] \in Nat /\ V[Len(V) - 1] < V[Len(V)] /\ V[Len(V)] = LogicallyLatest(s, Target)
  BY <1>4, LastTwo
<1> HIDE DEF r, V, n
<1>7. top \in Nat /\ NextSeq \in Nat /\ \A x \in lake.data : x.seq \in Nat /\ x.seq <= top
  <2>1. seqs \in SUBSET Nat BY <1>5 DEF Table, Row
  <2>2. IsFiniteSet(seqs)
    <3> DEFINE A == lake.data
               f == [x \in A |-> x.seq]
    <3>1. f \in [A -> seqs] /\ \A y \in seqs : \E x \in A : f[x] = y OBVIOUS
    <3>2. IsFiniteSet(A) BY <1>5
    <3> HIDE DEF A, f, seqs
    <3> QED BY <3>1, <3>2, FiniteImage
  <2>3. r.seq \in seqs BY <1>5
  <2>4. NextSeq = 1 + Max(seqs) BY DEF NextSeq
  <2>5. Max(seqs) \in Nat /\ \A y \in seqs : Max(seqs) >= y /\ y \in Nat
    <3> HIDE DEF seqs
    <3> QED BY <2>1, <2>2, <2>3, MaxMin
  <2>6. \A x \in lake.data : x.seq \in seqs OBVIOUS
  <2> HIDE DEF seqs
  <2> QED BY <2>4, <2>5, <2>6
<1>8. /\ lake'.data = {moved(x) : x \in served} /\ lake'.dels = lake.dels
      /\ lake' = [data |-> lake'.data, dels |-> lake'.dels]
  BY <1>1 DEF Rewritten
<1>9. served \subseteq lake.data /\ \A x \in served : x.key = Target => x = r
  <2>1. ASSUME NEW k \in ChainKeys, NEW x \in ServedRows(k) PROVE x \in lake.data /\ x.key = k
    BY <2>1 DEF ServedRows, RowsOf, LiveRows
  <2> QED BY <1>5, <2>1
<1>10. r \in served BY <1>5, ChainAssumption
<1> HIDE DEF served, top
<1>11. \A x \in served : /\ moved(x).key = x.key /\ moved(x).seq = top /\ moved(x).ver = x.ver
                         /\ moved(x).commit = x.commit /\ moved(x).part = x.part
                         /\ moved(x) \in Row(ChainKeys, Nat)
  <2> TAKE x \in served
  <2>1. x \in Row(ChainKeys, Nat) BY <1>5, <1>9 DEF Table
  <2> QED BY <1>7, <2>1 DEF Row, File
<1> HIDE DEF moved
<1>12. lake' \in Table(ChainKeys, Nat) BY <1>5, <1>8, <1>11 DEF Table
<1>13. IsFiniteSet(lake'.data) /\ IsFiniteSet(lake'.dels)
  <2>1. IsFiniteSet(served) BY <1>5, <1>9, FS_Subset
  <2> DEFINE A == lake'.data
             f == [x \in served |-> moved(x)]
  <2>2. f \in [served -> A] /\ \A y \in A : \E x \in served : f[x] = y BY <1>8
  <2> HIDE DEF A, f
  <2>3. IsFiniteSet(A) BY <2>1, <2>2, FiniteImage
  <2> QED BY <1>5, <1>8, <2>3 DEF A
<1>14. LiveRows(lake') = lake'.data
  <2>1. ASSUME NEW x \in lake'.data, NEW d \in lake'.dels PROVE ~(d.seq > x.seq)
    <3>1. x.seq = top BY <1>8, <1>11
    <3>2. PICK q \in lake.data : d.seq = q.seq BY <1>5, <1>8
    <3> QED BY <1>7, <3>1, <3>2
  <2> QED BY <2>1 DEF LiveRows, IsDeleted
<1>15. RowsOf(lake'.data, Target) = {moved(r)} BY <1>5, <1>8, <1>9, <1>10, <1>11 DEF RowsOf
<1>16. RowsOf(LiveRows(lake'), Target) = {moved(r)} BY <1>14, <1>15
<1>17. moved(r).ver = r.ver /\ r.ver \in Nat /\ r.ver # NoVersion
  BY <1>5, <1>6, <1>10, <1>11, NoVersionAssumption
<1>18. Classify(Layout(lake', Target, TRUE, FALSE)) = "FAITHFUL"
  <2>1. ~\E d \in RowsOf(lake'.data, Target) : d.ver # NoVersion /\ d.ver > moved(r).ver BY <1>15, <1>17
  <2>2. moved(r).ver # NoVersion BY <1>17
  <2> DEFINE T == lake'
  <2>3. /\ T \in Table(ChainKeys, Nat) /\ IsFiniteSet(T.data) /\ IsFiniteSet(T.dels)
        /\ RowsOf(LiveRows(T), Target) = {moved(r)}
        /\ ~\E d \in RowsOf(T.data, Target) : d.ver # NoVersion /\ d.ver > moved(r).ver
    BY <1>12, <1>13, <1>16, <2>1
  <2> HIDE DEF T
  <2>4. Classify(Layout(T, Target, TRUE, FALSE)) = "FAITHFUL" BY <2>2, <2>3, VerdictByRows
  <2> QED BY <2>4 DEF T
<1>19. Target \in LayoutKeys(lake') BY <1>15 DEF LayoutKeys, RowsOf
<1>20. TargetVerdict' = "FAITHFUL" BY <1>18, <1>19 DEF TargetVerdict
<1>21. ServedRows(Target)' = {moved(r)} BY <1>1, <1>16 DEF ServedRows
<1>22. Content({moved(r)}) = Content({r}) BY <1>10, <1>11 DEF Content
<1>23. Cardinality({x.file : x \in lake.data}) >= 2
  <2> DEFINE F == {x.file : x \in lake.data}
             f == [x \in lake.data |-> x.file]
  <2>1. f \in [lake.data -> F] /\ \A y \in F : \E x \in lake.data : f[x] = y OBVIOUS
  <2>2. \E a, b \in F : a # b BY <1>5
  <2> HIDE DEF F, f
  <2>3. IsFiniteSet(F) BY <1>5, <2>1, FiniteImage
  <2>4. Cardinality(F) \in Nat BY <2>3, FS_CardinalityType
  <2>5. Cardinality(F) # 0 /\ Cardinality(F) # 1 BY <2>2, <2>3, FS_EmptySet, FS_Singleton
  <2>6. Cardinality(F) >= 2 BY <2>4, <2>5
  <2> QED BY <2>6 DEF F
<1>24. e2e'.stage = "done" /\ e2e'.before = e2e /\ e2e'.verdict = "FAITHFUL"
  BY <1>20 DEF RewriteAndObserve
<1>25. e2e'.passed
  <2>1. /\ {moved(r)} # {} /\ Content({moved(r)}) = Content(e2e.served)
    BY <1>3, <1>5, <1>22
  <2>2. TargetVerdict' # "STALE_WINS" BY <1>20
  <2> QED BY <1>3, <1>16, <1>23, <2>1, <2>2 DEF RewriteAndObserve
<1>26. moved(r).ver \in Nat /\ moved(r).ver < LogicallyLatest(s, Target) BY <1>5, <1>6, <1>17
<1>27. Content(e2e'.before.served) = Content({moved(r)}) BY <1>3, <1>5, <1>22, <1>24
<1>28. e2e'.before.verdict = "STALE_WINS" BY <1>3, <1>24
<1>29. SeenSoFar'
  BY <1>1, <1>3, <1>21, <1>24, <1>25, <1>26, <1>27, <1>28 DEF SeenSoFar
<1> QED BY <1>2, <1>29

\* Every step keeps the invariant.
LEMMA ChainKept == ChainInv /\ [ChainNext]_chainVars => ChainInv'
<1> SUFFICES ASSUME ChainInv, [ChainNext]_chainVars PROVE ChainInv' OBVIOUS
<1>1. CASE (\E k \in ChainKeys : WalCommit(k)) \/ Publish \/ ConnectorRestarts \/ Capture \/ BuildPlan
  BY <1>1, SourceKeeps, SourceSees DEF ChainInv
<1>2. CASE Regenerate \/ Observe \/ RewriteAndObserve
  <2>1. UNCHANGED <<sourceVars, oracle, writePlan>> BY <1>2 DEF Regenerate, Observe, RewriteAndObserve
  <2>2. ChainTypeOK' /\ TopicIsLog' /\ CapturedInTurn'
    BY <2>1 DEF sourceVars, ChainInv, ChainTypeOK, TopicIsLog, CapturedInTurn, PrefixOf
  <2>3. Controlled' /\ SeenSoFar' BY <1>2, BuiltAndObserved, RewrittenIsFaithful
  <2> QED BY <2>2, <2>3 DEF ChainInv
<1>3. CASE UNCHANGED chainVars
  <2>1. ServedRows(Target)' = ServedRows(Target) BY <1>3 DEF ServedRows, chainVars
  <2>2. Replayed(writePlan.rows)' = Replayed(writePlan.rows) BY <1>3 DEF Replayed, chainVars
  <2>3. SeenSoFar' BY <1>3, <2>1, <2>2 DEF chainVars, ChainInv, SeenSoFar
  <2> QED BY <1>3, <2>3 DEF chainVars, sourceVars, ChainInv, ChainTypeOK, TopicIsLog, CapturedInTurn, PrefixOf, Controlled
<1> QED BY <1>1, <1>2, <1>3 DEF ChainNext

\* ChainInv is an invariant of the induced run.
LEMMA ChainHolds == ChainSpec => []ChainInv
BY ChainStarts, ChainKept, PTL DEF ChainSpec

\* EveryPlanDemonstrates holds of every log, delivery and moment of capture: what
\* verify_end_to_end.py checks is there to be found whenever build_write_plan.py made a plan.
THEOREM PlansDemonstrate == ChainSpec => []EveryPlanDemonstrates
<1>1. ChainInv => EveryPlanDemonstrates
  <2> SUFFICES ASSUME ChainInv, e2e.stage = "done" PROVE EveryPlanDemonstrates BY DEF EveryPlanDemonstrates
  <2> DEFINE s == writePlan.of
  <2>1. OracleOk(s) /\ s \in Seq(ChangeEvent) BY DEF ChainInv, SeenSoFar, Controlled, ChainTypeOK
  <2>2. LogicallyLatest(s, Target) \in Nat /\ Arrived(s, Target) # {} BY <2>1, LastTwo
  <2>3. LogicallyLatest(s, Target) <= TrueLatest(Target) BY <2>2, KnownIsCommitted
  <2>4. TrueLatest(Target) \in Nat BY <2>2, KnownIsCommitted
  <2>5. /\ e2e.passed /\ e2e.before.verdict = "STALE_WINS" /\ e2e.verdict = "FAITHFUL"
        /\ \E r : /\ ServedRows(Target) = {r}
                  /\ r.ver \in Nat /\ r.ver < LogicallyLatest(s, Target)
                  /\ Content(e2e.before.served) = Content({r})
    BY DEF ChainInv, SeenSoFar
  <2>6. PICK r : /\ ServedRows(Target) = {r}
                 /\ r.ver \in Nat /\ r.ver < LogicallyLatest(s, Target)
                 /\ Content(e2e.before.served) = Content({r})
    BY <2>5
  <2>7. r \in ServedRows(Target) /\ r.ver < TrueLatest(Target) BY <2>2, <2>3, <2>4, <2>6
  <2> QED BY <2>5, <2>6, <2>7 DEF EveryPlanDemonstrates
<1> QED BY <1>1, ChainHolds, PTL

\* OnlyTheTargetInverted holds of every plan that is replayed: of every other key the plan's
\* last row is its youngest version, and the last row is the one served.
THEOREM TheRestIsCurrent == ChainSpec => []OnlyTheTargetInverted
<1>1. ChainInv => OnlyTheTargetInverted
  <2> SUFFICES ASSUME ChainInv, e2e.stage = "built",
                      NEW k \in {e.key : e \in ToSet(writePlan.of)} \ {Target}
               PROVE  \E r \in ServedRows(k) : /\ ServedRows(k) = {r}
                                               /\ r.ver = LogicallyLatest(writePlan.of, k)
    BY DEF OnlyTheTargetInverted
  <2> DEFINE rows == writePlan.rows
  <2>1. PlanFor(rows, writePlan.of) /\ Replayed(rows) BY DEF ChainInv, SeenSoFar, Controlled
  <2>2. k \in KeysOf(writePlan.of) \ {Target} BY DEF KeysOf
  <2>3. rows \in Seq(PlanRows) /\ DOMAIN rows = 1..Len(rows) BY <2>1, LenProperties DEF PlanFor
  <2>4. PICK i \in DOMAIN rows : /\ rows[i].key = k /\ rows[i].lsn = LogicallyLatest(writePlan.of, k)
                                 /\ LastOfKey(rows, i)
    BY <2>1, <2>2, <2>3 DEF PlanFor
  <2>5. ServedRows(k) = {RowAt(rows, i)} BY <2>1, <2>3, <2>4, LastIsServed
  <2>6. RowAt(rows, i).ver = LogicallyLatest(writePlan.of, k) BY <2>4 DEF RowAt
  <2> QED BY <2>5, <2>6
<1> QED BY <1>1, ChainHolds, PTL
=============================================================================
