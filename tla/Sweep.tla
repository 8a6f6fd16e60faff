------------------------------- MODULE Sweep -------------------------------
(***************************************************************************)
(* The resumable sweep over a list of configurations                       *)
(* (cost-study/src/mor_harness/sweep.py): each configuration is run and its*)
(* record appended to the JSONL file, the CSV file is written once at the  *)
(* end, and a sweep that was cut off is started again.  A configuration is *)
(* named by its hash.                                                      *)
(*                                                                         *)
(* A line of the JSONL file is whole: a record ("ok" or "failed"), or is   *)
(* garbage that json.loads rejects.  A crash during the append may leave a *)
(* last line without its newline, cut short or not.  So is the CSV file,   *)
(* whose first line is meant to be the header: of a row the model keeps the*)
(* record and which columns it was written with, not the values.           *)
(***************************************************************************)
EXTENDS Naturals, Sequences, FiniteSets, SequencesExt

CONSTANTS
    ConfigList,   \* the list expand returns; it may repeat a configuration
    Measured,     \* the columns a configuration's record has if its run succeeds
    MaxSweeps     \* bound: how often the sweep is started

ASSUME SweepAssumption ==
    /\ ConfigList \in Seq(STRING) /\ "" \notin ToSet(ConfigList)
    /\ Measured \in [ToSet(ConfigList) -> SUBSET STRING]
    /\ MaxSweeps \in Nat \ {0}

VARIABLES
    pc,           \* "down", "loop", "append", "csv" or "done"
    seen,         \* the hashes to skip
    pos,          \* the next configuration
    record,       \* the record of the run just made
    pending,      \* rows_for_csv
    jsonl,        \* the lines of the JSONL file
    newline,      \* its last line ends with a newline
    csv,          \* the lines of the CSV file
    csvMade,      \* the CSV file exists
    csvNewline,   \* its last line ends with a newline
    sweeps        \* how often the sweep has been started

csvFile == <<csv, csvMade, csvNewline>>

sweepVars == <<pc, seen, pos, record, pending, jsonl, newline, csvFile, sweeps>>

Hashes == ToSet(ConfigList)

Garbage == [hash |-> "", status |-> "garbage"]

Records == [hash : Hashes, status : {"ok", "failed"}]

\* The hashes with a record of this status that a reader can parse.
Recorded(status) == {line.hash : line \in {l \in ToSet(jsonl) : l.status = status}}

\* Mutant: nothing is known on resume.
SeenHashes_Empty == {}

\* Only successful runs are skipped on resume.
SeenHashes == Recorded("ok")

SweepInit ==
    /\ pc = "down"
    /\ seen = {} /\ pos = 1 /\ record = Garbage /\ pending = <<>>
    /\ jsonl = <<>> /\ newline = TRUE
    /\ csv = <<>> /\ csvMade = FALSE /\ csvNewline = TRUE
    /\ sweeps = 0

Start ==
    /\ pc \in {"down", "done"}
    /\ sweeps < MaxSweeps
    /\ sweeps' = sweeps + 1
    /\ seen' = SeenHashes
    /\ pos' = 1
    /\ record' = Garbage
    /\ pending' = <<>>
    /\ pc' = "loop"
    /\ UNCHANGED <<jsonl, newline, csvFile>>

Skip ==
    /\ pc = "loop" /\ pos <= Len(ConfigList)
    /\ ConfigList[pos] \in seen
    /\ pos' = pos + 1
    /\ UNCHANGED <<pc, seen, record, pending, jsonl, newline, csvFile, sweeps>>

\* The run ends well, or with an exception that is recorded as a failure.
Run ==
    /\ pc = "loop" /\ pos <= Len(ConfigList)
    /\ ConfigList[pos] \notin seen
    /\ \E status \in {"ok", "failed"} :
        record' = [hash |-> ConfigList[pos], status |-> status]
    /\ pc' = "append"
    /\ UNCHANGED <<seen, pos, pending, jsonl, newline, csvFile, sweeps>>

\* Mutant: a record takes the place of the line before it.
Extended_Replacing(line) ==
    IF jsonl = <<>> THEN <<line>> ELSE [jsonl EXCEPT ![Len(jsonl)] = line]

\* Text written at the end of the file: after a last line without a newline it
\* becomes part of that line, which then is neither record.
Extended(line) ==
    IF newline THEN Append(jsonl, line) ELSE [jsonl EXCEPT ![Len(jsonl)] = Garbage]

AppendRecord ==
    /\ pc = "append"
    /\ jsonl' = Extended(record)
    /\ newline' = TRUE
    /\ pending' = Append(pending, record)
    /\ seen' = seen \cup {record.hash}
    /\ pos' = pos + 1
    /\ pc' = "loop"
    /\ UNCHANGED <<record, csvFile, sweeps>>

EndLoop ==
    /\ pc = "loop" /\ pos > Len(ConfigList)
    /\ pc' = "csv"
    /\ UNCHANGED <<seen, pos, record, pending, jsonl, newline, csvFile, sweeps>>

Header == [hash |-> "", status |-> "header"]

\* A line of the CSV file and the columns it has besides those of the configuration.
CsvLine(what, columns) == [record |-> what, columns |-> columns]

TornLine == CsvLine(Garbage, {})

\* A record of a failure has no section but the configuration.
FieldNames(rows) == UNION {Measured[r.hash] : r \in {s \in ToSet(rows) : s.status = "ok"}}

\* What a sweep writes: a header if there is no file yet, and its rows, filled up to
\* the columns that any of them has.
CsvText ==
    LET columns == FieldNames(pending)
    IN  (IF csvMade THEN <<>> ELSE <<CsvLine(Header, columns)>>)
            \o [i \in DOMAIN pending |-> CsvLine(pending[i], columns)]

\* Text written at the end of the CSV file.
CsvExtended(text) ==
    IF csvNewline \/ text = <<>> THEN csv \o text
    ELSE [csv EXCEPT ![Len(csv)] = TornLine] \o Tail(text)

\* Mutant: the rows are not kept apart by sweep.
WriteCsv_All ==
    /\ pc = "csv"
    /\ csv' = csv \o [i \in DOMAIN jsonl |-> CsvLine(jsonl[i], FieldNames(pending))]
    /\ csvMade' = TRUE /\ csvNewline' = TRUE
    /\ pc' = "done"
    /\ UNCHANGED <<seen, pos, record, pending, jsonl, newline, sweeps>>

\* The rows of this sweep only, if it has any.
WriteCsv ==
    /\ pc = "csv"
    /\ IF pending = <<>> THEN UNCHANGED csvFile
       ELSE csv' = CsvExtended(CsvText) /\ csvMade' = TRUE /\ csvNewline' = TRUE
    /\ pc' = "done"
    /\ UNCHANGED <<seen, pos, record, pending, jsonl, newline, sweeps>>

\* The process is killed between two steps: a run whose record has not been
\* appended is lost.
Crash ==
    /\ pc \in {"loop", "append", "csv"}
    /\ pc' = "down"
    /\ UNCHANGED <<seen, pos, record, pending, jsonl, newline, csvFile, sweeps>>

\* It is killed in the middle of the append.
TornAppend ==
    /\ pc = "append"
    /\ \E line \in {record, Garbage} : jsonl' = Extended(line)
    /\ newline' = FALSE
    /\ pc' = "down"
    /\ UNCHANGED <<seen, pos, record, pending, csvFile, sweeps>>

\* It is killed in the middle of the CSV text, which is on disk up to some place: the
\* end of a line or within one.
TornCsv ==
    /\ pc = "csv" /\ pending # <<>>
    /\ \E n \in 0..Len(CsvText) - 1 :
        \/ /\ csv' = CsvExtended(SubSeq(CsvText, 1, n))
           /\ csvNewline' = (csvNewline \/ n > 0)
        \/ /\ \E line \in {CsvText[n + 1], TornLine} :
                csv' = CsvExtended(Append(SubSeq(CsvText, 1, n), line))
           /\ csvNewline' = FALSE
    /\ csvMade' = TRUE
    /\ pc' = "down"
    /\ UNCHANGED <<seen, pos, record, pending, jsonl, newline, sweeps>>

SweepNext ==
    \/ Start \/ Skip \/ Run \/ AppendRecord \/ EndLoop \/ WriteCsv
    \/ Crash \/ TornAppend \/ TornCsv

SweepSpec == SweepInit /\ [][SweepNext]_sweepVars

-----------------------------------------------------------------------------
\* A finished sweep leaves a record of every configuration.  Only the sweep that
\* writes onto a torn line can miss some: the record that was on it, which this
\* sweep skipped because it could still be read, and the one written onto it.
SweepIsComplete ==
    pc = "done" =>
        Cardinality(Hashes \ (Recorded("ok") \cup Recorded("failed")))
            <= IF Garbage \in ToSet(jsonl) THEN 2 ELSE 0

\* sweep.py: an interrupted sweep resumes without repeating work.  A configuration
\* that failed is tried again by every later sweep until it succeeds, and after a
\* success it is never run again: the success is the last record there is of it.
SuccessEndsWork ==
    \A i, j \in DOMAIN jsonl :
        i # j /\ jsonl[i].status = "ok" /\ jsonl[j].hash = jsonl[i].hash => j < i

\* The first line after line i that can stand for a CSV row: the record itself, or a
\* torn line onto which it was written.  A line past the end if there is none.
LineFor(i, row) ==
    Min({Len(jsonl) + 1} \cup {j \in DOMAIN jsonl : j > i /\ jsonl[j] \in {row, Garbage}})

\* The CSV file shows no record that was not written to the JSONL file before:
\* row by row it is a subsequence of the lines, where a torn line stands for
\* whatever was written onto it.
CsvFollowsJsonl ==
    LET line[n \in 0..Len(csv)] ==
            IF n = 0 THEN 0
            ELSE IF csv[n].record \in Records THEN LineFor(line[n - 1], csv[n].record)
            ELSE line[n - 1]
    IN  line[Len(csv)] <= Len(jsonl)

\* Every row is under a header with its columns.
RowsFitHeader ==
    \A n \in DOMAIN csv : csv[n].record \in Records =>
        csv[1] = CsvLine(Header, csv[n].columns)

\* The CSV file reports runs that were recorded, and, unless a run has failed or a record
\* was torn, in the columns it says: wherever it was killed, such a sweep writes the
\* file once.
CsvReports ==
    /\ CsvFollowsJsonl
    /\ Recorded("failed") = {} /\ Garbage \notin ToSet(jsonl) => RowsFitHeader
=============================================================================
