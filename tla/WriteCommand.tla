---------------------------- MODULE WriteCommand ----------------------------
(***************************************************************************)
(* The write command (writer.py: run_write; write_threaded.py): rows of    *)
(* database ids and values are cut into batches, a pool of threads writes  *)
(* the batches, each one value after the other to all the ids that get it, *)
(* and the ids of refused writes go to the fail file that --fail reads.    *)
(* The values of a row's columns together are one value here.              *)
(***************************************************************************)
EXTENDS Slicing, Sequences

CONSTANTS
    Record,     \* database ids
    Value,      \* what a row may write
    Unreadable, \* an id that is no number, or a row longer than the header
    Sources,    \* the files to write: sequences of [id, val]
    BatchSize, Workers,
    MaxRuns     \* bound: runs of the command

Reason == "_ERROR_REASON"    \* a column of the fail file, and no field of any model
Kept == "as it was"

VARIABLES
    source,     \* the rows of the file given
    db,         \* server: record -> its value
    failFile,   \* the ids on <model>_write_fail.csv
    data,       \* the rows this run writes
    future,     \* batch -> unsent, queued, running, done or cancelled
    left,       \* batch -> its rows that no answer has been had for
    failed,     \* batch -> rows its summary counts as failed
    aborted,    \* abort_flag
    step,       \* where the run is
    report,     \* what the run said
    unsure,     \* history: rows that are counted as failed but not on the fail file
    runs

vars == <<source, db, failFile, data, future, left, failed, aborted, step, report,
          unsure, runs>>

Init ==
    /\ source \in Sources
    /\ db = [x \in Record |-> Kept] /\ failFile = << >> /\ data = << >>
    /\ future = << >> /\ left = << >> /\ failed = << >>
    /\ aborted = FALSE /\ step = "idle" /\ report = "none"
    /\ unsure = {} /\ runs = 0
-----------------------------------------------------------------------------
Batches == 1 .. SliceCount(DOMAIN data, BatchSize)
RowsOf(b) == Slice(DOMAIN data, BatchSize, b)

(* What _read_data_file makes of the fail file: with the semicolon that is *)
(* the default it has no id column, so there is nothing; with a comma, the *)
(* error texts are the values to write.                                    *)
FailRows(comma) ==
    IF comma THEN [i \in DOMAIN failFile |-> [id |-> failFile[i], val |-> Reason]]
    ELSE << >>

Read ==
    /\ step = "idle" /\ runs < MaxRuns
    /\ runs' = runs + 1 /\ aborted' = FALSE /\ unsure' = {}
    /\ \E rows \in {source, FailRows(TRUE), FailRows(FALSE)} :
          /\ data' = rows
          /\ IF rows = << >> THEN step' = "idle" /\ report' = "nothing to write"
             ELSE step' = "connect" /\ report' = "none"
    /\ future' = << >> /\ left' = << >> /\ failed' = << >>
    /\ UNCHANGED <<source, db, failFile>>

(* No connection, or no file to open: the old fail file stays.             *)
NoStart ==
    /\ step = "connect"
    /\ step' = "idle" /\ report' = "failed"
    /\ UNCHANGED <<source, db, failFile, data, future, left, failed, aborted, unsure, runs>>

Open ==
    /\ step = "connect"
    /\ step' = "write" /\ failFile' = << >>
    /\ future' = [b \in Batches |-> "unsent"]
    /\ left' = [b \in Batches |-> RowsOf(b)]
    /\ failed' = [b \in Batches |-> 0]
    /\ UNCHANGED <<source, db, data, aborted, report, unsure, runs>>

Launch(b) ==
    /\ step = "write" /\ future[b] = "unsent"
    /\ \A c \in DOMAIN future : future[c] = "unsent" => b <= c
    /\ future' = [future EXCEPT ![b] = "queued"]
    /\ UNCHANGED <<source, db, failFile, data, left, failed, aborted, step, report,
                   unsure, runs>>

(* A thread takes the oldest batch.  After the abort it does nothing; a    *)
(* row that cannot be read ends the batch before its first write.          *)
Readable(b) == \A i \in RowsOf(b) : data[i].id # Unreadable

Begin(b) ==
    /\ future[b] = "queued"
    /\ \A c \in DOMAIN future : future[c] = "queued" => b <= c
    /\ Cardinality({c \in DOMAIN future : future[c] = "running"}) < Workers
    /\ IF aborted \/ ~Readable(b)
       THEN /\ future' = [future EXCEPT ![b] = "done"]
            /\ failed' = [failed EXCEPT ![b] = IF aborted THEN 0 ELSE Cardinality(RowsOf(b))]
            /\ unsure' = IF aborted THEN unsure ELSE unsure \cup RowsOf(b)
       ELSE /\ future' = [future EXCEPT ![b] = "running"]
            /\ UNCHANGED <<failed, unsure>>
    /\ UNCHANGED <<source, db, failFile, data, left, aborted, step, report, runs>>

(* The first value that is left, written to every id of the batch that     *)
(* gets it.  The server does it and says so, or refuses it, or an error    *)
(* follows that leaves open which ("lost"), or the answer is no JSON and   *)
(* leaves it open too ("garbled").  What follows the group is the next.    *)
Group(b) ==
    LET first == CHOOSE i \in left[b] : \A j \in left[b] : i <= j
    IN  {i \in left[b] : data[i].val = data[first].val}
IdsOf(b) == {data[i].id : i \in Group(b)}

CountedIfExplained(answer) == answer \in {"refused", "lost"}
Counted(answer) == answer # "done"

OnFile(b, answer) ==
    IF answer \in {"refused", "lost"}
    THEN failFile \o [n \in 1 .. Cardinality(Group(b)) |->
             data[CHOOSE i \in Group(b) : Pos(Group(b), i) = n].id]
    ELSE failFile

Write(b, answer) ==
    /\ future[b] = "running" /\ left[b] # {}
    /\ \E done \in BOOLEAN :
          /\ answer = "done" => done
          /\ answer = "refused" \/ Reason \in {data[i].val : i \in Group(b)} => ~done
          /\ db' = [x \in Record |-> IF done /\ x \in IdsOf(b)
                                     THEN data[CHOOSE i \in Group(b) : TRUE].val
                                     ELSE db[x]]
    /\ failFile' = OnFile(b, answer)
    /\ failed' = [failed EXCEPT ![b] = IF Counted(answer) THEN @ + Cardinality(Group(b))
                                       ELSE @]
    /\ unsure' = IF answer = "garbled" THEN unsure \cup Group(b) ELSE unsure
    /\ left' = [left EXCEPT ![b] = @ \ Group(b)]
    /\ UNCHANGED <<source, data, future, aborted, step, report, runs>>

End(b) ==
    /\ future[b] = "running" /\ left[b] = {}
    /\ future' = [future EXCEPT ![b] = "done"]
    /\ UNCHANGED <<source, db, failFile, data, left, failed, aborted, step, report,
                   unsure, runs>>

(* Ctrl-C: the flag, and then every batch that no thread has taken is      *)
(* cancelled; the running ones go on to their end.                         *)
Interrupt ==
    /\ step = "write" /\ ~aborted
    /\ aborted' = TRUE /\ step' = "cancel"
    /\ UNCHANGED <<source, db, failFile, data, future, left, failed, report, unsure, runs>>

Cancel ==
    /\ step = "cancel"
    /\ step' = "shutdown"
    /\ future' = [b \in DOMAIN future |->
                    IF future[b] \in {"unsent", "queued"} THEN "cancelled" ELSE future[b]]
    /\ UNCHANGED <<source, db, failFile, data, left, failed, aborted, report, unsure, runs>>

(* The batches whose summaries add to the count of failed rows.            *)
Failures == {b \in DOMAIN failed : failed[b] # 0}

(* wait and write_data's end: every future is done.                        *)
AllDone == \A b \in DOMAIN future : future[b] \in {"done", "cancelled"}
Return ==
    /\ step \in {"write", "shutdown"} /\ AllDone
    /\ step' = "idle"
    /\ report' = IF ~aborted /\ Failures = {} THEN "success" ELSE "failed"
    /\ UNCHANGED <<source, db, failFile, data, future, left, failed, aborted, unsure, runs>>

Next ==
    \/ Read \/ NoStart \/ Open \/ Interrupt \/ Cancel \/ Return
    \/ \E b \in DOMAIN future :
          \/ Launch(b) \/ Begin(b) \/ End(b)
          \/ \E answer \in {"done", "refused", "lost", "garbled"} : Write(b, answer)

Spec == Init /\ [][Next]_vars
-----------------------------------------------------------------------------
TypeOK ==
    /\ source \in Sources
    /\ db \in [Record -> Value \cup {Kept}]
    /\ failFile \in Seq(Record)
    /\ data \in Seq([id : Record \cup {Unreadable}, val : Value \cup {Reason}])
    /\ DOMAIN future = DOMAIN left /\ DOMAIN future = DOMAIN failed
    /\ \A b \in DOMAIN future :
          /\ future[b] \in {"unsent", "queued", "running", "done", "cancelled"}
          /\ left[b] \subseteq RowsOf(b) /\ failed[b] \in 0 .. BatchSize
    /\ aborted \in BOOLEAN
    /\ step \in {"idle", "connect", "write", "cancel", "shutdown"}
    /\ report \in {"none", "nothing to write", "success", "failed"}
    /\ unsure \subseteq DOMAIN data /\ runs \in 0 .. MaxRuns

Ids == {data[i].id : i \in DOMAIN data}
Gets(x) == {data[i].val : i \in {j \in DOMAIN data : data[j].id = x}}
Listed == {failFile[n] : n \in DOMAIN failFile}

(* "Write Complete" is said only when every id of the file has a value one *)
(* of its rows gives it, and the fail file is empty.                       *)
SuccessIsWritten ==
    report = "success" => /\ \A x \in Ids : x \in Record /\ db[x] \in Gets(x)
                          /\ failFile = << >>

(* A run that came to its end accounts for each row: its record has a      *)
(* value of the file, or its id is on the fail file, or it is one of those *)
(* that are only counted: their batch could not be read, or the server's   *)
(* answer could not.                                                       *)
NoRowForgotten ==
    report = "failed" /\ future # << >> /\ ~aborted =>
        \A i \in DOMAIN data :
            i \in unsure \/ data[i].id \in Listed \/ db[data[i].id] \in Gets(data[i].id)

(* No batch writes after the run has reported.                             *)
NoLateWrite == step = "idle" => AllDone

WriteIsSound == TypeOK /\ SuccessIsWritten /\ NoRowForgotten /\ NoLateWrite
-----------------------------------------------------------------------------
(***************************************************************************)
(* What keeps itself true, step by step, and implies WriteIsSound.         *)
(***************************************************************************)
Working == step \in {"write", "cancel", "shutdown"}

PhasesHold ==
    /\ step # "idle" => report = "none"
    /\ DOMAIN future \subseteq Batches
    /\ step = "connect" => future = << >> /\ unsure = {}
    /\ Working => DOMAIN future = Batches
    /\ step \in {"cancel", "shutdown"} => aborted
    /\ NoLateWrite

(* No row is counted twice.                                                *)
CountsHold ==
    \A b \in DOMAIN future :
        /\ failed[b] <= Cardinality(RowsOf(b))
        /\ future[b] # "done" =>
              failed[b] + Cardinality(left[b]) <= Cardinality(RowsOf(b))
        /\ future[b] = "cancelled" => aborted

Settled(i) ==
    \/ i \in unsure
    \/ data[i].id \in Listed
    \/ data[i].id \in Record /\ db[data[i].id] \in Gets(data[i].id)

(* What has left a batch is settled.                                       *)
RowsHold ==
    \A b \in DOMAIN future :
        /\ future[b] \in {"unsent", "queued"} => left[b] = RowsOf(b)
        /\ future[b] = "running" =>
              Readable(b) /\ \A i \in RowsOf(b) \ left[b] : Settled(i)
        /\ future[b] = "done" /\ ~aborted => \A i \in RowsOf(b) : Settled(i)

(* Whatever is not written is counted.                                     *)
BooksHold == Working /\ Failures = {} => failFile = << >> /\ unsure = {}

WriteInv ==
    /\ TypeOK /\ PhasesHold /\ CountsHold /\ RowsHold /\ BooksHold
    /\ SuccessIsWritten /\ NoRowForgotten
=============================================================================
