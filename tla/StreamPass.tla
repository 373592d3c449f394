----------------------------- MODULE StreamPass -----------------------------
(***************************************************************************)
(* Pass 1 with --stream (import_threaded.py: _orchestrate_streaming_pass_1 *)
(* and _stream_csv_batches): the pool, its workers and the books are those *)
(* of ThreadedPass, and another main thread drives them.  It cuts batches  *)
(* off the file as it reads, submits them, waits for all of them, and only *)
(* then reads their results.  "next" is the line of the file to read.      *)
(*                                                                         *)
(* Three ways of leaving do not stop the pool, as shutdown is only reached *)
(* by waiting: an unreadable file, Ctrl-C, and a line that cannot be       *)
(* decoded after batches were submitted.  No worker sets abort_flag, and a *)
(* worker that raises is logged and its rows are in no list.               *)
(***************************************************************************)
EXTENDS ThreadedPass, FiniteSetsExt

CONSTANTS
    File,         \* the lines of the source file, a sequence of rows
    Malformed,    \* rows shorter than the columns kept (if columns are ignored)
    Weight,       \* estimated size of a row
    BatchSize,    \* --size
    BatchBytes    \* max_batch_bytes, 0 for no limit

ASSUME FileAssumption ==
    /\ File \in Seq(Row)
    /\ \A i, j \in DOMAIN File : i # j => File[i] # File[j]
    /\ Malformed \subseteq Row /\ Weight \in [Row -> Nat]
    /\ BatchSize \in Nat \ {0} /\ BatchBytes \in Nat

InFile == {File[i] : i \in DOMAIN File}

StreamInit ==
    /\ kind = "load" /\ kind \in Kinds
    /\ pc = "stream" /\ next = 1 /\ parts = << >>
    /\ queue = << >> /\ running = {} /\ finished = {} /\ dropped = {}
    /\ made = {} /\ failFile = [r \in Row |-> 0]
    /\ stored = [r \in Row |-> 0] /\ late = [r \in Row |-> 0] /\ lost = [r \in Row |-> 0]
    /\ streak = 0 /\ successes = 0
    /\ abort = FALSE /\ cause = "none" /\ outcomes = << >> /\ handed = [r \in Row |-> 0]
-----------------------------------------------------------------------------
(***************************************************************************)
(* The generator: a batch is cut before the row that would be one too many *)
(* or, unless it would be the only one, too large.  Malformed rows are     *)
(* skipped with a warning.                                                 *)
(***************************************************************************)
Lines(i, j) == {File[k] : k \in i .. j} \ Malformed

Full(S, r) ==
    \/ Cardinality(S) >= BatchSize
    \/ /\ BatchBytes > 0 /\ S # {}
       /\ MapThenSumSet(LAMBDA q : Weight[q], S) + Weight[r] > BatchBytes

BatchEnd(i) ==
    Max({j \in i .. Len(File) :
           \A k \in i .. j : File[k] \in Malformed \/ ~Full(Lines(i, k - 1), File[k])})

ReadBatch ==
    /\ pc = "stream" /\ next <= Len(File)
    /\ LET rows == Lines(next, BatchEnd(next)) IN
       queue' = IF rows = {} THEN queue ELSE Append(queue, rows)
    /\ next' = BatchEnd(next) + 1
    /\ UNCHANGED <<kind, pc, parts, running, finished, dropped, books, server, abort, history>>

EndOfFile ==
    /\ pc = "stream" /\ next > Len(File)
    /\ pc' = "wait"
    /\ UNCHANGED <<kind, next, parts, pool, dropped, books, server, abort, history>>

(* No such file, a header without the id column, or bytes that do not      *)
(* decode (UnicodeDecodeError is a ValueError): an empty result, at once.  *)
Unreadable ==
    /\ pc = "stream"
    /\ pc' = "interrupted" /\ cause' = "unreadable"
    /\ UNCHANGED <<kind, next, parts, pool, dropped, books, server, abort, outcomes, handed>>

(* RpcThread.wait(): as_completed over every future, then shutdown.        *)
AllDoneButRunning == queue = << >>
AllDone == queue = << >> /\ running = {}

Waited ==
    /\ pc = "wait" /\ AllDone
    /\ pc' = "gather"
    /\ UNCHANGED <<kind, next, parts, pool, dropped, books, server, abort, history>>

Gather(result) ==
    /\ pc = "gather"
    /\ finished' = finished \ {result}
    /\ IF result.raised
       THEN dropped' = dropped \cup result.rows /\ UNCHANGED <<made, failFile>>
       ELSE /\ made' = made \cup result.made
            /\ failFile' = [r \in Row |-> IF r \in result.failed THEN failFile[r] + 1
                                                                 ELSE failFile[r]]
            /\ UNCHANGED dropped
    /\ UNCHANGED <<kind, pc, next, parts, queue, running, streak, successes, server, abort,
                   history>>

Gathered ==
    /\ pc = "gather" /\ finished = {}
    /\ pc' = "streamed"
    /\ UNCHANGED <<kind, next, parts, pool, dropped, books, server, abort, history>>

InterruptStream ==
    /\ pc \in {"stream", "wait", "gather"}
    /\ abort' = TRUE /\ cause' = "interrupt" /\ pc' = "interrupted"
    /\ UNCHANGED <<kind, next, parts, pool, dropped, books, server, outcomes, handed>>
-----------------------------------------------------------------------------
StreamMain == ReadBatch \/ EndOfFile \/ Waited \/ Gathered
              \/ \E result \in finished : Gather(result)

(* Pass 1 in either of its forms, chosen by import_data.                   *)
PassInit == Init \/ StreamInit
PassNext == Next \/ StreamMain \/ Unreadable \/ InterruptStream

PassSpec == /\ PassInit /\ [][PassNext]_vars
            /\ WF_vars(Main) /\ WF_vars(Worker) /\ WF_vars(StreamMain)
-----------------------------------------------------------------------------
(* What import_data reports of a streamed pass adds up: every row of the   *)
(* file is created, or has one line in the fail file, or is one of those   *)
(* the final reconciliation counts as unaccounted - malformed, or in a     *)
(* batch whose worker raised, and then nobody knows if it is stored.  A    *)
(* row said to be created is stored; one that is not is stored only if its *)
(* worker raised or a reply was lost, and none more often than that        *)
(* explains.  No worker is left to send one later.                         *)
StreamAddsUp ==
    pc = "streamed" =>
        LET unaccounted == (InFile \cap Malformed) \cup dropped IN
        /\ queue = << >> /\ running = {}
        /\ \A r \in InFile :
              /\ r \in made => stored[r] > 0
              /\ stored[r] > 0 => r \in made \cup dropped \/ lost[r] > 0
              /\ stored[r] <= 1 + lost[r]
              /\ failFile[r] = (IF r \in made \cup unaccounted THEN 0 ELSE 1)
        /\ made \cap unaccounted = {}

(* A streamed pass keeps the promise for the rows of the file that are     *)
(* whole: without a worker that raised it leaves none of them pending.     *)
StreamOutcome == [r \in InFile \ Malformed |-> Noted(r)]
StreamComplete == pc = "streamed" /\ dropped = {}
StreamLedger ==
    INSTANCE RowLedger WITH
        Items <- InFile \ Malformed, status <- StreamOutcome, closed <- StreamComplete
=============================================================================
