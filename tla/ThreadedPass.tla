---------------------------- MODULE ThreadedPass ----------------------------
(***************************************************************************)
(* One pass of an import over a pool of worker threads                     *)
(* (import_threaded.py: _run_threaded_pass, RPCThreadImport; rpc_thread.py: *)
(* RpcThread).  The main thread submits every batch, split when the        *)
(* throttle asks for smaller ones, then collects the futures as they       *)
(* complete, writes their failed lines to the fail file, gives up on too   *)
(* many failures in a row, on a worker that raises or on Ctrl-C, and       *)
(* always shuts the pool down.                                             *)
(*                                                                         *)
(* A worker is known by what LoadBatch promises of it (RowLedger,          *)
(* FailedIsCertain, StoredRight): it settles each row of its batch as made *)
(* or failed, or it raises and leaves some rows stored; and the reply of a *)
(* call it makes may be lost, so that the server stores the rows of the    *)
(* call then or later, whatever the worker says of them.  The flag         *)
(* "success" is what the three workers of the code return: always for a    *)
(* load, if a record was made in --fail mode, if nothing failed for the    *)
(* writes of Pass 2 (for which "stored" reads "written").                  *)
(***************************************************************************)
EXTENDS Slicing, Sequences

CONSTANTS
    Row,             \* the rows of the pass
    Batches,         \* the batches it submits, a sequence of sets of rows
    Sizes,           \* batch sizes the throttle may recommend
    MaxConnection,   \* number of worker threads
    Limit,           \* consecutive failures that abort the pass, 50 in the code
    Kinds,           \* workers the pass may run: "load", "single", "write"
    Flaky,           \* rows whose calls may lose their reply
    MaxLost          \* bound on the calls given up on while holding one row

Members == UNION {Batches[i] : i \in DOMAIN Batches}

ASSUME RowAssumption == Row \subseteq Nat /\ IsFiniteSet(Row)
ASSUME BatchesAssumption ==
    /\ Batches \in Seq(SUBSET Row)
    /\ \A i \in DOMAIN Batches : Batches[i] # {}
    /\ \A i, j \in DOMAIN Batches : i # j => Batches[i] \cap Batches[j] = {}
ASSUME PoolAssumption ==
    MaxConnection \in Nat \ {0} /\ Limit \in Nat \ {0} /\ Sizes \subseteq Nat \ {0}
ASSUME KindsAssumption == Kinds \subseteq {"load", "single", "write"}
ASSUME LossAssumption == Flaky \subseteq Row /\ MaxLost \in Nat

VARIABLES
    kind,        \* the worker of this pass (target_func and force_create)
    pc,          \* main thread: "submit", "collect", "shutdown", or how it left
                 \* (with --stream, StreamPass: "stream", "wait", "gather")
    next,        \* index of the batch to submit next
    parts,       \* sub-batches of the current batch not yet submitted
    queue,       \* pool: tasks submitted and not started, in order
    running,     \* pool: tasks being run
    finished,    \* results not collected: [rows, made, failed, success, raised]
    dropped,     \* tasks cancelled, and results nobody will collect
    made,        \* aggregated["id_map"]: rows known to be made
    failFile,    \* lines of the fail file: row -> how many
    stored,      \* server: how many times each row has been stored
    late,        \* server: abandoned calls that may still store the row
    lost,        \* history: calls holding the row whose reply never came
    streak,      \* consecutive_failures
    successes,   \* successful_batches
    abort,       \* abort_flag
    cause,       \* history: why a pass was cut short
    outcomes,    \* history: the success flags collected, in order
    handed       \* history: how many workers each row was handed to

pool == <<queue, running, finished>>
books == <<made, failFile, streak, successes>>
server == <<stored, late, lost>>
history == <<cause, outcomes, handed>>
vars == <<kind, pc, next, parts, pool, dropped, books, server, abort, history>>

Left == {"returned", "raised", "interrupted", "streamed"}
Total == Len(Batches)

Slices(S, n) == [i \in 1 .. SliceCount(S, n) |-> Slice(S, n, i)]

Init ==
    /\ kind \in Kinds
    /\ pc = "submit" /\ next = 1 /\ parts = << >>
    /\ queue = << >> /\ running = {} /\ finished = {} /\ dropped = {}
    /\ made = {} /\ failFile = [r \in Row |-> 0]
    /\ stored = [r \in Row |-> 0] /\ late = [r \in Row |-> 0] /\ lost = [r \in Row |-> 0]
    /\ streak = 0 /\ successes = 0
    /\ abort = FALSE /\ cause = "none" /\ outcomes = << >> /\ handed = [r \in Row |-> 0]
-----------------------------------------------------------------------------
(***************************************************************************)
(* The main thread submits.                                                *)
(***************************************************************************)
TakeBatch ==
    /\ pc = "submit" /\ parts = << >> /\ next <= Total
    /\ \/ parts' = <<Batches[next]>>
       \/ \E n \in Sizes : /\ n < Cardinality(Batches[next])
                           /\ parts' = Slices(Batches[next], n)
    /\ next' = next + 1
    /\ UNCHANGED <<kind, pc, pool, dropped, books, server, abort, history>>

Submit ==
    /\ pc = "submit" /\ parts # << >>
    /\ queue' = Append(queue, Head(parts))
    /\ parts' = Tail(parts)
    /\ UNCHANGED <<kind, pc, next, running, finished, dropped, books, server, abort, history>>

AllSubmitted ==
    /\ pc = "submit" /\ parts = << >> /\ next > Total
    /\ pc' = "collect"
    /\ UNCHANGED <<kind, next, parts, pool, dropped, books, server, abort, history>>

(* Ctrl-C while submitting is not caught here: the pass is left with its   *)
(* pool running, and the interpreter waits for the queue to drain at exit. *)
InterruptSubmit ==
    /\ pc = "submit"
    /\ pc' = "interrupted"
    /\ cause' = "interrupt"
    /\ UNCHANGED <<kind, next, parts, pool, dropped, books, server, abort, outcomes, handed>>
-----------------------------------------------------------------------------
(***************************************************************************)
(* The worker threads.                                                     *)
(***************************************************************************)
ThreadFreeOneMore == Cardinality(running) <= MaxConnection
ThreadFree == Cardinality(running) < MaxConnection

Start ==
    /\ queue # << >> /\ ThreadFree
    /\ running' = running \cup {Head(queue)}
    /\ queue' = Tail(queue)
    /\ handed' = [r \in Row |-> IF r \in Head(queue) THEN handed[r] + 1 ELSE handed[r]]
    /\ UNCHANGED <<kind, pc, next, parts, finished, dropped, books, server, abort,
                   cause, outcomes>>

Succeeded(ok, bad) ==
    CASE kind = "load"   -> TRUE
      [] kind = "single" -> ok # {}
      [] kind = "write"  -> bad = {}

Stored(ok) == [r \in Row |-> IF r \in ok THEN stored[r] + 1 ELSE stored[r]]

(* A call of the worker that holds the row breaks or times out: it has been *)
(* carried out, will be, or never is, and the worker goes on without it.   *)
Lose(task, r) ==
    /\ r \in task \cap Flaky /\ lost[r] < MaxLost
    /\ lost' = [lost EXCEPT ![r] = @ + 1]
    /\ late' = [late EXCEPT ![r] = @ + 1]
    /\ UNCHANGED <<kind, pc, next, parts, pool, dropped, books, stored, abort, history>>

LateStore(r) ==
    /\ late[r] > 0
    /\ late' = [late EXCEPT ![r] = @ - 1]
    /\ stored' = [stored EXCEPT ![r] = @ + 1]
    /\ UNCHANGED <<kind, pc, next, parts, pool, dropped, books, lost, abort, history>>

(* The worker returns: it has read a reply that says so for the rows made. *)
Finish(task, ok) ==
    /\ running' = running \ {task}
    /\ finished' = finished \cup
         {[rows |-> task, made |-> ok, failed |-> task \ ok,
           success |-> Succeeded(ok, task \ ok), raised |-> FALSE]}
    /\ stored' = Stored(ok)
    /\ UNCHANGED <<kind, pc, next, parts, queue, dropped, books, late, lost, abort, history>>

Raise(task, ok) ==
    /\ running' = running \ {task}
    /\ finished' = finished \cup
         {[rows |-> task, made |-> {}, failed |-> {}, success |-> FALSE, raised |-> TRUE]}
    /\ stored' = Stored(ok)
    /\ UNCHANGED <<kind, pc, next, parts, queue, dropped, books, late, lost, abort, history>>
-----------------------------------------------------------------------------
(***************************************************************************)
(* The main thread collects.  as_completed may yield any finished future.  *)
(***************************************************************************)
StreakNeverReset(success) == IF success THEN streak ELSE streak + 1
Streak(success) == IF success THEN 0 ELSE streak + 1

GainedAll(result) == result.rows
Gained(result) == result.made

Reached(n) == n >= Limit

Collect(result) ==
    /\ pc = "collect" /\ ~result.raised
    /\ finished' = finished \ {result}
    /\ successes' = IF result.success THEN successes + 1 ELSE successes
    /\ streak' = Streak(result.success)
    /\ made' = made \cup Gained(result)
    /\ failFile' = [r \in Row |-> IF r \in result.failed THEN failFile[r] + 1
                                                         ELSE failFile[r]]
    /\ IF ~result.success /\ Reached(streak')
       THEN abort' = TRUE /\ cause' = "failures" /\ pc' = "shutdown"
       ELSE UNCHANGED <<abort, cause, pc>>
    /\ outcomes' = Append(outcomes, result.success)
    /\ UNCHANGED <<kind, next, parts, queue, running, dropped, server, handed>>

CollectRaised(result) ==
    /\ pc = "collect" /\ result.raised
    /\ finished' = finished \ {result}
    /\ dropped' = dropped \cup result.rows
    /\ abort' = TRUE /\ cause' = "raised" /\ pc' = "shutdown"
    /\ UNCHANGED <<kind, next, parts, queue, running, books, server, outcomes, handed>>

Interrupt ==
    /\ pc = "collect"
    /\ abort' = TRUE /\ cause' = "interrupt" /\ pc' = "shutdown"
    /\ UNCHANGED <<kind, next, parts, pool, dropped, books, server, outcomes, handed>>

AllCollectedEarly == queue = << >> /\ finished = {}
AllCollectedAfterSuccess ==
    queue = << >> /\ running = {} /\ finished = {} /\ successes >= Total
AllCollected == queue = << >> /\ running = {} /\ finished = {}

CollectEnds ==
    /\ pc = "collect" /\ AllCollected
    /\ pc' = "shutdown"
    /\ UNCHANGED <<kind, next, parts, pool, dropped, books, server, abort, history>>

(***************************************************************************)
(* The finally block: nothing at all succeeding is an abort too; then      *)
(* executor.shutdown(wait=True, cancel_futures=True) cancels what has not  *)
(* started and waits for the rest, whose results nobody reads.             *)
(***************************************************************************)
Rows(tasks) == UNION {tasks[i] : i \in DOMAIN tasks}
Cancelled == queue' = << >> /\ dropped' = dropped \cup Rows(queue)

Cancel ==
    /\ pc = "shutdown" /\ queue # << >>
    /\ Cancelled
    /\ UNCHANGED <<kind, pc, next, parts, running, finished, books, server, abort, history>>

PoolStoppedUnwaited == TRUE
PoolStopped == running = {}

Exit ==
    /\ pc = "shutdown" /\ queue = << >> /\ PoolStopped
    /\ dropped' = dropped \cup UNION {result.rows : result \in finished}
    /\ finished' = {}
    /\ abort' = (abort \/ (Total > 0 /\ successes = 0))
    /\ cause' = IF cause = "none" /\ abort' THEN "failures" ELSE cause
    /\ pc' = IF cause = "raised" THEN "raised" ELSE "returned"
    /\ UNCHANGED <<kind, next, parts, queue, running, books, server, outcomes, handed>>

Idle == pc \in Left /\ queue = << >> /\ running = {} /\ UNCHANGED vars
-----------------------------------------------------------------------------
Main == \/ TakeBatch \/ Submit \/ AllSubmitted
        \/ \E result \in finished : Collect(result) \/ CollectRaised(result)
        \/ CollectEnds \/ Cancel \/ Exit

Worker == \/ Start
          \/ \E task \in running : \E ok \in SUBSET task : Finish(task, ok)
          \/ \E task \in running : \E ok \in SUBSET task : Raise(task, ok)

Network == \/ \E task \in running : \E r \in task : Lose(task, r)
           \/ \E r \in Row : LateStore(r)

Next == Main \/ Worker \/ Network \/ InterruptSubmit \/ Interrupt \/ Idle

Spec == Init /\ [][Next]_vars

(* The main thread runs, and every worker finishes its batch (LoadBatch's  *)
(* Termination).                                                           *)
FairSpec == Spec /\ WF_vars(Main) /\ WF_vars(Worker)
-----------------------------------------------------------------------------
Result == [rows : SUBSET Row, made : SUBSET Row, failed : SUBSET Row,
           success : BOOLEAN, raised : BOOLEAN]

(* Types: tasks are sets of rows of the pass, and the pool never runs more *)
(* of them at once than it has threads.                                    *)
TypeOK ==
    /\ kind \in Kinds
    /\ pc \in Left \cup {"submit", "collect", "shutdown", "stream", "wait", "gather"}
    /\ next \in Nat \ {0} /\ (pc = "collect" => next = Total + 1)
    /\ parts \in Seq(SUBSET Row) /\ queue \in Seq(SUBSET Row)
    /\ running \subseteq SUBSET Row /\ Cardinality(running) <= MaxConnection
    /\ finished \subseteq Result
    /\ dropped \subseteq Row /\ made \subseteq Row
    /\ failFile \in [Row -> Nat] /\ handed \in [Row -> Nat]
    /\ stored \in [Row -> Nat] /\ late \in [Row -> Nat] /\ lost \in [Row -> Nat]
    /\ streak \in Nat /\ successes \in Nat
    /\ abort \in BOOLEAN
    /\ cause \in {"none", "failures", "raised", "interrupt", "unreadable"}
    /\ outcomes \in Seq(BOOLEAN)

(* No row is handed to two workers, whatever the throttle does to the      *)
(* batches: two loads of one row race for its external id on the server.   *)
RowLoadedOnce == \A r \in Row : handed[r] <= 1

(* A pass that returns without the abort flag has read the result of every *)
(* task: each row is in the id map or in the fail file, exactly once.      *)
CleanReturnIsComplete ==
    pc = "returned" /\ ~abort =>
        \A r \in Members : /\ r \in made <=> failFile[r] = 0
                           /\ failFile[r] <= 1

(* What the main thread holds is true of the server at every moment, but   *)
(* for replies that were lost: rows in the map are stored, rows in the     *)
(* fail file are not, a stored row it does not know of is with a worker,   *)
(* in a result it has yet to read or in one that an abort made it drop,    *)
(* and a row is stored again only by a call that was given up on.          *)
Unread == UNION {result.rows : result \in finished}
ReportsAreTrue ==
    \A r \in Row :
       /\ r \in made => stored[r] > 0
       /\ stored[r] <= 1 + lost[r]
       /\ stored[r] > 0 /\ lost[r] = 0 =>
             failFile[r] = 0 /\ r \in made \cup dropped \cup Unread \cup (UNION running)

(* Bad rows do not sink the pass (README.md:36): unless a worker raised or *)
(* the user stopped it, it aborts only if the last Limit batches collected *)
(* all failed, or no batch at all succeeded.                               *)
LastFailed == /\ Len(outcomes) >= Limit
              /\ \A i \in Len(outcomes) - Limit + 1 .. Len(outcomes) : ~outcomes[i]
NoneSucceeded == \A i \in DOMAIN outcomes : ~outcomes[i]
AbortHasCause ==
    pc = "returned" /\ abort /\ cause = "failures" => LastFailed \/ NoneSucceeded

(* No row goes to two workers, and the books are true of the server.       *)
StoresAreReported == RowLoadedOnce /\ ReportsAreTrue

(* What the pass returns is right, either way.                             *)
ReturnIsRight == TypeOK /\ CleanReturnIsComplete /\ AbortHasCause

(* When the pass is over its threads are: none calls the server or writes  *)
(* to the fail file, which import_data closes next, any more.              *)
NoWorkerOutlivesPass ==
    pc \in {"returned", "raised"} => queue = << >> /\ running = {} /\ finished = {}

(* The pass keeps the promise of its workers for the whole file: what the  *)
(* main thread has noted of a row is final, whichever thread, piece of a   *)
(* batch or order of results it came from, and a clean return leaves no    *)
(* row of the pass pending.                                                *)
Noted(r) == IF r \in made THEN "created"
            ELSE IF failFile[r] > 0 THEN "failed" ELSE "pending"
Outcome == [r \in Members |-> Noted(r)]
Complete == pc = "returned" /\ ~abort
Ledger == INSTANCE RowLedger WITH Items <- Members, status <- Outcome, closed <- Complete
ImplementsLedger == Ledger!Spec

(* The pass ends, however its workers end.                                 *)
PassEnds == <>(pc \in Left /\ running = {} /\ queue = << >>)
=============================================================================
