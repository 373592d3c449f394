---------------------------- MODULE ExportSession ----------------------------
(***************************************************************************)
(* One export job, started, interrupted, killed and resumed                *)
(* (export_threaded.py: export_data, _create_new_session,                  *)
(* _resume_existing_session, _process_export_batches and                   *)
(* RPCThreadExport._execute_batch).  The session directory remembers the   *)
(* ids the search found (all_ids.json) and those exported so far           *)
(* (completed_ids.txt); its name is a hash of the job's parameters, so the *)
(* same job always meets the same directory and the same output file.      *)
(*                                                                         *)
(* A record is its database id.  Batches are consecutive slices of the ids *)
(* in increasing order.  The workers run in any order: the pool itself is  *)
(* the subject of ThreadedPass.                                            *)
(***************************************************************************)
EXTENDS Slicing

CONSTANTS
    Record,        \* ids of the records that match the job's domain
    Mortal,        \* records that may be deleted on the server
    BatchSize,     \* ids per batch
    Methods,       \* "read" and "export_data", as the fields of the job decide
    Streams,       \* values of the --streaming flag
    MaxFaults      \* bound on crashes, interrupts and errors

ASSUME RecordAssumption == Record \subseteq Nat /\ IsFiniteSet(Record)
ASSUME MortalAssumption == Mortal \subseteq Record
ASSUME BoundAssumption == BatchSize \in Nat \ {0} /\ MaxFaults \in Nat
ASSUME FlagAssumption ==
    Methods \subseteq {"read", "export_data"} /\ Streams \subseteq BOOLEAN

VARIABLES
    session,       \* disk: [exists, all, done], the session directory
    file,          \* disk: [exists, header, lines], the output file
    live,          \* server: records not deleted
    pc,            \* main thread: "idle" between runs
    flags,         \* [method, streaming, resuming] of this run
    tasks,         \* futures not collected: [batch, pending, rows, ids]
    hand,          \* result the main thread is working on: [rows, ids]
    frames,        \* all_cleaned_dfs: rows kept in memory until the end
    opened,        \* header_written: this run has written to the file
    hasFailures,   \* rpc_thread.has_failures
    failedIds,     \* rpc_thread.failed_ids
    interrupted,   \* history: the run was stopped with Ctrl-C
    report,        \* what the last run told the user
    faults,        \* faults so far, at most MaxFaults
    inherited,     \* history: completed ids a new session found in place
    mine           \* history: lines written for each record in this session

disk == <<session, file>>
workers == <<tasks, hasFailures, failedIds>>
memory == <<flags, hand, frames, opened>>
history == <<inherited, mine>>
vars == <<disk, live, pc, workers, memory, interrupted, report, faults, history>>

NoSession == [exists |-> FALSE, all |-> {}, done |-> {}]
NoFlags == [method |-> "read", streaming |-> FALSE, resuming |-> FALSE]
NoReport == [result |-> "none", resumed |-> FALSE, interrupted |-> FALSE,
             all |-> {}, failed |-> {}]
Nothing == [rows |-> {}, ids |-> {}]
NoLines == [r \in Record |-> 0]

Fault == faults < MaxFaults /\ faults' = faults + 1

Counted(lines, rows) == [r \in Record |-> IF r \in rows THEN lines[r] + 1 ELSE lines[r]]
Appended(rows) == [file EXCEPT !.exists = TRUE, !.lines = Counted(@, rows)]
AnewKeepingLines(rows) == [Appended(rows) EXCEPT !.header = TRUE]
Anew(rows) == [exists |-> TRUE, header |-> TRUE, lines |-> Counted(NoLines, rows)]

LeftHalf(S) == {r \in S : Pos(S, r) <= Cardinality(S) \div 2}
Batches(S) == {Slice(S, BatchSize, i) : i \in 1 .. SliceCount(S, BatchSize)}
Task(batch) == [batch |-> batch, pending |-> {batch}, rows |-> {}, ids |-> {}]

Init ==
    /\ session = NoSession
    /\ file = [exists |-> FALSE, header |-> FALSE, lines |-> NoLines]
    /\ live = Record
    /\ pc = "idle" /\ flags = NoFlags
    /\ tasks = {} /\ hand = Nothing /\ frames = {} /\ opened = FALSE
    /\ hasFailures = FALSE /\ failedIds = {} /\ interrupted = FALSE
    /\ report = NoReport /\ faults = 0
    /\ inherited = {} /\ mine = NoLines
-----------------------------------------------------------------------------
(***************************************************************************)
(* A run starts.  A new session searches the ids again and touches the     *)
(* file of completed ones, which leaves what an earlier session wrote.     *)
(* Without anything to export the run is over at once, and a success.      *)
(***************************************************************************)
Launch(ids, isResuming) ==
    /\ \E method \in Methods, streaming \in Streams :
         flags' = [method |-> method, streaming |-> streaming, resuming |-> isResuming]
    /\ tasks' = {Task(batch) : batch \in Batches(ids)}
    /\ hand' = Nothing /\ frames' = {} /\ opened' = FALSE
    /\ hasFailures' = FALSE /\ failedIds' = {} /\ interrupted' = FALSE
    /\ IF ids # {}
       THEN pc' = "collect" /\ UNCHANGED <<file, report>>
       ELSE /\ pc' = "idle"
            /\ file' = IF file.exists THEN file ELSE Anew({})
            /\ report' = [NoReport EXCEPT !.result = "nothing to do",
                                          !.resumed = isResuming]

Inherited == session.done
NewExport ==
    /\ pc = "idle"
    /\ session' = IF live = {} THEN NoSession
                  ELSE [exists |-> TRUE, all |-> live, done |-> Inherited]
    /\ inherited' = Inherited
    /\ mine' = NoLines
    /\ Launch(live, FALSE)
    /\ UNCHANGED <<live, faults>>

(* list(all_ids - completed_ids); nothing when all_ids.json is missing.    *)
RemainingAll == session.all
Remaining == session.all \ session.done

ResumeExport ==
    /\ pc = "idle"
    /\ Launch(Remaining, TRUE)
    /\ UNCHANGED <<session, live, faults, history>>
-----------------------------------------------------------------------------
(***************************************************************************)
(* The workers.  A batch is fetched whole; a part that runs into a network *)
(* error or exhausts the server's memory is halved, until a lone record    *)
(* fails; any other error fails the whole part.                            *)
(***************************************************************************)
Replace(t, new) == tasks' = (tasks \ {t}) \cup {new}

(* Records that no longer exist are left out of the rows; export_data      *)
(* counts the ids it asked for as processed, read those it got back.       *)
FetchedIds(part) == IF flags.method = "read" THEN part \cap live ELSE part

Fetch(t, part) ==
    /\ Replace(t, [t EXCEPT !.pending = @ \ {part},
                            !.rows = @ \cup (part \cap live),
                            !.ids = @ \cup FetchedIds(part)])
    /\ UNCHANGED <<disk, live, pc, hasFailures, failedIds, memory, interrupted,
                   report, faults, history>>

Split(part) == {LeftHalf(part), part \ LeftHalf(part)}

FetchInHalves(t, part) ==
    /\ Cardinality(part) > 1
    /\ Fault
    /\ Replace(t, [t EXCEPT !.pending = (@ \ {part}) \cup Split(part)])
    /\ UNCHANGED <<disk, live, pc, hasFailures, failedIds, memory, interrupted,
                   report, history>>

GivenUpIndexes(part) == {Pos(part, r) - 1 : r \in part}
GivenUp(part) == part
FetchFails(t, part) ==
    /\ Fault
    /\ Replace(t, [t EXCEPT !.pending = @ \ {part}])
    /\ hasFailures' = TRUE
    /\ failedIds' = failedIds \cup GivenUp(part)
    /\ UNCHANGED <<disk, live, pc, memory, interrupted, report, history>>
-----------------------------------------------------------------------------
(***************************************************************************)
(* The main thread: results in any order; a batch without rows is passed   *)
(* over, ids are recorded as completed, and the rows are then cleaned and  *)
(* written to the file, or kept until the end.                             *)
(***************************************************************************)
CompletedWholeBatch(t) == t.batch
Completed(t) == t.ids

Collect(t) ==
    /\ pc = "collect" /\ t.pending = {}
    /\ tasks' = tasks \ {t}
    /\ IF t.rows = {}
       THEN UNCHANGED <<pc, hand>>
       ELSE pc' = "record" /\ hand' = [rows |-> t.rows, ids |-> Completed(t)]
    /\ UNCHANGED <<disk, live, hasFailures, failedIds, flags, frames, opened,
                   interrupted, report, faults, history>>

RecordCompleted ==
    /\ pc = "record"
    /\ session' = [session EXCEPT !.done = @ \cup hand.ids]
    /\ pc' = "deliver"
    /\ UNCHANGED <<file, live, workers, memory, interrupted, report, faults, history>>

Deliver ==
    /\ pc = "deliver"
    /\ IF flags.streaming
       THEN /\ file' = IF opened \/ flags.resuming THEN Appended(hand.rows)
                                                   ELSE Anew(hand.rows)
            /\ opened' = TRUE
            /\ mine' = Counted(mine, hand.rows)
            /\ UNCHANGED frames
       ELSE frames' = frames \cup hand.rows /\ UNCHANGED <<file, opened, mine>>
    /\ hand' = Nothing
    /\ pc' = "collect"
    /\ UNCHANGED <<session, live, workers, flags, interrupted, report, faults, inherited>>

(* Cleaning, looking up external ids or writing raises: logged only.       *)
DeliveryFails ==
    /\ pc = "deliver"
    /\ Fault
    /\ hasFailures' = TRUE
    /\ hand' = Nothing
    /\ pc' = "collect"
    /\ UNCHANGED <<disk, live, tasks, failedIds, flags, frames, opened, interrupted,
                   report, history>>

(* All collected: rows kept in memory are written, even when there are none. *)
Write ==
    /\ pc = "collect" /\ tasks = {}
    /\ IF flags.streaming
       THEN UNCHANGED <<file, mine>>
       ELSE /\ file' = IF flags.resuming THEN Appended(frames) ELSE Anew(frames)
            /\ mine' = Counted(mine, frames)
    /\ pc' = "clean"
    /\ UNCHANGED <<session, live, workers, memory, interrupted, report, faults, inherited>>

(* Ctrl-C while results are collected cancels the batches not started and  *)
(* waits for the others, whose results are dropped.                        *)
Interrupt ==
    /\ pc \in {"collect", "record", "deliver"}
    /\ Fault
    /\ interrupted' = TRUE
    /\ pc' = "drain"
    /\ UNCHANGED <<disk, live, workers, memory, report, history>>

Drained ==
    /\ pc = "drain"
    /\ \A t \in tasks : t.pending \in {{}, {t.batch}}
    /\ tasks' = {}
    /\ pc' = "clean"
    /\ UNCHANGED <<disk, live, hasFailures, failedIds, memory, interrupted, report,
                   faults, history>>

(* Without failures the run is a success and its session is deleted.       *)
SucceededAlways == TRUE
SucceededIfAllDone == ~hasFailures /\ Remaining = {}
Succeeded == ~hasFailures

CleanUp ==
    /\ pc = "clean"
    /\ session' = IF Succeeded THEN NoSession ELSE session
    /\ report' = [result |-> IF Succeeded THEN "success" ELSE "failure",
                  resumed |-> flags.resuming, interrupted |-> interrupted,
                  all |-> session.all, failed |-> failedIds]
    /\ pc' = "idle"
    /\ UNCHANGED <<file, live, workers, memory, interrupted, faults, history>>
-----------------------------------------------------------------------------
(***************************************************************************)
(* The process is killed: while ids are being recorded, any of them may    *)
(* have reached the disk.  Records are deleted on the server at any time.  *)
(***************************************************************************)
Crash ==
    /\ pc # "idle"
    /\ Fault
    /\ \E part \in SUBSET (IF pc = "record" THEN hand.ids ELSE {}) :
         session' = [session EXCEPT !.done = @ \cup part]
    /\ pc' = "idle"
    /\ tasks' = {} /\ hand' = Nothing /\ frames' = {}
    /\ report' = NoReport
    /\ UNCHANGED <<file, live, hasFailures, failedIds, flags, opened, interrupted, history>>

Delete(r) ==
    /\ r \in live
    /\ live' = live \ {r}
    /\ UNCHANGED <<disk, pc, workers, memory, interrupted, report, faults, history>>

Worker == \E t \in tasks : \E part \in t.pending :
              Fetch(t, part) \/ FetchInHalves(t, part) \/ FetchFails(t, part)

Main == \/ \E t \in tasks : Collect(t)
        \/ RecordCompleted \/ Deliver \/ DeliveryFails \/ Write \/ Drained \/ CleanUp

Next == \/ NewExport \/ ResumeExport \/ Worker \/ Main
        \/ Interrupt \/ Crash \/ (\E r \in Mortal : Delete(r))

Spec == Init /\ [][Next]_vars

(* The process runs, and the user resumes whatever run was cut short.      *)
FairSpec == Spec /\ WF_vars(Worker) /\ WF_vars(Main) /\ SF_vars(ResumeExport)
-----------------------------------------------------------------------------
Tasks == [batch : SUBSET Record, pending : SUBSET SUBSET Record,
          rows : SUBSET Record, ids : SUBSET Record]

(* Types: the disk, the workers and the report speak of records only.      *)
TypeOK ==
    /\ session \in [exists : BOOLEAN, all : SUBSET Record, done : SUBSET Record]
    /\ file \in [exists : BOOLEAN, header : BOOLEAN, lines : [Record -> Nat]]
    /\ live \subseteq Record
    /\ pc \in {"idle", "collect", "record", "deliver", "drain", "clean"}
    /\ flags \in [method : Methods \cup {"read"}, streaming : BOOLEAN, resuming : BOOLEAN]
    /\ tasks \subseteq Tasks
    /\ hand \in [rows : SUBSET Record, ids : SUBSET Record]
    /\ frames \subseteq Record /\ failedIds \subseteq Record
    /\ opened \in BOOLEAN /\ hasFailures \in BOOLEAN /\ interrupted \in BOOLEAN
    /\ report \in [result : {"none", "nothing to do", "success", "failure"},
                   resumed : BOOLEAN, interrupted : BOOLEAN,
                   all : SUBSET Record, failed : SUBSET Record]
    /\ faults \in 0 .. MaxFaults
    /\ inherited \subseteq Record /\ mine \in [Record -> Nat]

(* An export neither resumed nor interrupted that reports success leaves a *)
(* file with a header, one line for each record that was there throughout  *)
(* and none for records it had not listed, whatever the file held before.  *)
UneventfulExportIsExact ==
    LET kept == report.all \ Mortal
    IN  pc = "idle" /\ report.result = "success" /\ kept # {}
          /\ ~report.resumed /\ ~report.interrupted =>
            /\ file.header
            /\ \A r \in kept : file.lines[r] = 1
            /\ \A r \in Record : file.lines[r] <= (IF r \in report.all THEN 1 ELSE 0)

(* However often a session is cut short and resumed, it writes no record   *)
(* to the file twice.                                                      *)
SessionNeverRepeats == \A r \in Record : mine[r] <= 1

(* No record is in the output twice, and none is missing without a cause.  *)
FileIsExact == TypeOK /\ UneventfulExportIsExact /\ SessionNeverRepeats

(* A run that reports a failure keeps its session, and the records it      *)
(* failed to fetch are among those a resumed run will ask for.             *)
FailedCanBeResumed ==
    pc = "idle" /\ report.result = "failure" =>
        session.exists /\ report.failed \subseteq Remaining \cup inherited

(* A run, resumed or not, that no one interrupted reports success only     *)
(* when every record of the session was fetched, by it or before it.       *)
SuccessHasFetchedAll ==
    pc = "clean" /\ Succeeded /\ ~interrupted => session.all \ Mortal \subseteq session.done

(* Once the faults end and every run cut short is resumed, a session comes  *)
(* to the point where it has no record left to ask for.                    *)
NothingRemains == []<>(Remaining = {})
=============================================================================
