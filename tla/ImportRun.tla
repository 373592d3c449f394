------------------------------ MODULE ImportRun ------------------------------
(***************************************************************************)
(* A user importing one file again and again, with runs that may be        *)
(* aborted or killed at any moment (importer.py: run_import;               *)
(* import_threaded.py: import_data, _setup_fail_file, _orchestrate_pass_1  *)
(* and _orchestrate_pass_2 as import_data sees them; lib/checkpoint.py).   *)
(*                                                                         *)
(* A "normal" run imports the source file.  A "fail" run (--fail) imports  *)
(* the fail file, which is also the file it writes its own failures to.    *)
(* Pass 1 creates the records, a checkpoint of the id map is saved, Pass 2 *)
(* writes the deferred relations.  On disk: the two files and a checkpoint *)
(* for each of them; on the server: the records and their relations;       *)
(* everything else dies with the process.  What the thread pool does to    *)
(* one row is here a store on the server and, later, its result being      *)
(* collected (ThreadedPass).  The user may edit the source file at any     *)
(* time: the run hashes it to validate a checkpoint, reads it, and hashes  *)
(* it again when Pass 1 is over, each time as it then is.                  *)
(***************************************************************************)
EXTENDS Integers, FiniteSets

CONSTANTS
    Row,          \* the rows of the source file
    Target,       \* the row each row's deferred relation names, or NoRow
    NoRow,        \* no relation
    Bad,          \* rows the server never stores
    BadLink,      \* rows whose relation the server never accepts
    Hashed,       \* rows of a fail file in its first and last MB, which alone are hashed
    Modes,        \* runs the user makes: "normal", "fail"
    Flags,        \* the settings of --resume and --checkpoint the user makes
    MaxVersion,   \* bound on the edits of the source file
    MaxFaults     \* bound on crashes, aborts and failures that need not be

ASSUME RowAssumption == IsFiniteSet(Row) /\ NoRow \notin Row
ASSUME TargetAssumption == Target \in [Row -> Row \cup {NoRow}]
ASSUME BadAssumption == Bad \subseteq Row /\ BadLink \subseteq Row
ASSUME HashedAssumption == Hashed \subseteq Row
ASSUME ModesAssumption == Modes \subseteq {"normal", "fail"}
ASSUME FlagsAssumption == Flags \subseteq [resume : BOOLEAN, checkpoint : BOOLEAN]
ASSUME BoundAssumption == MaxVersion \in Nat \ {0} /\ MaxFaults \in Nat

VARIABLES
    (* on disk *)
    version,    \* contents of the source file: how often it was edited
    stamp,      \* the last of these edits that changed its size, first or last MB
    failFile,   \* the rows in the fail file
    long,       \* those whose line has more fields than the fail file's header
    ckpt,       \* checkpoint of each file: NoCkpt or [hash, idMap, read, exists]
    (* on the server *)
    stored,     \* rows that have a record
    linked,     \* rows whose record has its relation
    (* in the process *)
    pc,         \* where the run is; "idle" when none is going on
    mode,       \* the run's mode
    keeps,      \* enable_checkpoint
    data,       \* all_data: the rows read
    malformed,  \* those whose line does not fit the header
    resumed,    \* whether Pass 1 was skipped thanks to a checkpoint
    todo,       \* rows whose Pass 1 result is yet to come
    idMap,      \* id map of Pass 1, or the one restored
    failedLines,\* failed_lines of Pass 1
    writes,     \* Pass 2: relations yet to be written
    badWrites,  \* Pass 2: failed_writes
    report,     \* how the last finished run ended
    (* history *)
    readAt,     \* contents of the file the run has read
    faults,     \* faults so far
    rejected,   \* rows some result declared failed, until they are stored
    blind       \* the edits that no comparison of hashes can tell

source == <<version, stamp>>
failure == <<failFile, long>>
disk == <<source, failure, ckpt>>
db == <<stored, linked>>
content == <<data, malformed, readAt>>
setup == <<mode, keeps, content, resumed>>
memory == <<setup, todo, idMap, failedLines, writes, badWrites>>
notes == <<report, faults, rejected, blind>>
vars == <<disk, db, pc, memory, notes>>

NoFile == <<0, {}>>
NoCkpt == [hash |-> NoFile, idMap |-> {}, read |-> NoFile, exists |-> FALSE]
NoReport == [success |-> FALSE, mode |-> "normal", resumed |-> FALSE,
             total |-> {}, created |-> {}, failed |-> {}, unaccounted |-> 0]

(* What a run reads in its file, and _compute_file_hash of it: its size and *)
(* its first and last MB.                                                   *)
Contents(m) == IF m = "fail" THEN <<0, failFile>> ELSE <<version, {}>>
Hash(m) == IF m = "fail" THEN <<Cardinality(failFile), failFile \cap Hashed>>
                         ELSE <<stamp, {}>>

Fault == faults < MaxFaults /\ faults' = faults + 1

Init ==
    /\ version = 1 /\ stamp = 1 /\ failFile = {} /\ long = {}
    /\ ckpt = [m \in {"normal", "fail"} |-> NoCkpt]
    /\ stored = {} /\ linked = {}
    /\ pc = "idle" /\ mode = "normal" /\ keeps = FALSE /\ data = {} /\ malformed = {}
    /\ resumed = FALSE
    /\ todo = {} /\ idMap = {} /\ failedLines = {}
    /\ writes = {} /\ badWrites = {} /\ report = NoReport
    /\ readAt = NoFile /\ faults = 0 /\ rejected = {} /\ blind = {}
-----------------------------------------------------------------------------
(***************************************************************************)
(* A run starts: unless told not to resume, it deletes a checkpoint whose  *)
(* hash the file no longer has and resumes any other, even when it keeps   *)
(* no checkpoint itself.                                                   *)
(***************************************************************************)
MatchesAny(ck, m) == ck.exists
Matches(ck, m) == ck.exists /\ ck.hash = Hash(m)

Start(m, flags) ==
    /\ pc = "idle"
    /\ m = "fail" => failFile # {}
    /\ pc' = "read"
    /\ mode' = m
    /\ keeps' = flags.checkpoint
    /\ resumed' = (flags.resume /\ Matches(ckpt[m], m))
    /\ idMap' = IF resumed' THEN ckpt[m].idMap ELSE {}
    /\ ckpt' = IF flags.resume /\ ~resumed' THEN [ckpt EXCEPT ![m] = NoCkpt] ELSE ckpt
    /\ data' = {} /\ malformed' = {} /\ readAt' = NoFile
    /\ todo' = {} /\ failedLines' = {} /\ writes' = {} /\ badWrites' = {}
    /\ UNCHANGED <<source, failure, db, notes>>

(* The file is read, as it is by now.                                      *)
Read ==
    /\ pc = "read"
    /\ pc' = "connect"
    /\ data' = IF mode = "fail" THEN failFile ELSE Row
    /\ malformed' = IF mode = "fail" THEN long ELSE {}
    /\ readAt' = Contents(mode)
    /\ UNCHANGED <<disk, db, mode, keeps, resumed, todo, idMap, failedLines, writes,
                   badWrites, notes>>

(* Connected: the fail file is opened for writing, which empties it, and   *)
(* Pass 1 runs unless the checkpoint says it has.                          *)
Connect ==
    /\ pc = "connect"
    /\ failFile' = {} /\ long' = {}
    /\ todo' = IF resumed THEN {} ELSE data
    /\ pc' = "pass1"
    /\ UNCHANGED <<source, ckpt, db, setup, idMap, failedLines, writes, badWrites, notes>>

(* import_data returns False when it cannot read the file, when it finds    *)
(* no connection, or when Pass 1 was aborted: by a fault, or because a      *)
(* --fail run, which loads its rows one by one, made no record at all.      *)
NothingMade == mode = "fail" /\ ~resumed /\ todo = {} /\ idMap = {}

GiveUp ==
    /\ pc \in {"read", "connect"} \/ (pc = "pass1" /\ ~resumed)
    /\ Fault
    /\ pc' = "idle"
    /\ report' = NoReport
    /\ UNCHANGED <<disk, db, memory, rejected, blind>>

GiveUpEmptyHanded ==
    /\ pc = "pass1" /\ NothingMade
    /\ pc' = "idle"
    /\ report' = NoReport
    /\ UNCHANGED <<disk, db, memory, faults, rejected, blind>>
-----------------------------------------------------------------------------
(***************************************************************************)
(* Pass 1.                                                                 *)
(***************************************************************************)
Store(r) ==
    /\ pc = "pass1" /\ r \in todo \ (malformed \cup stored \cup Bad)
    /\ stored' = stored \cup {r}
    /\ rejected' = rejected \ {r}
    /\ UNCHANGED <<disk, linked, pc, memory, report, faults, blind>>

CollectMade(r) ==
    /\ pc = "pass1" /\ r \in (todo \cap stored) \ malformed
    /\ todo' = todo \ {r}
    /\ idMap' = idMap \cup {r}
    /\ UNCHANGED <<disk, db, pc, setup, failedLines, writes, badWrites, notes>>

(* A failed line is the line read and the error message.  The fail file    *)
(* that a --fail run reads has a column for the message, which already     *)
(* holds one, and the header written again is not given another.           *)
Overflowing(rows) == IF mode = "fail" THEN rows ELSE {}

(* A row fails: its line is malformed, the server rejects it or, a fault,  *)
(* is too slow to answer.                                                  *)
CollectFailed(r) ==
    /\ pc = "pass1" /\ r \in todo
    /\ IF r \in Bad \cup malformed THEN UNCHANGED faults ELSE Fault
    /\ todo' = todo \ {r}
    /\ failFile' = failFile \cup {r}
    /\ long' = long \cup Overflowing({r})
    /\ failedLines' = failedLines \cup {r}
    /\ rejected' = (rejected \cup {r}) \ stored
    /\ UNCHANGED <<source, ckpt, db, pc, setup, idMap, writes, badWrites, report,
                   blind>>

Pass1Ends ==
    /\ pc = "pass1" /\ todo = {} /\ ~NothingMade
    /\ pc' = "save"
    /\ UNCHANGED <<disk, db, memory, notes>>

(***************************************************************************)
(* The checkpoint: a temporary file renamed over the old one.  It carries  *)
(* the hash the file has now.  Failing to save it is only logged.          *)
(***************************************************************************)
SavedMap == idMap

SaveCheckpoint ==
    /\ pc = "save"
    /\ \/ /\ keeps
          /\ ckpt' = [ckpt EXCEPT ![mode] = [hash |-> Hash(mode), idMap |-> SavedMap,
                                             read |-> readAt, exists |-> TRUE]]
          /\ UNCHANGED faults
       \/ ~keeps /\ UNCHANGED <<ckpt, faults>>
       \/ keeps /\ Fault /\ UNCHANGED ckpt
    /\ pc' = "prepare"
    /\ UNCHANGED <<source, failure, db, memory, report, rejected, blind>>
-----------------------------------------------------------------------------
(***************************************************************************)
(* Pass 2.  A relation is written if its row is in the id map and its      *)
(* target is there or known to the server; a missing target is only logged. *)
(***************************************************************************)
ResolvedAlways(r) == Target[r] # NoRow
Resolved(r) == Target[r] \in idMap \cup stored

ToWriteTargets == {Target[r] : r \in data \cap idMap}
ToWrite == {r \in data \cap idMap : Resolved(r)}

Prepare ==
    /\ pc = "prepare"
    /\ writes' = ToWrite
    /\ pc' = "pass2"
    /\ UNCHANGED <<disk, db, setup, todo, idMap, failedLines, badWrites, notes>>

Write(r) ==
    /\ pc = "pass2" /\ r \in writes \ BadLink
    /\ writes' = writes \ {r}
    /\ linked' = linked \cup {r}
    /\ UNCHANGED <<disk, stored, pc, setup, todo, idMap, failedLines, badWrites, notes>>

(* A write fails for good, or times out too often and may have been done.  *)
WriteFailed(r) ==
    /\ pc = "pass2" /\ r \in writes
    /\ IF r \in BadLink
       THEN UNCHANGED <<linked, faults>>
       ELSE Fault /\ linked' \in {linked, linked \cup {r}}
    /\ writes' = writes \ {r}
    /\ badWrites' = badWrites \cup {r}
    /\ UNCHANGED <<disk, stored, pc, setup, todo, idMap, failedLines, report, rejected,
                   blind>>

(***************************************************************************)
(* The run ends.  The rows of failed writes reach the fail file only now.  *)
(* Without a failed write, and unless Pass 2 was aborted (a fault, which   *)
(* drops the writes still to do), the run is a success and the checkpoint  *)
(* is deleted.                                                             *)
(***************************************************************************)
SuccessIfAnyWritten(aborted) == ~aborted
Success(aborted) == ~aborted /\ badWrites = {}

CleansUpNever(aborted) == FALSE
CleansUp(aborted) == Success(aborted) /\ keeps

FinalFailFileAnew == badWrites
FinalFailFile == failFile \cup badWrites

Finish(aborted) ==
    /\ pc = "pass2"
    /\ IF aborted THEN Fault ELSE writes = {} /\ UNCHANGED faults
    /\ failFile' = FinalFailFile
    /\ long' = long \cup Overflowing(badWrites)
    /\ ckpt' = IF CleansUp(aborted) THEN [ckpt EXCEPT ![mode] = NoCkpt] ELSE ckpt
    /\ report' = [success |-> Success(aborted), mode |-> mode, resumed |-> resumed,
                  total |-> data, created |-> idMap, failed |-> failedLines,
                  unaccounted |-> Cardinality(data) - Cardinality(idMap)
                                                    - Cardinality(failedLines)]
    /\ pc' = "idle"
    /\ UNCHANGED <<source, db, memory, rejected, blind>>
-----------------------------------------------------------------------------
(***************************************************************************)
(* The process is killed.  The user edits the source file, at any time; an  *)
(* edit is blind if it leaves alone what is hashed, or if it comes between  *)
(* the hash that validates a checkpoint and the reading of the file, or    *)
(* between this and the hash saved after Pass 1.                            *)
(***************************************************************************)
Crash ==
    /\ pc # "idle"
    /\ Fault
    /\ pc' = "idle"
    /\ report' = NoReport
    /\ UNCHANGED <<disk, db, memory, rejected, blind>>

BetweenHashes == mode = "normal" /\ pc \in {"read", "connect", "pass1", "save"}

Edit(inMiddle) ==
    /\ version < MaxVersion
    /\ version' = version + 1
    /\ stamp' = IF inMiddle THEN stamp ELSE version + 1
    /\ blind' = IF inMiddle \/ BetweenHashes THEN blind \cup {version + 1} ELSE blind
    /\ UNCHANGED <<failure, ckpt, db, pc, memory, report, faults, rejected>>

Progress == \/ Read \/ Connect \/ GiveUpEmptyHanded \/ Pass1Ends \/ SaveCheckpoint
            \/ Prepare \/ Finish(FALSE)
            \/ \E r \in Row : \/ Store(r) \/ CollectMade(r) \/ CollectFailed(r)
                              \/ Write(r) \/ WriteFailed(r)

Next == \/ \E m \in Modes, flags \in Flags : Start(m, flags)
        \/ Progress \/ GiveUp \/ Finish(TRUE) \/ Crash
        \/ \E inMiddle \in BOOLEAN : Edit(inMiddle)

Spec == Init /\ [][Next]_vars

(***************************************************************************)
(* The process runs; the user keeps re-running the import of the source    *)
(* file as the defaults have it.  Faults are finite in number, as          *)
(* MaxFaults bounds them.                                                  *)
(***************************************************************************)
Defaults == [resume |-> TRUE, checkpoint |-> TRUE]
FairSpec == Spec /\ WF_vars(Progress) /\ SF_vars(Start("normal", Defaults))
-----------------------------------------------------------------------------
File == (0 .. MaxVersion) \X SUBSET Row
Ckpt == [hash : Nat \X SUBSET Row, idMap : SUBSET Row, read : File, exists : BOOLEAN]
Report == [success : BOOLEAN, mode : {"normal", "fail"}, resumed : BOOLEAN,
           total : SUBSET Row, created : SUBSET Row, failed : SUBSET Row,
           unaccounted : Int]

(* Types: every set of rows is one of rows of the source file.             *)
TypeOK ==
    /\ version \in 1 .. MaxVersion /\ stamp \in 1 .. version
    /\ blind \subseteq 1 .. version
    /\ ckpt \in [{"normal", "fail"} -> Ckpt]
    /\ \A S \in {failFile, long, malformed, stored, linked, data, todo, idMap,
                 failedLines, writes, badWrites, rejected} : S \subseteq Row
    /\ pc \in {"idle", "read", "connect", "pass1", "save", "prepare", "pass2"}
    /\ mode \in {"normal", "fail"} /\ resumed \in BOOLEAN /\ keeps \in BOOLEAN
    /\ readAt \in File /\ report \in Report
    /\ faults \in 0 .. MaxFaults

(* A checkpoint names only records that exist, so a run resumed from it    *)
(* skips no row that was not created.                                      *)
CheckpointIsTrue ==
    \A m \in {"normal", "fail"} : ckpt[m].exists => ckpt[m].idMap \subseteq stored

(* checkpoint.py:188, "Verify file hasn't changed": a run of the source    *)
(* file that skips Pass 1 has read what the run that saved the checkpoint  *)
(* had read, unless an edit made in between was blind: within the middle   *)
(* of the file, which is not hashed, or while a run was between its hashes *)
(* (import_threaded.py:3281, 3312, 3654).  Of a --fail run nothing is said: *)
(* the run before it has rewritten its file before it took the hash.       *)
SameRows == ckpt["normal"].read = readAt
EditedBlindly == \E v \in blind : ckpt["normal"].read[1] < v /\ v <= readAt[1]
ResumeReadsSameRows ==
    pc \notin {"idle", "read"} /\ resumed /\ mode = "normal" => SameRows \/ EditedBlindly

(* A checkpoint may be resumed from.                                       *)
CheckpointIsSound == CheckpointIsTrue /\ ResumeReadsSameRows

(* What a run that did not resume reports adds up (README.md:35): each row *)
(* it read is in the map or failed, and those that failed are in the fail  *)
(* file when the run is over.                                              *)
FreshRunAddsUp ==
    report.success /\ ~report.resumed =>
        /\ report.unaccounted = 0
        /\ report.created \cup report.failed = report.total
        /\ pc = "idle" => report.failed \subseteq failFile

(* Pass 2 links records, never rows: a relation is only ever written on a  *)
(* record that exists to a record that exists.                             *)
LinksAreSound ==
    \A r \in linked : r \in stored /\ Target[r] \in stored

(* A run reported as a success has written every relation it could, even   *)
(* those of records an earlier run created: each record in its map whose   *)
(* target exists is linked.  A --fail run that resumes is left out, since  *)
(* it may read other rows than those in its map (see ResumeReadsSameRows).  *)
SuccessMeansLinked ==
    report.success /\ ~(report.resumed /\ report.mode = "fail") =>
        \A r \in report.created : Target[r] \in report.created => r \in linked

(* Pass 2 writes the relations it should, and no others.                   *)
LinkingIsSound == LinksAreSound /\ SuccessMeansLinked

(* README.md:36, bad rows are written to a fail file to be retried: when a *)
(* run has reported success, every row that was declared failed and never  *)
(* stored since is in the fail file.                                       *)
RejectedRowsOnFile ==
    pc = "idle" /\ report.success => rejected \subseteq failFile

(* README.md:36, "re-run with --fail to retry only them": every row such a  *)
(* run reads is one it can send to the server.                             *)
FailRunRetriesRows == pc = "pass1" /\ mode = "fail" => todo \cap malformed = {}

(* README.md:37, re-running converges to the right state: however runs are *)
(* cut short, every row that can be stored is stored in the end, and every *)
(* relation that can be written is written.  The exception is an import    *)
(* with a checkpoint of a record whose relation the server never accepts:  *)
(* its Pass 2 fails each time, so that the runs resume from the checkpoint *)
(* for good and Pass 1 is not done again (import_threaded.py:3604).  Even  *)
(* then each row is stored that was not declared failed, and each relation *)
(* written whose two records the checkpoint has.                           *)
Storable == Row \ Bad
Linkable == {r \in Storable \ BadLink : Target[r] \in Storable}
Kept == ckpt["normal"].idMap
Stuck == {r \in BadLink \cap Kept : Target[r] \in stored} # {}
Converges ==
    <>[](IF Stuck
         THEN /\ Storable \subseteq stored \cup rejected
              /\ \A r \in Linkable : {r, Target[r]} \subseteq Kept => r \in linked
         ELSE Storable \subseteq stored /\ Linkable \subseteq linked)
=============================================================================
