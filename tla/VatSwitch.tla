------------------------------ MODULE VatSwitch ------------------------------
(***************************************************************************)
(* Switching VAT validation off around an import and back on afterwards    *)
(* (lib/actions/vies_manager.py: disable_vat_validation,                   *)
(* restore_vat_validation_settings, run_import_with_vat_validation_disabled *)
(* and restore_vat_settings_from_backup; __main__.py: vat disable and vat  *)
(* restore).  What the settings were is kept in memory and in a backup     *)
(* file, which a later run takes for the original settings if it finds it. *)
(*                                                                         *)
(* A setting is on or off: the VIES check of a company, or a system        *)
(* parameter.  A snapshot is what is known of some of them.                *)
(* A definition placed right before another one and named after it with a  *)
(* suffix is that definition with a bug in it, for PROJECT.json.           *)
(***************************************************************************)
EXTENDS Integers, FiniteSets

CONSTANTS
    Company,       \* companies with a VIES check
    Param,         \* system parameters of the stdnum check
    Jobs,          \* what users run: [kind, companies, vies, params]
    MaxRetries,    \* repetitions of a restoration, 5 in the code
    MaxEdits,      \* bound on the changes administrators make
    MaxFaults      \* bound on crashes and failing calls

Setting == Company \cup Param
Kinds == {"import", "disable"}

ASSUME SettingAssumption == Company \cap Param = {}
ASSUME JobAssumption ==
    Jobs \subseteq [kind : Kinds, companies : SUBSET Company, vies : BOOLEAN, params : BOOLEAN]
ASSUME BoundAssumption == MaxRetries \in Nat /\ MaxEdits \in Nat /\ MaxFaults \in Nat

VARIABLES
    db,          \* server: the settings that are on
    wanted,      \* history: those its administrators turned on
    backup,      \* disk: [state, snapshot], the backup file
    output,      \* disk: the snapshot "vat disable --output" wrote
    pc,          \* where the process is; "idle" when none runs
    job,         \* the job of this run
    original,    \* original_settings
    todo,        \* settings still to switch off, or to restore
    attempt,     \* attempts of the restoration so far
    ok,          \* whether all of this attempt's calls succeeded
    report,      \* what the last run told its user
    edits,       \* changes made by administrators so far
    faults,      \* faults so far
    stale,       \* history: settings changed while a snapshot was on disk
    unknown,     \* history: settings switched off, or restored, on a
                 \* record that does not hold them
    unsaved      \* history: whether a backup could not be written

disk == <<backup, output>>
memory == <<job, original, todo, attempt, ok>>
history == <<wanted, stale, unknown, unsaved>>
vars == <<db, disk, pc, memory, report, edits, faults, history>>

NoSnapshot == [known |-> {}, on |-> {}, exists |-> FALSE]
Snapshot(known, on) == [known |-> known, on |-> known \cap on, exists |-> TRUE]
NoBackup == [state |-> "none", snapshot |-> NoSnapshot]
Torn == [state |-> "torn", snapshot |-> NoSnapshot]
Good(snapshot) == [state |-> "good", snapshot |-> snapshot]
NoJob == [kind |-> "disable", companies |-> {}, vies |-> FALSE, params |-> FALSE]

Fault == faults < MaxFaults /\ faults' = faults + 1

Params(j) == IF j.params THEN Param ELSE {}
Saved(j) == j.companies \cup Params(j)
SwitchedOff(j) == (IF j.vies THEN j.companies \cap db ELSE {}) \cup Params(j)

Init ==
    /\ db \in SUBSET Setting /\ wanted = db
    /\ backup = NoBackup /\ output = NoSnapshot
    /\ pc = "idle" /\ job = NoJob /\ original = NoSnapshot
    /\ todo = {} /\ attempt = 0 /\ ok = TRUE /\ report = "none"
    /\ edits = 0 /\ faults = 0 /\ stale = {} /\ unknown = {} /\ unsaved = FALSE
-----------------------------------------------------------------------------
(***************************************************************************)
(* Finding out the original settings: from a backup that can be read, or   *)
(* else from the server, and then they are written to the backup file.     *)
(***************************************************************************)
BackedUpNever == FALSE
BackedUp == backup.state = "good"

StartJob(j) ==
    /\ pc = "idle"
    /\ job' = j
    /\ IF BackedUp THEN original' = backup.snapshot /\ pc' = "connect"
                   ELSE original' = NoSnapshot /\ pc' = "poll"
    /\ todo' = {} /\ attempt' = 0 /\ ok' = TRUE /\ report' = "none"
    /\ UNCHANGED <<db, disk, edits, faults, history>>

(* A parameter that cannot be read is left out without a word.             *)
Poll ==
    /\ pc = "poll"
    /\ \E missed \in SUBSET Params(job) :
         /\ IF missed = {} THEN UNCHANGED faults ELSE Fault
         /\ original' = Snapshot(Saved(job) \ missed, db)
    /\ pc' = "open"
    /\ UNCHANGED <<db, disk, job, todo, attempt, ok, report, edits, history>>

(* Without the settings nothing is switched off; an import goes on.        *)
PollFails ==
    /\ pc = "poll"
    /\ Fault
    /\ pc' = IF job.kind = "import" THEN "import" ELSE "idle"
    /\ UNCHANGED <<db, disk, memory, report, edits, history>>

(* The file is truncated, then written.                                    *)
OpenBackup ==
    /\ pc = "open"
    /\ backup' = Torn
    /\ pc' = "dump"
    /\ UNCHANGED <<db, output, memory, report, edits, faults, history>>

DumpBackup ==
    /\ pc = "dump"
    /\ backup' = Good(original)
    /\ pc' = "connect"
    /\ UNCHANGED <<db, output, memory, report, edits, faults, history>>

SaveFails ==
    /\ pc \in {"open", "dump"}
    /\ Fault
    /\ unsaved' = TRUE
    /\ pc' = "connect"
    /\ UNCHANGED <<db, disk, memory, report, edits, wanted, stale, unknown>>
-----------------------------------------------------------------------------
(***************************************************************************)
(* Switching off: the companies that have the check on, then the           *)
(* parameters, one call each.  Calls that fail are logged.  A setting may  *)
(* be switched off that the original settings do not hold: its value could *)
(* not be read, or the backup is one of a job for other settings.          *)
(***************************************************************************)
Turn(s) == s \in todo /\ (s \in Param => todo \cap Company = {})

(* Switched off or not: an import goes on, and "vat disable" ends, after    *)
(* writing what it returned to a file if it was asked to.                  *)
Leave ==
    /\ pc' = IF job.kind = "import" THEN "import" ELSE "idle"
    /\ output' \in IF job.kind = "disable" THEN {output, original} ELSE {output}

Connect ==
    /\ pc = "connect"
    /\ todo' = SwitchedOff(job)
    /\ pc' = "disable"
    /\ UNCHANGED <<db, disk, job, original, attempt, ok, report, edits, faults, history>>

ConnectFails ==
    /\ pc = "connect"
    /\ Fault
    /\ Leave
    /\ UNCHANGED <<db, backup, memory, report, edits, history>>

SwitchOff(s) ==
    /\ pc = "disable" /\ Turn(s)
    /\ db' = db \ {s}
    /\ todo' = todo \ {s}
    /\ unknown' = IF s \in original.known THEN unknown ELSE unknown \cup {s}
    /\ UNCHANGED <<disk, pc, job, original, attempt, ok, report, edits, faults,
                   wanted, stale, unsaved>>

SwitchOffFails(s) ==
    /\ pc = "disable" /\ Turn(s)
    /\ Fault
    /\ todo' = todo \ {s}
    /\ UNCHANGED <<db, disk, pc, job, original, attempt, ok, report, edits, history>>

SwitchedAllOff ==
    /\ pc = "disable" /\ todo = {}
    /\ Leave
    /\ UNCHANGED <<db, backup, memory, report, edits, faults, history>>

(* The import ends, by returning or raising, and the settings are restored *)
(* if they are known.                                                      *)
ImportEnds ==
    /\ pc = "import"
    /\ pc' = IF original.exists THEN "attempt" ELSE "idle"
    /\ UNCHANGED <<db, disk, memory, report, edits, faults, history>>
-----------------------------------------------------------------------------
(***************************************************************************)
(* Restoring: also from the backup, and from the file of "vat disable".    *)
(***************************************************************************)
RestoreFrom(snapshot) ==
    /\ pc = "idle"
    /\ original' = snapshot
    /\ pc' = "attempt"
    /\ job' = NoJob /\ todo' = {} /\ attempt' = 0 /\ ok' = TRUE /\ report' = "none"
    /\ UNCHANGED <<db, disk, edits, faults, history>>

Recover == backup.state = "good" /\ RestoreFrom(backup.snapshot)
RestoreOutput == output.exists /\ RestoreFrom(output)

MayRetryOnceMore(n) == n <= MaxRetries + 1
MayRetry(n) == n <= MaxRetries

GiveUp == pc' = "idle" /\ report' = "failed"

Attempt ==
    /\ pc = "attempt"
    /\ attempt' = attempt + 1
    /\ ok' = TRUE
    /\ todo' = original.known
    /\ pc' = "restore"
    /\ UNCHANGED <<db, disk, job, original, report, edits, faults, history>>

(* No connection: tried again if the error is one that may pass.  Nothing  *)
(* to restore needs none.                                                  *)
AttemptFails ==
    /\ pc = "attempt" /\ original.known # {}
    /\ Fault
    /\ attempt' = attempt + 1
    /\ \/ MayRetry(attempt') /\ UNCHANGED <<pc, report>>
       \/ GiveUp
    /\ UNCHANGED <<db, disk, job, original, todo, ok, edits, history>>

Restore(s) ==
    /\ pc = "restore" /\ Turn(s)
    /\ db' = IF s \in original.on THEN db \cup {s} ELSE db \ {s}
    /\ todo' = todo \ {s}
    /\ UNCHANGED <<disk, pc, job, original, attempt, ok, report, edits, faults, history>>

(* An error that may pass starts the next attempt, from the first setting  *)
(* again; after another one the rest is still restored.                    *)
RestorePasses(s) ==
    /\ pc = "restore" /\ Turn(s)
    /\ Fault
    /\ IF MayRetry(attempt) THEN pc' = "attempt" /\ UNCHANGED report ELSE GiveUp
    /\ UNCHANGED <<db, disk, memory, edits, history>>

OkAlways == TRUE
OkAfterFailure == FALSE
RestoreRefused(s) ==
    /\ pc = "restore" /\ Turn(s)
    /\ Fault
    /\ ok' = OkAfterFailure
    /\ todo' = todo \ {s}
    /\ UNCHANGED <<db, disk, pc, job, original, attempt, report, edits, history>>

(* Everything restored: the backup is deleted, or left when that fails. It *)
(* may hold more settings than were restored, from another file.           *)
KeptBackupNever(restored) == NoBackup
KeptBackup(restored) == IF restored THEN NoBackup ELSE backup

RestoreEnds ==
    /\ pc = "restore" /\ todo = {}
    /\ \/ backup' = KeptBackup(ok) /\ UNCHANGED faults
       \/ ok /\ Fault /\ UNCHANGED backup
    /\ unknown' = IF ok THEN unknown \cup (backup.snapshot.known \ original.known)
                         ELSE unknown
    /\ pc' = "idle"
    /\ report' = IF ok THEN "restored" ELSE "failed"
    /\ UNCHANGED <<db, output, memory, edits, wanted, stale, unsaved>>
-----------------------------------------------------------------------------
Crash ==
    /\ pc # "idle"
    /\ Fault
    /\ pc' = "idle" /\ report' = "none"
    /\ UNCHANGED <<db, disk, memory, edits, history>>

(* An administrator changes a setting between two runs.                    *)
Edit(s) ==
    /\ pc = "idle" /\ edits < MaxEdits
    /\ edits' = edits + 1
    /\ db' = IF s \in db THEN db \ {s} ELSE db \cup {s}
    /\ wanted' = IF s \in db THEN wanted \ {s} ELSE wanted \cup {s}
    /\ stale' = IF BackedUp \/ output.exists THEN stale \cup {s} ELSE stale
    /\ UNCHANGED <<disk, pc, memory, report, faults, unknown, unsaved>>

Step == \/ Poll \/ PollFails \/ OpenBackup \/ DumpBackup \/ SaveFails
        \/ Connect \/ ConnectFails \/ SwitchedAllOff \/ ImportEnds
        \/ Attempt \/ AttemptFails \/ RestoreEnds
        \/ \E s \in Setting : \/ SwitchOff(s) \/ SwitchOffFails(s)
                              \/ Restore(s) \/ RestorePasses(s) \/ RestoreRefused(s)

Next == \/ \E j \in Jobs : StartJob(j)
        \/ Recover \/ RestoreOutput \/ Step \/ Crash
        \/ \E s \in Setting : Edit(s)

Spec == Init /\ [][Next]_vars

(* The process runs, and whenever a run left a backup behind someone, some *)
(* time, restores the settings from it.  Faults are finite in number.      *)
FairSpec == Spec /\ WF_vars(Step) /\ SF_vars(Recover)
-----------------------------------------------------------------------------
Snapshots == [known : SUBSET Setting, on : SUBSET Setting, exists : BOOLEAN]

(* Types: a restoration makes at most one attempt more than its retries.   *)
TypeOK ==
    /\ db \subseteq Setting /\ wanted \subseteq Setting
    /\ backup \in [state : {"none", "torn", "good"}, snapshot : Snapshots]
    /\ output \in Snapshots /\ original \in Snapshots
    /\ pc \in {"idle", "poll", "open", "dump", "connect", "disable", "import",
               "attempt", "restore"}
    /\ job \in Jobs \cup {NoJob}
    /\ todo \subseteq Setting
    /\ attempt \in 0 .. MaxRetries + 1
    /\ ok \in BOOLEAN /\ report \in {"none", "restored", "failed"}
    /\ edits \in 0 .. MaxEdits /\ faults \in 0 .. MaxFaults
    /\ stale \subseteq Setting /\ unknown \subseteq Setting /\ unsaved \in BOOLEAN

(* Settings of which nothing can be promised: changed behind a snapshot,   *)
(* switched off on nobody's record, or never backed up.                    *)
Excused == stale \cup unknown \cup (IF unsaved THEN Setting ELSE {})
Back(s) == s \in db <=> s \in wanted
Held(s) == /\ backup.state = "good" /\ s \in backup.snapshot.known
           /\ s \in backup.snapshot.on <=> s \in wanted

(* At every moment, and so wherever a run is killed, each setting is as    *)
(* its administrators want it or the backup says how they want it.         *)
Recoverable == \A s \in Setting \ Excused : Back(s) \/ Held(s)

(* vies_manager.py:878, "VAT validation settings restored successfully":   *)
(* when a run says so and deletes the backup, all of them are as wanted,   *)
(* the ones an earlier run had switched off included.                      *)
RestoredIsTrue ==
    pc = "idle" /\ report = "restored" => \A s \in Setting \ Excused : Back(s)

(* However runs are cut short, the settings come back, as often as they    *)
(* are switched off (vies_manager.py:1222, "Always restore settings").     *)
SettingsComeBack == []<>(\A s \in Setting \ Excused : Back(s))
=============================================================================
