------------------------------ MODULE RowFilter ------------------------------
(***************************************************************************)
(* --skip-unchanged and --skip-existing (import_threaded.py: import_data   *)
(* before Pass 1; lib/idempotent.py): rows are taken out of a run because  *)
(* of what was read from the server beforehand, over any number of runs    *)
(* that may die, be resumed from the checkpoint, and share the server with *)
(* an administrator.  What the two passes do with the rows that are left   *)
(* is reduced to one value and one relation per record; ImportRun and      *)
(* RelationPass have the rest.                                             *)
(***************************************************************************)
EXTENDS Integers, Sequences

CONSTANTS
    Dotted,     \* external ids that name a module
    Undotted,   \* external ids that do not: "x" is stored as "__import__.x"
    Val,        \* values of a column
    Before,     \* the value of a record that was there before
    Files,      \* the files to import: sequences of [id, val, link]
    MaxFaults,  \* bound: crashes and lookups that fail
    MaxEdits    \* bound: edits by the administrator

Id == Dotted \cup Undotted
None == [val |-> "", link |-> FALSE]     \* no such record
Record == [val : Val \cup {""}, link : BOOLEAN]

VARIABLES
    file,      \* the rows of the source file; link says that the row names a target
    db,        \* server: id -> its record
    old,       \* history: the server when the run began
    options,   \* [unchanged, existing]: which of the two flags are given
    kept,      \* all_data: the rows still to be imported, by their number
    saved,     \* the checkpoint: the ids in its id_map, or NoCheckpoint
    idMap,     \* ids Pass 1 returned
    step,      \* where import_data is
    next,      \* the row a pass is at
    touched,   \* history: ids edited since Pass 1 last started from the file
    blind,     \* history: a lookup of this run failed or left relations out
    narrow,    \* history: the checkpoint is of a run that left existing records out
    faults, edits

vars == <<file, db, old, options, kept, saved, idMap, step, next, touched,
          blind, narrow, faults, edits>>

NoCheckpoint == {"no checkpoint"}
Rows == DOMAIN file
Distinct == \A i, j \in Rows : file[i].id = file[j].id => i = j

Init ==
    /\ file \in Files
    /\ db \in [Id -> {None, [val |-> Before, link |-> FALSE]}] /\ old = db
    /\ options = [unchanged |-> FALSE, existing |-> FALSE]
    /\ kept = {} /\ saved = NoCheckpoint /\ idMap = {}
    /\ step = "idle" /\ next = 1
    /\ touched = {} /\ blind = FALSE /\ narrow = FALSE
    /\ faults = 0 /\ edits = 0
-----------------------------------------------------------------------------
Start ==
    /\ step \in {"idle", "done"}
    /\ options' \in [unchanged : BOOLEAN, existing : BOOLEAN]
    /\ kept' = Rows /\ old' = db /\ blind' = FALSE
    /\ touched' = IF saved = NoCheckpoint THEN {} ELSE touched
    /\ step' = "unchanged"
    /\ UNCHANGED <<file, db, saved, idMap, next, narrow, faults, edits>>

(* get_existing_records: only ids with a module are looked up.  The fields *)
(* asked for are the column names, so a relation ("parent_id/id") is no    *)
(* field of the model: the server refuses the whole call, or answers       *)
(* without it.  A failure of any kind finds nothing.                       *)
Found == [x \in {y \in Dotted : db[y] # None} |-> db[x].val]
Nothing == << >>
HasLinks == \E i \in Rows : file[i].link

(* filter_unchanged_rows: new, or different in a column that was read.     *)
ChangedIfNew(i, known) == file[i].id \notin DOMAIN known
Changed(i, known) ==
    file[i].id \notin DOMAIN known \/ file[i].val # known[file[i].id]

SkipUnchanged ==
    /\ step = "unchanged"
    /\ step' = "existing"
    /\ \/ ~options.unchanged /\ UNCHANGED <<kept, blind, faults>>
       \/ /\ options.unchanged
          /\ kept' = {i \in kept : Changed(i, Found)}
          /\ blind' = (blind \/ HasLinks) /\ UNCHANGED faults
       \/ /\ options.unchanged
          /\ HasLinks \/ faults < MaxFaults
          /\ kept' = {i \in kept : Changed(i, Nothing)}
          /\ faults' = IF HasLinks THEN faults ELSE faults + 1
          /\ UNCHANGED blind
    /\ UNCHANGED <<file, db, old, options, saved, idMap, next, touched, narrow, edits>>

(* The ids found are "module.name"; an id without a module is looked up as *)
(* one of __import__ and then compared without it, so it never matches.    *)
ExistingIds == {x \in Dotted : db[x] # None}

SkipExisting ==
    /\ step = "existing"
    /\ step' = "pass1" /\ next' = 1
    /\ \/ ~options.existing /\ UNCHANGED <<kept, blind, faults>>
       \/ /\ options.existing
          /\ kept' = {i \in kept : file[i].id \notin ExistingIds}
          /\ UNCHANGED <<blind, faults>>
       \/ /\ options.existing /\ faults < MaxFaults
          /\ faults' = faults + 1 /\ blind' = TRUE /\ UNCHANGED kept
    /\ UNCHANGED <<file, db, old, options, saved, idMap, touched, narrow, edits>>
-----------------------------------------------------------------------------
(* Pass 1 creates or updates one record after the other, in the order of   *)
(* the file, and leaves the relation for Pass 2.                           *)
Load(i) == [db EXCEPT ![file[i].id] = [val |-> file[i].val, link |-> @.link]]

Pass1 ==
    /\ step = "pass1" /\ saved = NoCheckpoint /\ next \in Rows
    /\ db' = IF next \in kept THEN Load(next) ELSE db
    /\ next' = next + 1
    /\ UNCHANGED <<file, old, options, kept, saved, idMap, step, touched, blind,
                   narrow, faults, edits>>

(* The checkpoint of a finished Pass 1 replaces it, whatever rows this run *)
(* has kept.                                                               *)
MapOfRun == {file[i].id : i \in kept}

Pass1Over ==
    /\ step = "pass1"
    /\ \/ saved = NoCheckpoint /\ next \notin Rows /\ saved' = MapOfRun
          /\ narrow' = (options.existing \/ blind)
       \/ saved # NoCheckpoint /\ UNCHANGED <<saved, narrow>>
    /\ idMap' = saved'
    /\ step' = "pass2" /\ next' = 1
    /\ UNCHANGED <<file, db, old, options, kept, touched, blind, faults, edits>>

(* Only rows this run has kept are given their relation.                   *)
Linked(i) == i \in kept /\ file[i].link /\ file[i].id \in idMap

Pass2 ==
    /\ step = "pass2" /\ next \in Rows
    /\ db' = IF Linked(next) /\ db[file[next].id] # None
             THEN [db EXCEPT ![file[next].id].link = TRUE] ELSE db
    /\ next' = next + 1
    /\ UNCHANGED <<file, old, options, kept, saved, idMap, step, touched, blind,
                   narrow, faults, edits>>

Finish ==
    /\ step = "pass2" /\ next \notin Rows
    /\ step' = "done" /\ saved' = NoCheckpoint
    /\ UNCHANGED <<file, db, old, options, kept, idMap, next, touched, blind,
                   narrow, faults, edits>>

Crash ==
    /\ step \notin {"idle", "done"} /\ faults < MaxFaults
    /\ step' = "idle" /\ kept' = {} /\ idMap' = {} /\ next' = 1
    /\ options' = [unchanged |-> FALSE, existing |-> FALSE] /\ old' = db
    /\ faults' = faults + 1
    /\ UNCHANGED <<file, db, saved, touched, blind, narrow, edits>>

(* The administrator changes a record.                                     *)
Edit ==
    /\ edits < MaxEdits /\ edits' = edits + 1
    /\ \E x \in Id : /\ db[x] # None
                     /\ \E record \in [val : Val, link : BOOLEAN] :
                           db' = [db EXCEPT ![x] = record]
                     /\ touched' = touched \cup {x}
    /\ UNCHANGED <<file, old, options, kept, saved, idMap, step, next, blind, narrow,
                   faults>>

Next == Start \/ SkipUnchanged \/ SkipExisting \/ Pass1 \/ Pass1Over \/ Pass2
        \/ Finish \/ Crash \/ Edit

Spec == Init /\ [][Next]_vars
-----------------------------------------------------------------------------
TypeOK ==
    /\ file \in Files
    /\ db \in [Id -> Record] /\ old \in [Id -> Record]
    /\ options \in [unchanged : BOOLEAN, existing : BOOLEAN]
    /\ kept \subseteq Rows /\ idMap \subseteq Id
    /\ saved = NoCheckpoint \/ saved \subseteq Id
    /\ step \in {"idle", "unchanged", "existing", "pass1", "pass2", "done"}
    /\ next \in 1 .. Len(file) + 1
    /\ touched \subseteq Id /\ blind \in BOOLEAN /\ narrow \in BOOLEAN
    /\ faults \in 0 .. MaxFaults /\ edits \in 0 .. MaxEdits

AsInRow(i) == /\ db[file[i].id].val = file[i].val
              /\ file[i].link => db[file[i].id].link

(* A finished run with --skip-unchanged has the effect of a run without    *)
(* it: whatever runs died before, every record is as its row says, unless  *)
(* someone edited it after Pass 1 began, the relations were not read, or   *)
(* the run resumes one with --skip-existing, whose id map lacks the rows   *)
(* it skipped.                                                             *)
SkippingChangesNothing ==
    step = "done" /\ ~options.existing /\ ~blind /\ ~narrow /\ Distinct =>
        \A i \in Rows : file[i].id \in touched \/ AsInRow(i)

(* A finished run with --skip-existing that was not resumed and whose      *)
(* lookups were answered has left every record it found alone, if its id   *)
(* has a module, and has made every missing one with its relation.         *)
OnlyMissingAreMade ==
    step = "done" /\ options.existing /\ ~blind /\ Distinct =>
        \A i \in Rows :
            LET x == file[i].id IN
            \/ x \in touched
            \/ x \in Dotted /\ old[x] # None /\ old[x].val = db[x].val
            \/ old[x] = None /\ AsInRow(i)
            \/ x \in Undotted

FiltersAreSound == TypeOK /\ SkippingChangesNothing /\ OnlyMissingAreMade

(* Whatever was skipped, a run that says it succeeded leaves no record with *)
(* what a run of the file wrote on it and without the relation of its row. *)
RelationsInPlace ==
    step = "done" /\ Distinct /\ ~blind =>
        \A i \in Rows :
            LET x == file[i].id IN
            file[i].link /\ db[x].val \notin {Before, ""} => db[x].link \/ x \in touched
-----------------------------------------------------------------------------
(***************************************************************************)
(* What keeps itself true, step by step, and implies the first two.        *)
(***************************************************************************)
Made(i) == db[file[i].id] # None
ValueSettled(i) == file[i].id \in touched \/ db[file[i].id].val = file[i].val

(* When there is a checkpoint every row has its record, and unless the     *)
(* checkpoint is narrow, its values; no relation is missing from its map.  *)
CheckpointHolds ==
    saved # NoCheckpoint =>
        /\ \A i \in Rows : Made(i)
        /\ ~narrow /\ Distinct => \A i \in Rows : ValueSettled(i)
        /\ ~narrow /\ HasLinks => \A i \in Rows : file[i].id \in saved

(* A row is left out for a record that is there; one that is left out as   *)
(* unchanged has the values of the record and no relation.                 *)
LeftOutHolds ==
    /\ step = "unchanged" => kept = Rows
    /\ step \in {"existing", "pass1", "pass2"} =>
          /\ \A i \in Rows \ kept : Made(i)
          /\ ~blind /\ (step = "existing" \/ ~options.existing) =>
                /\ HasLinks => kept = Rows
                /\ step # "pass2" /\ Distinct => \A i \in Rows \ kept : ValueSettled(i)

(* How far the passes are.                                                 *)
PassesHold ==
    /\ step = "pass1" /\ saved = NoCheckpoint =>
          \A i \in kept : i < next => Made(i) /\ (Distinct => ValueSettled(i))
    /\ step = "pass2" =>
          /\ saved # NoCheckpoint /\ idMap = saved
          /\ Distinct /\ ~blind /\ ~narrow /\ ~options.existing =>
                \A i \in Rows : i < next /\ file[i].link =>
                    file[i].id \in touched \/ db[file[i].id].link

(* With --skip-existing, a record that nobody else has changed is left     *)
(* alone when it was there, and made and linked when it was not.           *)
NewOneHolds(i) ==
    /\ i \in kept
    /\ step = "pass1" => saved = NoCheckpoint
    /\ step = "pass2" => /\ file[i].id \in idMap
                         /\ db[file[i].id].val = file[i].val
                         /\ i < next /\ file[i].link => db[file[i].id].link
OldOneHolds(i) ==
    /\ step = "pass1" => i \notin kept
    /\ db[file[i].id].val = old[file[i].id].val

ExistingHolds ==
    Distinct => \A i \in Rows : file[i].id \notin touched \cup Undotted =>
        /\ step \in {"unchanged", "existing"} => db[file[i].id] = old[file[i].id]
        /\ step = "existing" /\ old[file[i].id] = None => i \in kept
        /\ step \in {"pass1", "pass2"} /\ options.existing /\ ~blind =>
              /\ old[file[i].id] = None => NewOneHolds(i)
              /\ old[file[i].id] # None => OldOneHolds(i)

FilterInv ==
    /\ TypeOK /\ CheckpointHolds /\ LeftOutHolds /\ PassesHold /\ ExistingHolds
    /\ SkippingChangesNothing /\ OnlyMissingAreMade
=============================================================================
