--------------------------- MODULE ImportCommand ---------------------------
(***************************************************************************)
(* The import command around import_data (importer.py: run_import;         *)
(* lib/relational_import.py, lib/sort.py, lib/cache.py): which rows a run  *)
(* takes and in which order, what is written in import_data and what by    *)
(* the strategies after it, the update pass of each language and company,  *)
(* and what the user is told in the end.  Runs follow one another, with    *)
(* and without --fail; between them rows are corrected and the related     *)
(* model is imported.  Within a run import_data is reduced to the outcome  *)
(* of each row; LoadBatch, ImportRun and RelationPass have the rest.       *)
(*                                                                         *)
(* The file has a parent_id column and no parent but its own rows, so it   *)
(* is imported from a sorted copy under a new temporary name, under which  *)
(* no run finds the checkpoint of an earlier one (importer.py:769,         *)
(* checkpoint.py:94); and the fail file of a --fail run that Pass 2 failed *)
(* has changed since its checkpoint was saved.  So each run does Pass 1.   *)
(* Runs that are killed are ImportRun's.                                   *)
(***************************************************************************)
EXTENDS Integers, FiniteSets

CONSTANTS
    Owner,      \* the rows of the file, 1 .. n in its order
    Target,     \* records of the related model
    Asked,      \* Owner -> the targets in the row's many2many column
    Parents,    \* functions Owner -> Owner \cup {0}: what the parent_id column may hold
    HasLines,   \* rows with JSON in a one2many column
    Plain,      \* those of them whose JSON has no dot
    Spaced,     \* rows whose id changes when it is made an external id
    Qualified,  \* the update passes, languages first: for each one the rows with a
                \* value in its field@language or field@company columns
    Worker,     \* --worker
    Options,    \* the options a run may be given
    MaxRuns,    \* bound: runs
    MaxFaults   \* bound: refused writes, failed lookups, aborted imports

Pass == DOMAIN Qualified
Stranger == "stranger"          \* a link that was there before, in no file
NoCache == {"no cache"}
Option == [fail : BOOLEAN, auto : BOOLEAN, listed : BOOLEAN, add : BOOLEAN]

VARIABLES
    parent,     \* the parent_id column
    bad,        \* rows Odoo rejects until they are corrected
    exists,     \* server: targets
    made,       \* server: records of the file
    links,      \* server: record -> its many2many links
    lines,      \* server: record -> how often its one2many children were created
    current,    \* server: pass -> records with the value of the file
    cache,      \* .fluvo_cache: the related model's id map
    failFile,   \* rows in <model>_fail.csv
    relFile,    \* rows in <file>_relations_fail.csv
    passFile,   \* pass -> rows in its fail file
    run,        \* the options of this run
    rows,       \* the rows of the file this run reads
    stage,      \* where run_import is
    todo,       \* what is left of the stage
    idMap,
    related,    \* related_model_df
    flagged,    \* passes whose summary says that rows failed
    verdict,    \* what the last run has printed
    quiet,      \* history: no pass of this run was aborted and no write refused
    runs, faults

server == <<exists, made, links, lines, current>>
disk   == <<cache, failFile, relFile, passFile>>
work   == <<stage, todo, idMap, related, flagged>>
vars   == <<parent, bad, server, disk, run, rows, work, verdict, quiet, runs, faults>>

Init ==
    /\ parent \in Parents
    /\ bad \in SUBSET Owner
    /\ exists = {} /\ made = {}
    /\ links = [o \in Owner |-> {Stranger}] /\ lines = [o \in Owner |-> 0]
    /\ current = [p \in Pass |-> {}]
    /\ cache = NoCache /\ failFile = {} /\ relFile = {} /\ passFile = [p \in Pass |-> {}]
    /\ run = CHOOSE o \in Options : TRUE
    /\ rows = {} /\ stage = "idle" /\ todo = {} /\ idMap = {} /\ related = {} /\ flagged = {}
    /\ verdict = "none" /\ quiet = TRUE /\ runs = 0 /\ faults = 0

Fault == faults < MaxFaults /\ faults' = faults + 1
-----------------------------------------------------------------------------
(* Between runs: a file of the related model is imported, after which the  *)
(* cache holds the ids of that run and no others (or is as before, if it   *)
(* was imported with another configuration); a row is corrected.           *)
ImportTargets(S) ==
    /\ stage = "idle" /\ S # {} /\ runs < MaxRuns
    /\ exists' = exists \cup S
    /\ cache' \in {cache, S}
    /\ UNCHANGED <<parent, bad, made, links, lines, current, failFile, relFile, passFile,
                   run, rows, work, verdict, quiet, runs, faults>>

Correct(o) ==
    /\ stage = "idle" /\ o \in bad /\ runs < MaxRuns
    /\ bad' = bad \ {o}
    /\ UNCHANGED <<parent, server, disk, run, rows, work, verdict, quiet, runs, faults>>
-----------------------------------------------------------------------------
(* A --fail run of an empty fail file has nothing to do; any other empties *)
(* the fail file it is about to fill.                                      *)
Start(options) ==
    /\ stage = "idle" /\ runs < MaxRuns /\ runs' = runs + 1
    /\ run' = options /\ quiet' = TRUE
    /\ IF options.fail /\ failFile = {}
       THEN /\ verdict' = "nothing to retry"
            /\ UNCHANGED <<failFile, rows, stage, todo>>
       ELSE /\ rows' = IF options.fail THEN failFile ELSE Owner
            /\ stage' = "load" /\ todo' = rows'
            /\ failFile' = {} /\ verdict' = "none"
    /\ idMap' = {} /\ related' = {} /\ flagged' = {}
    /\ UNCHANGED <<parent, bad, server, cache, relFile, passFile, faults>>

(* sort_for_self_referencing: a file whose parents are all in it is sorted,*)
(* rows without a parent first, then by parent; an empty column counts.    *)
Sorted == \A o \in rows : parent[o] \in rows \cup {0}
KeyInFile(o) == o
Key(o) == IF Sorted THEN parent[o] ELSE o

(* Planned only by a run of the source file with --auto-defer; and the     *)
(* fields a user lists are given up when the file is sorted.               *)
Planned == run.auto /\ ~run.fail
ParentDeferred == Planned /\ ~(run.listed /\ ~Sorted)
LinksDeferred == Planned \/ (run.listed /\ ~Sorted)
LinesDeferred == ParentDeferred

(* Rows go out in batches, as many at once as there are workers.           *)
Workers == IF run.fail THEN 1 ELSE Worker
MayLoad(o) == Cardinality({q \in todo : Key(q) < Key(o)}) < Workers

Accepted(o) ==
    /\ o \notin bad
    /\ ParentDeferred \/ parent[o] \in made \cup {0}
    /\ LinksDeferred \/ Asked[o] \subseteq exists
    /\ LinesDeferred \/ o \notin HasLines

LoadRow(o) ==
    /\ stage = "load" /\ o \in todo /\ MayLoad(o)
    /\ todo' = todo \ {o}
    /\ IF Accepted(o)
       THEN /\ made' = made \cup {o} /\ idMap' = idMap \cup {o}
            /\ links' = IF LinksDeferred THEN links ELSE [links EXCEPT ![o] = Asked[o]]
            /\ UNCHANGED failFile
       ELSE /\ failFile' = failFile \cup {o}
            /\ UNCHANGED <<made, links, idMap>>
    /\ UNCHANGED <<parent, bad, exists, lines, current, cache, relFile, passFile, run, rows,
                   stage, related, flagged, verdict, quiet, runs, faults>>

Failed == /\ stage' = "idle" /\ verdict' = "failed" /\ todo' = {}

(* import_data gives up in Pass 1: the rows not reached are in no list.    *)
AbortLoad ==
    /\ stage = "load" /\ todo # {} /\ Fault /\ Failed
    /\ UNCHANGED <<parent, bad, server, disk, run, rows, idMap, related, flagged, quiet, runs>>

(* Pass 2 of import_data, one write per record.  JSON without a dot is     *)
(* written as it is, which Odoo refuses with the rest of the record; any   *)
(* refused write makes the import a failure, and no strategy runs.         *)
Resolved(o) == Asked[o] \cap exists
PlainLines == IF LinesDeferred THEN idMap \cap HasLines \cap Plain ELSE {}

FailFile(refused) == failFile \cup refused

Pass2(refused) ==
    /\ links' = [o \in Owner |->
                    IF o \in idMap \ refused /\ LinksDeferred /\ Resolved(o) # {}
                    THEN Resolved(o) ELSE links[o]]
    /\ failFile' = FailFile(refused)
    /\ IF refused # {}
       THEN Failed
       ELSE stage' = "resolve" /\ UNCHANGED <<todo, verdict>>

LoadDone ==
    /\ stage = "load" /\ todo = {}
    /\ IF run.fail /\ idMap = {}
       THEN Failed /\ UNCHANGED <<links, failFile, faults>>
       ELSE \/ Pass2(PlainLines) /\ UNCHANGED faults
            \/ /\ LinksDeferred /\ Fault
               /\ \E o \in idMap : Pass2(PlainLines \cup {o})
    /\ UNCHANGED <<parent, bad, exists, made, lines, current, cache, relFile, passFile, run,
                   rows, idMap, related, flagged, quiet, runs>>
-----------------------------------------------------------------------------
(* The strategies.  A cached id map of the related model is taken for the  *)
(* whole of it; without one the ids are looked up.                         *)
RelatedIds == IF cache = NoCache THEN exists ELSE cache
Written(o) == Asked[o] \cap related
Found == idMap \ Spaced

Resolve ==
    /\ stage = "resolve"
    /\ IF ~Planned \/ idMap = {}
       THEN stage' = "passes" /\ todo' = Pass /\ UNCHANGED <<related, faults, quiet>>
       ELSE \/ /\ related' = RelatedIds
               /\ cache = NoCache => exists # {}
               /\ stage' = "m2m" /\ todo' = {o \in Found : Asked[o] \cap related' # {}}
               /\ UNCHANGED <<faults, quiet>>
            \/ /\ cache = NoCache
               /\ \/ exists = {} /\ UNCHANGED faults
                  \/ Fault
               /\ stage' = "o2m" /\ todo' = Found \cap HasLines /\ quiet' = FALSE
               /\ UNCHANGED related
    /\ UNCHANGED <<parent, bad, server, disk, run, rows, idMap, flagged, verdict, runs>>

Refused(o) == /\ relFile' = relFile \cup {o} /\ quiet' = FALSE /\ Fault

(* (6, 0, ids) or one (4, id) each, on the records with a resolved target. *)
WriteTuple(o) ==
    /\ stage = "m2m" /\ o \in todo
    /\ todo' = todo \ {o}
    /\ \/ /\ links' = [links EXCEPT ![o] = IF run.add THEN @ \cup Written(o) ELSE Written(o)]
          /\ UNCHANGED <<relFile, quiet, faults>>
       \/ Refused(o) /\ UNCHANGED links
    /\ UNCHANGED <<parent, bad, exists, made, lines, current, cache, failFile, passFile, run,
                   rows, stage, idMap, related, flagged, verdict, runs>>

TuplesDone ==
    /\ stage = "m2m" /\ todo = {}
    /\ stage' = "o2m" /\ todo' = Found \cap HasLines
    /\ UNCHANGED <<parent, bad, server, disk, run, rows, idMap, related, flagged, verdict,
                   quiet, runs, faults>>

(* (0, 0, values): the children are created again by every run.            *)
WriteO2m(o) ==
    /\ stage = "o2m" /\ o \in todo
    /\ todo' = todo \ {o}
    /\ \/ /\ lines' = [lines EXCEPT ![o] = @ + 1]
          /\ UNCHANGED <<relFile, quiet, faults>>
       \/ Refused(o) /\ UNCHANGED lines
    /\ UNCHANGED <<parent, bad, exists, made, links, current, cache, failFile, passFile, run,
                   rows, stage, idMap, related, flagged, verdict, runs>>

LinesDone ==
    /\ stage = "o2m" /\ todo = {}
    /\ stage' = "passes" /\ todo' = Pass
    /\ UNCHANGED <<parent, bad, server, disk, run, rows, idMap, related, flagged, verdict,
                   quiet, runs, faults>>
-----------------------------------------------------------------------------
(* The update pass of a language or a company, over the rows of the source *)
(* file that this run has imported.  Its summary counts the failed rows    *)
(* import_data reports; an import_data that gives up reports none, and     *)
(* then the pass's fail file is counted, whichever pass has written it.    *)
PassRows(p) == Qualified[p] \cap Found

Summary(p, failed) ==
    flagged' = IF failed = {} THEN flagged ELSE flagged \cup {p}

UpdatePass(p) ==
    /\ stage = "passes" /\ p \in todo
    /\ todo' = todo \ {p}
    /\ \/ /\ PassRows(p) = {} \/ idMap = {}
          /\ UNCHANGED <<current, passFile, flagged, quiet, faults>>
       \/ /\ PassRows(p) # {}
          /\ \E failed \in SUBSET PassRows(p) :
                /\ IF failed = {} THEN UNCHANGED faults ELSE Fault
                /\ current' = [current EXCEPT ![p] = @ \cup (PassRows(p) \ failed)]
                /\ passFile' = [passFile EXCEPT ![p] = failed]
                /\ Summary(p, failed)
          /\ UNCHANGED quiet
       \/ /\ PassRows(p) # {} /\ Fault /\ quiet' = FALSE
          /\ \/ UNCHANGED <<current, passFile>>
             \/ \E written \in SUBSET PassRows(p) :
                   /\ current' = [current EXCEPT ![p] = @ \cup written]
                   /\ passFile' = [passFile EXCEPT ![p] = {}]
          /\ Summary(p, passFile'[p])
    /\ UNCHANGED <<parent, bad, exists, made, links, lines, cache, failFile, relFile, run,
                   rows, stage, idMap, related, verdict, runs>>

Report ==
    /\ stage = "passes" /\ todo = {}
    /\ stage' = "idle"
    /\ verdict' = IF failFile # {} THEN "partial"
                  ELSE IF flagged # {} THEN "complete with failures" ELSE "complete"
    /\ UNCHANGED <<parent, bad, server, disk, run, rows, todo, idMap, related, flagged,
                   quiet, runs, faults>>
-----------------------------------------------------------------------------
Next ==
    \/ \E S \in SUBSET Target : ImportTargets(S)
    \/ \E o \in Owner : Correct(o) \/ LoadRow(o) \/ WriteTuple(o) \/ WriteO2m(o)
    \/ \E options \in Options : Start(options)
    \/ AbortLoad \/ LoadDone \/ Resolve \/ TuplesDone \/ LinesDone
    \/ \E p \in Pass : UpdatePass(p)
    \/ Report

Spec == Init /\ [][Next]_vars
-----------------------------------------------------------------------------
TypeOK ==
    /\ parent \in Parents /\ bad \subseteq Owner
    /\ exists \subseteq Target /\ made \subseteq Owner
    /\ links \in [Owner -> SUBSET (Target \cup {Stranger})]
    /\ lines \in [Owner -> 0 .. MaxRuns]
    /\ current \in [Pass -> SUBSET Owner] /\ passFile \in [Pass -> SUBSET Owner]
    /\ cache = NoCache \/ cache \subseteq exists
    /\ failFile \subseteq Owner /\ relFile \subseteq Owner
    /\ run \in Options /\ Options \subseteq Option
    /\ rows \subseteq Owner /\ idMap \subseteq rows
    /\ stage \in {"idle", "load", "resolve", "m2m", "o2m", "passes"}
    /\ todo \subseteq Owner \cup Pass /\ related \subseteq exists /\ flagged \subseteq Pass
    /\ verdict \in {"none", "nothing to retry", "failed", "partial",
                    "complete with failures", "complete"}
    /\ quiet \in BOOLEAN /\ runs \in 0 .. MaxRuns /\ faults \in 0 .. MaxFaults

(* A row fails only for a reason of its own: with one worker, no row of a  *)
(* sorted file is refused because its parent, itself without a parent, has *)
(* not been sent yet.                                                      *)
Excused(o) ==
    \/ o \in bad
    \/ ~LinksDeferred /\ ~(Asked[o] \subseteq exists)
    \/ ~LinesDeferred /\ o \in HasLines
    \/ parent[o] # 0 /\ (parent[o] \in failFile \/ parent[o] \notin rows)

HierarchyLoads ==
    stage = "load" /\ todo = {} /\ Worker = 1 =>
        \A o \in failFile :
            \/ Excused(o)
            \/ parent[o] # 0 /\ parent[parent[o]] # 0
            \/ ~Sorted

(* In replace mode the links of a record become the row's, as far as its   *)
(* targets exist, whatever links it had, unless the cache of the related   *)
(* model holds only part of it: then the strategy takes away again what    *)
(* Pass 2 has written.                                                     *)
LinksAsAsked ==
    stage = "passes" /\ ~run.add /\ (cache = NoCache \/ cache = exists) =>
        \A o \in idMap : Resolved(o) = {} \/ links[o] = Resolved(o)

(* A run that says "complete", in which no pass gave up and no strategy    *)
(* was refused or gave up, has stored every row it read, created the       *)
(* children of its rows once, and written every language and company.      *)
GreenIsTrue ==
    verdict = "complete" /\ stage = "idle" /\ quiet =>
        /\ idMap = rows
        /\ \A p \in Pass : Qualified[p] \cap rows \subseteq current[p] \cup Spaced
        /\ Planned => \A o \in (HasLines \cap rows) \ Spaced : lines[o] > 0

CommandIsSound == TypeOK /\ HierarchyLoads /\ LinksAsAsked /\ GreenIsTrue

(* --m2m-mode add: while no run is given any other mode, no record loses a *)
(* link that no file has put there.                                        *)
AddKeepsLinks ==
    (\A options \in Options : options.add) => \A o \in Owner : Stranger \in links[o]
-----------------------------------------------------------------------------
(***************************************************************************)
(* What keeps itself true, step by step, and implies CommandIsSound.       *)
(***************************************************************************)
Later == {"resolve", "m2m", "o2m", "passes"}
OneLevel(o) == parent[o] # 0 => parent[parent[o]] = 0

(* A row of the run is still to do, or is in the id map, or failed.        *)
RowsHold ==
    /\ idMap \subseteq made
    /\ stage = "load" => todo \subseteq rows /\ rows \ todo \subseteq idMap \cup failFile
    /\ stage \in Later => rows \subseteq idMap \cup failFile

(* With one worker, a row of a sorted file has failed for a reason.        *)
ReasonsHold ==
    stage = "load" /\ Worker = 1 /\ Sorted => \A o \in failFile : OneLevel(o) => Excused(o)

(* The links that have been written are those of the related ids.          *)
LinksHold ==
    /\ stage = "load" /\ ~LinksDeferred =>
          \A o \in idMap : Asked[o] \subseteq exists /\ links[o] = Asked[o]
    /\ stage = "m2m" => related = RelatedIds
    /\ stage \in Later /\ ~run.add /\ (cache = NoCache \/ cache = exists) =>
          \A o \in idMap : Resolved(o) = {} \/ links[o] = Resolved(o)

(* Children are created at most once in a run, and when nothing is refused *)
(* once.                                                                   *)
LinesHold ==
    /\ \A o \in Owner :
          /\ lines[o] <= runs
          /\ stage \in {"load", "resolve", "m2m"} \/ (stage = "o2m" /\ o \in todo) =>
                lines[o] < runs
    /\ stage = "o2m" /\ quiet => \A o \in (Found \cap HasLines) \ todo : lines[o] > 0
    /\ stage = "passes" /\ quiet /\ Planned => \A o \in Found \cap HasLines : lines[o] > 0

(* A pass that is over has written its rows, or its summary says not.      *)
PassesHold ==
    stage = "passes" /\ quiet =>
        \A p \in Pass \ todo : p \in flagged \/ PassRows(p) \subseteq current[p]

CommandInv ==
    /\ TypeOK /\ RowsHold /\ ReasonsHold /\ LinksHold /\ LinesHold /\ PassesHold
    /\ GreenIsTrue
=============================================================================
