------------------------------- MODULE Parts -------------------------------
(***************************************************************************)
(* The small specifications that Parts_proofs is about, next to each other *)
(* for any constants; MCParts runs them, with others, on small ones.       *)
(***************************************************************************)
EXTENDS PartVariables, Integers, Sequences, FiniteSets

CONSTANTS    \* of BatchPlan, SudoCommand, Throttle, ExportCommand, RowFilter,
             \* ImportCommand, Preflight and WriteCommand, see there
    BatchingFiles, BatchingRequests, BatchingSize, BatchingSizes,
    SudoUser, SudoRule, SudoModelRules, SudoProduct, SudoImported, SudoFaults, SudoEdits,
    PacingThread, PacingTimes, PacingThresholds, PacingWindow, PacingRecovery,
    PacingPower, PacingErrors,
    ExportRecord, ExportLang, ExportText, ExportWanted, ExportFaults, ExportEdits,
    FilterDotted, FilterUndotted, FilterVal, FilterBefore, FilterFiles, FilterFaults,
    FilterEdits,
    ImportOwner, ImportTarget, ImportAsked, ImportParents, ImportHasLines, ImportPlain,
    ImportSpaced, ImportQualified, ImportWorker, ImportOptions, ImportRuns, ImportFaults,
    ChecksColumn, ChecksQualifier, ChecksSchemas, ChecksRefs, ChecksStructured,
    ChecksSpoken, ChecksCollides, ChecksHierarchy, ChecksShared, ChecksLang,
    ChecksCompany, ChecksRef, ChecksOptions, ChecksRuns, ChecksChanges, ChecksFaults,
    WriteRecord, WriteValue, WriteUnreadable, WriteSources, WriteBatch, WriteWorkers, WriteRuns

Batching ==
    INSTANCE BatchPlan WITH
        Files <- BatchingFiles, Requests <- BatchingRequests, BatchSize <- BatchingSize,
        Sizes <- BatchingSizes, file <- v1, groupby <- v2, o2m <- v3, hasId <- v4,
        order <- v5, begins <- v6, level <- v7, left <- v8, sent <- v9

(* Files have a row, and rows a cell for each column of the header; a      *)
(* batch has room for a row.                                               *)
ASSUME BatchingAssumption ==
    /\ BatchingFiles \subseteq Seq([id : BOOLEAN, val : Seq(Nat)])
    /\ \A f \in BatchingFiles :
          f # << >> /\ \A r \in DOMAIN f : DOMAIN f[r].val = DOMAIN f[1].val
    /\ BatchingRequests \subseteq Seq(Nat)
    /\ BatchingSize \in Nat \ {0} /\ BatchingSizes \subseteq Nat \ {0}

Sudo ==
    INSTANCE SudoCommand WITH
        User <- SudoUser, Rule <- SudoRule, ModelRules <- SudoModelRules,
        Product <- SudoProduct, Imported <- SudoImported, MaxFaults <- SudoFaults,
        MaxEdits <- SudoEdits, active <- v1, moves <- v2, applying <- v3, at <- v4,
        kind <- v5, models <- v6, found <- v7, disabled <- v8, result <- v9,
        products <- v10, actionOk <- v11, exit <- v12, wanted <- v13,
        excused <- v14, late <- v15, faults <- v16, edits <- v17

(* The moves of anybody else are by "other"; a command names at least one  *)
(* model.                                                                  *)
ASSUME SudoAssumption ==
    /\ "other" \notin SudoUser
    /\ SudoModelRules \in Seq(SUBSET SudoRule) /\ SudoModelRules # << >>
    /\ SudoImported \in [SudoUser -> SUBSET SudoProduct]
    /\ SudoFaults \in Nat /\ SudoEdits \in Nat

Pacing ==
    INSTANCE Throttle WITH
        Thread <- PacingThread, Times <- PacingTimes, Thresholds <- PacingThresholds,
        WindowSize <- PacingWindow, RecoveryRequests <- PacingRecovery,
        MaxPower <- PacingPower, MaxErrors <- PacingErrors, window <- v1, health <- v2,
        fast <- v3, pace <- v4, at <- v5, saw <- v6, attempt <- v7, calm <- v8,
        errors <- v9, overlap <- v10

(* The window holds a response; the thresholds may be any.                 *)
ASSUME PacingAssumption ==
    /\ PacingWindow \in Nat \ {0}
    /\ {PacingRecovery, PacingPower, PacingErrors} \subseteq Nat

Export ==
    INSTANCE ExportCommand WITH
        Record <- ExportRecord, Lang <- ExportLang, Text <- ExportText,
        Wanted <- ExportWanted, MaxFaults <- ExportFaults, MaxEdits <- ExportEdits,
        db <- v1, installed <- v2, kind <- v3, langs <- v4, at <- v5, rows <- v6,
        file <- v7, written <- v8, exit <- v9, was <- v10, faults <- v11, edits <- v12

(* No text is taken for a record that is gone, or for an empty cell.       *)
ASSUME ExportAssumption ==
    /\ {"gone", "empty"} \cap ExportText = {} /\ ExportWanted \in ExportText
    /\ "base" \notin ExportLang
    /\ ExportFaults \in Nat /\ ExportEdits \in Nat

Filter ==
    INSTANCE RowFilter WITH
        Dotted <- FilterDotted, Undotted <- FilterUndotted, Val <- FilterVal,
        Before <- FilterBefore, Files <- FilterFiles, MaxFaults <- FilterFaults,
        MaxEdits <- FilterEdits, file <- v1, db <- v2, old <- v3, options <- v4,
        kept <- v5, saved <- v6, idMap <- v7, step <- v8, next <- v9, touched <- v10,
        blind <- v11, narrow <- v12, faults <- v13, edits <- v14

(* No value is taken for a record that is not there, and no set of ids for *)
(* the checkpoint that is not there.                                       *)
ASSUME FilterAssumption ==
    /\ FilterFiles \subseteq
          Seq([id : FilterDotted \cup FilterUndotted, val : FilterVal, link : BOOLEAN])
    /\ FilterBefore \in FilterVal /\ "" \notin FilterVal
    /\ "no checkpoint" \notin FilterDotted \cup FilterUndotted
    /\ FilterFaults \in Nat /\ FilterEdits \in Nat

Import ==
    INSTANCE ImportCommand WITH
        Owner <- ImportOwner, Target <- ImportTarget, Asked <- ImportAsked,
        Parents <- ImportParents, HasLines <- ImportHasLines, Plain <- ImportPlain,
        Spaced <- ImportSpaced, Qualified <- ImportQualified, Worker <- ImportWorker,
        Options <- ImportOptions, MaxRuns <- ImportRuns, MaxFaults <- ImportFaults,
        parent <- v1, bad <- v2, exists <- v3, made <- v4, links <- v5, lines <- v6,
        current <- v7, cache <- v8, failFile <- v9, relFile <- v10, passFile <- v11,
        run <- v12, rows <- v13, stage <- v14, todo <- v15, idMap <- v16, related <- v17,
        flagged <- v18, verdict <- v19, quiet <- v20, runs <- v21, faults <- v22

(* Rows have numbers from 1 on, and 0 is no row's; a run is given some     *)
(* options.                                                                *)
ASSUME ImportAssumption ==
    /\ ImportOwner \subseteq Nat \ {0} /\ IsFiniteSet(ImportOwner)
    /\ ImportAsked \in [ImportOwner -> SUBSET ImportTarget]
    /\ ImportParents \subseteq [ImportOwner -> ImportOwner \cup {0}]
    /\ ImportOptions # {}
    /\ ImportOptions \subseteq
          [fail : BOOLEAN, auto : BOOLEAN, listed : BOOLEAN, add : BOOLEAN]
    /\ ImportRuns \in Nat /\ ImportFaults \in Nat

Checks ==
    INSTANCE Preflight WITH
        Column <- ChecksColumn, Qualifier <- ChecksQualifier, Schemas <- ChecksSchemas,
        Refs <- ChecksRefs, Structured <- ChecksStructured, Spoken <- ChecksSpoken,
        Collides <- ChecksCollides, Hierarchy <- ChecksHierarchy, Shared <- ChecksShared,
        Lang <- ChecksLang, Company <- ChecksCompany, Ref <- ChecksRef,
        Options <- ChecksOptions, MaxRuns <- ChecksRuns, MaxChanges <- ChecksChanges,
        MaxFaults <- ChecksFaults,
        schema <- v1, langs <- v2, companies <- v3, records <- v4, cached <- v5,
        option <- v6, step <- v7, plan <- v8, base <- v9, seen <- v10, runs <- v11,
        changes <- v12, faults <- v13

(* A database has finitely many companies, and the languages of a file are *)
(* known by their codes.                                                   *)
ASSUME ChecksAssumption ==
    /\ IsFiniteSet(ChecksCompany) /\ ChecksSpoken \subseteq ChecksLang
    /\ ChecksOptions # {}
    /\ ChecksOptions \subseteq
          [fail : BOOLEAN, auto : BOOLEAN, listed : {"no", "base", "suffixed"},
           groupby : BOOLEAN, refs : {"fail", "warn", "skip"}, chosen : BOOLEAN,
           default : BOOLEAN, collisions : BOOLEAN, dict : BOOLEAN]
    /\ ChecksRuns \in Nat /\ ChecksChanges \in Nat /\ ChecksFaults \in Nat

Write ==
    INSTANCE WriteCommand WITH
        Record <- WriteRecord, Value <- WriteValue, Unreadable <- WriteUnreadable,
        Sources <- WriteSources, BatchSize <- WriteBatch, Workers <- WriteWorkers,
        MaxRuns <- WriteRuns,
        source <- v1, db <- v2, failFile <- v3, data <- v4, future <- v5, left <- v6,
        failed <- v7, aborted <- v8, step <- v9, report <- v10, unsure <- v11, runs <- v12

(* The ids of a file are those of records, or cannot be read.              *)
ASSUME WriteAssumption ==
    /\ WriteSources \subseteq Seq([id : WriteRecord \cup {WriteUnreadable}, val : WriteValue])
    /\ WriteBatch \in Nat \ {0} /\ WriteRuns \in Nat
-----------------------------------------------------------------------------
(* Each row is sent once, no batch mixes groups or exceeds --size, groups  *)
(* are sent together and in file order, families stay whole                *)
(* (_create_batches, _recursive_create_batches, _run_threaded_pass).       *)
BatchesAreRight == part = "batching" => Batching!BatchesAreRight

(* However commands with --sudo overlap, are killed or fail, the rules are *)
(* in the end as the administrators want them, and a stock post-action     *)
(* dates the moves of its import and no others (__main__.py).              *)
SudoIsSound == part = "sudo" => Sudo!SudoIsSound

(* Delay and batch size are those of the reported health unless workers    *)
(* have recorded at the same time, and no worker is lost to its backoff    *)
(* early (throttle.py, retry.py).                                          *)
PacingIsSound == part = "pacing" => Pacing!PacingIsSound

(* An output with exit code 0 is whole: the records of the domain with     *)
(* texts they had, every language that was exported for each; and an       *)
(* export of which a pass failed has left none (exporter.py).              *)
ExportIsWhole == part = "export" => Export!ExportIsWhole

(* Whatever runs die before it, a finished run with --skip-unchanged has   *)
(* the effect of one without it, and one with --skip-existing makes what   *)
(* is missing and nothing else (idempotent.py, import_data).               *)
FiltersAreSound == part = "filter" => Filter!FiltersAreSound

(* A command that reports success without a refusal has stored its rows,   *)
(* with links, children, languages and companies as the file has them; a   *)
(* row fails only for a reason of its own (importer.py,                    *)
(* relational_import.py).                                                  *)
CommandIsSound == part = "import" => Import!CommandIsSound

(* No import of a company-aware model goes ahead unasked, every column     *)
(* with a language or company is written by one kind of pass, no required  *)
(* relation is deferred, and unknown is not missing (lib/preflight.py,     *)
(* importer.py).                                                           *)
ChecksAreSound == part = "checks" => Checks!ChecksAreSound

(* "Write Complete" is true, no row is forgotten, and nothing is written   *)
(* once the run has reported (writer.py, write_threaded.py).               *)
WriteIsSound == part = "write" => Write!WriteIsSound
=============================================================================
