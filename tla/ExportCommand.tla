---------------------------- MODULE ExportCommand ----------------------------
(***************************************************************************)
(* The export and migrate commands around an export pass (exporter.py;     *)
(* migrator.py; importer.py: run_import_for_migration; __main__.py:        *)
(* export_cmd, migrate_cmd).  An export with translations is one pass for  *)
(* the records the domain selects and one for each language, joined on the *)
(* database id, while users edit and delete records.  ExportSession has    *)
(* what a pass does.                                                       *)
(***************************************************************************)
EXTENDS Integers, FiniteSets

CONSTANTS
    Record,     \* records of the model
    Lang,       \* languages that can be asked for
    Text,       \* texts of a translatable field
    Wanted,     \* the text the domain selects by
    MaxFaults, MaxEdits    \* bounds: failing calls, edits

Gone == "gone"       \* no such record
Empty == "empty"     \* no value in a cell of the file

VARIABLES
    db,         \* server: record -> language ("base" too) -> its text, or Gone
    installed,  \* server: its languages
    kind,       \* translated, parquet or migrate
    langs,      \* the languages asked for that are yet to be exported
    at,         \* where the command is
    rows,       \* the merged frame: record -> column -> text
    file,       \* the rows of the output, or at the destination of a migration
    written,    \* whether the command has put out anything
    exit,       \* exit code, -1 before the end
    was,        \* history: record -> column -> its texts since the command began
    faults, edits

vars == <<db, installed, kind, langs, at, rows, file, written, exit, was, faults, edits>>

Columns == Lang \cup {"base"}

Init ==
    /\ db \in [Record -> [Columns -> Text]]
    /\ installed \in SUBSET Lang
    /\ kind \in {"translated", "parquet", "migrate"}
    /\ langs = {} /\ at = "start" /\ rows = << >> /\ file = << >> /\ written = FALSE
    /\ exit = -1
    /\ was = [r \in Record |-> [c \in Columns |-> {db[r][c]}]]
    /\ faults = 0 /\ edits = 0

Fault == faults < MaxFaults /\ faults' = faults + 1
End(code) == at' = "over" /\ exit' = code
Exists(r) == db[r]["base"] # Gone
-----------------------------------------------------------------------------
(* A domain or a context that cannot be parsed ends the command quietly.   *)
Reject ==
    /\ at = "start" /\ kind # "migrate"
    /\ End(0)
    /\ UNCHANGED <<db, installed, kind, langs, rows, file, written, was, faults, edits>>

(* The plan: languages that are not installed end it, as does asking for   *)
(* none that there is anything to translate into.                          *)
Plan ==
    /\ at = "start"
    /\ IF kind = "translated"
       THEN \E asked \in SUBSET Lang :
              /\ langs' = asked
              /\ IF asked # {} /\ asked \subseteq installed
                 THEN at' = "base" /\ UNCHANGED exit ELSE End(1)
       ELSE at' = "base" /\ UNCHANGED <<langs, exit>>
    /\ UNCHANGED <<db, installed, kind, rows, file, written, was, faults, edits>>

(* The installed languages cannot be fetched: they are taken for granted.  *)
PlanBlind ==
    /\ at = "start" /\ kind = "translated" /\ Fault
    /\ langs' \in SUBSET Lang \ {{}} /\ at' = "base"
    /\ UNCHANGED <<db, installed, kind, rows, file, written, exit, was, edits>>

(* A pass: the records its domain selects in the language of its context,  *)
(* with their texts in that language.                                      *)
Selected(column) == {r \in Record : Exists(r) /\ db[r][column] = Wanted}
ByDomain(column) == Selected(column) \cap DOMAIN rows
ByIds(column) == {r \in DOMAIN rows : Exists(r)}

Blank == [c \in Columns |-> Empty]

BasePass ==
    /\ at = "base"
    /\ rows' = [r \in Selected("base") |-> [Blank EXCEPT !["base"] = db[r]["base"]]]
    /\ at' = IF kind = "migrate" THEN "import"
             ELSE IF langs = {} \/ Selected("base") = {} THEN "write" ELSE "langs"
    /\ UNCHANGED <<db, installed, kind, langs, file, written, exit, was, faults, edits>>

LangPass(l) ==
    /\ at = "langs" /\ l \in langs \cap installed
    /\ rows' = [r \in DOMAIN rows |->
                  IF r \in ByIds(l) THEN [rows[r] EXCEPT ![l] = db[r][l]] ELSE rows[r]]
    /\ langs' = langs \ {l}
    /\ at' = IF langs' = {} THEN "write" ELSE "langs"
    /\ UNCHANGED <<db, installed, kind, file, written, exit, was, faults, edits>>

(* A pass that fails ends the command before it has written anything; for  *)
(* a migration there is then nothing to migrate, which is a success.       *)
PassFails ==
    /\ at \in {"base", "langs"}
    /\ Fault \/ (at = "langs" /\ ~(langs \subseteq installed) /\ UNCHANGED faults)
    /\ End(IF kind = "migrate" THEN 0 ELSE 1)
    /\ UNCHANGED <<db, installed, kind, langs, rows, file, written, was, edits>>

(* The file is written and read back to count its rows; a mismatch, as of  *)
(* a file somebody else has written meanwhile, is only a warning.  The     *)
(* writing may break off, by an error or a kill, and leaves what it has    *)
(* written; and a Parquet file that cannot be read back ends the command   *)
(* with an error, all of it written.                                       *)
Write ==
    /\ at = "write" /\ written' = TRUE
    /\ \/ file' = rows /\ End(0) /\ UNCHANGED faults
       \/ /\ Fault /\ End(1)
          /\ \E some \in SUBSET DOMAIN rows : file' = [r \in some |-> rows[r]]
    /\ UNCHANGED <<db, installed, kind, langs, rows, was, edits>>

(* A migration imports the frame: all of it, some of it (the rest is on    *)
(* the fail file), or, without a connection, none.                         *)
Import ==
    /\ at = "import" /\ written' = TRUE
    /\ \/ /\ file' = rows /\ End(0) /\ UNCHANGED faults
       \/ /\ Fault
          /\ \E some \in SUBSET DOMAIN rows :
                file' = [r \in some |-> rows[r]] /\ End(IF rows = << >> THEN 0 ELSE 1)
    /\ UNCHANGED <<db, installed, kind, langs, rows, was, edits>>

Edit ==
    /\ at # "over" /\ edits < MaxEdits /\ edits' = edits + 1
    /\ \E r \in Record, c \in Columns, t \in Text :
          /\ Exists(r)
          /\ \/ db' = [db EXCEPT ![r][c] = t]
             \/ db' = [db EXCEPT ![r] = [k \in Columns |-> Gone]]
    /\ was' = [r \in Record |-> [c \in Columns |-> was[r][c] \cup {db'[r][c]}]]
    /\ UNCHANGED <<installed, kind, langs, at, rows, file, written, exit, faults>>

Next == Reject \/ Plan \/ PlanBlind \/ BasePass \/ PassFails \/ Write \/ Import \/ Edit
        \/ \E l \in Lang : LangPass(l)

Spec == Init /\ [][Next]_vars
-----------------------------------------------------------------------------
TypeOK ==
    /\ db \in [Record -> [Columns -> Text \cup {Gone}]]
    /\ installed \subseteq Lang /\ langs \subseteq Lang
    /\ kind \in {"translated", "parquet", "migrate"}
    /\ at \in {"start", "base", "langs", "import", "write", "over"}
    /\ DOMAIN rows \subseteq Record
    /\ \A r \in DOMAIN rows : rows[r] \in [Columns -> Text \cup {Empty}]
    /\ DOMAIN file \subseteq Record /\ written \in BOOLEAN
    /\ exit \in -1 .. 1 /\ faults \in 0 .. MaxFaults /\ edits \in 0 .. MaxEdits

(* What the domain selects: a record that had another text all the time    *)
(* since the command began is not in the output, and one that had no other *)
(* is.                                                                     *)
IsSelection(frame) ==
    /\ \A r \in DOMAIN frame : Wanted \in was[r]["base"]
    /\ \A r \in Record : was[r]["base"] = {Wanted} => r \in DOMAIN frame

(* The output of a command that ends with exit code 0 is whole: it has the *)
(* records that the domain selected, each with a text it had in the        *)
(* column's language, and in every language that was exported unless the   *)
(* record was deleted meanwhile.  Exit code 0 without an output is         *)
(* possible (a domain that cannot be parsed; a migration whose export      *)
(* failed, migrator.py:67).                                                *)
FileIsWhole ==
    written /\ exit = 0 =>
        /\ file = rows /\ IsSelection(rows)
        /\ \A r \in DOMAIN rows : \A c \in Columns :
              \/ rows[r][c] \in was[r][c] \ {Gone}
              \/ rows[r][c] = Empty /\ c # "base"
        /\ \A l \in Lang :
              \/ \A r \in DOMAIN rows : rows[r][l] # Empty \/ Gone \in was[r][l]
              \/ \A r \in DOMAIN rows : rows[r][l] = Empty

(* exporter.py:249, "aborting so no partial file is written": an export    *)
(* has an output only if each of its passes has succeeded, though the      *)
(* writing of it may have failed; and nothing but rows of the frame is     *)
(* ever put out.                                                           *)
AllFetched == langs = {} \/ DOMAIN rows = {}
FailureLeavesNothing ==
    written => /\ kind # "migrate" => AllFetched
               /\ \A r \in DOMAIN file : r \in DOMAIN rows /\ file[r] = rows[r]

ExportIsWhole == TypeOK /\ FileIsWhole /\ FailureLeavesNothing
-----------------------------------------------------------------------------
(***************************************************************************)
(* What keeps itself true, step by step, and implies the above.            *)
(***************************************************************************)
(* A record is deleted in every language at once.                          *)
RecordsAreWhole ==
    \A r \in Record : \/ \A c \in Columns : db[r][c] \in Text
                      \/ \A c \in Columns : db[r][c] = Gone

Remembered == \A r \in Record : \A c \in Columns : db[r][c] \in was[r][c]

(* What the frame holds was on the server.                                 *)
CellsAreTrue ==
    \A r \in DOMAIN rows : \A c \in Columns :
        \/ rows[r][c] \in was[r][c] \ {Gone}
        \/ rows[r][c] = Empty /\ c # "base"

(* A language is in the frame for every record that is left, or not yet    *)
(* for any.                                                                *)
ColumnsAreWhole ==
    \A l \in Lang :
        \/ /\ l \notin langs
           /\ \A r \in DOMAIN rows : rows[r][l] # Empty \/ Gone \in was[r][l]
        \/ \A r \in DOMAIN rows : rows[r][l] = Empty

(* Nothing is fetched before the plan, and the output is the last step.    *)
Order ==
    /\ at \in {"start", "base"} => rows = << >>
    /\ written => at = "over"
    /\ at = "over" <=> exit # -1
    /\ exit = 0 /\ written => file = rows
    /\ at = "write" => AllFetched
    /\ kind = "migrate" => at \notin {"write", "langs"}
    /\ kind # "migrate" => at # "import"
    /\ FailureLeavesNothing

(* Once there is a frame, it is of the records the domain selects.         *)
Fetched == at \in {"langs", "write", "import"} \/ written
SelectionIsKept == Fetched => IsSelection(rows)

ExportInv ==
    /\ TypeOK /\ RecordsAreWhole /\ Remembered /\ CellsAreTrue /\ ColumnsAreWhole /\ Order
    /\ SelectionIsKept
=============================================================================
