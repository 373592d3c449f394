--------------------------- MODULE MCExportSession ---------------------------
(***************************************************************************)
(* A small job for ExportSession.                                          *)
(***************************************************************************)
EXTENDS ExportSession

ThreeRecords == 1 .. 3

(* docs/guides/exporting_data.md:92, completed_ids.txt lists the records   *)
(* "successfully exported and written to the CSV file": between runs, each *)
(* of them has a line in the file.                                         *)
CompletedAreWritten ==
    pc = "idle" => \A r \in session.done : file.lines[r] > 0
=============================================================================
