----------------------------- MODULE MCRowFilter -----------------------------
(***************************************************************************)
(* Two small files for RowFilter.                                          *)
(***************************************************************************)
EXTENDS RowFilter

FilterRow(id, val, link) == [id |-> id, val |-> val, link |-> link]
SmallFiles ==
    {<<FilterRow("m.a", "1", TRUE), FilterRow("b", "2", TRUE)>>,
     <<FilterRow("m.a", "1", FALSE), FilterRow("m.c", "2", FALSE)>>}
=============================================================================
