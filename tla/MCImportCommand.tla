--------------------------- MODULE MCImportCommand ---------------------------
(***************************************************************************)
(* A small file for ImportCommand, imported with --m2m-mode add only.      *)
(***************************************************************************)
EXTENDS ImportCommand

TwoAsk == <<{"t", "u"}, {"u"}, {}>>
NoParents == {<<0, 0, 0>>}
NoQualified == <<{}, {}>>
AddOnly == {[fail |-> FALSE, auto |-> TRUE, listed |-> FALSE, add |-> TRUE]}
=============================================================================
