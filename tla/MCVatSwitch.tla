----------------------------- MODULE MCVatSwitch -----------------------------
(***************************************************************************)
(* Small databases for VatSwitch.                                          *)
(***************************************************************************)
EXTENDS VatSwitch

(* Imports and commands for every setting, and an import for one company.  *)
MixedJobs ==
    {[kind |-> kind, companies |-> Company, vies |-> TRUE, params |-> TRUE] : kind \in Kinds}
    \cup {[kind |-> "import", companies |-> {1}, vies |-> TRUE, params |-> FALSE]}
=============================================================================
