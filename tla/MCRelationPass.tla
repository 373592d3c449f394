---------------------------- MODULE MCRelationPass ----------------------------
(***************************************************************************)
(* Small files for RelationPass: three rows, two of which may have the     *)
(* same record or one no record at all, and three targets.                 *)
(***************************************************************************)
EXTENDS RelationPass

Recs == {<<1, 2, 3>>, <<1, 2, 2>>, <<1, 0, 2>>}
SmallFiles == {[rec |-> r, target |-> t] : r \in Recs, t \in [Row -> 0 .. 3]}
OneHeavy == <<1, 1, 3>>
=============================================================================
