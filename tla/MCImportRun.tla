---------------------------- MODULE MCImportRun ----------------------------
(***************************************************************************)
(* A small file for ImportRun: a child, a parent that is its own row, and  *)
(* a row without a relation.                                               *)
(***************************************************************************)
EXTENDS ImportRun

CONSTANTS child, parent, lone

ThreeRows == {child, parent, lone}
ChildOfParent == [r \in ThreeRows |-> IF r = child THEN parent ELSE NoRow]
AllFlags == [resume : BOOLEAN, checkpoint : BOOLEAN]
DefaultFlags == {Defaults}
ChildAndLone == [r \in ThreeRows |-> IF r = parent THEN NoRow ELSE parent]
=============================================================================
