---------------------------- MODULE PartVariables ----------------------------
(***************************************************************************)
(* The variables of specifications that are run next to each other: v1,    *)
(* v2, ... are those of the instance that part names, in the order in      *)
(* which its module declares them.                                         *)
(***************************************************************************)
VARIABLES
    part,
    v1, v2, v3, v4, v5, v6, v7, v8, v9, v10, v11, v12, v13, v14, v15, v16,
    v17, v18, v19, v20, v21, v22
==============================================================================
