----------------------------- MODULE MCLoadBatch -----------------------------
(***************************************************************************)
(* Small batches for LoadBatch.                                            *)
(***************************************************************************)
EXTENDS LoadBatch

\* every row has an id of its own
OwnIds == <<1, 2, 3, 4, 5>>
\* two rows without an external id among two with one
SomeIds == <<1, EmptyId, 3, EmptyId>>
=============================================================================
