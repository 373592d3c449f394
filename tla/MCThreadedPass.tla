--------------------------- MODULE MCThreadedPass ---------------------------
(***************************************************************************)
(* A small Pass 1, over a thread pool or streamed from a file.             *)
(***************************************************************************)
EXTENDS StreamPass

FiveRows == 1 .. 5
ThreeBatches == <<{1, 2}, {3}, {4}>>

(* Row 2 is malformed; rows 1 and 3 are too large together.                *)
FiveLines == <<1, 2, 3, 4, 5>>
Weights == [r \in FiveRows |-> IF r <= 3 THEN 2 ELSE 1]
=============================================================================
