------------------------------ MODULE RowLedger ------------------------------
(***************************************************************************)
(* What an import promises about the rows of its source file, and nothing  *)
(* about how: every row ends as exactly one of "created" or "failed", an   *)
(* outcome is never revised, and the books are closed only when no row is  *)
(* still pending.  LoadBatch is shown to implement this specification for  *)
(* the rows of a batch, ThreadedPass and StreamPass for those of a pass.   *)
(***************************************************************************)
CONSTANT Items            \* the rows to account for

VARIABLES status,         \* what is known of each row
          closed          \* whether the books are closed

ledgerVars == <<status, closed>>

Status == {"pending", "created", "failed"}

Init == /\ status = [i \in Items |-> "pending"]
        /\ closed = FALSE

(***************************************************************************)
(* Some pending rows get their outcome; the step that settles the last of  *)
(* them may close the books.                                               *)
(***************************************************************************)
Settle == /\ ~closed
          /\ status' \in [Items -> Status]
          /\ \A i \in Items : status[i] # "pending" => status'[i] = status[i]
          /\ closed' \in BOOLEAN
          /\ closed' => \A i \in Items : status'[i] # "pending"

Spec == Init /\ [][Settle]_ledgerVars
=============================================================================
