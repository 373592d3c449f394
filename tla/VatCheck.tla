------------------------------ MODULE VatCheck ------------------------------
(***************************************************************************)
(* vat validate (lib/actions/vies_manager.py: run_vies_validation,         *)
(* _validate_vat_vies, _send_vies_notifications): the partners that have a *)
(* VAT number are fetched page by page, by offset, from a server where     *)
(* users go on editing partners, and each number is put to whatever check  *)
(* the server has.                                                         *)
(***************************************************************************)
EXTENDS Slicing, Sequences, Functions

CONSTANTS
    Partner,     \* partners
    BatchSize,
    MaxRecords,  \* max_records; 0 for no limit
    Notified,    \* notify_user_ids
    MaxFaults, MaxEdits    \* bounds: failing calls, users' edits

VARIABLES
    order,     \* server: the partners as a search returns them
    vat,       \* server: the partners that have a VAT number
    genuine,   \* the partners whose number VIES knows
    at,        \* where the command is
    total, offset,
    page,      \* the partners of the batch, [id, vat], not yet checked
    counted,   \* total_checked
    valid, invalid, erred,    \* the partners in each class, as they were counted
    blank,     \* history: those that had lost their number when they were read
    guessed,   \* history: those no check of the server answered for
    told,      \* users a message was created for
    faults, edits

vars == <<order, vat, genuine, at, total, offset, page, counted, valid, invalid, erred,
          blank, guessed, told, faults, edits>>
server == <<order, vat, genuine>>
results == <<counted, valid, invalid, erred, blank, guessed>>

Orders == Injection(1 .. Cardinality(Partner), Partner)

Init ==
    /\ order = (CHOOSE s \in Orders : TRUE) /\ vat = Partner /\ genuine \in SUBSET Partner
    /\ at = "start" /\ total = 0 /\ offset = 0 /\ page = << >>
    /\ counted = 0 /\ valid = << >> /\ invalid = << >> /\ erred = << >>
    /\ blank = << >> /\ guessed = {} /\ told = {} /\ faults = 0 /\ edits = 0

Fault == faults < MaxFaults /\ faults' = faults + 1
Least(m, n) == IF m <= n THEN m ELSE n
-----------------------------------------------------------------------------
(* The elements of s that are in S, in their order.                        *)
Places(s, S) == {i \in DOMAIN s : s[i] \in S}
Keep(s, S) == ItemsAt(s, Places(s, S))

WithNumber == Keep(order, vat)

Count ==
    /\ at = "start"
    /\ total' = IF MaxRecords = 0 THEN Len(WithNumber) ELSE Least(Len(WithNumber), MaxRecords)
    /\ at' = IF total' = 0 THEN "over" ELSE "search"
    /\ UNCHANGED <<server, offset, page, results, told, faults, edits>>

(* The last page is cut to what the count allows.                          *)
WholePage == BatchSize
PageSize == Least(BatchSize, total - offset)

Search ==
    /\ at = "search"
    /\ LET last == Least(offset + PageSize, Len(WithNumber)) IN
       page' = [i \in 1 .. last - offset |-> WithNumber[offset + i]]
    /\ at' = "read"
    /\ UNCHANGED <<server, total, offset, results, told, faults, edits>>

(* The numbers are read by another call.                                   *)
Read ==
    /\ at = "read"
    /\ page' = Keep(page, vat)
    /\ blank' = blank \o Keep(page, Partner \ vat)
    /\ counted' = counted + (Len(page) - Len(page'))
    /\ at' = "check"
    /\ UNCHANGED <<server, total, offset, valid, invalid, erred, guessed, told, faults, edits>>

(* vies_vat_check, then simple_vat_check, and if neither answers the       *)
(* number passes; an error before the first of them is counted.            *)
Check ==
    /\ at = "check" /\ page # << >>
    /\ page' = Tail(page) /\ counted' = counted + 1
    /\ \/ /\ Head(page) \in genuine
          /\ valid' = Append(valid, Head(page))
          /\ UNCHANGED <<invalid, erred, guessed, faults>>
       \/ /\ Head(page) \notin genuine
          /\ invalid' = Append(invalid, Head(page))
          /\ UNCHANGED <<valid, erred, guessed, faults>>
       \/ /\ Fault
          /\ valid' = Append(valid, Head(page)) /\ guessed' = guessed \cup {Head(page)}
          /\ UNCHANGED <<invalid, erred>>
       \/ /\ Fault
          /\ erred' = Append(erred, Head(page))
          /\ UNCHANGED <<valid, invalid, guessed>>
    /\ UNCHANGED <<server, at, total, offset, blank, told, edits>>

NextPage ==
    /\ at = "check" /\ page = << >>
    /\ offset' = offset + PageSize
    /\ at' = IF offset' < total THEN "search"
             ELSE IF invalid # << >> THEN "notify" ELSE "over"
    /\ UNCHANGED <<server, total, page, results, told, faults, edits>>

(* A message to each user, whatever became of the one before.              *)
Notify ==
    /\ at = "notify"
    /\ \/ told' = Notified /\ UNCHANGED faults
       \/ Fault /\ told' \in SUBSET Notified
    /\ at' = "over"
    /\ UNCHANGED <<server, total, offset, page, results, edits>>

(* Any other call that fails ends the command with what it has.            *)
CallFails ==
    /\ at \in {"start", "search", "read"} /\ Fault
    /\ at' = "broken"
    /\ UNCHANGED <<server, total, offset, page, results, told, edits>>

(* A partner gets or loses a number, or its place among the partners.      *)
Edit ==
    /\ at # "over" /\ edits < MaxEdits /\ edits' = edits + 1
    /\ \/ /\ UNCHANGED order
          /\ \E p \in Partner : vat' = IF p \in vat THEN vat \ {p} ELSE vat \cup {p}
       \/ UNCHANGED vat /\ order' \in Orders
    /\ UNCHANGED <<genuine, at, total, offset, page, results, told, faults>>

Next == Count \/ Search \/ Read \/ Check \/ NextPage \/ Notify \/ CallFails \/ Edit

Spec == Init /\ [][Next]_vars
-----------------------------------------------------------------------------
TypeOK ==
    /\ order \in Orders /\ vat \subseteq Partner /\ genuine \subseteq Partner
    /\ at \in {"start", "search", "read", "check", "notify", "over", "broken"}
    /\ total \in 0 .. Cardinality(Partner) /\ offset \in 0 .. total
    /\ page \in Seq(Partner) /\ counted \in Nat
    /\ {valid, invalid, erred, blank} \subseteq Seq(Partner)
    /\ guessed \subseteq Partner /\ told \subseteq Notified
    /\ faults \in 0 .. MaxFaults /\ edits \in 0 .. MaxEdits

Seen == valid \o invalid \o erred \o blank

(* The statistics add up, and never beyond the number of partners counted  *)
(* first, however the partners change under the paging.                    *)
CountsAddUp == counted = Len(Seen) /\ counted <= total

(* Unless somebody edited partners meanwhile, a check that came to its end *)
(* has checked each of the partners it counted exactly once, and its       *)
(* verdicts are those of VIES, but for the numbers nothing answered for.   *)
EachCheckedOnce ==
    at \in {"notify", "over"} /\ edits = 0 =>
        /\ IsInjective(Seen) /\ Len(Seen) = total
        /\ Range(valid) \subseteq genuine \cup guessed

CheckIsHonest == TypeOK /\ CountsAddUp /\ EachCheckedOnce
-----------------------------------------------------------------------------
(* What makes CheckIsHonest inductive.  The partners counted so far are no *)
(* more than the pages gone by had room for.                               *)
PagesHold ==
    /\ at = "start" => total = 0 /\ counted = 0
    /\ at \in {"start", "search", "notify", "over"} => page = << >>
    /\ at = "search" => counted <= offset /\ offset < total
    /\ at \in {"read", "check"} => counted + Len(page) <= offset + PageSize /\ offset < total

(* Undisturbed, they are the first of the search, each in one class, and   *)
(* the page is what comes next.                                            *)
InOrder ==
    edits = 0 =>
        /\ vat = Partner /\ blank = << >>
        /\ at = "search" => counted = offset
        /\ at \in {"read", "check"} => counted + Len(page) = offset + PageSize
        /\ at \in {"notify", "over"} => counted = total
        /\ counted + Len(page) <= Len(order)
        /\ \A n \in DOMAIN page : page[n] = order[counted + n]
        /\ IsInjective(Seen) /\ Range(Seen) = {order[n] : n \in 1 .. counted}

VerdictsHold == Range(valid) \subseteq genuine \cup guessed

CheckInv == TypeOK /\ CountsAddUp /\ PagesHold /\ InOrder /\ VerdictsHold
=============================================================================
