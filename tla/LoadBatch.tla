------------------------------ MODULE LoadBatch ------------------------------
(***************************************************************************)
(* One worker of Pass 1 importing one batch of rows                        *)
(* (import_threaded.py: _execute_load_batch, and the two fallbacks it ends *)
(* in, _load_batch_with_binary_fallback and _load_records_individually),   *)
(* against a server that may refuse a call, store only some of its rows,   *)
(* or store the rows and have its reply lost.                              *)
(*                                                                         *)
(* A row is its position in the batch, so a slice of the batch is a set of *)
(* consecutive rows, and the n-th row of a request is the n-th smallest of *)
(* its set.  The recursion of the binary fallback merges the results of    *)
(* its calls without looking at them, so its stack is the set of segments  *)
(* still to be tried: they are disjoint, and depth first from left to      *)
(* right means that the one holding the least row is next.                 *)
(***************************************************************************)
(* A definition placed right before another one and named after it with a  *)
(* suffix (MadeOffByOne before Made) is that definition with a bug in it:  *)
(* PROJECT.json names the property that must catch it.                      *)
(***************************************************************************)
EXTENDS Integers, Sequences, FiniteSets

CONSTANTS
    N,            \* number of rows in the batch
    Xid,          \* sanitized external id of each row; EmptyId when it has none
    Ragged,       \* rows whose length differs from the header's
    Short,        \* rows too short for the columns kept after ignoring some
    Bad,          \* rows the server never accepts
    Ignoring,     \* whether the run ignores or defers any column
    Modes,        \* "batch", and "single" for --fail runs (force_create)
    MaxSerial,    \* max_serialization_retries, 3 in the code
    Shapes,       \* forms the list of ids in a reply may take
    MaxLost       \* bound on the calls given up on while holding one row

EmptyId == 0
Row == 1 .. N
Ids == {Xid[r] : r \in Row}

ASSUME NAssumption == N \in Nat \ {0}
ASSUME XidAssumption == Xid \in [Row -> Nat]
ASSUME RowKinds == /\ Ragged \subseteq Row
                   /\ Short \subseteq Ragged
                   /\ Bad \subseteq Row
ASSUME Switches == Ignoring \in BOOLEAN /\ Modes \subseteq {"batch", "single"}
ASSUME ShapesAssumption == Shapes \subseteq {"all", "none", "short", "holes"}
ASSUME BoundAssumption == MaxSerial \in Nat \ {0} /\ MaxLost \in Nat

VARIABLES
    head,      \* first row of lines_to_process
    chunk,     \* chunk_size: only ever halved
    serial,    \* serialization_retry_count
    pending,   \* segments the binary fallback has yet to try
    call,      \* the load() the worker is waiting for
    idMap,     \* aggregated_id_map: id -> row its record was made from, or NoRow
    failed,    \* how many lines of aggregated_failed_lines each row has
    stored,    \* server: how many times each row has been stored
    late,      \* server: abandoned requests that may still store the row
    lost       \* history: calls holding the row whose reply never came

client == <<head, chunk, serial, pending, idMap, failed>>
server == <<stored, late, lost>>
vars == <<client, call, server>>

NoRow == 0
Transient == {"serialization", "overload", "transient"}
Errors == Transient \cup {"readTimeout", "tooLarge", "permanent"}

(***************************************************************************)
(* Requests and replies.  ids[i] answers the i-th row sent: the row its    *)
(* record was made from, or NoRow for a None.                              *)
(***************************************************************************)
Waiting == [kind |-> "waiting", ids |-> << >>, rowErrors |-> FALSE]
Failure(e) == [kind |-> e, ids |-> << >>, rowErrors |-> FALSE]
NoCall == [by |-> "none", rows |-> {}, answer |-> Waiting]
Load(caller, rows) == [by |-> caller, rows |-> rows, answer |-> Waiting]

Pos(S, r) == Cardinality({q \in S : q <= r})
RowAt(S, i) == CHOOSE r \in S : Pos(S, r) = i
IdsOf(S, made, n) ==
    [i \in 1 .. n |-> IF RowAt(S, i) \in made THEN RowAt(S, i) ELSE NoRow]

(***************************************************************************)
(* What load() may answer for the rows S when it stored made: ids for all  *)
(* of them, no ids, fewer ids than rows, or a None among as many.           *)
(***************************************************************************)
Fits(f, S, made, n) ==
    \/ f = "all" /\ made = S /\ n = Cardinality(S)
    \/ f = "none" /\ n = 0
    \/ f = "short" /\ made # {} /\ n < Cardinality(S)
    \/ f = "holes" /\ made # {} /\ n = Cardinality(S)

(***************************************************************************)
(* Reading a reply: ids are paired with rows by position, the last row of  *)
(* an id winning.  That is right only if rows is exactly what was sent.    *)
(***************************************************************************)
MadeOffByOne(rows, ids) ==
    {r \in rows : Pos(rows, r) < Len(ids) /\ ids[Pos(rows, r)] # NoRow}
Made(rows, ids) ==
    {r \in rows : Pos(rows, r) <= Len(ids) /\ ids[Pos(rows, r)] # NoRow}

Recorded(m, made, rows, ids) ==
    [x \in Ids |->
       LET hits == {r \in made : Xid[r] = x}
           last == {r \in hits : \A s \in hits : s <= r}
       IN  IF last = {} THEN m[x] ELSE ids[Pos(rows, CHOOSE r \in last : TRUE)]]

FailLines(f, rows) == [r \in Row |-> IF r \in rows THEN f[r] + 1 ELSE f[r]]

Chunk == {r \in Row : head <= r /\ r < head + chunk}
NextHeadUnclamped(n) == head + n
NextHead(n) == IF head + n > N THEN N + 1 ELSE head + n
Halved == IF chunk > 1 THEN chunk \div 2 ELSE 1
LeftHalf(S) == {r \in S : Pos(S, r) <= Cardinality(S) \div 2}
RightHalfSkipping(S) == {r \in S : Pos(S, r) > Cardinality(S) \div 2 + 1}
RightHalf(S) == S \ LeftHalf(S)

Done == call = NoCall /\ pending = {} /\ head > N
-----------------------------------------------------------------------------
Init ==
    /\ \/ "batch" \in Modes /\ head = 1 /\ pending = {}
       \/ "single" \in Modes /\ head = N + 1 /\ pending = {{r} : r \in Row}
    /\ chunk = N
    /\ serial = 0
    /\ call = NoCall
    /\ idMap = [x \in Ids |-> NoRow]
    /\ failed = [r \in Row |-> 0]
    /\ stored = [r \in Row |-> 0]
    /\ late = [r \in Row |-> 0]
    /\ lost = [r \in Row |-> 0]

(***************************************************************************)
(* The main loop.  One turn writes the rows too short for the kept columns *)
(* to the failed lines, then sends the rest of the chunk.                  *)
(***************************************************************************)
TooShort == IF Ignoring THEN Chunk \cap Short ELSE {}

MainSend ==
    /\ call = NoCall /\ pending = {} /\ head <= N
    /\ failed' = FailLines(failed, TooShort)
    /\ IF Chunk = TooShort
       THEN head' = NextHead(chunk) /\ UNCHANGED call
       ELSE call' = Load("main", Chunk \ TooShort) /\ UNCHANGED head
    /\ UNCHANGED <<chunk, serial, pending, idMap, server>>

Answered(caller, kinds) == call.by = caller /\ call.answer.kind \in kinds

(* valid_chunk, the rows the ids of the reply are matched with.            *)
MatchedUnfiltered == Chunk
Matched == call.rows

(* The server answered with ids.  Rows it left out go to the fallback when *)
(* they are several and it named no culprit, to the failed lines otherwise; *)
(* a None in a list of full length is passed over.                          *)
MainLoaded ==
    /\ Answered("main", {"ids"})
    /\ LET ids     == call.answer.ids
           made    == Made(Matched, ids)
           missing == Matched \ made
           count   == Cardinality(call.rows) - Len(ids)
           search  == count > 1 /\ ~call.answer.rowErrors
       IN  /\ idMap' = Recorded(idMap, made, Matched, ids)
           /\ pending' = IF search THEN {missing} ELSE {}
           /\ failed' = IF count > 0 /\ ~search THEN FailLines(failed, missing)
                                               ELSE failed
    /\ serial' = 0
    /\ head' = NextHead(chunk)
    /\ call' = NoCall
    /\ UNCHANGED <<chunk, server>>

(* The read timed out: whether the server stored the rows is unknown, so   *)
(* they are written to the failed lines for a later run to reconcile.      *)
MainReadTimeoutSkips ==
    /\ Answered("main", {"readTimeout"})
    /\ head' = NextHead(chunk)
    /\ call' = NoCall
    /\ UNCHANGED <<chunk, serial, pending, idMap, failed, server>>

MainReadTimeout ==
    /\ Answered("main", {"readTimeout"})
    /\ failed' = FailLines(failed, call.rows)
    /\ head' = NextHead(chunk)
    /\ call' = NoCall
    /\ UNCHANGED <<chunk, serial, pending, idMap, server>>

(* HTTP 413 at a chunk size of one: this row cannot be sent at all.        *)
MainTooLarge ==
    /\ Answered("main", {"tooLarge"}) /\ chunk = 1
    /\ failed' = FailLines(failed, call.rows)
    /\ head' = NextHead(chunk)
    /\ call' = NoCall
    /\ UNCHANGED <<chunk, serial, pending, idMap, server>>

(* HTTP 413, an overloaded server or another passing error: halve the chunk *)
(* and try again from the same row.                                         *)
MainHalveForever ==
    /\ Answered("main", {"tooLarge", "overload", "transient"})
    /\ chunk' = Halved
    /\ call' = NoCall
    /\ UNCHANGED <<head, serial, pending, idMap, failed, server>>

MainHalve ==
    /\ Answered("main", {"tooLarge", "overload", "transient"}) /\ chunk > 1
    /\ chunk' = Halved
    /\ call' = NoCall
    /\ UNCHANGED <<head, serial, pending, idMap, failed, server>>

(* A serialization conflict also halves the chunk, but the third in a row  *)
(* hands the whole chunk, as it was sent, to the fallback.                 *)
HandedHalf == Halved
Handed == Cardinality(Chunk)
MainSerialization ==
    /\ Answered("main", {"serialization"}) /\ chunk > 1
    /\ chunk' = Halved
    /\ call' = NoCall
    /\ IF serial + 1 < MaxSerial
       THEN serial' = serial + 1 /\ UNCHANGED <<head, pending>>
       ELSE /\ serial' = 0
            /\ pending' = {Chunk}
            /\ head' = NextHead(Handed)
    /\ UNCHANGED <<idMap, failed, server>>

(* Any other error, and a passing one that a single row keeps meeting.     *)
MainFallback ==
    /\ \/ Answered("main", {"permanent"})
       \/ Answered("main", Transient) /\ chunk = 1
    /\ pending' = {Chunk}
    /\ head' = NextHead(chunk)
    /\ call' = NoCall
    /\ UNCHANGED <<chunk, serial, idMap, failed, server>>
-----------------------------------------------------------------------------
(***************************************************************************)
(* The binary fallback.  It fails the rows whose length is wrong, loads a  *)
(* lone row individually and several as a batch.                           *)
(***************************************************************************)
Leftmost(seg) == \A other \in pending : \E r \in seg : \A s \in other : r <= s

Search(seg) ==
    LET valid == seg \ Ragged
    IN  /\ call = NoCall
        /\ Leftmost(seg)
        /\ pending' = pending \ {seg}
        /\ failed' = FailLines(failed, seg \cap Ragged)
        /\ call' = CASE valid = {}             -> NoCall
                     [] Cardinality(valid) = 1 -> Load("single", valid)
                     [] OTHER                  -> Load("search", valid)
        /\ UNCHANGED <<head, chunk, serial, idMap, server>>

(* Some ids came back.  Rows without an external id leave no trace in the  *)
(* map; one row left out is loaded alone at once, several are searched.    *)
SearchLoaded ==
    /\ Answered("search", {"ids"}) /\ call.answer.ids # << >>
    /\ LET ids     == call.answer.ids
           made    == Made(call.rows, ids)
           missing == call.rows \ made
           named   == {r \in made : Xid[r] # EmptyId}
       IN  /\ idMap' = Recorded(idMap, named, call.rows, ids)
           /\ call' = IF Cardinality(missing) = 1 THEN Load("culprit", missing)
                                                  ELSE NoCall
           /\ pending' = IF Cardinality(missing) > 1 THEN pending \cup {missing}
                                                     ELSE pending
    /\ UNCHANGED <<head, chunk, serial, failed, server>>

(* No ids, or any error at all: both halves are to be tried.               *)
SearchSplit ==
    /\ \/ Answered("search", Errors)
       \/ Answered("search", {"ids"}) /\ call.answer.ids = << >>
    /\ pending' = pending \cup {LeftHalf(call.rows), RightHalf(call.rows)}
    /\ call' = NoCall
    /\ UNCHANGED <<head, chunk, serial, idMap, failed, server>>

(* A row loaded alone.  The map of a "culprit", the one row a search found *)
(* missing, is dropped by the search that asked for it.                    *)
SingleLoaded ==
    /\ call.by \in {"single", "culprit"}
    /\ call.answer.kind = "ids"
    /\ LET made == Made(call.rows, call.answer.ids)
       IN  /\ made # {}
           /\ idMap' = IF call.by = "single"
                       THEN Recorded(idMap, made, call.rows, call.answer.ids)
                       ELSE idMap
    /\ call' = NoCall
    /\ UNCHANGED <<head, chunk, serial, pending, failed, server>>

SingleFailed ==
    /\ call.by \in {"single", "culprit"}
    /\ call.answer.kind # "waiting"
    /\ Made(call.rows, call.answer.ids) = {}
    /\ failed' = FailLines(failed, call.rows)
    /\ call' = NoCall
    /\ UNCHANGED <<head, chunk, serial, pending, idMap, server>>
-----------------------------------------------------------------------------
(***************************************************************************)
(* The server, the proxies before it and the network (external).           *)
(***************************************************************************)
Asked == call # NoCall /\ call.answer.kind = "waiting"

(* load() ran: it stored the rows made, and its list of ids reaches row n. *)
Execute(made, n) ==
    /\ Asked
    /\ made \subseteq call.rows \ (Bad \cup Short)
    /\ \A r \in made : Pos(call.rows, r) <= n
    /\ \E f \in Shapes : Fits(f, call.rows, made, n)
    /\ stored' = [r \in Row |-> IF r \in made THEN stored[r] + 1 ELSE stored[r]]
    /\ \E named \in BOOLEAN :
         /\ named => call.by = "main" /\ n < Cardinality(call.rows)
         /\ call' = [call EXCEPT !.answer = [kind      |-> "ids",
                                             ids       |-> IdsOf(call.rows, made, n),
                                             rowErrors |-> named]]
    /\ UNCHANGED <<client, late, lost>>

(* The call was refused or rolled back, and nothing was stored.            *)
Refuse(e) ==
    /\ Asked
    /\ call' = [call EXCEPT !.answer = Failure(e)]
    /\ UNCHANGED <<client, server>>

(* The connection broke or timed out: the request may have been carried    *)
(* out already, may be carried out later, or never.                        *)
Lose(e) ==
    /\ Asked
    /\ \A r \in call.rows : lost[r] < MaxLost
    /\ lost' = [r \in Row |-> IF r \in call.rows THEN lost[r] + 1 ELSE lost[r]]
    /\ late' = [r \in Row |-> IF r \in call.rows \ (Bad \cup Short)
                              THEN late[r] + 1 ELSE late[r]]
    /\ call' = [call EXCEPT !.answer = Failure(e)]
    /\ UNCHANGED <<client, stored>>

LateStore(r) ==
    /\ late[r] > 0
    /\ late' = [late EXCEPT ![r] = @ - 1]
    /\ stored' = [stored EXCEPT ![r] = @ + 1]
    /\ UNCHANGED <<client, call, lost>>
-----------------------------------------------------------------------------
Main == \/ MainSend \/ MainLoaded \/ MainReadTimeout \/ MainTooLarge
        \/ MainHalve \/ MainSerialization \/ MainFallback

Fallback == \/ \E seg \in pending : Search(seg)
            \/ SearchLoaded \/ SearchSplit \/ SingleLoaded \/ SingleFailed

Worker == Main \/ Fallback

Answer == \/ \E made \in SUBSET call.rows, n \in 0 .. Cardinality(call.rows) :
               Execute(made, n)
          \/ \E e \in Errors \ {"readTimeout"} : Refuse(e)
          \/ \E e \in {"readTimeout", "overload", "transient"} : Lose(e)

Return == Done /\ UNCHANGED vars

Next == Worker \/ Answer \/ (\E r \in Row : LateStore(r)) \/ Return

Spec == Init /\ [][Next]_vars

(* The worker thread runs, and every call ends, if only in a timeout.      *)
FairSpec == Spec /\ WF_vars(Worker) /\ WF_vars(Answer)
-----------------------------------------------------------------------------
Callers == {"none", "main", "search", "single", "culprit"}
Answers == [kind : Errors \cup {"waiting", "ids"}, ids : Seq(Row \cup {NoRow}),
            rowErrors : BOOLEAN]

(* Types: head never runs past the end of the batch, the chunk size stays  *)
(* positive, and only segments of the batch are pending or sent.           *)
TypeOK ==
    /\ head \in 1 .. N + 1
    /\ chunk \in 1 .. N
    /\ serial \in 0 .. MaxSerial - 1
    /\ pending \subseteq SUBSET Row
    /\ call \in [by : Callers, rows : SUBSET Row, answer : Answers]
    /\ idMap \in [Ids -> Row \cup {NoRow}]
    /\ failed \in [Row -> Nat]
    /\ stored \in [Row -> Nat]
    /\ late \in [Row -> Nat]
    /\ lost \in [Row -> Nat]

Mapped(r) == idMap[Xid[r]] # NoRow

(* The map names, for each external id, a record the server really made    *)
(* from a row with that id: Pass 2 writes relations through this map, so   *)
(* one shifted entry would link the wrong records.                         *)
IdMapFaithful ==
    \A x \in Ids : idMap[x] # NoRow => Xid[idMap[x]] = x /\ stored[idMap[x]] > 0

(* A row has one outcome: it is in the map or has one failed line, not     *)
(* both and not two lines, however often its chunk was retried.            *)
OneOutcome ==
    \A r \in Row : failed[r] <= 1 /\ (Mapped(r) => failed[r] = 0)

(* A row in the failed lines that the server nevertheless stored was in a  *)
(* call whose reply was lost: every other failure is certain.              *)
FailedIsCertain ==
    \A r \in Row : failed[r] > 0 /\ stored[r] > 0 => lost[r] > 0

(* A row is stored again only if the reply that would have confirmed it    *)
(* was lost.  For a row without an external id, which load() cannot upsert, *)
(* each further time is a duplicate record.                                 *)
NoNeedlessDuplicate ==
    \A r \in Row : stored[r] <= 1 + lost[r]

(* When the worker returns, a row with neither an entry in the map nor a   *)
(* failed line has at least been stored by the server.                     *)
NothingDroppedUnstored ==
    Done => \A r \in Row : Mapped(r) \/ failed[r] > 0 \/ stored[r] > 0

(* What is stored: no row more often than replies were lost, and each row  *)
(* the worker's results do not mention.                                    *)
StoredRight == NoNeedlessDuplicate /\ NothingDroppedUnstored

(* The worker returns, whatever the server answers: each retry works on    *)
(* fewer rows, and a lone row that keeps failing is given up.              *)
Termination == <>Done

(* The batch keeps the promise of RowLedger: an outcome is final, and the  *)
(* worker returns with no row pending.                                     *)
Outcome == [r \in Row |-> IF failed[r] > 0 THEN "failed"
                          ELSE IF Mapped(r) THEN "created" ELSE "pending"]
Ledger == INSTANCE RowLedger WITH Items <- Row, status <- Outcome, closed <- Done
ImplementsLedger == Ledger!Spec
=============================================================================
