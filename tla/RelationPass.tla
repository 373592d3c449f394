----------------------------- MODULE RelationPass -----------------------------
(***************************************************************************)
(* Pass 2 of an import: writing the relations that Pass 1 deferred         *)
(* (import_threaded.py: _prepare_pass_2_data,                              *)
(* _resolve_external_id_for_pass2, _orchestrate_pass_2 and                 *)
(* _execute_write_batch).  Every row whose record is known is given the    *)
(* value it asks for, from the id map or by asking the server; equal       *)
(* values are grouped into write operations, operations packed into        *)
(* super-batches, and each super-batch carried out by one worker, which    *)
(* repeats a write that timed out.  A call without a reply, for a timeout  *)
(* or for a connection that broke, may yet be carried out by the server.   *)
(*                                                                         *)
(* A value stands for what is written on a record: all the relations of    *)
(* its row.  The workers share nothing but the server, so they run in any  *)
(* order; the pool that runs them is the subject of ThreadedPass.          *)
(* A definition placed right before another one and named after it with a  *)
(* suffix is that definition with a bug in it, for PROJECT.json.           *)
(***************************************************************************)
EXTENDS Integers, Sequences, FiniteSets, SequencesExt

CONSTANTS
    N,            \* number of rows of the source file
    Record,       \* the records of the model
    Target,       \* the targets rows may refer to
    Imported,     \* targets in the id map: records this import has made
    OnServer,     \* other targets the server knows
    Files,        \* source files: what each row's record and target are
    BatchSize,    \* records per operation and per super-batch
    Bytes,        \* payload of one value of each target
    MaxBytes,     \* max_batch_bytes; 0 means no limit
    MaxRetries    \* repetitions of a write that timed out, 3 in the code

Row == 1 .. N
NoRecord == 0
NoTarget == 0

ASSUME NAssumption == N \in Nat
ASSUME FileAssumption ==
    Files \subseteq [rec : [Row -> Record \cup {NoRecord}],
                     target : [Row -> Target \cup {NoTarget}]]
ASSUME NameAssumption == NoRecord \notin Record /\ NoTarget \notin Target
ASSUME TargetAssumption == Imported \cup OnServer \subseteq Target
ASSUME BytesAssumption == Bytes \in [Target -> Nat] /\ MaxBytes \in Nat
ASSUME BoundAssumption == BatchSize \in Nat \ {0} /\ MaxRetries \in Nat

VARIABLES
    source,       \* the source file and the id map of Pass 1, never changed
    pc,           \* "prepare", "write", "drain" or "done"
    next,         \* the row to prepare next
    cache,        \* external_id_cache: target -> "unknown", "found", "missing"
    updates,      \* pass_2_data_to_write: sequence of [rec, val]
    batches,      \* pass_2_batches: super-batches of operations [recs, val]
    work,         \* each worker: [at, tries, failed]
    collected,    \* super-batches whose results have been read
    failed,       \* failed_writes: pairs of a record and a value
    failLines,    \* fail file: failed writes, each with the row put on file for it
    success,      \* what _orchestrate_pass_2 returns
    link,         \* server: value of each record
    late,         \* server: writes given up on that may still be carried out
    lostLookups,  \* history: targets whose lookup was lost
    unanswered    \* history: pairs written in a call whose reply never came

reading == <<source, next, cache, updates, lostLookups>>
writing == <<batches, work, collected, failed>>
ending == <<failLines, success>>
server == <<link, late>>
vars == <<reading, pc, writing, ending, server, unanswered>>

-----------------------------------------------------------------------------
(***************************************************************************)
(* From updates to super-batches: records with equal values are grouped in *)
(* order of appearance, groups cut into operations of at most BatchSize    *)
(* records, operations packed while they fit.                              *)
(***************************************************************************)
AddedToLast(groups, u) ==
    IF groups = << >> THEN <<[recs |-> <<u.rec>>, val |-> u.val]>>
    ELSE [groups EXCEPT ![Len(groups)].recs = Append(@, u.rec)]
Added(groups, u) ==
    IF \E i \in DOMAIN groups : groups[i].val = u.val
    THEN [i \in DOMAIN groups |->
            IF groups[i].val = u.val THEN [groups[i] EXCEPT !.recs = Append(@, u.rec)]
                                     ELSE groups[i]]
    ELSE Append(groups, [recs |-> <<u.rec>>, val |-> u.val])
Grouped(us) == FoldLeft(Added, << >>, us)

Chunk(s, i) ==
    SubSeq(s, (i - 1) * BatchSize + 1,
              IF i * BatchSize < Len(s) THEN i * BatchSize ELSE Len(s))
Chunks(group) ==
    [i \in 1 .. (Len(group.recs) + BatchSize - 1) \div BatchSize |->
        [group EXCEPT !.recs = Chunk(@, i)]]
Operations(us) ==
    LET groups == Grouped(us)
    IN  FlattenSeq([g \in DOMAIN groups |-> Chunks(groups[g])])

Count(ops) == FoldLeft(LAMBDA n, op : n + Len(op.recs), 0, ops)
Payload(ops) == FoldLeft(LAMBDA n, op : n + Bytes[op.val], 0, ops)

OverfullCountOnly(ops, op) == Count(ops) + Len(op.recs) > BatchSize
Overfull(ops, op) ==
    \/ Count(ops) + Len(op.recs) > BatchSize
    \/ MaxBytes > 0 /\ Payload(ops) + Bytes[op.val] > MaxBytes

Pack(acc, op) ==
    IF acc.current # << >> /\ Overfull(acc.current, op)
    THEN [full |-> Append(acc.full, acc.current), current |-> <<op>>]
    ELSE [acc EXCEPT !.current = Append(@, op)]
SuperBatchesWithoutLast(us) ==
    FoldLeft(Pack, [full |-> << >>, current |-> << >>], Operations(us)).full
SuperBatches(us) ==
    LET packed == FoldLeft(Pack, [full |-> << >>, current |-> << >>], Operations(us))
    IN  IF packed.current = << >> THEN packed.full
                                  ELSE Append(packed.full, packed.current)
-----------------------------------------------------------------------------
Init ==
    /\ source \in Files
    /\ pc = "prepare" /\ next = 1
    /\ cache = [t \in Target |-> "unknown"]
    /\ updates = << >> /\ batches = << >> /\ work = << >>
    /\ collected = {} /\ failed = {} /\ failLines = {} /\ success = FALSE
    /\ link = [r \in Record |-> NoTarget] /\ late = {}
    /\ lostLookups = {} /\ unanswered = {}

(***************************************************************************)
(* Preparing a row: nothing to do for a row without a record or a target;  *)
(* a target is found in the id map, or else in the cache of lookups, or    *)
(* else by a lookup, of which an error is as good as "not found".          *)
(***************************************************************************)
TheRecord == source.rec[next]
TheTarget == source.target[next]
Wanted == TheRecord # NoRecord /\ TheTarget # NoTarget

Prepare(found) ==
    /\ pc = "prepare" /\ next \in Row
    /\ next' = next + 1
    /\ updates' = IF found THEN Append(updates, [rec |-> TheRecord, val |-> TheTarget])
                           ELSE updates
    /\ UNCHANGED <<source, pc, writing, ending, server, unanswered>>

SkipRow ==
    /\ next \in Row /\ ~Wanted
    /\ Prepare(FALSE)
    /\ UNCHANGED <<cache, lostLookups>>

ResolveHere ==
    /\ next \in Row /\ Wanted
    /\ TheTarget \in Imported \/ cache[TheTarget] # "unknown"
    /\ Prepare(TheTarget \in Imported \/ cache[TheTarget] = "found")
    /\ UNCHANGED <<cache, lostLookups>>

Verdict(found) == IF found THEN "found" ELSE "missing"
LookUp ==
    /\ next \in Row /\ Wanted
    /\ TheTarget \notin Imported /\ cache[TheTarget] = "unknown"
    /\ Prepare(TheTarget \in OnServer)
    /\ cache' = [cache EXCEPT ![TheTarget] = Verdict(TheTarget \in OnServer)]
    /\ UNCHANGED lostLookups

LoseLookUp ==
    /\ next \in Row /\ Wanted
    /\ TheTarget \notin Imported /\ cache[TheTarget] = "unknown"
    /\ Prepare(FALSE)
    /\ cache' = [cache EXCEPT ![TheTarget] = "missing"]
    /\ lostLookups' = lostLookups \cup {TheTarget}

Batch ==
    /\ pc = "prepare" /\ next \notin Row
    /\ batches' = SuperBatches(updates)
    /\ work' = [b \in DOMAIN batches' |-> [at |-> 1, tries |-> 0, failed |-> {}]]
    /\ pc' = "write"
    /\ UNCHANGED <<reading, collected, failed, ending, server, unanswered>>
-----------------------------------------------------------------------------
(***************************************************************************)
(* The workers.  Operations of a super-batch are written one after the     *)
(* other; a failed one fails for all its records and the next is tried.    *)
(***************************************************************************)
Busy(b) == work[b].at <= Len(batches[b])
Started(b) == work[b].at > 1 \/ work[b].tries > 0
Runs(b) == /\ Busy(b)
           /\ pc = "write" \/ (pc = "drain" /\ Started(b))

Operation(b) == batches[b][work[b].at]
Pairs(op) == {<<r, op.val>> : r \in ToSet(op.recs)}
Applied(op) == [r \in Record |-> IF r \in ToSet(op.recs) THEN op.val ELSE link[r]]

Advance(b, lost) ==
    work' = [work EXCEPT ![b] = [at |-> @.at + 1, tries |-> 0, failed |-> @.failed \cup lost]]

Write(b) ==
    /\ Runs(b)
    /\ link' = Applied(Operation(b))
    /\ Advance(b, {})
    /\ UNCHANGED <<reading, pc, batches, collected, failed, ending, late, unanswered>>

LostPairsFirst(op) == {<<op.recs[1], op.val>>}
LostPairs(op) == Pairs(op)

GivenUpLate(b) == work[b].tries > MaxRetries
GivenUp(b) == work[b].tries >= MaxRetries
TriesForgotten(b) == work[b].tries
Tries(b) == work[b].tries + 1

(* The server answers with an error, and has written nothing.              *)
Refuse(b) ==
    /\ Runs(b)
    /\ Advance(b, LostPairs(Operation(b)))
    /\ UNCHANGED <<reading, pc, batches, collected, failed, ending, server, unanswered>>

(* A write without a reply has been carried out, may be later, or never    *)
(* is.  One that timed out is repeated MaxRetries times, then failed; any  *)
(* other error (connection reset, bad gateway) fails it at once.           *)
NoReply(b, again) ==
    /\ Runs(b)
    /\ LET op == Operation(b)
       IN  /\ \/ link' = Applied(op) /\ UNCHANGED late
              \/ late' = late \cup {op} /\ UNCHANGED link
           /\ unanswered' = unanswered \cup Pairs(op)
           /\ IF again THEN work' = [work EXCEPT ![b].tries = Tries(b)]
                       ELSE Advance(b, LostPairs(op))
    /\ UNCHANGED <<reading, pc, batches, collected, failed, ending>>

TimeOut(b) == NoReply(b, ~GivenUp(b))
BreakOff(b) == NoReply(b, FALSE)

LateWrite(op) ==
    /\ late' = late \ {op}
    /\ link' = Applied(op)
    /\ UNCHANGED <<reading, pc, writing, ending, unanswered>>
-----------------------------------------------------------------------------
(***************************************************************************)
(* The main thread reads the results.  An abort drops those not read yet   *)
(* and cancels what has not started (see ThreadedPass).                    *)
(***************************************************************************)
Collect(b) ==
    /\ pc = "write" /\ ~Busy(b) /\ b \notin collected
    /\ collected' = collected \cup {b}
    /\ failed' = failed \cup work[b].failed
    /\ UNCHANGED <<reading, pc, batches, work, ending, server, unanswered>>

Abort ==
    /\ pc = "write" /\ batches # << >>
    /\ pc' = "drain"
    /\ UNCHANGED <<reading, writing, ending, server, unanswered>>

(* reverse_id_map and source_data_map: the last row of a record stands for *)
(* its failures.                                                           *)
Line(r) == CHOOSE i \in Row : source.rec[i] = r
                              /\ \A j \in Row : source.rec[j] = r => j <= i
Lines == {<<w, Line(w[1])>> : w \in failed}

SucceededIfNotAborted(aborted) == ~aborted
Succeeded(aborted) == ~aborted /\ failed = {}

End(aborted) ==
    /\ failLines' = Lines
    /\ success' = Succeeded(aborted)
    /\ pc' = "done"
    /\ UNCHANGED <<reading, writing, server, unanswered>>

Finish == pc = "write" /\ collected = DOMAIN batches /\ End(FALSE)
FinishAborted ==
    /\ pc = "drain"
    /\ \A b \in DOMAIN batches : Busy(b) => ~Started(b)
    /\ End(TRUE)

Return == pc = "done" /\ UNCHANGED vars
-----------------------------------------------------------------------------
Worker(b) == Write(b) \/ Refuse(b) \/ TimeOut(b) \/ BreakOff(b)
Main == \/ SkipRow \/ ResolveHere \/ LookUp \/ LoseLookUp \/ Batch
        \/ (\E b \in DOMAIN batches : Collect(b)) \/ Finish \/ FinishAborted

Next == \/ Main \/ (\E b \in DOMAIN batches : Worker(b)) \/ Abort
        \/ (\E op \in late : LateWrite(op)) \/ Return

Spec == Init /\ [][Next]_vars

(* The main thread runs, and every write call ends, if only in a timeout.  *)
FairSpec == /\ Spec /\ WF_vars(Main)
            /\ WF_vars(\E b \in DOMAIN batches : Worker(b))
-----------------------------------------------------------------------------
WriteOps == [recs : Seq(Record), val : Target]
Writes == Record \X Target

(* Types: operations write targets on records, rows on file are rows.      *)
TypeOK ==
    /\ source \in Files
    /\ pc \in {"prepare", "write", "drain", "done"}
    /\ next \in 1 .. N + 1
    /\ cache \in [Target -> {"unknown", "found", "missing"}]
    /\ updates \in Seq([rec : Record, val : Target])
    /\ batches \in Seq(Seq(WriteOps))
    /\ work \in Seq([at : Nat \ {0}, tries : 0 .. MaxRetries, failed : SUBSET Writes])
    /\ collected \subseteq DOMAIN batches
    /\ failed \subseteq Writes /\ failLines \subseteq Writes \X Row /\ success \in BOOLEAN
    /\ link \in [Record -> Target \cup {NoTarget}] /\ late \subseteq WriteOps
    /\ lostLookups \subseteq Target /\ unanswered \subseteq Writes

Asks(i, r, t) == source.rec[i] = r /\ source.target[i] = t

(* Grouping and packing mix the rows of the whole file, but no record is   *)
(* ever given a relation that none of its own rows asks for.               *)
OnlyAskedLinks ==
    \A r \in Record : link[r] # NoTarget => \E i \in Row : Asks(i, r, link[r])

(* A row with a record whose target exists is in a super-batch, unless the *)
(* one lookup of its target was lost: no row is left out by the cache, by  *)
(* grouping, cutting or packing, and none is written twice.                *)
Places(r, t) ==
    UNION {UNION {{<<b, o, k>> : k \in {k \in DOMAIN batches[b][o].recs :
                                          batches[b][o].recs[k] = r /\ batches[b][o].val = t}}
                  : o \in DOMAIN batches[b]} : b \in DOMAIN batches}
Known == Imported \cup (OnServer \ lostLookups)
EachUpdateInOneBatch ==
    pc = "write" =>
        \A r \in Record, t \in Known :
            Cardinality(Places(r, t)) = Cardinality({i \in Row : Asks(i, r, t)})

(* No super-batch of several operations exceeds the batch size or the      *)
(* payload limit.                                                          *)
BatchesWithinLimits ==
    \A b \in DOMAIN batches :
        Len(batches[b]) > 1 => /\ Count(batches[b]) <= BatchSize
                               /\ MaxBytes > 0 => Payload(batches[b]) <= MaxBytes

(* Packing: every update in one batch, and no batch over a limit.          *)
PackedRight == TypeOK /\ EachUpdateInOneBatch /\ BatchesWithinLimits

(* A pass that reports success has written, for good, every relation it    *)
(* could resolve: requests carried out late do not undo it.  Rows that     *)
(* share a record and disagree are left out: the last to be written wins.  *)
Agreed(i) == \A j \in Row : source.rec[j] = source.rec[i] =>
                 source.target[j] \in {source.target[i], NoTarget}
SuccessIsTrue ==
    success => \A i \in Row :
        source.rec[i] # NoRecord /\ source.target[i] \in Known /\ Agreed(i) =>
            link[source.rec[i]] = source.target[i]

(* When a pass was not aborted, the write for the one row of a record is   *)
(* either done or listed as failed, with that row in the fail file; and a  *)
(* write listed as failed is done only if a call for it had no reply.      *)
Sole(i) == \A j \in Row \ {i} : source.rec[j] # source.rec[i]
CompleteReport ==
    pc = "done" /\ collected = DOMAIN batches =>
        \A i \in Row :
            source.rec[i] # NoRecord /\ source.target[i] \in Known /\ Sole(i) =>
                LET w == <<source.rec[i], source.target[i]>>
                IN  /\ w \notin failed => link[w[1]] = w[2]
                    /\ w \in failed => <<w, i>> \in failLines
                    /\ w \in failed /\ link[w[1]] = w[2] => w \in unanswered

(* The pass ends: a write is repeated a bounded number of times.           *)
PassEnds == <>(pc = "done")
=============================================================================
