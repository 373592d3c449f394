------------------------------ MODULE BatchPlan ------------------------------
(***************************************************************************)
(* How Pass 1 is cut into what its workers load (import_threaded.py:       *)
(* _create_batches, _recursive_create_batches; _run_threaded_pass while it *)
(* submits): rows are sorted and grouped by the columns of --groupby, one  *)
(* column within the other, each group is cut by size or, with --o2m,      *)
(* before each row that has an id, and the throttle may cut a batch again. *)
(* Rows are their numbers in the file; groups and batches are consecutive  *)
(* places of the rows as they are sorted.                                  *)
(***************************************************************************)
EXTENDS Integers, Sequences, Slicing

CONSTANTS
    Files,      \* files: sequences of [id, val]: whether the row has an id, and its
                \* values in the columns of the header
    Requests,   \* what --groupby may say: sequences of columns
    BatchSize,  \* --size
    Sizes       \* what the throttle may recommend, between 1 and BatchSize

None == 0      \* an empty cell; values are numbers, sorted like the texts

VARIABLES
    file, groupby, o2m,
    hasId,      \* whether the header has the column "id" (the id may be in another)
    order,      \* the rows, as they are sorted so far
    begins,     \* the places where a group begins, then those where a batch does
    level,      \* the columns of --groupby done; one more when the batches are cut
    left,       \* the places not submitted yet
    sent        \* the batches given to the workers, in order: sets of places

vars == <<file, groupby, o2m, hasId, order, begins, level, left, sent>>

Init ==
    /\ file \in Files /\ groupby \in Requests /\ o2m \in BOOLEAN /\ hasId \in BOOLEAN
    /\ order = [r \in DOMAIN file |-> r] /\ begins = {1} /\ level = 0
    /\ left = {} /\ sent = << >>
-----------------------------------------------------------------------------
Header == DOMAIN file[1].val
Cell(p, c) == file[order[p]].val[c]

(* Two places of one group.                                                *)
Together(p, q) == \A b \in begins : b <= p <=> b <= q

(* A stable sort of each group by one column, empty cells last: the row at *)
(* p comes from from[p], and each place is come from once.                 *)
Before(c, p, q) ==
    IF Cell(p, c) = Cell(q, c) THEN p < q
    ELSE Cell(p, c) # None /\ (Cell(q, c) = None \/ Cell(p, c) < Cell(q, c))

Moves ==
    {from \in [DOMAIN order -> DOMAIN order] :
        \A q \in DOMAIN order : \E p \in DOMAIN order :
            from[p] = q /\ \A r \in DOMAIN order : from[r] = q => r = p}

SortsIfFirst(c, from) ==
    \A p, q \in DOMAIN order :
        /\ Together(p, from[p])
        /\ p < q /\ Together(p, q) =>
              IF level = 0 THEN Before(c, from[p], from[q]) ELSE from[p] < from[q]
Sorts(c, from) ==
    \A p, q \in DOMAIN order :
        /\ Together(p, from[p])
        /\ p < q /\ Together(p, q) => Before(c, from[p], from[q])

(* A group is parted where the value changes.  Nothing is left of rows     *)
(* whose header does not have the column.                                  *)
GroupBy ==
    /\ level < Len(groupby) /\ level' = level + 1
    /\ LET c == groupby[level + 1] IN
       \/ c \notin Header /\ order' = << >> /\ begins' = {}
       \/ /\ c \in Header
          /\ \E from \in Moves :
                /\ Sorts(c, from)
                /\ order' = [p \in DOMAIN order |-> order[from[p]]]
                /\ begins' = begins \cup {p \in DOMAIN order \ {1} :
                                             Cell(from[p], c) # Cell(from[p - 1], c)}
    /\ UNCHANGED <<file, groupby, o2m, hasId, left, sent>>

Family == o2m /\ hasId

(* A batch begins every BatchSize rows of a group, or where there is an id.*)
BySize ==
    {p \in DOMAIN order : \E b \in begins, k \in 0 .. Len(order) :
        Together(b, p) /\ p = b + k * BatchSize}
ByParent == begins \cup {p \in DOMAIN order : file[order[p]].id}

CreateBatches ==
    /\ level = Len(groupby) /\ level' = level + 1
    /\ begins' = IF Family THEN ByParent ELSE BySize
    /\ left' = DOMAIN order
    /\ UNCHANGED <<file, groupby, o2m, hasId, order, sent>>

(* The next batch goes to the pool, in pieces if the throttle asks for     *)
(* less.                                                                   *)
Batch(p) == {q \in left : Together(p, q)}
First(p) == p \in left /\ \A q \in left : p <= q

Submit(size) ==
    /\ \E p \in left :
          /\ First(p) /\ left' = left \ Batch(p)
          /\ sent' = sent \o [i \in 1 .. SliceCount(Batch(p), size) |-> Slice(Batch(p), size, i)]
    /\ UNCHANGED <<file, groupby, o2m, hasId, order, begins, level>>

SubmitWhole ==
    /\ \E p \in left :
          First(p) /\ left' = left \ Batch(p) /\ sent' = Append(sent, Batch(p))
    /\ UNCHANGED <<file, groupby, o2m, hasId, order, begins, level>>

Next == GroupBy \/ CreateBatches \/ SubmitWhole \/ \E size \in Sizes : Submit(size)

Spec == Init /\ [][Next]_vars
-----------------------------------------------------------------------------
Known == \A i \in DOMAIN groupby : groupby[i] \in Header
Made == level > Len(groupby)

(* The same values in the columns grouped by so far.                       *)
Alike(p, q) ==
    \A i \in DOMAIN groupby : i <= level => Cell(p, groupby[i]) = Cell(q, groupby[i])

TypeOK ==
    /\ file \in Files /\ groupby \in Requests /\ o2m \in BOOLEAN /\ hasId \in BOOLEAN
    /\ order \in Seq(DOMAIN file) /\ level \in 0 .. Len(groupby) + 1
    /\ begins \subseteq DOMAIN order /\ left \subseteq DOMAIN order
    /\ sent \in Seq(SUBSET DOMAIN order)

(* Each row of the file is sent once, in a batch that is not empty; a      *)
(* --groupby with a column the file lacks sends nothing at all.            *)
EachRowSentOnce ==
    /\ \A p, q \in DOMAIN order : order[p] = order[q] => p = q
    /\ \A i \in DOMAIN sent : sent[i] # {}
    /\ \A i, j \in DOMAIN sent : i # j => sent[i] \cap sent[j] = {}
    /\ Made /\ left = {} =>
          {order[p] : p \in UNION {sent[i] : i \in DOMAIN sent}} =
              IF Known THEN DOMAIN file ELSE {}

(* No batch mixes two groups, whatever the order of the rows in the file,  *)
(* and those of one group are sent one after the other, in file order.     *)
GroupsTogether ==
    /\ Made => \A p, q \in DOMAIN order : p < q /\ Alike(p, q) =>
          order[p] < order[q] /\ \A k \in p .. q : Alike(p, k)
    /\ \A i, j \in DOMAIN sent : i < j => \A p \in sent[i], q \in sent[j] : p < q

OneGroupEach == \A i \in DOMAIN sent : \A p, q \in sent[i] : Alike(p, q)

(* No batch is larger than --size, except the families of --o2m, which     *)
(* stay whole: a row with an id and the rows below it that have none.      *)
WithinSize == ~Family => \A i \in DOMAIN sent : Cardinality(sent[i]) <= BatchSize

Parent(r) == {p \in 1 .. r : file[p].id /\ \A q \in p + 1 .. r : ~file[q].id}

FamiliesWhole ==
    Family /\ groupby = << >> /\ Made =>
        \A p, q \in DOMAIN order : Parent(order[p]) = Parent(order[q]) <=> Together(p, q)

BatchesAreRight ==
    TypeOK /\ EachRowSentOnce /\ GroupsTogether /\ OneGroupEach /\ WithinSize /\ FamiliesWhole
-----------------------------------------------------------------------------
(* What the guides and the help say besides.  The code keeps none of it: a *)
(* group larger than a batch goes to several workers, empty cells come     *)
(* last, and a batch cut for the throttle or a group parts a family.       *)
SameWorker ==
    \A i, j \in DOMAIN sent : \A p \in sent[i], q \in sent[j] :
        groupby # << >> /\ Alike(p, q) => i = j

EmptyFirst ==
    groupby # << >> /\ Made => \A p, q \in DOMAIN order :
        p < q /\ Cell(q, groupby[1]) = None => Cell(p, groupby[1]) = None

FamiliesStay ==
    Family => \A i, j \in DOMAIN sent : \A p \in sent[i], q \in sent[j] :
        Parent(order[p]) = Parent(order[q]) => i = j
-----------------------------------------------------------------------------
(* What makes BatchesAreRight inductive.  The rows are those of the file,  *)
(* or none once a column is missing, and not moved without columns.        *)
OrderHolds ==
    /\ \A p, q \in DOMAIN order : order[p] = order[q] => p = q
    /\ IF \A i \in DOMAIN groupby : i <= level => groupby[i] \in Header
       THEN 1 \in begins /\ \A r \in DOMAIN file : \E p \in DOMAIN order : order[p] = r
       ELSE order = << >>
    /\ groupby = << >> => \A p \in DOMAIN order : order[p] = p
    /\ level = 0 => begins = {1}

(* Until they are cut, the groups are exactly the rows that are alike.     *)
GroupsHold ==
    /\ \A p, q \in DOMAIN order :
          IF Made THEN Together(p, q) => Alike(p, q) ELSE Together(p, q) <=> Alike(p, q)
    /\ \A p, q \in DOMAIN order : p < q /\ Alike(p, q) =>
          order[p] < order[q] /\ \A k \in p .. q : Alike(p, k)
    /\ Made /\ ~Family =>
          \A p, q \in DOMAIN order : p < q /\ Together(p, q) => q - p < BatchSize

(* Batches are sent whole and from the first place on.                     *)
SentHolds ==
    /\ ~Made => left = {} /\ sent = << >>
    /\ Made => left \cup UNION {sent[i] : i \in DOMAIN sent} = DOMAIN order
    /\ \A i \in DOMAIN sent : sent[i] # {} /\ \A p \in sent[i] :
          /\ \A q \in left : p < q /\ ~Together(p, q)
          /\ \A q \in sent[i] : Together(p, q)
    /\ \A i, j \in DOMAIN sent : i < j => \A p \in sent[i], q \in sent[j] : p < q

BatchInv == TypeOK /\ OrderHolds /\ GroupsHold /\ SentHolds /\ FamiliesWhole
=============================================================================
