------------------------- MODULE ExportSession_proofs -------------------------
(***************************************************************************)
(* Theorems about an export session, for any records, any batch size, any  *)
(* number of runs, crashes, interrupts, errors and deletions.              *)
(*                                                                         *)
(* A record of the session is asked for, then fetched, then recorded as    *)
(* completed, then written.  ExportInv says where a record can be at each  *)
(* phase of a run, that it is in one place only, and what the file holds.  *)
(***************************************************************************)
EXTENDS ExportSession, Slicing_proofs

(***************************************************************************)
(* The inductive invariant.                                                *)
(***************************************************************************)
Busy == {"collect", "record", "deliver"}

ToFetch(t) == UNION t.pending
Written == {r \in Record : mine[r] > 0}

(* A task holds each id of its batch once, and no other task holds it.     *)
WholeTask(t) ==
    /\ t.batch \subseteq session.all
    /\ \A p \in t.pending : p \subseteq t.batch
    /\ \A p, q \in t.pending : p # q => p \cap q = {}
    /\ t.rows \subseteq t.ids /\ t.ids \subseteq t.batch
    /\ t.ids \cap ToFetch(t) = {}
    /\ t.ids \ t.rows \subseteq Mortal

TasksApart ==
    /\ \A t \in tasks : WholeTask(t)
    /\ \A t, u \in tasks : t # u => t.batch \cap u.batch = {}
    /\ pc \in {"idle", "clean"} => tasks = {}

(* A session is there as long as a run works on it.                        *)
SessionThere ==
    /\ ~session.exists => session = NoSession
    /\ pc # "idle" => session.exists
    /\ Record \ Mortal \subseteq live

(* What is in hand or in memory has not been written, and no task of the   *)
(* run asks for it again.                                                  *)
OnTheWay ==
    /\ \A r \in Record : mine[r] <= 1
    /\ Written \cap (session.all \ session.done) = {}
    /\ pc \in Busy =>
          /\ hand.rows \subseteq hand.ids /\ hand.ids \subseteq session.all
          /\ frames \subseteq session.all \cap session.done
          /\ pc = "collect" => hand.ids = {}
          /\ pc = "deliver" => hand.ids \subseteq session.done
          /\ hand.ids \cap frames = {}
          /\ Written \cap (hand.ids \cup frames) = {}
          /\ \A t \in tasks : t.batch \cap (Written \cup hand.ids \cup frames) = {}

(* A record given up on is not among those completed by this session.      *)
GivenUpStays ==
    /\ pc # "idle" =>
          /\ failedIds \subseteq session.all
          /\ failedIds \cap session.done \subseteq inherited
          /\ \A t \in tasks : /\ t.batch \cap session.done \subseteq inherited
                              /\ failedIds \cap (t.ids \cup ToFetch(t)) = {}
          /\ pc = "record" => failedIds \cap hand.ids = {}
    /\ FailedCanBeResumed

(* Without failures, a record that is not completed is still in the run.   *)
Clear == pc \in Busy \cup {"clean"} /\ ~hasFailures /\ ~interrupted
InRun(r) == \E t \in tasks : r \in t.ids \cup ToFetch(t)

NoneForgotten ==
    /\ Clear => \A r \in session.all \ Mortal :
                   r \in session.done \/ (pc = "record" /\ r \in hand.ids) \/ InRun(r)
    /\ pc = "drain" => interrupted

(* In a run that was not resumed, the file holds what this session wrote.  *)
FileIsMine == file.header /\ file.lines = mine
Delivered(r) ==
    mine[r] = 1 \/ (pc \in Busy /\ (r \in hand.rows \/ r \in frames)) \/ InRun(r)

FileAnew ==
    /\ pc # "idle" /\ ~flags.resuming =>
          /\ Written \subseteq session.all
          /\ flags.streaming => frames = {}
          /\ flags.streaming /\ ~opened => mine = NoLines
          /\ ~flags.streaming /\ pc \in Busy => mine = NoLines
          /\ flags.streaming /\ opened => FileIsMine
          /\ ~flags.streaming /\ pc = "clean" /\ ~interrupted => FileIsMine
    /\ Clear /\ ~flags.resuming => \A r \in session.all \ Mortal : Delivered(r)
    /\ UneventfulExportIsExact

(* TypeOK in three parts.                                                  *)
TypedDisk ==
    /\ session \in [exists : BOOLEAN, all : SUBSET Record, done : SUBSET Record]
    /\ file \in [exists : BOOLEAN, header : BOOLEAN, lines : [Record -> Nat]]
    /\ live \subseteq Record
    /\ inherited \subseteq Record /\ mine \in [Record -> Nat]

TypedRun ==
    /\ pc \in {"idle", "collect", "record", "deliver", "drain", "clean"}
    /\ flags \in [method : Methods \cup {"read"}, streaming : BOOLEAN, resuming : BOOLEAN]
    /\ hand \in [rows : SUBSET Record, ids : SUBSET Record]
    /\ frames \subseteq Record /\ opened \in BOOLEAN /\ interrupted \in BOOLEAN
    /\ report \in [result : {"none", "nothing to do", "success", "failure"},
                   resumed : BOOLEAN, interrupted : BOOLEAN,
                   all : SUBSET Record, failed : SUBSET Record]

TypedWorkers ==
    /\ tasks \subseteq Tasks
    /\ failedIds \subseteq Record /\ hasFailures \in BOOLEAN
    /\ faults \in 0 .. MaxFaults

ExportInv ==
    /\ TypedDisk /\ TypedRun /\ TypedWorkers
    /\ TasksApart /\ SessionThere /\ OnTheWay
    /\ GivenUpStays /\ NoneForgotten /\ FileAnew
-----------------------------------------------------------------------------
LEMMA TypeParts == TypeOK <=> TypedDisk /\ TypedRun /\ TypedWorkers
<1>1. TypeOK => TypedDisk /\ TypedRun /\ TypedWorkers
  BY DEF TypeOK, TypedDisk, TypedRun, TypedWorkers
<1>2. TypedDisk /\ TypedRun /\ TypedWorkers => TypeOK
  BY DEF TypeOK, TypedDisk, TypedRun, TypedWorkers
<1> QED  BY <1>1, <1>2

LEMMA FaultsBounded == ASSUME TypedWorkers, Fault PROVE faults' \in 0 .. MaxFaults
BY BoundAssumption DEF TypedWorkers, Fault

(***************************************************************************)
(* Tasks: those a run starts with, and what a worker makes of one.         *)
(***************************************************************************)
LEMMA FirstTasks ==
    ASSUME NEW S \in SUBSET Record
    PROVE  LET T == {Task(batch) : batch \in Batches(S)} IN
           /\ T \subseteq Tasks
           /\ \A t \in T : /\ t.batch \subseteq S /\ t.pending = {t.batch}
                           /\ t.rows = {} /\ t.ids = {}
           /\ \A t, u \in T : t # u => t.batch \cap u.batch = {}
           /\ \A r \in S : \E t \in T : r \in t.batch
           /\ S = {} => T = {}
<1> DEFINE T == {Task(batch) : batch \in Batches(S)}
           m == SliceCount(S, BatchSize)
<1>1. S \in SUBSET Nat /\ IsFiniteSet(S)  BY RecordAssumption, FS_Subset
<1>2. /\ m \in Nat
      /\ \A i \in Int : Slice(S, BatchSize, i) \subseteq S
      /\ \A r \in S : \E i \in 1 .. m : r \in Slice(S, BatchSize, i)
      /\ \A i, j \in 1 .. m :
            i # j => Slice(S, BatchSize, i) \cap Slice(S, BatchSize, j) = {}
  BY <1>1, BoundAssumption, SlicesPartition
<1>3. ASSUME S = {} PROVE m = 0
  <2>1. Cardinality(S) = 0  BY <1>3, FS_EmptySet
  <2>2. (0 + BatchSize - 1) \div BatchSize = 0  BY BoundAssumption
  <2> QED  BY <2>1, <2>2 DEF SliceCount
<1> HIDE DEF m
<1>4. /\ \A b \in Batches(S) : b \subseteq S
      /\ \A b, c \in Batches(S) : b # c => b \cap c = {}
      /\ \A r \in S : \E b \in Batches(S) : r \in b
      /\ S = {} => Batches(S) = {}
  <2>1. Batches(S) = {Slice(S, BatchSize, i) : i \in 1 .. m}  BY DEF Batches, m
  <2>2. S = {} => Batches(S) = {}  BY <1>3, <2>1
  <2> QED  BY <1>2, <2>1, <2>2
<1>5. \A b : /\ Task(b).batch = b /\ Task(b).pending = {b}
             /\ Task(b).rows = {} /\ Task(b).ids = {}
  BY DEF Task
<1>6. \A b \in Batches(S) : Task(b) \in Tasks  BY <1>4 DEF Task, Tasks
<1>7. T \subseteq Tasks  BY <1>6
<1>8. \A t \in T : \E b \in Batches(S) : t = Task(b)  OBVIOUS
<1> HIDE DEF T
<1>9. \A t \in T : /\ t.batch \in Batches(S) /\ t = Task(t.batch)
                   /\ t.pending = {t.batch} /\ t.rows = {} /\ t.ids = {}
  BY <1>5, <1>8
<1>10. \A b \in Batches(S) : \E t \in T : t.batch = b  BY <1>5 DEF T
<1>11. S = {} => T = {}  BY <1>4 DEF T
<1>12. \A t, u \in T : t # u => t.batch # u.batch  BY <1>9
<1> QED  BY <1>4, <1>7, <1>9, <1>10, <1>11, <1>12 DEF T

LEMMA HalfOf == \A S : LeftHalf(S) \subseteq S /\ UNION Split(S) = S
BY DEF LeftHalf, Split

(* A worker puts a task of the same batch in place of its task.  It loses  *)
(* no id that is still on the server, unless it reports a failure.         *)
Reworked(t, part, u) ==
    /\ tasks' = (tasks \ {t}) \cup {u}
    /\ u.batch = t.batch /\ WholeTask(u)
    /\ u.ids \cup ToFetch(u) \subseteq t.ids \cup ToFetch(t)
    /\ \/ /\ UNCHANGED <<failedIds, hasFailures>>
          /\ (t.ids \cup ToFetch(t)) \ Mortal \subseteq u.ids \cup ToFetch(u)
       \/ /\ failedIds' = failedIds \cup part /\ hasFailures' = TRUE
          /\ part \subseteq t.batch
          /\ part \cap (u.ids \cup ToFetch(u)) = {}

LEMMA WorkerStep ==
    ASSUME TypeOK, TasksApart, SessionThere,
           NEW t \in tasks, NEW part \in t.pending,
           Fetch(t, part) \/ FetchInHalves(t, part) \/ FetchFails(t, part)
    PROVE  \E u \in Tasks : Reworked(t, part, u)
<1>1. /\ t \in Tasks /\ WholeTask(t) /\ part \in SUBSET Record
      /\ live \in SUBSET Record /\ Record \ Mortal \subseteq live
  BY DEF TypeOK, TasksApart, SessionThere, Tasks
<1>2. /\ part \subseteq t.batch /\ part \cap t.ids = {} /\ part \subseteq ToFetch(t)
      /\ UNION (t.pending \ {part}) = ToFetch(t) \ part
  BY <1>1 DEF WholeTask, ToFetch
<1>3. CASE Fetch(t, part)
  <2> DEFINE u == [t EXCEPT !.pending = @ \ {part}, !.rows = @ \cup (part \cap live),
                            !.ids = @ \cup FetchedIds(part)]
  <2>1. /\ FetchedIds(part) \subseteq part /\ part \cap live \subseteq FetchedIds(part)
        /\ FetchedIds(part) \ (part \cap live) \subseteq Mortal
        /\ part \ Mortal \subseteq FetchedIds(part)
    BY <1>1 DEF FetchedIds
  <2>2. /\ u.batch = t.batch /\ u.pending = t.pending \ {part}
        /\ u.rows = t.rows \cup (part \cap live)
        /\ u.ids = t.ids \cup FetchedIds(part) /\ u \in Tasks
    BY <1>1, <2>1 DEF Tasks
  <2>3. tasks' = (tasks \ {t}) \cup {u} /\ UNCHANGED <<failedIds, hasFailures>>
    BY <1>3 DEF Fetch, Replace
  <2> HIDE DEF u
  <2>4. ToFetch(u) = ToFetch(t) \ part  BY <1>2, <2>2 DEF ToFetch
  <2>5. WholeTask(u)  BY <1>1, <1>2, <2>1, <2>2, <2>4 DEF WholeTask
  <2>6. (t.ids \cup ToFetch(t)) \ Mortal \subseteq u.ids \cup ToFetch(u)
    BY <2>1, <2>2, <2>4
  <2>7. u.ids \cup ToFetch(u) \subseteq t.ids \cup ToFetch(t)
    BY <1>2, <2>1, <2>2, <2>4
  <2>8. \E v \in Tasks : v = u  BY <2>2
  <2> QED  BY <2>2, <2>3, <2>5, <2>6, <2>7, <2>8 DEF Reworked
<1>4. CASE FetchInHalves(t, part)
  <2> DEFINE u == [t EXCEPT !.pending = (@ \ {part}) \cup Split(part)]
  <2>1. /\ LeftHalf(part) \subseteq part /\ UNION Split(part) = part
        /\ Split(part) = {LeftHalf(part), part \ LeftHalf(part)}
    BY HalfOf DEF Split
  <2>2. /\ u.batch = t.batch /\ u.pending = (t.pending \ {part}) \cup Split(part)
        /\ u.rows = t.rows /\ u.ids = t.ids /\ u \in Tasks
    BY <1>1, <2>1 DEF Tasks
  <2>3. tasks' = (tasks \ {t}) \cup {u} /\ UNCHANGED <<failedIds, hasFailures>>
    BY <1>4 DEF FetchInHalves, Replace
  <2> HIDE DEF u
  <2>4. ToFetch(u) = ToFetch(t)  BY <1>2, <2>1, <2>2 DEF ToFetch
  <2>5. \A p, q \in u.pending : p # q => p \cap q = {}
    <3> SUFFICES ASSUME NEW p \in u.pending, NEW q \in u.pending, p # q
                 PROVE  p \cap q = {}
      OBVIOUS
    <3>1. \A x \in t.pending \ {part}, y \in Split(part) : x \cap y = {}
      BY <1>1, <2>1 DEF WholeTask
    <3>2. CASE p \in t.pending \ {part} /\ q \in t.pending \ {part}
      BY <1>1, <3>2 DEF WholeTask
    <3>3. CASE p \in t.pending \ {part} /\ q \in Split(part)  BY <3>1, <3>3
    <3>4. CASE p \in Split(part) /\ q \in t.pending \ {part}  BY <3>1, <3>4
    <3>5. CASE p \in Split(part) /\ q \in Split(part)
      <4>1. \/ p = LeftHalf(part) /\ q = part \ LeftHalf(part)
            \/ q = LeftHalf(part) /\ p = part \ LeftHalf(part)
        BY <2>1, <3>5
      <4> QED  BY <4>1
    <3> QED  BY <2>2, <3>2, <3>3, <3>4, <3>5
  <2>6. WholeTask(u)  BY <1>1, <1>2, <2>1, <2>2, <2>4, <2>5 DEF WholeTask
  <2> QED  BY <2>2, <2>3, <2>4, <2>6 DEF Reworked
<1>5. CASE FetchFails(t, part)
  <2> DEFINE u == [t EXCEPT !.pending = @ \ {part}]
  <2>1. /\ u.batch = t.batch /\ u.pending = t.pending \ {part}
        /\ u.rows = t.rows /\ u.ids = t.ids /\ u \in Tasks
    BY <1>1 DEF Tasks
  <2>2. /\ tasks' = (tasks \ {t}) \cup {u}
        /\ failedIds' = failedIds \cup part /\ hasFailures' = TRUE
    BY <1>5 DEF FetchFails, Replace, GivenUp
  <2> HIDE DEF u
  <2>3. ToFetch(u) = ToFetch(t) \ part  BY <1>2, <2>1 DEF ToFetch
  <2>4. WholeTask(u)  BY <1>1, <1>2, <2>1, <2>3 DEF WholeTask
  <2>5. part \cap (u.ids \cup ToFetch(u)) = {}  BY <1>2, <2>1, <2>3
  <2>6. u.ids \cup ToFetch(u) \subseteq t.ids \cup ToFetch(t)  BY <2>1, <2>3
  <2> QED  BY <1>2, <2>1, <2>2, <2>4, <2>5, <2>6 DEF Reworked
<1> QED  BY <1>3, <1>4, <1>5
-----------------------------------------------------------------------------
(***************************************************************************)
(* The initial states.                                                     *)
(***************************************************************************)
LEMMA ExportStarts == Init => ExportInv
<1> SUFFICES ASSUME Init PROVE ExportInv
  OBVIOUS
<1> USE DEF Init, NoSession, NoFlags, NoReport, Nothing, NoLines
<1>1. TypeOK
  <2>1. faults \in 0 .. MaxFaults  BY BoundAssumption
  <2> QED  BY <2>1, MortalAssumption DEF TypeOK, Tasks
<1>2. TasksApart  BY DEF TasksApart
<1>3. SessionThere  BY DEF SessionThere
<1>4. OnTheWay  BY DEF OnTheWay, Written, Busy
<1>5. GivenUpStays  BY DEF GivenUpStays, FailedCanBeResumed
<1>6. NoneForgotten  BY DEF NoneForgotten, Clear, Busy
<1>7. FileAnew  BY DEF FileAnew, Clear, Busy, UneventfulExportIsExact
<1> QED  BY <1>1, <1>2, <1>3, <1>4, <1>5, <1>6, <1>7, TypeParts DEF ExportInv
-----------------------------------------------------------------------------
(***************************************************************************)
(* One lemma for each kind of step.                                        *)
(***************************************************************************)
LEMMA CountedLines ==
    ASSUME NEW L \in [Record -> Nat], NEW R \in SUBSET Record
    PROVE  /\ Counted(L, R) \in [Record -> Nat]
           /\ \A r \in R : Counted(L, R)[r] = L[r] + 1
           /\ \A r \in Record \ R : Counted(L, R)[r] = L[r]
           /\ R = {} => Counted(L, R) = L
BY DEF Counted

LEMMA WholeFile ==
    ASSUME TypedDisk, NEW R \in SUBSET Record
    PROVE  /\ Appended(R) = [exists |-> TRUE, header |-> file.header,
                             lines |-> Counted(file.lines, R)]
           /\ Anew(R) = [exists |-> TRUE, header |-> TRUE,
                         lines |-> Counted(NoLines, R)]
<1>1. PICK e \in BOOLEAN, h \in BOOLEAN, l \in [Record -> Nat] :
        file = [exists |-> e, header |-> h, lines |-> l]
  BY DEF TypedDisk
<1>2. Appended(R) = [[file EXCEPT !.exists = TRUE]
                       EXCEPT !.lines = Counted(file.lines, R)]
  BY <1>1 DEF Appended
<1>3. file.header = h /\ file.lines = l  BY <1>1
<1>4. Appended(R) = [exists |-> TRUE, header |-> h, lines |-> Counted(file.lines, R)]
  BY <1>1, <1>2
<1> QED  BY <1>3, <1>4 DEF Anew

(* A new run: its tasks hold what it asks for, and nothing is on the way.  *)
LEMMA LaunchStep ==
    ASSUME ExportInv, pc = "idle", NEW S \in SUBSET Record, NEW f \in BOOLEAN,
           Launch(S, f),
           session' \in [exists : BOOLEAN, all : SUBSET Record, done : SUBSET Record],
           ~session'.exists => session' = NoSession,
           S # {} => session'.exists,
           S = session'.all \/ (S = session'.all \ session'.done /\ f),
           live' = live, faults' = faults, inherited' \in SUBSET Record,
           session'.all \cap session'.done \cap S \subseteq inherited',
           mine' \in [Record -> Nat], \A r \in Record : mine'[r] <= 1,
           \A r \in session'.all \ session'.done : mine'[r] = 0,
           \A r \in S : mine'[r] = 0,
           ~f => mine' = NoLines
    PROVE  ExportInv'
<1> DEFINE T == {Task(batch) : batch \in Batches(S)}
<1>1. /\ T \subseteq Tasks
      /\ \A t \in T : /\ t.batch \subseteq S /\ t.pending = {t.batch}
                      /\ t.rows = {} /\ t.ids = {}
      /\ \A t, u \in T : t # u => t.batch \cap u.batch = {}
      /\ \A r \in S : \E t \in T : r \in t.batch
      /\ S = {} => T = {}
  BY FirstTasks
<1> HIDE DEF T
<1>2. /\ tasks' = T /\ hand' = Nothing /\ frames' = {} /\ opened' = FALSE
      /\ hasFailures' = FALSE /\ failedIds' = {} /\ interrupted' = FALSE
      /\ flags'.resuming = f
      /\ flags' \in [method : Methods \cup {"read"}, streaming : BOOLEAN,
                     resuming : BOOLEAN]
      /\ S # {} => pc' = "collect" /\ UNCHANGED <<file, report>>
      /\ S = {} => /\ pc' = "idle"
                   /\ file' = IF file.exists THEN file ELSE Anew({})
                   /\ report' = [NoReport EXCEPT !.result = "nothing to do",
                                                 !.resumed = f]
  <2>1. /\ \E method \in Methods, streaming \in Streams :
             flags' = [method |-> method, streaming |-> streaming, resuming |-> f]
        /\ tasks' = T
    BY DEF Launch, T
  <2>2. /\ flags'.resuming = f
        /\ flags' \in [method : Methods \cup {"read"}, streaming : BOOLEAN,
                       resuming : BOOLEAN]
    BY <2>1, FlagAssumption
  <2> QED  BY <2>1, <2>2 DEF Launch
<1>3. TypeOK /\ SessionThere /\ FailedCanBeResumed /\ UneventfulExportIsExact
  BY TypeParts DEF ExportInv, GivenUpStays, FileAnew
<1>4. TypedDisk' /\ TypedRun' /\ TypedWorkers'
  <2>1. file' \in [exists : BOOLEAN, header : BOOLEAN, lines : [Record -> Nat]]
    <3>1. Anew({}) \in [exists : BOOLEAN, header : BOOLEAN, lines : [Record -> Nat]]
      BY CountedLines DEF Anew, NoLines
    <3> QED  BY <1>2, <1>3, <3>1 DEF TypeOK
  <2>2. report' \in [result : {"none", "nothing to do", "success", "failure"},
                     resumed : BOOLEAN, interrupted : BOOLEAN,
                     all : SUBSET Record, failed : SUBSET Record]
    BY <1>2, <1>3 DEF TypeOK, NoReport
  <2>3. pc' \in {"idle", "collect", "record", "deliver", "drain", "clean"}
    BY <1>2
  <2>4. TypedDisk'  BY <1>3, <2>1 DEF TypeOK, TypedDisk
  <2>5. TypedRun'  BY <1>2, <2>2, <2>3 DEF TypedRun, Nothing
  <2>6. TypedWorkers'  BY <1>1, <1>2, <1>3 DEF TypeOK, TypedWorkers
  <2> QED  BY <2>4, <2>5, <2>6
<1>5. \A t \in T : ToFetch(t) = t.batch
  <2>1. \A x : UNION {x} = x  OBVIOUS
  <2> QED  BY <1>1, <2>1 DEF ToFetch
<1>6. S \subseteq session'.all  BY DEF NoSession
<1>7. TasksApart'
  <2>1. \A t \in T : WholeTask(t)'  BY <1>1, <1>5, <1>6 DEF WholeTask
  <2> QED  BY <1>1, <1>2, <2>1 DEF TasksApart
<1>8. SessionThere'  BY <1>2, <1>3 DEF SessionThere
<1>9. OnTheWay'
  BY <1>1, <1>2, <1>6 DEF OnTheWay, Written, Nothing, Busy, TypeOK
<1>10. GivenUpStays'
  <2>1. FailedCanBeResumed'  BY <1>2, <1>3 DEF FailedCanBeResumed, NoReport
  <2> QED  BY <1>1, <1>2, <1>6, <2>1 DEF GivenUpStays
<1>11. NoneForgotten'
  BY <1>1, <1>2, <1>5 DEF NoneForgotten, Clear, InRun, Busy
<1>12. FileAnew'
  <2>1. UneventfulExportIsExact'  BY <1>2, <1>3 DEF UneventfulExportIsExact, NoReport
  <2>2. ~f => \A r \in session'.all : InRun(r)'  BY <1>1, <1>2, <1>5 DEF InRun
  <2> QED  BY <1>2, <2>1, <2>2
           DEF FileAnew, Clear, Busy, Delivered, FileIsMine, Written, NoLines
<1> QED  BY <1>4, <1>7, <1>8, <1>9, <1>10, <1>11, <1>12 DEF ExportInv

LEMMA NewExportStep == ASSUME ExportInv, NewExport PROVE ExportInv'
<1>1. TypeOK  BY TypeParts DEF ExportInv
<1>2. /\ pc = "idle" /\ Launch(live, FALSE) /\ inherited' = session.done
      /\ mine' = NoLines /\ live' = live /\ faults' = faults
      /\ session' = IF live = {} THEN NoSession
                    ELSE [exists |-> TRUE, all |-> live, done |-> session.done]
  BY DEF NewExport, Inherited
<1>3. /\ session' \in [exists : BOOLEAN, all : SUBSET Record, done : SUBSET Record]
      /\ ~session'.exists => session' = NoSession
      /\ live # {} => session'.exists
      /\ live = session'.all
      /\ session'.all \cap session'.done \cap live \subseteq inherited'
  BY <1>1, <1>2 DEF TypeOK, NoSession
<1>4. /\ mine' \in [Record -> Nat] /\ \A r \in Record : mine'[r] = 0
  BY <1>2 DEF NoLines
<1>5. live \in SUBSET Record /\ inherited' \in SUBSET Record
  BY <1>1, <1>2 DEF TypeOK
<1>6. /\ \A r \in Record : mine'[r] <= 1
      /\ \A r \in session'.all \ session'.done : mine'[r] = 0
      /\ \A r \in live : mine'[r] = 0
  BY <1>3, <1>4, <1>5
<1>7. FALSE \in BOOLEAN  OBVIOUS
<1> QED  BY <1>2, <1>3, <1>4, <1>5, <1>6, <1>7, LaunchStep

LEMMA ResumeExportStep == ASSUME ExportInv, ResumeExport PROVE ExportInv'
<1>1. TypeOK /\ SessionThere /\ OnTheWay  BY TypeParts DEF ExportInv
<1>2. /\ pc = "idle" /\ Launch(Remaining, TRUE)
      /\ session' = session /\ live' = live /\ faults' = faults
      /\ inherited' = inherited /\ mine' = mine
  BY DEF ResumeExport, history
<1>3. /\ session \in [exists : BOOLEAN, all : SUBSET Record, done : SUBSET Record]
      /\ session.all \in SUBSET Record
      /\ mine \in [Record -> Nat] /\ inherited \in SUBSET Record
  BY <1>1 DEF TypeOK
<1>4. Remaining = session.all \ session.done /\ Remaining \in SUBSET Record
  BY <1>3 DEF Remaining
<1>5. ~session.exists => session = NoSession /\ Remaining = {}
  BY <1>1, <1>4 DEF SessionThere, NoSession
<1>6. session.all \cap session.done \cap Remaining \subseteq inherited  BY <1>4
<1>7. \A r \in Remaining : mine[r] = 0  BY <1>1, <1>3, <1>4 DEF OnTheWay, Written
<1>8. \A r \in Record : mine[r] <= 1  BY <1>1 DEF OnTheWay
<1>9. TRUE \in BOOLEAN  OBVIOUS
<1> QED  BY <1>2, <1>3, <1>4, <1>5, <1>6, <1>7, <1>8, <1>9, LaunchStep
-----------------------------------------------------------------------------
(* A worker's step: only its task, and perhaps the failures, change.       *)
LEMMA WorkerKeeps ==
    ASSUME ExportInv, NEW t \in tasks, NEW part \in t.pending,
           Fetch(t, part) \/ FetchInHalves(t, part) \/ FetchFails(t, part)
    PROVE  ExportInv'
<1>0. /\ TypeOK /\ TasksApart /\ SessionThere /\ OnTheWay
      /\ GivenUpStays /\ NoneForgotten /\ FileAnew
  BY TypeParts DEF ExportInv
<1>1. /\ session' = session /\ file' = file /\ live' = live /\ pc' = pc
      /\ flags' = flags /\ hand' = hand /\ frames' = frames /\ opened' = opened
      /\ interrupted' = interrupted /\ report' = report
      /\ inherited' = inherited /\ mine' = mine
  BY DEF Fetch, FetchInHalves, FetchFails, disk, memory, history
<1>2. PICK u \in Tasks : Reworked(t, part, u)
  BY <1>0, WorkerStep
<1> USE DEF Reworked
<1>3. /\ WholeTask(t) /\ t \in Tasks /\ t.batch \in SUBSET Record
      /\ \A x \in tasks : WholeTask(x)
  BY <1>0 DEF TasksApart, TypeOK, Tasks
<1>15. pc \in Busy \cup {"drain"} /\ pc # "idle" /\ pc # "clean"
  BY <1>0 DEF TasksApart, TypeOK, Busy
<1>4. \A x \in Tasks : WholeTask(x) => x.ids \cup ToFetch(x) \subseteq x.batch
  BY DEF WholeTask, ToFetch
<1>5. faults' \in 0 .. MaxFaults
  <2>1. TypedWorkers  BY DEF ExportInv
  <2>2. faults' = faults \/ Fault
    BY DEF Fetch, FetchInHalves, FetchFails
  <2> QED  BY <2>1, <2>2, FaultsBounded DEF TypedWorkers
<1>6. TypedDisk' /\ TypedRun' /\ TypedWorkers'
  <2>1. TypedDisk'  BY <1>1 DEF ExportInv, TypedDisk
  <2>2. TypedRun'  BY <1>1 DEF ExportInv, TypedRun
  <2>3. TypedWorkers'  BY <1>2, <1>3, <1>5 DEF ExportInv, TypedWorkers
  <2> QED  BY <2>1, <2>2, <2>3
<1>7. TasksApart'
  <2>1. \A x \in tasks' : WholeTask(x)'  BY <1>1, <1>2, <1>3 DEF WholeTask, ToFetch
  <2>2. \A x, y \in tasks' : x # y => x.batch \cap y.batch = {}
    BY <1>0, <1>2 DEF TasksApart
  <2> QED  BY <1>0, <1>1, <1>15, <2>1, <2>2 DEF TasksApart
<1>8. SessionThere'  BY <1>0, <1>1 DEF SessionThere
<1>9. OnTheWay'  BY <1>0, <1>1, <1>2 DEF OnTheWay, Written
<1>10. GivenUpStays'
  <2>1. FailedCanBeResumed'  BY <1>0, <1>1, <1>15 DEF FailedCanBeResumed
  <2>2. part \subseteq t.batch => part \subseteq session.all /\ part \cap session.done \subseteq inherited
    BY <1>0, <1>3, <1>15 DEF GivenUpStays, WholeTask
  <2>3. /\ failedIds' \subseteq session.all
        /\ failedIds' \cap session.done \subseteq inherited
    BY <1>0, <1>2, <1>15, <2>2 DEF GivenUpStays
  <2>4. \A x \in tasks' : x.batch \cap session.done \subseteq inherited
    BY <1>0, <1>2, <1>3, <1>15 DEF GivenUpStays
  <2>5. \A x \in tasks \ {t} : part \subseteq t.batch => part \cap (x.ids \cup ToFetch(x)) = {}
    <3>1. \A x \in tasks \ {t} : x.batch \cap t.batch = {} /\ x.ids \cup ToFetch(x) \subseteq x.batch
      BY <1>0, <1>3, <1>4 DEF TasksApart, TypeOK
    <3> QED  BY <3>1
  <2>6. \A x \in tasks' : failedIds' \cap (x.ids \cup ToFetch(x)) = {}
    BY <1>0, <1>2, <1>3, <1>15, <2>5 DEF GivenUpStays
  <2>7. pc = "record" => failedIds' \cap hand.ids = {}
    BY <1>0, <1>2, <1>3 DEF GivenUpStays, OnTheWay, Busy
  <2> QED  BY <1>0, <1>1, <2>1, <2>3, <2>4, <2>6, <2>7 DEF GivenUpStays, ToFetch
<1>11. ~hasFailures' => ~hasFailures /\ \A r \in Record \ Mortal : InRun(r) => InRun(r)'
  <2> SUFFICES ASSUME ~hasFailures'
               PROVE  ~hasFailures /\ \A r \in Record \ Mortal : InRun(r) => InRun(r)'
    OBVIOUS
  <2>1. /\ hasFailures' = hasFailures
        /\ (t.ids \cup ToFetch(t)) \ Mortal \subseteq u.ids \cup ToFetch(u)
    BY <1>2
  <2> QED  BY <1>0, <1>2, <2>1 DEF InRun, ToFetch
<1>12. NoneForgotten'
  BY <1>0, <1>1, <1>11 DEF NoneForgotten, Clear, TypeOK
<1>13. FileAnew'
  <2>1. UneventfulExportIsExact'  BY <1>0, <1>1, <1>15 DEF UneventfulExportIsExact
  <2> QED  BY <1>0, <1>1, <1>11, <2>1 DEF FileAnew, Clear, Delivered, FileIsMine, Written, TypeOK
<1> QED  BY <1>6, <1>7, <1>8, <1>9, <1>10, <1>12, <1>13 DEF ExportInv
-----------------------------------------------------------------------------
(* The main thread's steps.                                                *)
LEMMA CollectKeeps == ASSUME ExportInv, NEW t \in tasks, Collect(t) PROVE ExportInv'
<1>0. /\ TypedDisk /\ TypedRun /\ TypedWorkers /\ TasksApart /\ SessionThere
      /\ OnTheWay /\ GivenUpStays /\ NoneForgotten /\ FileAnew
  BY DEF ExportInv
<1>1. /\ session' = session /\ file' = file /\ live' = live
      /\ flags' = flags /\ frames' = frames /\ opened' = opened
      /\ hasFailures' = hasFailures /\ failedIds' = failedIds
      /\ interrupted' = interrupted /\ report' = report /\ faults' = faults
      /\ inherited' = inherited /\ mine' = mine
  BY DEF Collect, disk, history
<1>2. /\ pc = "collect" /\ t.pending = {} /\ tasks' = tasks \ {t}
      /\ t.rows = {} => pc' = pc /\ hand' = hand
      /\ t.rows # {} => pc' = "record" /\ hand' = [rows |-> t.rows, ids |-> t.ids]
  BY DEF Collect, Completed
<1>3. /\ t \in Tasks /\ WholeTask(t) /\ ToFetch(t) = {}
      /\ t.ids \in SUBSET Record /\ t.rows \in SUBSET Record
  <2>1. t \in Tasks /\ WholeTask(t)  BY <1>0 DEF TypedWorkers, TasksApart
  <2>2. UNION {} = {}  OBVIOUS
  <2> QED  BY <1>2, <2>1, <2>2 DEF Tasks, ToFetch
<1>4. \A x \in tasks' : x \in tasks /\ x.batch \cap t.ids = {}
  BY <1>0, <1>2, <1>3 DEF TasksApart, WholeTask
<1>5. pc' \in {"collect", "record"}  BY <1>2
<1>6. TypedDisk' /\ TypedRun' /\ TypedWorkers'
  <2>1. TypedDisk'  BY <1>0, <1>1 DEF TypedDisk
  <2>2. hand' \in [rows : SUBSET Record, ids : SUBSET Record]
    <3>1. CASE t.rows = {}  BY <1>0, <1>2, <3>1 DEF TypedRun
    <3>2. CASE t.rows # {}
      <4>1. hand' = [rows |-> t.rows, ids |-> t.ids]  BY <1>2, <3>2
      <4> QED  BY <1>3, <4>1
    <3> QED  BY <3>1, <3>2
  <2>3. TypedRun'  BY <1>0, <1>1, <1>5, <2>2 DEF TypedRun
  <2>4. TypedWorkers'  BY <1>0, <1>1, <1>2 DEF TypedWorkers
  <2> QED  BY <2>1, <2>3, <2>4
<1>7. TasksApart'  BY <1>0, <1>1, <1>4, <1>5 DEF TasksApart, WholeTask, ToFetch
<1>8. SessionThere'  BY <1>0, <1>1, <1>2 DEF SessionThere
<1>9. OnTheWay'
  <2>1. /\ hand.rows \subseteq hand.ids /\ hand.ids = {} /\ frames \subseteq session.done
        /\ Written \cap frames = {}
        /\ \A x \in tasks : x.batch \cap (Written \cup frames) = {}
    BY <1>0, <1>2 DEF OnTheWay, Busy
  <2>2. /\ hand'.rows \subseteq hand'.ids /\ hand'.ids \subseteq t.ids
        /\ pc' = "collect" => hand'.ids = {}
    BY <1>2, <1>3, <2>1 DEF WholeTask
  <2>3. /\ t.ids \subseteq session.all /\ t.ids \cap frames = {}
        /\ Written \cap t.ids = {}
    BY <1>3, <2>1 DEF WholeTask
  <2>4. Written' = Written  BY <1>1 DEF Written
  <2> QED  BY <1>0, <1>1, <1>4, <1>5, <2>1, <2>2, <2>3, <2>4 DEF OnTheWay
<1>10. GivenUpStays'
  <2>1. FailedCanBeResumed'  BY <1>5 DEF FailedCanBeResumed
  <2>2. pc' = "record" => hand'.ids = t.ids  BY <1>2
  <2> QED  BY <1>0, <1>1, <1>2, <1>4, <2>1, <2>2 DEF GivenUpStays, ToFetch
<1>11. ASSUME NEW r \in Record \ Mortal, InRun(r)
       PROVE  InRun(r)' \/ (r \in t.rows /\ pc' = "record" /\ r \in hand'.ids
                              /\ r \in hand'.rows)
  <2>1. CASE r \in t.ids
    BY <1>2, <1>3, <2>1 DEF WholeTask
  <2>2. CASE r \notin t.ids
    <3>1. PICK x \in tasks : r \in x.ids \cup ToFetch(x)  BY <1>11 DEF InRun
    <3>2. x \in tasks'  BY <1>2, <1>3, <2>2, <3>1
    <3> QED  BY <3>1, <3>2 DEF InRun, ToFetch
  <2> QED  BY <2>1, <2>2
<1>12. NoneForgotten'
  BY <1>0, <1>1, <1>2, <1>5, <1>11 DEF NoneForgotten, Clear, Busy, TypedDisk
<1>13. FileAnew'
  <2>1. UneventfulExportIsExact'  BY <1>5 DEF UneventfulExportIsExact
  <2>2. hand.rows = {}  BY <1>0, <1>2 DEF OnTheWay, Busy
  <2>3. Clear' => Clear  BY <1>1, <1>2 DEF Clear, Busy
  <2>4. ASSUME NEW r \in Record \ Mortal, Delivered(r) PROVE Delivered(r)'
    BY <1>1, <1>5, <1>11, <2>2, <2>4 DEF Delivered, Busy
  <2>5. Clear' /\ ~flags'.resuming => \A r \in session'.all \ Mortal : Delivered(r)'
    BY <1>0, <1>1, <2>3, <2>4 DEF FileAnew, TypedDisk
  <2> QED  BY <1>0, <1>1, <1>2, <1>5, <2>1, <2>5 DEF FileAnew, FileIsMine, Written, Busy
<1> QED  BY <1>6, <1>7, <1>8, <1>9, <1>10, <1>12, <1>13 DEF ExportInv

LEMMA RecordKeeps == ASSUME ExportInv, RecordCompleted PROVE ExportInv'
<1>0. /\ TypedDisk /\ TypedRun /\ TypedWorkers /\ TasksApart /\ SessionThere
      /\ OnTheWay /\ GivenUpStays /\ NoneForgotten /\ FileAnew
  BY DEF ExportInv
<1>1. /\ file' = file /\ live' = live
      /\ tasks' = tasks /\ hasFailures' = hasFailures /\ failedIds' = failedIds
      /\ flags' = flags /\ hand' = hand /\ frames' = frames /\ opened' = opened
      /\ interrupted' = interrupted /\ report' = report /\ faults' = faults
      /\ inherited' = inherited /\ mine' = mine
  BY DEF RecordCompleted, workers, memory, history
<1>2. pc = "record" /\ pc' = "deliver"  BY DEF RecordCompleted
<1>3. /\ session' \in [exists : BOOLEAN, all : SUBSET Record, done : SUBSET Record]
      /\ session'.exists = session.exists /\ session'.all = session.all
      /\ session'.done = session.done \cup hand.ids
  BY <1>0 DEF RecordCompleted, TypedDisk, TypedRun
<1>4. /\ hand.ids \subseteq session.all /\ failedIds \cap hand.ids = {}
      /\ \A t \in tasks : t.batch \cap hand.ids = {}
  BY <1>0, <1>2 DEF OnTheWay, GivenUpStays, Busy
<1>5. TypedDisk' /\ TypedRun' /\ TypedWorkers'
  <2>1. TypedDisk'  BY <1>0, <1>1, <1>3 DEF TypedDisk
  <2>2. TypedRun'  BY <1>0, <1>1, <1>2 DEF TypedRun
  <2>3. TypedWorkers'  BY <1>0, <1>1 DEF TypedWorkers
  <2> QED  BY <2>1, <2>2, <2>3
<1>6. TasksApart'  BY <1>0, <1>1, <1>2, <1>3 DEF TasksApart, WholeTask, ToFetch
<1>7. SessionThere'  BY <1>0, <1>1, <1>2, <1>3 DEF SessionThere
<1>8. OnTheWay'
  <2>1. Written' = Written  BY <1>1 DEF Written
  <2> QED  BY <1>0, <1>1, <1>2, <1>3, <2>1 DEF OnTheWay, Busy
<1>9. GivenUpStays'
  <2>1. FailedCanBeResumed'  BY <1>2 DEF FailedCanBeResumed
  <2> QED  BY <1>0, <1>1, <1>2, <1>3, <1>4, <2>1 DEF GivenUpStays, ToFetch
<1>10. NoneForgotten'
  BY <1>0, <1>1, <1>2, <1>3 DEF NoneForgotten, Clear, InRun, ToFetch, Busy
<1>11. FileAnew'
  <2>1. UneventfulExportIsExact'  BY <1>2 DEF UneventfulExportIsExact
  <2> QED  BY <1>0, <1>1, <1>2, <1>3, <2>1
           DEF FileAnew, Clear, Delivered, InRun, ToFetch, FileIsMine, Written, Busy
<1> QED  BY <1>5, <1>6, <1>7, <1>8, <1>9, <1>10, <1>11 DEF ExportInv

LEMMA DeliverKeeps == ASSUME ExportInv, Deliver PROVE ExportInv'
<1>0. /\ TypedDisk /\ TypedRun /\ TypedWorkers /\ TasksApart /\ SessionThere
      /\ OnTheWay /\ GivenUpStays /\ NoneForgotten /\ FileAnew
  BY DEF ExportInv
<1>1. /\ session' = session /\ live' = live
      /\ tasks' = tasks /\ hasFailures' = hasFailures /\ failedIds' = failedIds
      /\ flags' = flags /\ interrupted' = interrupted /\ report' = report
      /\ faults' = faults /\ inherited' = inherited
  BY DEF Deliver, workers
<1>2. pc = "deliver" /\ pc' = "collect" /\ hand' = Nothing
  BY DEF Deliver
<1>3. \/ /\ flags.streaming
         /\ file' = IF opened \/ flags.resuming THEN Appended(hand.rows)
                                                ELSE Anew(hand.rows)
         /\ opened' = TRUE /\ mine' = Counted(mine, hand.rows) /\ frames' = frames
      \/ /\ ~flags.streaming
         /\ frames' = frames \cup hand.rows
         /\ file' = file /\ opened' = opened /\ mine' = mine
  BY DEF Deliver
<1>4. /\ hand.rows \in SUBSET Record /\ hand.rows \subseteq hand.ids
      /\ hand.ids \subseteq session.all /\ hand.ids \subseteq session.done
      /\ frames \subseteq session.done /\ hand.ids \cap frames = {}
      /\ Written \cap (hand.ids \cup frames) = {}
      /\ \A t \in tasks : t.batch \cap (Written \cup hand.ids \cup frames) = {}
  BY <1>0, <1>2 DEF OnTheWay, Busy, TypedRun
<1>5. mine \in [Record -> Nat] /\ file.lines \in [Record -> Nat]
  BY <1>0 DEF TypedDisk
<1>6. \A L \in [Record -> Nat] :
        /\ Counted(L, hand.rows) \in [Record -> Nat]
        /\ \A r \in hand.rows : Counted(L, hand.rows)[r] = L[r] + 1
        /\ \A r \in Record \ hand.rows : Counted(L, hand.rows)[r] = L[r]
  BY <1>4, CountedLines
<1>7. NoLines \in [Record -> Nat]  BY DEF NoLines
<1>8. /\ Appended(hand.rows) = [exists |-> TRUE, header |-> file.header,
                                lines |-> Counted(file.lines, hand.rows)]
      /\ Anew(hand.rows) = [exists |-> TRUE, header |-> TRUE,
                            lines |-> Counted(NoLines, hand.rows)]
  BY <1>0, <1>4, WholeFile
<1>9. flags.streaming => Written' = Written \cup hand.rows
  BY <1>3, <1>4, <1>5, <1>6 DEF Written
<1>10. ~flags.streaming => Written' = Written  BY <1>3 DEF Written
<1>11. flags.streaming \in BOOLEAN /\ flags.resuming \in BOOLEAN
  BY <1>0 DEF TypedRun
<1>12. TypedDisk' /\ TypedRun' /\ TypedWorkers'
  <2>1. file' \in [exists : BOOLEAN, header : BOOLEAN, lines : [Record -> Nat]]
    <3>1. file.header \in BOOLEAN  BY <1>0 DEF TypedDisk
    <3>2. /\ Appended(hand.rows) \in [exists : BOOLEAN, header : BOOLEAN,
                                      lines : [Record -> Nat]]
          /\ Anew(hand.rows) \in [exists : BOOLEAN, header : BOOLEAN,
                                  lines : [Record -> Nat]]
      BY <1>5, <1>6, <1>7, <1>8, <3>1
    <3> QED  BY <1>0, <1>3, <3>2 DEF TypedDisk
  <2>2. mine' \in [Record -> Nat]  BY <1>3, <1>5, <1>6
  <2>3. TypedDisk'  BY <1>0, <1>1, <2>1, <2>2 DEF TypedDisk
  <2>4. frames' \subseteq Record /\ opened' \in BOOLEAN
    BY <1>0, <1>3, <1>4 DEF TypedRun
  <2>5. TypedRun'  BY <1>0, <1>1, <1>2, <2>4 DEF TypedRun, Nothing
  <2>6. TypedWorkers'  BY <1>0, <1>1 DEF TypedWorkers
  <2> QED  BY <2>3, <2>5, <2>6
<1>13. TasksApart'  BY <1>0, <1>1, <1>2 DEF TasksApart, WholeTask, ToFetch
<1>14. SessionThere'  BY <1>0, <1>1, <1>2 DEF SessionThere
<1>15. OnTheWay'
  <2>1. \A r \in hand.rows : mine[r] = 0  BY <1>4, <1>5 DEF Written
  <2>2. \A r \in Record : mine'[r] <= 1
    BY <1>0, <1>3, <1>4, <1>5, <1>6, <2>1 DEF OnTheWay
  <2>3. /\ Written' \subseteq Written \cup hand.rows
        /\ Written' \cap frames' = {}
        /\ frames' \subseteq frames \cup hand.rows
    BY <1>3, <1>4, <1>9, <1>10
  <2>4. Written \cap (session.all \ session.done) = {}  BY <1>0 DEF OnTheWay
  <2>5. hand'.rows = {} /\ hand'.ids = {}  BY <1>2 DEF Nothing
  <2>6. Written' \cap (session.all \ session.done) = {}  BY <1>4, <2>3, <2>4
  <2>7. \A t \in tasks : t.batch \cap (Written' \cup frames') = {}  BY <1>4, <2>3
  <2>8. frames' \subseteq session.all \cap session.done
    BY <1>0, <1>2, <1>4, <2>3 DEF OnTheWay, Busy
  <2> QED  BY <1>1, <1>2, <2>2, <2>3, <2>5, <2>6, <2>7, <2>8 DEF OnTheWay
<1>16. GivenUpStays'
  <2>1. FailedCanBeResumed'  BY <1>2 DEF FailedCanBeResumed
  <2> QED  BY <1>0, <1>1, <1>2, <2>1 DEF GivenUpStays, ToFetch
<1>17. NoneForgotten'
  BY <1>0, <1>1, <1>2 DEF NoneForgotten, Clear, InRun, ToFetch, Busy
<1>18. FileAnew'
  <2>1. UneventfulExportIsExact'  BY <1>2 DEF UneventfulExportIsExact
  <2>2. ~flags.resuming => Written' \subseteq session.all
    BY <1>0, <1>2, <1>4, <1>9, <1>10, <1>11 DEF FileAnew
  <2>3. CASE flags.streaming
    <3>1. ~flags.resuming => FileIsMine'
      <4>1. CASE opened
        BY <1>0, <1>2, <1>3, <1>8, <2>3, <4>1 DEF FileAnew, FileIsMine
      <4>2. CASE ~opened
        BY <1>0, <1>2, <1>3, <1>8, <2>3, <4>2 DEF FileAnew, FileIsMine
      <4> QED  BY <4>1, <4>2
    <3>2. ~flags.resuming => frames' = {}
      BY <1>0, <1>2, <1>3, <2>3 DEF FileAnew
    <3>3. ASSUME NEW r \in Record, Delivered(r) PROVE Delivered(r)'
      <4>1. CASE r \in hand.rows
        <5>1. mine[r] = 0  BY <1>4, <1>5, <4>1 DEF Written
        <5>2. mine'[r] = 1  BY <1>3, <1>5, <1>6, <2>3, <4>1, <5>1
        <5> QED  BY <5>2 DEF Delivered
      <4>2. CASE r \notin hand.rows
        BY <1>1, <1>2, <1>3, <1>5, <1>6, <2>3, <3>3, <4>2
           DEF Delivered, InRun, ToFetch, Busy
      <4> QED  BY <4>1, <4>2
    <3>4. Clear' /\ ~flags'.resuming => \A r \in session'.all \ Mortal : Delivered(r)'
      BY <1>0, <1>1, <1>2, <3>3 DEF FileAnew, Clear, Busy, TypedDisk
    <3> QED  BY <1>1, <1>2, <1>3, <2>1, <2>2, <2>3, <3>1, <3>2, <3>4 DEF FileAnew
  <2>4. CASE ~flags.streaming
    <3>1. ASSUME NEW r \in Record, Delivered(r) PROVE Delivered(r)'
      BY <1>1, <1>2, <1>3, <2>4, <3>1 DEF Delivered, InRun, ToFetch, Busy
    <3>2. Clear' /\ ~flags'.resuming => \A r \in session'.all \ Mortal : Delivered(r)'
      BY <1>0, <1>1, <1>2, <3>1 DEF FileAnew, Clear, Busy, TypedDisk
    <3>3. ~flags.resuming => mine' = NoLines
      BY <1>0, <1>2, <1>3, <2>4 DEF FileAnew, Busy
    <3> QED  BY <1>1, <1>2, <2>1, <2>2, <2>4, <3>2, <3>3 DEF FileAnew
  <2> QED  BY <2>3, <2>4
<1> QED  BY <1>12, <1>13, <1>14, <1>15, <1>16, <1>17, <1>18 DEF ExportInv

LEMMA DeliveryFailsKeeps == ASSUME ExportInv, DeliveryFails PROVE ExportInv'
<1>0. /\ TypedDisk /\ TypedRun /\ TypedWorkers /\ TasksApart /\ SessionThere
      /\ OnTheWay /\ GivenUpStays /\ NoneForgotten /\ FileAnew
  BY DEF ExportInv
<1>1. /\ session' = session /\ file' = file /\ live' = live
      /\ tasks' = tasks /\ failedIds' = failedIds
      /\ flags' = flags /\ frames' = frames /\ opened' = opened
      /\ interrupted' = interrupted /\ report' = report
      /\ inherited' = inherited /\ mine' = mine
  BY DEF DeliveryFails, disk, history
<1>2. /\ pc = "deliver" /\ pc' = "collect" /\ hasFailures' = TRUE
      /\ hand' = Nothing /\ hand'.rows = {} /\ hand'.ids = {}
  BY DEF DeliveryFails, Nothing
<1>3. faults' \in 0 .. MaxFaults  BY <1>0, FaultsBounded DEF DeliveryFails
<1>4. TypedDisk' /\ TypedRun' /\ TypedWorkers'
  <2>1. TypedDisk'  BY <1>0, <1>1 DEF TypedDisk
  <2>2. TypedRun'  BY <1>0, <1>1, <1>2 DEF TypedRun, Nothing
  <2>3. TypedWorkers'  BY <1>0, <1>1, <1>2, <1>3 DEF TypedWorkers
  <2> QED  BY <2>1, <2>2, <2>3
<1>5. TasksApart'  BY <1>0, <1>1, <1>2 DEF TasksApart, WholeTask, ToFetch
<1>6. SessionThere'  BY <1>0, <1>1, <1>2 DEF SessionThere
<1>7. OnTheWay'
  <2>1. Written' = Written  BY <1>1 DEF Written
  <2> QED  BY <1>0, <1>1, <1>2, <2>1 DEF OnTheWay, Busy
<1>8. GivenUpStays'
  <2>1. FailedCanBeResumed'  BY <1>2 DEF FailedCanBeResumed
  <2> QED  BY <1>0, <1>1, <1>2, <2>1 DEF GivenUpStays, ToFetch
<1>9. NoneForgotten'  BY <1>2 DEF NoneForgotten, Clear
<1>10. FileAnew'
  <2>1. UneventfulExportIsExact'  BY <1>2 DEF UneventfulExportIsExact
  <2> QED  BY <1>0, <1>1, <1>2, <2>1 DEF FileAnew, Clear, FileIsMine, Written, Busy
<1> QED  BY <1>4, <1>5, <1>6, <1>7, <1>8, <1>9, <1>10 DEF ExportInv

LEMMA WriteKeeps == ASSUME ExportInv, Write PROVE ExportInv'
<1>0. /\ TypedDisk /\ TypedRun /\ TypedWorkers /\ TasksApart /\ SessionThere
      /\ OnTheWay /\ GivenUpStays /\ NoneForgotten /\ FileAnew
  BY DEF ExportInv
<1>1. /\ session' = session /\ live' = live
      /\ tasks' = tasks /\ hasFailures' = hasFailures /\ failedIds' = failedIds
      /\ flags' = flags /\ hand' = hand /\ frames' = frames /\ opened' = opened
      /\ interrupted' = interrupted /\ report' = report
      /\ faults' = faults /\ inherited' = inherited
  BY DEF Write, workers, memory
<1>2. pc = "collect" /\ pc' = "clean" /\ tasks = {}  BY DEF Write
<1>3. \/ flags.streaming /\ file' = file /\ mine' = mine
      \/ /\ ~flags.streaming
         /\ file' = IF flags.resuming THEN Appended(frames) ELSE Anew(frames)
         /\ mine' = Counted(mine, frames)
  BY DEF Write
<1>4. /\ frames \in SUBSET Record /\ frames \subseteq session.done
      /\ Written \cap frames = {} /\ hand.rows = {}
      /\ mine \in [Record -> Nat] /\ file.lines \in [Record -> Nat]
      /\ file.header \in BOOLEAN
  BY <1>0, <1>2 DEF OnTheWay, Busy, TypedRun, TypedDisk
<1>5. \A L \in [Record -> Nat] :
        /\ Counted(L, frames) \in [Record -> Nat]
        /\ \A r \in frames : Counted(L, frames)[r] = L[r] + 1
        /\ \A r \in Record \ frames : Counted(L, frames)[r] = L[r]
  BY <1>4, CountedLines
<1>6. NoLines \in [Record -> Nat]  BY DEF NoLines
<1>7. /\ Appended(frames) = [exists |-> TRUE, header |-> file.header,
                             lines |-> Counted(file.lines, frames)]
      /\ Anew(frames) = [exists |-> TRUE, header |-> TRUE,
                         lines |-> Counted(NoLines, frames)]
  BY <1>0, <1>4, WholeFile
<1>8. Written' \subseteq Written \cup frames
  BY <1>3, <1>4, <1>5 DEF Written
<1>9. TypedDisk' /\ TypedRun' /\ TypedWorkers'
  <2>1. file' \in [exists : BOOLEAN, header : BOOLEAN, lines : [Record -> Nat]]
    <3>1. /\ Appended(frames) \in [exists : BOOLEAN, header : BOOLEAN,
                                   lines : [Record -> Nat]]
          /\ Anew(frames) \in [exists : BOOLEAN, header : BOOLEAN,
                               lines : [Record -> Nat]]
      BY <1>4, <1>5, <1>6, <1>7
    <3> QED  BY <1>0, <1>3, <3>1 DEF TypedDisk
  <2>2. mine' \in [Record -> Nat]  BY <1>3, <1>4, <1>5
  <2>3. TypedDisk'  BY <1>0, <1>1, <2>1, <2>2 DEF TypedDisk
  <2>4. TypedRun'  BY <1>0, <1>1, <1>2 DEF TypedRun
  <2>5. TypedWorkers'  BY <1>0, <1>1 DEF TypedWorkers
  <2> QED  BY <2>3, <2>4, <2>5
<1>10. TasksApart'  BY <1>1, <1>2 DEF TasksApart
<1>11. SessionThere'  BY <1>0, <1>1, <1>2 DEF SessionThere
<1>12. OnTheWay'
  <2>1. \A r \in frames : mine[r] = 0  BY <1>4 DEF Written
  <2>2. \A r \in Record : mine'[r] <= 1
    BY <1>0, <1>3, <1>4, <1>5, <2>1 DEF OnTheWay
  <2>3. Written' \cap (session.all \ session.done) = {}
    BY <1>0, <1>4, <1>8 DEF OnTheWay
  <2> QED  BY <1>1, <1>2, <2>2, <2>3 DEF OnTheWay, Busy
<1>13. GivenUpStays'
  <2>1. FailedCanBeResumed'  BY <1>2 DEF FailedCanBeResumed
  <2> QED  BY <1>0, <1>1, <1>2, <2>1 DEF GivenUpStays, ToFetch
<1>14. NoneForgotten'
  BY <1>0, <1>1, <1>2 DEF NoneForgotten, Clear, InRun, Busy
<1>15. FileAnew'
  <2>1. UneventfulExportIsExact'  BY <1>2 DEF UneventfulExportIsExact
  <2>2. frames \subseteq session.all  BY <1>0, <1>2 DEF OnTheWay, Busy
  <2>3. ~flags.resuming => Written' \subseteq session.all
    BY <1>0, <1>2, <1>8, <2>2 DEF FileAnew
  <2>4. ~flags.streaming /\ ~flags.resuming => FileIsMine'
    BY <1>0, <1>2, <1>3, <1>7 DEF FileAnew, FileIsMine, Busy
  <2>5. ASSUME ~flags.resuming, NEW r \in Record, Delivered(r) PROVE Delivered(r)'
    <3>1. mine[r] = 1 \/ r \in frames
      BY <1>2, <1>4, <2>5 DEF Delivered, InRun
    <3>2. CASE flags.streaming
      BY <1>0, <1>2, <1>3, <2>5, <3>1, <3>2 DEF FileAnew, Delivered
    <3>3. CASE ~flags.streaming
      <4>1. r \in frames => mine[r] = 0  BY <1>4 DEF Written
      <4>2. mine'[r] = 1  BY <1>3, <1>4, <1>5, <3>1, <3>3, <4>1
      <4> QED  BY <4>2 DEF Delivered
    <3> QED  BY <3>2, <3>3
  <2>6. Clear' /\ ~flags'.resuming => \A r \in session'.all \ Mortal : Delivered(r)'
    BY <1>0, <1>1, <1>2, <2>5 DEF FileAnew, Clear, Busy, TypedDisk
  <2>7. /\ flags.streaming /\ ~flags.resuming => frames = {}
        /\ flags.streaming /\ ~opened /\ ~flags.resuming => mine' = NoLines
        /\ flags.streaming /\ opened /\ ~flags.resuming => FileIsMine'
    BY <1>0, <1>2, <1>3 DEF FileAnew, FileIsMine
  <2> QED  BY <1>1, <1>2, <2>1, <2>3, <2>4, <2>6, <2>7 DEF FileAnew, Busy
<1> QED  BY <1>9, <1>10, <1>11, <1>12, <1>13, <1>14, <1>15 DEF ExportInv

LEMMA InterruptKeeps == ASSUME ExportInv, Interrupt PROVE ExportInv'
<1>0. /\ TypedDisk /\ TypedRun /\ TypedWorkers /\ TasksApart /\ SessionThere
      /\ OnTheWay /\ GivenUpStays /\ NoneForgotten /\ FileAnew
  BY DEF ExportInv
<1>1. /\ session' = session /\ file' = file /\ live' = live
      /\ tasks' = tasks /\ hasFailures' = hasFailures /\ failedIds' = failedIds
      /\ flags' = flags /\ hand' = hand /\ frames' = frames /\ opened' = opened
      /\ report' = report /\ inherited' = inherited /\ mine' = mine
  BY DEF Interrupt, disk, workers, memory, history
<1>2. pc \in Busy /\ pc' = "drain" /\ interrupted' = TRUE
  BY DEF Interrupt, Busy
<1>3. pc # "idle" /\ pc # "clean"  BY <1>2 DEF Busy
<1>4. faults' \in 0 .. MaxFaults  BY <1>0, FaultsBounded DEF Interrupt
<1>5. TypedDisk' /\ TypedRun' /\ TypedWorkers'
  <2>1. TypedDisk'  BY <1>0, <1>1 DEF TypedDisk
  <2>2. TypedRun'  BY <1>0, <1>1, <1>2 DEF TypedRun
  <2>3. TypedWorkers'  BY <1>0, <1>1, <1>4 DEF TypedWorkers
  <2> QED  BY <2>1, <2>2, <2>3
<1>6. TasksApart'  BY <1>0, <1>1, <1>2 DEF TasksApart, WholeTask, ToFetch
<1>7. SessionThere'  BY <1>0, <1>1, <1>3 DEF SessionThere
<1>8. OnTheWay'
  <2>1. Written' = Written  BY <1>1 DEF Written
  <2> QED  BY <1>0, <1>1, <1>2, <2>1 DEF OnTheWay, Busy
<1>9. GivenUpStays'
  <2>1. FailedCanBeResumed'  BY <1>2 DEF FailedCanBeResumed
  <2> QED  BY <1>0, <1>1, <1>2, <1>3, <2>1 DEF GivenUpStays, ToFetch
<1>10. NoneForgotten'  BY <1>2 DEF NoneForgotten, Clear
<1>11. FileAnew'
  <2>1. UneventfulExportIsExact'  BY <1>2 DEF UneventfulExportIsExact
  <2> QED  BY <1>0, <1>1, <1>2, <1>3, <2>1 DEF FileAnew, Clear, FileIsMine, Written, Busy
<1> QED  BY <1>5, <1>6, <1>7, <1>8, <1>9, <1>10, <1>11 DEF ExportInv

LEMMA DrainedKeeps == ASSUME ExportInv, Drained PROVE ExportInv'
<1>0. /\ TypedDisk /\ TypedRun /\ TypedWorkers /\ TasksApart /\ SessionThere
      /\ OnTheWay /\ GivenUpStays /\ NoneForgotten /\ FileAnew
  BY DEF ExportInv
<1>1. /\ session' = session /\ file' = file /\ live' = live
      /\ hasFailures' = hasFailures /\ failedIds' = failedIds
      /\ flags' = flags /\ hand' = hand /\ frames' = frames /\ opened' = opened
      /\ interrupted' = interrupted /\ report' = report /\ faults' = faults
      /\ inherited' = inherited /\ mine' = mine
  BY DEF Drained, disk, memory, history
<1>2. pc = "drain" /\ pc' = "clean" /\ tasks' = {}  BY DEF Drained
<1>3. interrupted  BY <1>0, <1>2 DEF NoneForgotten
<1>4. TypedDisk' /\ TypedRun' /\ TypedWorkers'
  <2>1. TypedDisk'  BY <1>0, <1>1 DEF TypedDisk
  <2>2. TypedRun'  BY <1>0, <1>1, <1>2 DEF TypedRun
  <2>3. TypedWorkers'  BY <1>0, <1>1, <1>2 DEF TypedWorkers
  <2> QED  BY <2>1, <2>2, <2>3
<1>5. TasksApart'  BY <1>2 DEF TasksApart
<1>6. SessionThere'  BY <1>0, <1>1, <1>2 DEF SessionThere
<1>7. OnTheWay'
  <2>1. Written' = Written  BY <1>1 DEF Written
  <2> QED  BY <1>0, <1>1, <1>2, <2>1 DEF OnTheWay, Busy
<1>8. GivenUpStays'
  <2>1. FailedCanBeResumed'  BY <1>2 DEF FailedCanBeResumed
  <2> QED  BY <1>0, <1>1, <1>2, <2>1 DEF GivenUpStays
<1>9. NoneForgotten'  BY <1>1, <1>2, <1>3 DEF NoneForgotten, Clear
<1>10. FileAnew'
  <2>1. UneventfulExportIsExact'  BY <1>2 DEF UneventfulExportIsExact
  <2> QED  BY <1>0, <1>1, <1>2, <1>3, <2>1 DEF FileAnew, Clear, FileIsMine, Written, Busy
<1> QED  BY <1>4, <1>5, <1>6, <1>7, <1>8, <1>9, <1>10 DEF ExportInv

(* Without a failure or an interrupt every listed record is in the file:   *)
(* nothing is left in a task, in hand or in memory.                        *)
LEMMA CleanUpKeeps == ASSUME ExportInv, CleanUp PROVE ExportInv'
<1>0. /\ TypedDisk /\ TypedRun /\ TypedWorkers /\ TasksApart /\ SessionThere
      /\ OnTheWay /\ GivenUpStays /\ NoneForgotten /\ FileAnew
  BY DEF ExportInv
<1>1. /\ file' = file /\ live' = live
      /\ tasks' = tasks /\ hasFailures' = hasFailures /\ failedIds' = failedIds
      /\ flags' = flags /\ hand' = hand /\ frames' = frames /\ opened' = opened
      /\ interrupted' = interrupted /\ faults' = faults
      /\ inherited' = inherited /\ mine' = mine
  BY DEF CleanUp, workers, memory, history
<1>2. /\ pc = "clean" /\ pc' = "idle"
      /\ session' = IF ~hasFailures THEN NoSession ELSE session
      /\ report' = [result |-> IF ~hasFailures THEN "success" ELSE "failure",
                    resumed |-> flags.resuming, interrupted |-> interrupted,
                    all |-> session.all, failed |-> failedIds]
  BY DEF CleanUp, Succeeded
<1>3. /\ session.all \in SUBSET Record /\ failedIds \in SUBSET Record
      /\ flags.resuming \in BOOLEAN /\ flags.streaming \in BOOLEAN
      /\ interrupted \in BOOLEAN
  BY <1>0 DEF TypedDisk, TypedWorkers, TypedRun
<1>4. TypedDisk' /\ TypedRun' /\ TypedWorkers'
  <2>1. session' \in [exists : BOOLEAN, all : SUBSET Record, done : SUBSET Record]
    BY <1>0, <1>2 DEF TypedDisk, NoSession
  <2>2. TypedDisk'  BY <1>0, <1>1, <2>1 DEF TypedDisk
  <2>3. report' \in [result : {"none", "nothing to do", "success", "failure"},
                     resumed : BOOLEAN, interrupted : BOOLEAN,
                     all : SUBSET Record, failed : SUBSET Record]
    BY <1>2, <1>3
  <2>4. TypedRun'  BY <1>0, <1>1, <1>2, <2>3 DEF TypedRun
  <2>5. TypedWorkers'  BY <1>0, <1>1 DEF TypedWorkers
  <2> QED  BY <2>2, <2>4, <2>5
<1>5. tasks = {}  BY <1>0, <1>2 DEF TasksApart
<1>6. TasksApart'  BY <1>1, <1>5 DEF TasksApart
<1>7. SessionThere'  BY <1>0, <1>1, <1>2 DEF SessionThere
<1>8. OnTheWay'
  <2>1. Written' = Written  BY <1>1 DEF Written
  <2>2. session'.all \ session'.done \subseteq session.all \ session.done
    BY <1>2 DEF NoSession
  <2> QED  BY <1>0, <1>1, <1>2, <2>1, <2>2 DEF OnTheWay, Busy
<1>9. GivenUpStays'
  <2>1. report'.result = "failure" => session' = session /\ hasFailures
    BY <1>2
  <2>2. report'.failed = failedIds  BY <1>2
  <2>3. /\ session.exists /\ failedIds \subseteq session.all
        /\ failedIds \cap session.done \subseteq inherited
    BY <1>0, <1>2 DEF GivenUpStays, SessionThere
  <2>4. FailedCanBeResumed'
    BY <1>1, <2>1, <2>2, <2>3 DEF FailedCanBeResumed, Remaining
  <2> QED  BY <1>2, <2>4 DEF GivenUpStays
<1>10. NoneForgotten'  BY <1>2 DEF NoneForgotten, Clear, Busy
<1>11. UneventfulExportIsExact'
  <2>1. /\ report'.all = session.all /\ report'.resumed = flags.resuming
        /\ report'.interrupted = interrupted
        /\ report'.result = "success" => ~hasFailures
    BY <1>2
  <2> SUFFICES ASSUME ~hasFailures, ~flags.resuming, ~interrupted,
                      session.all \ Mortal # {}
               PROVE  /\ file.header
                      /\ \A r \in session.all \ Mortal : file.lines[r] = 1
                      /\ \A r \in Record :
                            file.lines[r] <= (IF r \in session.all THEN 1 ELSE 0)
    BY <1>1, <2>1 DEF UneventfulExportIsExact
  <2>2. \A r \in session.all \ Mortal : mine[r] = 1
    <3>1. Clear  BY <1>2 DEF Clear
    <3>2. \A r \in session.all \ Mortal : Delivered(r)  BY <1>0, <3>1 DEF FileAnew
    <3> QED  BY <1>2, <1>5, <3>2 DEF Delivered, InRun, Busy
  <2>3. FileIsMine
    <3>1. mine # NoLines  BY <1>3, <2>2 DEF NoLines
    <3> QED  BY <1>0, <1>2, <1>3, <3>1 DEF FileAnew
  <2>4. \A r \in Record : mine[r] <= 1 /\ (r \notin session.all => mine[r] = 0)
    BY <1>0, <1>2 DEF OnTheWay, FileAnew, Written, TypedDisk
  <2> QED  BY <1>0, <2>2, <2>3, <2>4 DEF FileIsMine, TypedDisk
<1>12. FileAnew'  BY <1>2, <1>11 DEF FileAnew, Clear, Busy
<1> QED  BY <1>4, <1>6, <1>7, <1>8, <1>9, <1>10, <1>12 DEF ExportInv
-----------------------------------------------------------------------------
(* The steps of the world.                                                 *)
LEMMA CrashKeeps == ASSUME ExportInv, Crash PROVE ExportInv'
<1>0. /\ TypedDisk /\ TypedRun /\ TypedWorkers /\ TasksApart /\ SessionThere
      /\ OnTheWay /\ GivenUpStays /\ NoneForgotten /\ FileAnew
  BY DEF ExportInv
<1>1. /\ file' = file /\ live' = live /\ hasFailures' = hasFailures
      /\ failedIds' = failedIds /\ flags' = flags /\ opened' = opened
      /\ interrupted' = interrupted /\ inherited' = inherited /\ mine' = mine
  BY DEF Crash, history
<1>2. /\ pc # "idle" /\ pc' = "idle" /\ tasks' = {} /\ frames' = {}
      /\ hand' = Nothing /\ report' = NoReport
  BY DEF Crash
<1>3. PICK part \in SUBSET Record : session' = [session EXCEPT !.done = @ \cup part]
  BY <1>0 DEF Crash, TypedRun
<1>4. /\ session' \in [exists : BOOLEAN, all : SUBSET Record, done : SUBSET Record]
      /\ session'.exists = session.exists /\ session'.all = session.all
      /\ session.done \subseteq session'.done
  BY <1>0, <1>3 DEF TypedDisk
<1>5. faults' \in 0 .. MaxFaults  BY <1>0, FaultsBounded DEF Crash
<1>6. TypedDisk' /\ TypedRun' /\ TypedWorkers'
  <2>1. TypedDisk'  BY <1>0, <1>1, <1>4 DEF TypedDisk
  <2>2. TypedRun'  BY <1>0, <1>1, <1>2 DEF TypedRun, Nothing, NoReport
  <2>3. TypedWorkers'  BY <1>0, <1>1, <1>2, <1>5 DEF TypedWorkers
  <2> QED  BY <2>1, <2>2, <2>3
<1>7. TasksApart'  BY <1>2 DEF TasksApart
<1>8. SessionThere'  BY <1>0, <1>1, <1>2, <1>4 DEF SessionThere
<1>9. OnTheWay'
  <2>1. Written' = Written  BY <1>1 DEF Written
  <2> QED  BY <1>0, <1>1, <1>2, <1>4, <2>1 DEF OnTheWay, Busy
<1>10. GivenUpStays'  BY <1>2 DEF GivenUpStays, FailedCanBeResumed, NoReport
<1>11. NoneForgotten'  BY <1>2 DEF NoneForgotten, Clear, Busy
<1>12. FileAnew'  BY <1>2 DEF FileAnew, Clear, Busy, UneventfulExportIsExact, NoReport
<1> QED  BY <1>6, <1>7, <1>8, <1>9, <1>10, <1>11, <1>12 DEF ExportInv

LEMMA DeleteKeeps == ASSUME ExportInv, NEW r \in Mortal, Delete(r) PROVE ExportInv'
<1>0. /\ TypedDisk /\ TypedRun /\ TypedWorkers /\ TasksApart /\ SessionThere
      /\ OnTheWay /\ GivenUpStays /\ NoneForgotten /\ FileAnew
  BY DEF ExportInv
<1>1. /\ UNCHANGED <<session, file, pc, flags, tasks, hand, frames, opened,
                     hasFailures, failedIds, interrupted, report, faults,
                     inherited, mine>>
      /\ live' = live \ {r}
  BY DEF Delete, disk, workers, memory, history
<1>2. TypedDisk'  BY <1>0, <1>1 DEF TypedDisk
<1>3. TypedRun'  BY <1>0, <1>1 DEF TypedRun
<1>4. TypedWorkers'  BY <1>0, <1>1 DEF TypedWorkers
<1>5. TasksApart'  BY <1>0, <1>1 DEF TasksApart, WholeTask, ToFetch
<1>6. SessionThere'  BY <1>0, <1>1 DEF SessionThere
<1>7. OnTheWay'  BY <1>0, <1>1 DEF OnTheWay, Written
<1>8. GivenUpStays'
  BY <1>0, <1>1 DEF GivenUpStays, ToFetch, FailedCanBeResumed, Remaining
<1>9. NoneForgotten'  BY <1>0, <1>1 DEF NoneForgotten, Clear, InRun, ToFetch
<1>10. FileAnew'
  <2>1. UneventfulExportIsExact'  BY <1>0, <1>1 DEF FileAnew, UneventfulExportIsExact
  <2> QED  BY <1>0, <1>1, <2>1
           DEF FileAnew, Clear, Delivered, InRun, ToFetch, FileIsMine, Written
<1> QED  BY <1>2, <1>3, <1>4, <1>5, <1>6, <1>7, <1>8, <1>9, <1>10 DEF ExportInv

LEMMA StutterKeeps == ASSUME ExportInv, UNCHANGED vars PROVE ExportInv'
<1>0. /\ TypedDisk /\ TypedRun /\ TypedWorkers /\ TasksApart /\ SessionThere
      /\ OnTheWay /\ GivenUpStays /\ NoneForgotten /\ FileAnew
  BY DEF ExportInv
<1>1. UNCHANGED <<session, file, live, pc, flags, tasks, hand, frames, opened,
                  hasFailures, failedIds, interrupted, report, faults,
                  inherited, mine>>
  BY DEF vars, disk, workers, memory, history
<1>2. TypedDisk'  BY <1>0, <1>1 DEF TypedDisk
<1>3. TypedRun'  BY <1>0, <1>1 DEF TypedRun
<1>4. TypedWorkers'  BY <1>0, <1>1 DEF TypedWorkers
<1>5. TasksApart'  BY <1>0, <1>1 DEF TasksApart, WholeTask, ToFetch
<1>6. SessionThere'  BY <1>0, <1>1 DEF SessionThere
<1>7. OnTheWay'  BY <1>0, <1>1 DEF OnTheWay, Written
<1>8. GivenUpStays'
  BY <1>0, <1>1 DEF GivenUpStays, ToFetch, FailedCanBeResumed, Remaining
<1>9. NoneForgotten'  BY <1>0, <1>1 DEF NoneForgotten, Clear, InRun, ToFetch
<1>10. FileAnew'
  <2>1. UneventfulExportIsExact'  BY <1>0, <1>1 DEF FileAnew, UneventfulExportIsExact
  <2> QED  BY <1>0, <1>1, <2>1
           DEF FileAnew, Clear, Delivered, InRun, ToFetch, FileIsMine, Written
<1> QED  BY <1>2, <1>3, <1>4, <1>5, <1>6, <1>7, <1>8, <1>9, <1>10 DEF ExportInv
-----------------------------------------------------------------------------
(* The invariant holds of every export, however often it is cut short:     *)
(* a record is asked for, fetched, recorded and written in one place at a  *)
(* time (_process_export_batches, _resume_existing_session).               *)
THEOREM RecordsKeepTheirPlace == Spec => []ExportInv
<1>1. ASSUME ExportInv, [Next]_vars PROVE ExportInv'
  <2>1. CASE NewExport  BY <1>1, <2>1, NewExportStep
  <2>2. CASE ResumeExport  BY <1>1, <2>2, ResumeExportStep
  <2>3. CASE Worker  BY <1>1, <2>3, WorkerKeeps DEF Worker
  <2>4. CASE Main
    BY <1>1, <2>4, CollectKeeps, RecordKeeps, DeliverKeeps, DeliveryFailsKeeps,
       WriteKeeps, DrainedKeeps, CleanUpKeeps DEF Main
  <2>5. CASE Interrupt  BY <1>1, <2>5, InterruptKeeps
  <2>6. CASE Crash  BY <1>1, <2>6, CrashKeeps
  <2>7. CASE \E r \in Mortal : Delete(r)  BY <1>1, <2>7, DeleteKeeps
  <2>8. CASE UNCHANGED vars  BY <1>1, <2>8, StutterKeeps
  <2> QED  BY <1>1, <2>1, <2>2, <2>3, <2>4, <2>5, <2>6, <2>7, <2>8 DEF Next
<1> QED  BY <1>1, ExportStarts, PTL DEF Spec

(* The output file: no session writes a record twice, and an export that   *)
(* nothing disturbed leaves exactly the records it listed.  (A session     *)
(* resumed onto the file of another may still repeat records of that one.) *)
THEOREM FilesAreExact == Spec => []FileIsExact
<1>1. ExportInv => FileIsExact
  BY TypeParts DEF ExportInv, OnTheWay, FileAnew, FileIsExact, SessionNeverRepeats
<1> QED  BY <1>1, RecordsKeepTheirPlace, PTL

(* After a failure the session is kept, and the records given up on are    *)
(* still to be asked for, but for those an earlier session's               *)
(* completed_ids.txt already named when this session began                 *)
(* (_resume_existing_session subtracts them too).                          *)
THEOREM FailuresCanBeResumed == Spec => []FailedCanBeResumed
<1>1. ExportInv => FailedCanBeResumed  BY DEF ExportInv, GivenUpStays
<1> QED  BY <1>1, RecordsKeepTheirPlace, PTL

(* Success that no one interrupted means that every record of the session  *)
(* which stayed on the server was fetched (has_failures is complete).      *)
THEOREM SuccessesAreComplete == Spec => []SuccessHasFetchedAll
<1>1. ASSUME ExportInv PROVE SuccessHasFetchedAll
  <2> SUFFICES ASSUME pc = "clean", ~hasFailures, ~interrupted,
                      NEW r \in session.all \ Mortal
               PROVE  r \in session.done
    BY DEF SuccessHasFetchedAll, Succeeded
  <2>1. tasks = {}  BY <1>1 DEF ExportInv, TasksApart
  <2> QED  BY <1>1, <2>1 DEF ExportInv, NoneForgotten, Clear, InRun
<1> QED  BY <1>1, RecordsKeepTheirPlace, PTL
=============================================================================
