-------------------------- MODULE StreamPass_proofs --------------------------
(***************************************************************************)
(* Theorems about Pass 1 over its thread pool, in either form: a pass that *)
(* submits batches (ThreadedPass) or that reads them off a file            *)
(* (StreamPass).  They hold for any batches, batch sizes, number of        *)
(* threads and file, and for every end its workers and its user may give   *)
(* it.                                                                     *)
(*                                                                         *)
(* The argument is about where a row is: not submitted yet, in the queue,  *)
(* in a running task, in a result nobody has read, or settled (in the map, *)
(* in the fail file, or dropped).  PassInv says that every row is in one   *)
(* of these places and in no two, and what is true of the server there.    *)
(***************************************************************************)
EXTENDS StreamPass, Slicing_proofs

(***************************************************************************)
(* The places of a row.                                                    *)
(***************************************************************************)
ToCome ==
    {r \in Row : \/ /\ pc = "submit"
                    /\ \/ r \in Rows(parts)
                       \/ \E i \in DOMAIN Batches : i >= next /\ r \in Batches[i]
                 \/ /\ pc = "stream" /\ r \notin Malformed
                    /\ \E k \in DOMAIN File : k >= next /\ r = File[k]}
Queued == Rows(queue)
Running == UNION running
Failed == {r \in Row : failFile[r] > 0}
Ahead == ToCome \cup Queued
Settled == (made \cup Failed) \cup dropped
Everywhere == ToCome \cup (Queued \cup (Running \cup (Unread \cup Settled)))

Pooled == {"submit", "collect", "shutdown", "returned"}
Streamed == {"stream", "wait", "gather", "streamed"}

Separate(S) == \A i, j \in DOMAIN S : i # j => S[i] \cap S[j] = {}

(***************************************************************************)
(* The inductive invariant.                                                *)
(***************************************************************************)
(* Types, and what keeps them: the tasks being run are finitely many.      *)
Typed ==
    /\ TypeOK
    /\ IsFiniteSet(running)
    /\ pc = "submit" => next <= Total + 1

(* A row is in one place at most, and in one piece of it.                  *)
Apart ==
    /\ ToCome \cap (Queued \cup Running \cup Unread \cup Settled) = {}
    /\ Queued \cap (Running \cup Unread \cup Settled) = {}
    /\ Running \cap (Unread \cup Settled) = {}
    /\ Unread \cap Settled = {}
    /\ made \cap Failed = {} /\ (made \cup Failed) \cap dropped = {}

InPieces ==
    /\ Separate(queue)
    /\ pc = "submit" =>
          /\ Separate(parts)
          /\ \A i \in DOMAIN Batches : i >= next => Batches[i] \cap Rows(parts) = {}
    /\ \A s, t \in running : s # t => s \cap t = {}
    /\ \A f, g \in finished : f # g => f.rows \cap g.rows = {}

(* ... and in one at least, until the pass is left early.                  *)
Nowhere ==
    /\ pc \in Pooled => Everywhere = Members
    /\ pc \in Streamed => Everywhere = InFile \ Malformed

(* What the books and the unread results say of the server.  A call given  *)
(* up on stores its row, is still to store it, or neither: what is left of *)
(* the stores when these calls are taken out is what workers reported.     *)
Reported(r) == stored[r] + late[r] - lost[r]

Faithful(result) ==
    ~result.raised =>
        /\ result.made \cup result.failed = result.rows
        /\ \A r \in result.made : Reported(r) = 1
        /\ \A r \in result.failed : Reported(r) = 0

Told ==
    /\ \A r \in Row : Reported(r) \in 0 .. 1 /\ late[r] <= lost[r] /\ failFile[r] <= 1
    /\ \A r \in made : Reported(r) = 1
    /\ \A r \in Row : Reported(r) = 1 => r \in made \cup dropped \cup Unread
    /\ \A result \in finished : Faithful(result)

(* A row has been handed to one worker at most, and to none yet while it   *)
(* is still to be submitted or to be started.                              *)
HandedOnce ==
    /\ \A r \in Row : handed[r] <= 1
    /\ \A r \in Ahead : handed[r] = 0

(* What each phase of the main thread has already ruled out.               *)
Emptied == queue = << >> /\ running = {} /\ finished = {}

Phased ==
    /\ pc \in {"submit", "collect"} => ~abort /\ dropped = {} /\ cause = "none"
    /\ pc = "shutdown" /\ ~abort => Emptied /\ dropped = {}
    /\ pc = "shutdown" => (abort <=> cause # "none")
    /\ pc = "returned" /\ ~abort => dropped = {}
    /\ pc \in {"returned", "raised"} => Emptied
    /\ pc \in {"gather", "streamed"} => queue = << >> /\ running = {}
    /\ pc = "streamed" => finished = {}

(* The counters are what the outcomes collected make them.                 *)
Counted ==
    /\ streak <= Len(outcomes)
    /\ \A i \in DOMAIN outcomes : i > Len(outcomes) - streak => ~outcomes[i]
    /\ successes = 0 => NoneSucceeded
    /\ pc = "shutdown" /\ cause = "failures" => LastFailed
    /\ AbortHasCause

PassInv == /\ Typed /\ Apart /\ InPieces /\ Nowhere
           /\ Told /\ HandedOnce /\ Phased /\ Counted
-----------------------------------------------------------------------------
(***************************************************************************)
(* Sequences of pieces.                                                    *)
(***************************************************************************)
LEMMA RowsAppended ==
    ASSUME NEW S \in Seq(SUBSET Row), NEW e \in SUBSET Row
    PROVE  /\ Append(S, e) \in Seq(SUBSET Row)
           /\ Rows(Append(S, e)) = Rows(S) \cup e
           /\ Separate(S) /\ e \cap Rows(S) = {} => Separate(Append(S, e))
<1> DEFINE A == Append(S, e)
<1>1. /\ A \in Seq(SUBSET Row) /\ Len(A) = Len(S) + 1 /\ Len(S) \in Nat
      /\ DOMAIN A = 1 .. Len(A) /\ DOMAIN S = 1 .. Len(S)
      /\ \A i \in DOMAIN S : A[i] = S[i]
      /\ A[Len(S) + 1] = e
  OBVIOUS
<1> HIDE DEF A
<1>2. \A i \in DOMAIN A : i \in DOMAIN S \/ i = Len(S) + 1  BY <1>1
<1>3. Rows(A) = Rows(S) \cup e  BY <1>1, <1>2 DEF Rows
<1>4. ASSUME Separate(S), e \cap Rows(S) = {} PROVE Separate(A)
  <2>1. \A i \in DOMAIN S : S[i] \cap e = {}  BY <1>4 DEF Rows
  <2> QED  BY <1>1, <1>2, <1>4, <2>1 DEF Separate
<1> QED  BY <1>1, <1>3, <1>4 DEF A

LEMMA RowsBeheaded ==
    ASSUME NEW S \in Seq(SUBSET Row), S # << >>
    PROVE  /\ Head(S) \in SUBSET Row /\ Tail(S) \in Seq(SUBSET Row)
           /\ Rows(S) = Head(S) \cup Rows(Tail(S))
           /\ Separate(S) => Separate(Tail(S)) /\ Head(S) \cap Rows(Tail(S)) = {}
<1> DEFINE T == Tail(S)
<1>1. /\ Head(S) \in SUBSET Row /\ T \in Seq(SUBSET Row) /\ Head(S) = S[1]
      /\ Len(S) \in Nat \ {0} /\ Len(T) = Len(S) - 1
      /\ DOMAIN S = 1 .. Len(S) /\ DOMAIN T = 1 .. Len(T)
      /\ \A i \in DOMAIN T : T[i] = S[i + 1]
  OBVIOUS
<1> HIDE DEF T
<1>2. /\ 1 \in DOMAIN S
      /\ \A i \in DOMAIN T : i + 1 \in DOMAIN S /\ i + 1 # 1
      /\ \A i \in DOMAIN S : i = 1 \/ i - 1 \in DOMAIN T
      /\ \A i \in DOMAIN S : i # 1 => S[i] = T[i - 1]
  BY <1>1
<1>3. Rows(S) = S[1] \cup Rows(T)  BY <1>1, <1>2 DEF Rows
<1>4. ASSUME Separate(S) PROVE Separate(T) /\ S[1] \cap Rows(T) = {}
  <2>1. \A i, j \in DOMAIN T : i # j => i + 1 # j + 1  BY <1>1
  <2>2. Separate(T)  BY <1>1, <1>2, <1>4, <2>1 DEF Separate
  <2>3. \A i \in DOMAIN T : S[1] \cap T[i] = {}  BY <1>1, <1>2, <1>4 DEF Separate
  <2> QED  BY <2>2, <2>3 DEF Rows
<1> QED  BY <1>1, <1>3, <1>4 DEF T

LEMMA NoRows == Rows(<< >>) = {} /\ Separate(<< >>) /\ << >> \in Seq(SUBSET Row)
BY DEF Rows, Separate

LEMMA OnePiece ==
    ASSUME NEW S \in SUBSET Row
    PROVE  <<S>> \in Seq(SUBSET Row) /\ Rows(<<S>>) = S /\ Separate(<<S>>)
BY DEF Rows, Separate

(***************************************************************************)
(* A batch that is split goes on whole: in the sub-batches of the throttle *)
(* is every row of the batch, once.                                        *)
(***************************************************************************)
LEMMA SubBatches ==
    ASSUME NEW S \in SUBSET Row, NEW n \in Nat \ {0}
    PROVE  /\ Slices(S, n) \in Seq(SUBSET Row)
           /\ Rows(Slices(S, n)) = S
           /\ Separate(Slices(S, n))
<1> DEFINE m == SliceCount(S, n)
<1>1. S \in SUBSET Nat /\ IsFiniteSet(S)  BY RowAssumption, FS_Subset
<1>2. /\ m \in Nat
      /\ \A i \in Int : Slice(S, n, i) \subseteq S
      /\ \A r \in S : \E i \in 1 .. m : r \in Slice(S, n, i)
      /\ \A i, j \in 1 .. m : i # j => Slice(S, n, i) \cap Slice(S, n, j) = {}
  BY <1>1, SlicesPartition
<1> HIDE DEF m
<1>3. /\ Slices(S, n) \in Seq(SUBSET Row) /\ DOMAIN Slices(S, n) = 1 .. m
      /\ \A i \in 1 .. m : Slices(S, n)[i] = Slice(S, n, i)
  BY <1>2 DEF Slices, m
<1> QED  BY <1>2, <1>3 DEF Rows, Separate
-----------------------------------------------------------------------------
(***************************************************************************)
(* The generator of a streamed pass always moves on, and stays in the      *)
(* file.                                                                   *)
(***************************************************************************)
LEMMA NotFullWhenEmpty == \A r \in Row : ~Full({}, r)
<1>1. Cardinality({}) = 0  BY FS_EmptySet
<1>2. ~(Cardinality({}) >= BatchSize)  BY <1>1, FileAssumption
<1> QED  BY <1>2 DEF Full

LEMMA BatchEndInFile ==
    ASSUME NEW i \in 1 .. Len(File)
    PROVE  BatchEnd(i) \in i .. Len(File)
<1> DEFINE Ends == {j \in i .. Len(File) :
             \A k \in i .. j : File[k] \in Malformed \/ ~Full(Lines(i, k - 1), File[k])}
<1>1. Len(File) \in Nat /\ File[i] \in Row  BY FileAssumption
<1>2. Lines(i, i - 1) = {}  BY DEF Lines
<1>3. i \in Ends
  <2>1. ~Full(Lines(i, i - 1), File[i])  BY <1>1, <1>2, NotFullWhenEmpty
  <2>2. \A k \in i .. i : k = i  OBVIOUS
  <2> QED  BY <1>1, <2>1, <2>2
<1>4. Ends \in SUBSET (0 .. Len(File)) /\ Ends # {} /\ Ends \subseteq i .. Len(File)
  BY <1>1, <1>3
<1> HIDE DEF Ends
<1>5. \E x \in Ends : \A y \in Ends : y <= x  BY <1>1, <1>4, GreatestExists
<1>6. \E x \in Ends : \A y \in Ends : x >= y
  <2>1. \A x, y \in Ends : x \in Int /\ y \in Int  BY <1>4
  <2> QED  BY <1>5, <2>1
<1>7. Max(Ends) \in Ends  BY <1>6 DEF Max
<1> QED  BY <1>4, <1>7 DEF BatchEnd, Ends
-----------------------------------------------------------------------------
(***************************************************************************)
(* Types.                                                                  *)
(***************************************************************************)
LEMMA ResultType ==
    ASSUME NEW R \in SUBSET Row, NEW ok \in SUBSET R, NEW b \in BOOLEAN
    PROVE  /\ [rows |-> R, made |-> ok, failed |-> R \ ok, success |-> b,
               raised |-> FALSE] \in Result
           /\ [rows |-> R, made |-> {}, failed |-> {}, success |-> FALSE,
               raised |-> TRUE] \in Result
BY DEF Result

LEMMA SucceededType ==
    ASSUME TypeOK, NEW ok, NEW bad
    PROVE  Succeeded(ok, bad) \in BOOLEAN
BY KindsAssumption DEF TypeOK, Succeeded

LEMMA InitTyped == PassInit => Typed
<1> SUFFICES ASSUME PassInit PROVE Typed  OBVIOUS
<1>1. IsFiniteSet({}) /\ Cardinality({}) = 0  BY FS_EmptySet
<1>2. Total \in Nat  BY BatchesAssumption DEF Total
<1>3. << >> \in Seq(SUBSET Row) /\ << >> \in Seq(BOOLEAN)  OBVIOUS
<1>4. /\ pc \in {"submit", "stream"} /\ kind \in Kinds /\ next = 1
      /\ parts = << >> /\ queue = << >> /\ running = {} /\ finished = {}
      /\ dropped = {} /\ made = {} /\ streak = 0 /\ successes = 0
      /\ abort = FALSE /\ cause = "none" /\ outcomes = << >>
      /\ failFile = [r \in Row |-> 0] /\ stored = [r \in Row |-> 0]
      /\ late = [r \in Row |-> 0] /\ lost = [r \in Row |-> 0]
      /\ handed = [r \in Row |-> 0]
  BY DEF PassInit, Init, StreamInit
<1>5. /\ failFile \in [Row -> Nat] /\ stored \in [Row -> Nat] /\ late \in [Row -> Nat]
      /\ lost \in [Row -> Nat] /\ handed \in [Row -> Nat]
  BY <1>4
<1>6. IsFiniteSet(running) /\ Cardinality(running) <= MaxConnection
  BY <1>1, <1>4, PoolAssumption
<1>7. parts \in Seq(SUBSET Row) /\ queue \in Seq(SUBSET Row) /\ outcomes \in Seq(BOOLEAN)
  BY <1>3, <1>4
<1>8. pc # "collect" /\ (pc = "submit" => next <= Total + 1)  BY <1>2, <1>4
<1>9. next \in Nat \ {0} /\ streak \in Nat /\ successes \in Nat  BY <1>4
<1>10. abort \in BOOLEAN /\ pc \in {"submit", "stream"} /\ cause = "none"  BY <1>4
<1>11. /\ running \subseteq SUBSET Row /\ finished \subseteq Result
       /\ dropped \subseteq Row /\ made \subseteq Row
  BY <1>4, Zenon
<1>12. TypeOK
  BY <1>4, <1>5, <1>6, <1>7, <1>8, <1>9, <1>10, <1>11, Zenon DEF TypeOK
<1> QED  BY <1>6, <1>8, <1>12 DEF Typed

LEMMA SubmitTyped ==
    ASSUME Typed, TakeBatch \/ Submit \/ AllSubmitted \/ InterruptSubmit
    PROVE  Typed'
<1>1. Total \in Nat  BY BatchesAssumption DEF Total
<1>2. CASE TakeBatch
  <2>1. next \in DOMAIN Batches /\ next \in Nat
    BY <1>1, <1>2, BatchesAssumption DEF TakeBatch, Typed, TypeOK, Total
  <2>2. Batches[next] \in SUBSET Row  BY <2>1, BatchesAssumption
  <2>3. parts' \in Seq(SUBSET Row)
    BY <1>2, <2>2, OnePiece, SubBatches, PoolAssumption DEF TakeBatch
  <2> QED
    BY <1>1, <1>2, <2>3 DEF TakeBatch, Typed, TypeOK, pool, books, server, history
<1>3. CASE Submit
  BY <1>3, RowsBeheaded, RowsAppended
  DEF Submit, Typed, TypeOK, pool, books, server, history
<1>4. CASE AllSubmitted
  BY <1>1, <1>4 DEF AllSubmitted, Typed, TypeOK, pool, books, server, history
<1>5. CASE InterruptSubmit
  BY <1>5 DEF InterruptSubmit, Typed, TypeOK, Left, pool, books, server, history
<1> QED  BY <1>2, <1>3, <1>4, <1>5

LEMMA StartTyped == ASSUME Typed, Start PROVE Typed'
<1>1. Head(queue) \in SUBSET Row /\ Tail(queue) \in Seq(SUBSET Row)
  BY RowsBeheaded DEF Start, Typed, TypeOK
<1>2. /\ IsFiniteSet(running') /\ Cardinality(running') <= Cardinality(running) + 1
      /\ Cardinality(running) \in Nat /\ Cardinality(running') \in Nat
  <2>1. IsFiniteSet(running) /\ running' = running \cup {Head(queue)}  BY DEF Start, Typed
  <2>2. /\ IsFiniteSet(running')
        /\ Cardinality(running') = IF Head(queue) \in running THEN Cardinality(running)
                                                            ELSE Cardinality(running) + 1
    BY <2>1, FS_AddElement
  <2>3. Cardinality(running) \in Nat /\ Cardinality(running') \in Nat
    BY <2>1, <2>2, FS_CardinalityType
  <2> QED  BY <2>2, <2>3
<1>3. Cardinality(running') <= MaxConnection
  BY <1>2, PoolAssumption DEF Start, ThreadFree
<1>4. handed' \in [Row -> Nat]
  <2>1. \A r \in Row : handed[r] \in Nat  BY DEF Typed, TypeOK
  <2> QED  BY <2>1 DEF Start
<1> QED  BY <1>1, <1>2, <1>3, <1>4 DEF Start, Typed, TypeOK, books, server

LEMMA WorkTyped ==
    ASSUME Typed, NEW task \in running, NEW ok \in SUBSET task,
           Finish(task, ok) \/ Raise(task, ok)
    PROVE  Typed'
<1>1. task \in SUBSET Row /\ ok \in SUBSET Row  BY DEF Typed, TypeOK
<1>2. IsFiniteSet(running') /\ Cardinality(running') <= MaxConnection
  <2>1. /\ IsFiniteSet(running') /\ Cardinality(running') = Cardinality(running) - 1
        /\ Cardinality(running) \in Nat
    BY FS_RemoveElement, FS_CardinalityType DEF Finish, Raise, Typed
  <2> QED  BY <2>1, PoolAssumption DEF Typed, TypeOK
<1>3. finished' \subseteq Result
  <2>1. Succeeded(ok, task \ ok) \in BOOLEAN  BY SucceededType DEF Typed
  <2>2. /\ [rows |-> task, made |-> ok, failed |-> task \ ok,
            success |-> Succeeded(ok, task \ ok), raised |-> FALSE] \in Result
        /\ [rows |-> task, made |-> {}, failed |-> {}, success |-> FALSE,
            raised |-> TRUE] \in Result
    BY <1>1, <2>1, ResultType
  <2> QED  BY <2>2 DEF Finish, Raise, Typed, TypeOK
<1>4. stored' \in [Row -> Nat]
  <2>1. \A r \in Row : stored[r] \in Nat  BY DEF Typed, TypeOK
  <2>2. stored' = Stored(ok)  BY DEF Finish, Raise
  <2> QED  BY <2>1, <2>2 DEF Stored
<1> QED
  BY <1>2, <1>3, <1>4 DEF Finish, Raise, Typed, TypeOK, pool, books, server, history

LEMMA NetworkTyped == ASSUME Typed, Network PROVE Typed'
<1>1. \A r \in Row : stored[r] \in Nat /\ late[r] \in Nat /\ lost[r] \in Nat
  BY DEF Typed, TypeOK
<1>2. stored' \in [Row -> Nat] /\ late' \in [Row -> Nat] /\ lost' \in [Row -> Nat]
  <2>1. ASSUME NEW task \in running, NEW r \in task, Lose(task, r)
        PROVE  stored' \in [Row -> Nat] /\ late' \in [Row -> Nat] /\ lost' \in [Row -> Nat]
    BY <1>1, <2>1 DEF Lose, Typed, TypeOK
  <2>2. ASSUME NEW r \in Row, LateStore(r)
        PROVE  stored' \in [Row -> Nat] /\ late' \in [Row -> Nat] /\ lost' \in [Row -> Nat]
    BY <1>1, <2>2 DEF LateStore, Typed, TypeOK
  <2> QED  BY <2>1, <2>2 DEF Network
<1>3. UNCHANGED <<kind, pc, next, parts, pool, dropped, books, abort, history>>
  BY DEF Network, Lose, LateStore
<1> QED  BY <1>2, <1>3 DEF Typed, TypeOK, pool, books, history

LEMMA CollectTyped ==
    ASSUME Typed, NEW result \in finished, Collect(result) \/ CollectRaised(result)
    PROVE  Typed'
<1>1. result \in Result  BY DEF Typed, TypeOK
<1>2. CASE Collect(result)
  <2>1. made' \subseteq Row /\ failFile' \in [Row -> Nat]
    <3>1. \A r \in Row : failFile[r] \in Nat  BY DEF Typed, TypeOK
    <3> QED  BY <1>1, <1>2, <3>1 DEF Collect, Gained, Typed, TypeOK, Result
  <2>2. streak' \in Nat /\ successes' \in Nat
    BY <1>2 DEF Collect, Streak, Typed, TypeOK
  <2>3. outcomes' \in Seq(BOOLEAN)
    BY <1>1, <1>2 DEF Collect, Typed, TypeOK, Result
  <2>4. /\ abort' \in BOOLEAN /\ pc' \in {"collect", "shutdown"}
        /\ cause' \in {"none", "failures", "raised", "interrupt", "unreadable"}
    BY <1>2 DEF Collect, Typed, TypeOK
  <2> QED
    BY <1>2, <2>1, <2>2, <2>3, <2>4 DEF Collect, Typed, TypeOK, server
<1>3. CASE CollectRaised(result)
  BY <1>1, <1>3 DEF CollectRaised, Typed, TypeOK, Result, books, server
<1> QED  BY <1>2, <1>3

LEMMA LeaveTyped ==
    ASSUME Typed, Interrupt \/ CollectEnds \/ Cancel \/ Exit
    PROVE  Typed'
<1>1. Rows(queue) \subseteq Row  BY DEF Typed, TypeOK, Rows
<1>2. UNION {result.rows : result \in finished} \subseteq Row
  BY DEF Typed, TypeOK, Result
<1>3. CASE Interrupt
  BY <1>3 DEF Interrupt, Typed, TypeOK, pool, books, server, history
<1>4. CASE CollectEnds
  BY <1>4 DEF CollectEnds, Typed, TypeOK, pool, books, server, history
<1>5. CASE Cancel
  BY <1>1, <1>5, NoRows DEF Cancel, Cancelled, Typed, TypeOK, pool, books, server, history
<1>6. CASE Exit
  BY <1>2, <1>6 DEF Exit, Typed, TypeOK, Left, pool, books, server, history
<1> QED  BY <1>3, <1>4, <1>5, <1>6

LEMMA StreamTyped ==
    ASSUME Typed, StreamMain \/ Unreadable \/ InterruptStream
    PROVE  Typed'
<1>1. CASE ReadBatch
  <2>1. next \in 1 .. Len(File) /\ Len(File) \in Nat
    BY <1>1, FileAssumption DEF ReadBatch, Typed, TypeOK
  <2>2. BatchEnd(next) \in Nat  BY <2>1, BatchEndInFile
  <2>3. Lines(next, BatchEnd(next)) \in SUBSET Row
    <3>1. BatchEnd(next) \in next .. Len(File)  BY <2>1, BatchEndInFile
    <3>2. \A k \in next .. BatchEnd(next) : File[k] \in Row
      BY <2>1, <3>1, FileAssumption
    <3> QED  BY <3>2 DEF Lines
  <2>4. queue' \in Seq(SUBSET Row)
    BY <1>1, <2>3, RowsAppended DEF ReadBatch, Typed, TypeOK
  <2> QED
    BY <1>1, <2>2, <2>4 DEF ReadBatch, Typed, TypeOK, books, server, history
<1>2. ASSUME NEW result \in finished, Gather(result) PROVE Typed'
  <2>1. result \in Result  BY DEF Typed, TypeOK
  <2>2. made' \subseteq Row /\ dropped' \subseteq Row
    BY <1>2, <2>1 DEF Gather, Typed, TypeOK, Result
  <2>3. failFile' \in [Row -> Nat]
    <3>1. failFile \in [Row -> Nat] /\ \A r \in Row : failFile[r] \in Nat
      BY DEF Typed, TypeOK
    <3> QED  BY <1>2, <3>1 DEF Gather
  <2> QED  BY <1>2, <2>2, <2>3 DEF Gather, Typed, TypeOK, server, history
<1>3. CASE EndOfFile \/ Waited \/ Gathered
  BY <1>3 DEF EndOfFile, Waited, Gathered, Typed, TypeOK, Left, pool, books, server, history
<1>4. CASE Unreadable \/ InterruptStream
  BY <1>4 DEF Unreadable, InterruptStream, Typed, TypeOK, Left, pool, books, server, history
<1> QED  BY <1>1, <1>2, <1>3, <1>4 DEF StreamMain

LEMMA TypedStep == Typed /\ [PassNext]_vars => Typed'
<1> SUFFICES ASSUME Typed, [PassNext]_vars PROVE Typed'  OBVIOUS
<1>1. CASE UNCHANGED vars
  BY <1>1 DEF Typed, TypeOK, vars, pool, books, server, history
<1>2. CASE Idle
  BY <1>2 DEF Idle, Typed, TypeOK, vars, pool, books, server, history
<1> QED
  BY <1>1, <1>2, SubmitTyped, StartTyped, WorkTyped, NetworkTyped, CollectTyped, LeaveTyped,
     StreamTyped
  DEF PassNext, Next, Main, Worker
-----------------------------------------------------------------------------
(***************************************************************************)
(* Where the rows are: each step moves rows from one place to another, and *)
(* loses and copies none.                                                  *)
(***************************************************************************)
Placed == Apart /\ InPieces /\ Nowhere

LEMMA Unmoved ==
    /\ UNCHANGED queue => UNCHANGED Queued
    /\ UNCHANGED running => UNCHANGED Running
    /\ UNCHANGED finished => UNCHANGED Unread
    /\ UNCHANGED failFile => UNCHANGED Failed
    /\ UNCHANGED <<made, failFile, dropped>> => UNCHANGED Settled
    /\ UNCHANGED <<pc, next, parts>> => UNCHANGED ToCome
    /\ pc' \notin {"submit", "stream"} => ToCome' = {}
BY DEF Queued, Running, Unread, Failed, Settled, ToCome, Rows

LEMMA InitPlaced == PassInit => Placed
<1> SUFFICES ASSUME PassInit PROVE Placed  OBVIOUS
<1>1. /\ queue = << >> /\ running = {} /\ finished = {} /\ parts = << >>
      /\ dropped = {} /\ made = {} /\ failFile = [r \in Row |-> 0] /\ next = 1
  BY DEF PassInit, Init, StreamInit
<1>2. Queued = {} /\ Separate(queue) /\ Rows(parts) = {} /\ Separate(parts)
  BY <1>1, NoRows DEF Queued
<1>3. Running = {} /\ Unread = {}  BY <1>1 DEF Running, Unread
<1>4. Failed = {} /\ Settled = {}  BY <1>1 DEF Failed, Settled
<1>5. Apart  BY <1>1, <1>2, <1>3, <1>4 DEF Apart
<1>6. InPieces  BY <1>1, <1>2 DEF InPieces
<1>7. Everywhere = ToCome  BY <1>2, <1>3, <1>4 DEF Everywhere
<1>8. CASE Init
  <2>1. \A i \in DOMAIN Batches : i >= 1 /\ Batches[i] \in SUBSET Row
    BY BatchesAssumption
  <2>2. pc = "submit"  BY <1>8 DEF Init
  <2>3. ToCome = Members  BY <1>1, <1>2, <2>1, <2>2 DEF ToCome, Members
  <2> QED  BY <1>5, <1>6, <1>7, <2>2, <2>3 DEF Placed, Nowhere, Pooled, Streamed
<1>9. CASE StreamInit
  <2>1. \A k \in DOMAIN File : k >= 1 /\ File[k] \in Row  BY FileAssumption
  <2>2. pc = "stream"  BY <1>9 DEF StreamInit
  <2>3. ToCome = InFile \ Malformed  BY <1>1, <2>1, <2>2 DEF ToCome, InFile
  <2> QED  BY <1>5, <1>6, <1>7, <2>2, <2>3 DEF Placed, Nowhere, Pooled, Streamed
<1> QED  BY <1>8, <1>9 DEF PassInit

LEMMA TakeBatchPlaced ==
    ASSUME Typed, Placed, TakeBatch PROVE Placed' /\ UNCHANGED Ahead
<1>1. next \in DOMAIN Batches /\ next \in Nat /\ pc = "submit" /\ parts = << >>
  BY BatchesAssumption DEF TakeBatch, Typed, TypeOK, Total
<1>2. Batches[next] \in SUBSET Row  BY <1>1, BatchesAssumption
<1>3. Rows(parts') = Batches[next] /\ Separate(parts')
  BY <1>2, OnePiece, SubBatches, PoolAssumption DEF TakeBatch
<1>4. /\ UNCHANGED <<Queued, Running, Unread, Settled, Failed, made, dropped, pc>>
      /\ UNCHANGED <<queue, running, finished>>
      /\ next' = next + 1
  BY Unmoved DEF TakeBatch, pool, books
<1>5. UNCHANGED ToCome
  <2>1. Rows(parts) = {}  BY <1>1, NoRows
  <2>2. \A i \in DOMAIN Batches : i >= next <=> i = next \/ i >= next + 1
    BY <1>1, BatchesAssumption
  <2> QED  BY <1>1, <1>3, <1>4, <2>1, <2>2 DEF ToCome
<1>6. InPieces'
  <2>1. \A i \in DOMAIN Batches : i >= next + 1 => i # next
    BY <1>1, BatchesAssumption
  <2>2. \A i \in DOMAIN Batches : i >= next + 1 => Batches[i] \cap Batches[next] = {}
    BY <1>1, <2>1, BatchesAssumption
  <2> QED  BY <1>1, <1>3, <1>4, <2>2 DEF Placed, InPieces
<1> QED  BY <1>4, <1>5, <1>6 DEF Placed, Apart, Nowhere, Everywhere, Ahead

LEMMA SubmitPlaced ==
    ASSUME Typed, Placed, Submit PROVE Placed' /\ UNCHANGED Ahead
<1> DEFINE h == Head(parts)
<1>1. /\ parts \in Seq(SUBSET Row) /\ parts # << >> /\ queue \in Seq(SUBSET Row)
      /\ pc = "submit" /\ queue' = Append(queue, h) /\ parts' = Tail(parts)
  BY DEF Submit, Typed, TypeOK
<1>2. /\ UNCHANGED <<Running, Unread, Settled, Failed, made, dropped, pc, next>>
      /\ UNCHANGED <<running, finished>>
  BY Unmoved DEF Submit, books
<1>3. /\ h \in SUBSET Row /\ Rows(parts) = h \cup Rows(parts') /\ Separate(parts')
      /\ h \cap Rows(parts') = {}
  BY <1>1, RowsBeheaded DEF Placed, InPieces
<1> HIDE DEF h
<1>4. h \subseteq ToCome /\ ToCome = h \cup ToCome'
  BY <1>1, <1>2, <1>3 DEF ToCome
<1>5. h \cap ToCome' = {}
  <2>1. \A i \in DOMAIN Batches : i >= next => Batches[i] \cap h = {}
    BY <1>1, <1>3 DEF Placed, InPieces
  <2> QED  BY <1>1, <1>2, <1>3, <2>1 DEF ToCome
<1>6. Queued' = Queued \cup h  BY <1>1, <1>3, RowsAppended DEF Queued
<1>7. Separate(queue')
  <2>1. h \cap Rows(queue) = {}  BY <1>4 DEF Placed, Apart, Queued
  <2> QED  BY <1>1, <1>3, <2>1, RowsAppended DEF Placed, InPieces
<1>8. InPieces'  BY <1>1, <1>2, <1>3, <1>7 DEF Placed, InPieces
<1>9. Everywhere' = Everywhere  BY <1>2, <1>4, <1>6 DEF Everywhere
<1>10. Apart'  BY <1>2, <1>4, <1>5, <1>6 DEF Placed, Apart
<1>11. UNCHANGED Ahead  BY <1>4, <1>6 DEF Ahead
<1> QED  BY <1>2, <1>8, <1>9, <1>10, <1>11 DEF Placed, Nowhere

LEMMA SubmittedPlaced ==
    ASSUME Typed, Placed, AllSubmitted \/ InterruptSubmit
    PROVE  Placed'
<1>1. /\ UNCHANGED <<Queued, Running, Unread, Settled, Failed, made, dropped>>
      /\ UNCHANGED <<queue, running, finished>>
      /\ pc = "submit" /\ pc' \in {"collect", "interrupted"} /\ ToCome' = {}
  BY Unmoved DEF AllSubmitted, InterruptSubmit, pool, books
<1>2. InPieces'  BY <1>1 DEF Placed, InPieces
<1>3. Apart'  BY <1>1 DEF Placed, Apart
<1>4. CASE AllSubmitted
  <2>1. ToCome = {}
    BY <1>4, NoRows, BatchesAssumption DEF AllSubmitted, ToCome, Total, Typed, TypeOK
  <2> QED  BY <1>1, <1>2, <1>3, <2>1 DEF Placed, Nowhere, Everywhere, Pooled, Streamed
<1>5. CASE InterruptSubmit
  BY <1>2, <1>3, <1>5 DEF InterruptSubmit, Placed, Nowhere, Pooled, Streamed
<1> QED  BY <1>4, <1>5

LEMMA StartPlaced ==
    ASSUME Typed, Placed, Start
    PROVE  Placed' /\ Ahead' \subseteq Ahead \ Head(queue) /\ Head(queue) \subseteq Ahead
<1> DEFINE h == Head(queue)
<1>1. /\ queue \in Seq(SUBSET Row) /\ queue # << >>
      /\ queue' = Tail(queue) /\ running' = running \cup {h}
  BY DEF Start, Typed, TypeOK
<1>2. UNCHANGED <<ToCome, Unread, Settled, Failed, made, dropped, pc, next, parts, finished>>
  BY Unmoved DEF Start, books
<1>3. /\ h \in SUBSET Row /\ Queued = h \cup Queued' /\ Separate(queue')
      /\ h \cap Queued' = {}
  BY <1>1, RowsBeheaded DEF Placed, InPieces, Queued
<1> HIDE DEF h
<1>4. Running' = Running \cup h  BY <1>1 DEF Running
<1>5. \A t \in running : t \cap h = {}
  BY <1>3 DEF Placed, Apart, Running
<1>6. InPieces'  BY <1>1, <1>2, <1>3, <1>5 DEF Placed, InPieces
<1>7. Everywhere' = Everywhere  BY <1>2, <1>3, <1>4 DEF Everywhere
<1>8. Apart'  BY <1>2, <1>3, <1>4 DEF Placed, Apart
<1>9. Ahead' \subseteq Ahead \ h /\ h \subseteq Ahead
  BY <1>2, <1>3 DEF Ahead, Placed, Apart
<1> QED  BY <1>2, <1>6, <1>7, <1>8, <1>9 DEF Placed, Nowhere, h

LEMMA WorkResult ==
    ASSUME NEW task, NEW ok, Finish(task, ok) \/ Raise(task, ok)
    PROVE  \E result :
              /\ result.rows = task /\ finished' = finished \cup {result}
              /\ result.raised \/ (result.made = ok /\ result.failed = task \ ok)
<1>1. CASE Finish(task, ok)
  <2>1. \E b : b = Succeeded(ok, task \ ok)  OBVIOUS
  <2>2. PICK b : finished' = finished \cup {[rows |-> task, made |-> ok,
               failed |-> task \ ok, success |-> b, raised |-> FALSE]}
    BY <1>1, <2>1 DEF Finish
  <2> DEFINE result == [rows |-> task, made |-> ok, failed |-> task \ ok,
                        success |-> b, raised |-> FALSE]
  <2>3. result.rows = task /\ result.made = ok /\ result.failed = task \ ok  OBVIOUS
  <2> QED  BY <2>2, <2>3
<1>2. CASE Raise(task, ok)
  <2> DEFINE result == [rows |-> task, made |-> {}, failed |-> {}, success |-> FALSE,
                        raised |-> TRUE]
  <2>1. result.rows = task /\ result.raised  OBVIOUS
  <2>2. finished' = finished \cup {result}  BY <1>2 DEF Raise
  <2> QED  BY <2>1, <2>2
<1> QED  BY <1>1, <1>2

LEMMA WorkPlaced ==
    ASSUME Typed, Placed, NEW task \in running, NEW ok \in SUBSET task,
           Finish(task, ok) \/ Raise(task, ok)
    PROVE  Placed'
<1>1. /\ UNCHANGED <<ToCome, Queued, Settled, Failed, made, dropped, pc, next, parts, queue>>
      /\ running' = running \ {task}
  BY Unmoved DEF Finish, Raise, books
<1>2. PICK result : result.rows = task /\ finished' = finished \cup {result}
  BY WorkResult
<1>3. /\ Running = Running' \cup task /\ Running' \cap task = {}
  BY <1>1 DEF Running, Placed, InPieces
<1>4. Unread' = Unread \cup task  BY <1>2 DEF Unread
<1>5. \A f \in finished : f.rows \cap task = {}
  <2>1. Unread \cap task = {}  BY DEF Placed, Apart, Running
  <2> QED  BY <2>1 DEF Unread
<1>6. InPieces'
  <2>1. \A f, g \in finished' : f # g => f.rows \cap g.rows = {}
    BY <1>2, <1>5 DEF Placed, InPieces
  <2> QED  BY <1>1, <2>1 DEF Placed, InPieces
<1>7. Everywhere' = Everywhere  BY <1>1, <1>3, <1>4 DEF Everywhere
<1>8. Apart'  BY <1>1, <1>3, <1>4 DEF Placed, Apart
<1> QED  BY <1>1, <1>6, <1>7, <1>8 DEF Placed, Nowhere

(***************************************************************************)
(* A result is read: its rows settle, in the map and the fail file.        *)
(***************************************************************************)
LEMMA ReadPlaced ==
    ASSUME Typed, Placed, Told, NEW result \in finished,
           finished' = finished \ {result},
           \/ /\ ~result.raised
              /\ made' = made \cup result.made /\ dropped' = dropped
              /\ failFile' = [r \in Row |-> IF r \in result.failed THEN failFile[r] + 1
                                                                   ELSE failFile[r]]
           \/ dropped' = dropped \cup result.rows /\ UNCHANGED <<made, failFile>>,
           UNCHANGED <<queue, running, next, parts, ToCome>>,
           pc' = pc \/ (pc = "collect" /\ pc' = "shutdown")
    PROVE  Placed'
<1>1. UNCHANGED <<Queued, Running>>  BY Unmoved
<1>2. Unread = Unread' \cup result.rows /\ Unread' \cap result.rows = {}
  BY DEF Unread, Placed, InPieces
<1>3. /\ Settled' = Settled \cup result.rows
      /\ made' \cap Failed' = {} /\ (made' \cup Failed') \cap dropped' = {}
  <2>0. result.rows \cap Settled = {}  BY <1>2 DEF Placed, Apart
  <2>1. CASE dropped' = dropped \cup result.rows /\ UNCHANGED <<made, failFile>>
    <3>1. UNCHANGED Failed  BY <2>1, Unmoved
    <3> QED  BY <2>0, <2>1, <3>1 DEF Settled, Placed, Apart
  <2>2. CASE /\ ~result.raised
             /\ made' = made \cup result.made /\ dropped' = dropped
             /\ failFile' = [r \in Row |-> IF r \in result.failed THEN failFile[r] + 1
                                                                  ELSE failFile[r]]
    <3>1. /\ result.made \cup result.failed = result.rows
          /\ result.made \cap result.failed = {}
          /\ result.failed \subseteq Row
      BY <2>2 DEF Told, Faithful, Typed, TypeOK, Result
    <3>2. Failed' = Failed \cup result.failed
      <4>1. \A r \in Row : failFile[r] \in Nat  BY DEF Typed, TypeOK
      <4> QED  BY <2>2, <3>1, <4>1 DEF Failed
    <3> QED  BY <2>0, <2>2, <3>1, <3>2 DEF Settled, Placed, Apart
  <2> QED  BY <2>1, <2>2
<1>4. InPieces'  BY DEF Placed, InPieces
<1>5. Everywhere' = Everywhere  BY <1>1, <1>2, <1>3 DEF Everywhere
<1>6. Apart'  BY <1>1, <1>2, <1>3 DEF Placed, Apart
<1> QED  BY <1>4, <1>5, <1>6 DEF Placed, Nowhere, Pooled, Streamed
LEMMA CollectPlaced ==
    ASSUME Typed, Placed, Told, NEW result \in finished,
           \/ Collect(result) \/ CollectRaised(result) \/ Gather(result)
    PROVE  Placed'
<1>1. CASE Collect(result)
  <2>1. pc = "collect" /\ pc' \in {"collect", "shutdown"}  BY <1>1 DEF Collect
  <2>2. UNCHANGED ToCome  BY <2>1 DEF ToCome
  <2> QED  BY <1>1, <2>1, <2>2, ReadPlaced DEF Collect, Gained
<1>2. CASE CollectRaised(result)
  <2>1. UNCHANGED ToCome  BY <1>2 DEF CollectRaised, ToCome
  <2> QED  BY <1>2, <2>1, ReadPlaced DEF CollectRaised, books
<1>3. CASE Gather(result)
  <2>1. UNCHANGED ToCome  BY <1>3 DEF Gather, ToCome
  <2> QED  BY <1>3, <2>1, ReadPlaced DEF Gather
<1> QED  BY <1>1, <1>2, <1>3

LEMMA LeavePlaced ==
    ASSUME Typed, Placed, Interrupt \/ CollectEnds \/ Cancel \/ Exit
    PROVE  Placed'
<1>1. ToCome = {} /\ ToCome' = {} /\ pc' # "submit" /\ pc' \notin Streamed
  BY DEF Interrupt, CollectEnds, Cancel, Exit, ToCome, Streamed
<1>2. CASE Interrupt \/ CollectEnds
  <2>1. /\ UNCHANGED <<Queued, Running, Unread, Settled, Failed, made, dropped>>
        /\ UNCHANGED <<queue, running, finished>> /\ pc = "collect"
    BY <1>2, Unmoved DEF Interrupt, CollectEnds, pool, books
  <2> QED
    BY <1>1, <2>1 DEF Placed, Apart, InPieces, Nowhere, Everywhere, Pooled
<1>3. CASE Cancel
  <2>1. /\ UNCHANGED <<Running, Unread, Failed, made, running, finished, pc>>
        /\ queue' = << >> /\ dropped' = dropped \cup Queued
    BY <1>3, Unmoved DEF Cancel, Cancelled, Queued, books
  <2>2. Queued' = {} /\ Separate(queue')  BY <2>1, NoRows DEF Queued
  <2>3. Settled' = Settled \cup Queued  BY <2>1 DEF Settled
  <2>4. Everywhere' = Everywhere  BY <1>1, <2>1, <2>2, <2>3 DEF Everywhere
  <2>5. Apart'  BY <1>1, <2>1, <2>2, <2>3 DEF Placed, Apart, Settled
  <2> QED  BY <1>1, <2>1, <2>2, <2>4, <2>5 DEF Placed, InPieces, Nowhere
<1>4. CASE Exit
  <2>1. /\ UNCHANGED <<Queued, Running, Failed, made, queue, running>>
        /\ finished' = {} /\ dropped' = dropped \cup Unread /\ pc = "shutdown"
    BY <1>4, Unmoved DEF Exit, Unread, books
  <2>2. Unread' = {}  BY <2>1 DEF Unread
  <2>3. Settled' = Settled \cup Unread  BY <2>1 DEF Settled
  <2>4. Everywhere' = Everywhere  BY <1>1, <2>1, <2>2, <2>3 DEF Everywhere
  <2>5. Apart'  BY <1>1, <2>1, <2>2, <2>3 DEF Placed, Apart, Settled
  <2> QED  BY <1>1, <2>1, <2>4, <2>5 DEF Placed, InPieces, Nowhere, Pooled
<1> QED  BY <1>2, <1>3, <1>4

LEMMA ReadBatchPlaced ==
    ASSUME Typed, Placed, ReadBatch PROVE Placed' /\ UNCHANGED Ahead
<1> DEFINE e == BatchEnd(next)
           rows == Lines(next, e)
<1>1. /\ next \in 1 .. Len(File) /\ Len(File) \in Nat /\ DOMAIN File = 1 .. Len(File)
      /\ pc = "stream" /\ pc' = "stream" /\ queue \in Seq(SUBSET Row)
  BY FileAssumption DEF ReadBatch, Typed, TypeOK
<1>2. e \in next .. Len(File)  BY <1>1, BatchEndInFile
<1>3. /\ queue' = (IF rows = {} THEN queue ELSE Append(queue, rows)) /\ next' = e + 1
      /\ UNCHANGED <<running, finished>>
  BY DEF ReadBatch
<1>4. UNCHANGED <<Running, Unread, Settled, Failed, made, dropped>>
  BY Unmoved DEF ReadBatch, books
<1> HIDE DEF e
<1>5. \A k \in DOMAIN File : k >= next <=> k \in next .. e \/ k >= e + 1
  BY <1>1, <1>2
<1>6. \A k \in DOMAIN File : k >= e + 1 => k \notin next .. e  BY <1>1, <1>2
<1>7. /\ ToCome = {File[k] : k \in {i \in DOMAIN File : i >= next}} \ Malformed
      /\ ToCome' = {File[k] : k \in {i \in DOMAIN File : i >= e + 1}} \ Malformed
  BY <1>1, <1>3, FileAssumption DEF ToCome
<1>8. rows \in SUBSET Row /\ ToCome = rows \cup ToCome' /\ rows \cap ToCome' = {}
  <2>1. next .. e \subseteq DOMAIN File  BY <1>1, <1>2
  <2>2. \A k \in next .. e : File[k] \in Row  BY <2>1, FileAssumption
  <2>3. \A k \in next .. e, i \in DOMAIN File : i >= e + 1 => File[i] # File[k]
    BY <1>6, <2>1, FileAssumption
  <2>4. rows \in SUBSET Row  BY <2>2 DEF Lines
  <2>5. ToCome = rows \cup ToCome'  BY <1>5, <1>7, <2>1 DEF Lines
  <2>6. rows \cap ToCome' = {}  BY <1>7, <2>3 DEF Lines
  <2> QED  BY <2>4, <2>5, <2>6
<1> HIDE DEF rows
<1>9. Queued' = Queued \cup rows /\ Separate(queue')
  <2>1. rows \cap Rows(queue) = {} /\ Separate(queue)
    BY <1>8 DEF Placed, Apart, InPieces, Queued
  <2> QED  BY <1>1, <1>3, <1>8, <2>1, RowsAppended DEF Queued
<1>10. InPieces'  BY <1>1, <1>3, <1>9 DEF Placed, InPieces
<1>11. Everywhere' = Everywhere  BY <1>4, <1>8, <1>9 DEF Everywhere
<1>12. Apart'  BY <1>4, <1>8, <1>9 DEF Placed, Apart
<1>13. UNCHANGED Ahead  BY <1>8, <1>9 DEF Ahead
<1> QED  BY <1>1, <1>10, <1>11, <1>12, <1>13 DEF Placed, Nowhere

LEMMA StreamPlaced ==
    ASSUME Typed, Placed, EndOfFile \/ Waited \/ Gathered \/ Unreadable \/ InterruptStream
    PROVE  Placed'
<1>1. /\ UNCHANGED <<Queued, Running, Unread, Settled, Failed, made, dropped>>
      /\ UNCHANGED <<queue, running, finished>>
      /\ pc \in Streamed /\ pc' \in {"wait", "gather", "streamed", "interrupted"}
      /\ ToCome' = {}
  BY Unmoved
  DEF EndOfFile, Waited, Gathered, Unreadable, InterruptStream, pool, books, Streamed
<1>2. InPieces'  BY <1>1 DEF Placed, InPieces
<1>3. Apart'  BY <1>1 DEF Placed, Apart
<1>4. CASE EndOfFile \/ Waited \/ Gathered
  <2>1. ToCome = {}
    <3>1. pc # "submit" /\ (pc = "stream" => next > Len(File))
      BY <1>4 DEF EndOfFile, Waited, Gathered
    <3>2. next \in Nat /\ Len(File) \in Nat /\ DOMAIN File = 1 .. Len(File)
      BY FileAssumption DEF Typed, TypeOK
    <3>3. pc = "stream" => \A k \in DOMAIN File : ~(k >= next)  BY <3>1, <3>2
    <3> QED  BY <3>1, <3>3 DEF ToCome
  <2> QED  BY <1>1, <1>2, <1>3, <2>1 DEF Placed, Nowhere, Everywhere, Pooled
<1>5. CASE Unreadable \/ InterruptStream
  BY <1>2, <1>3, <1>5 DEF Unreadable, InterruptStream, Placed, Nowhere, Pooled, Streamed
<1> QED  BY <1>4, <1>5

LEMMA PlacedStep == Typed /\ Told /\ Placed /\ [PassNext]_vars => Placed'
<1> SUFFICES ASSUME Typed, Told, Placed, [PassNext]_vars PROVE Placed'  OBVIOUS
<1>1. CASE UNCHANGED vars \/ Idle \/ Network
  <2>1. /\ UNCHANGED <<pc, next, parts, queue, running, finished, made, failFile, dropped>>
    BY <1>1 DEF Idle, Network, Lose, LateStore, vars, pool, books
  <2> QED  BY <2>1, Unmoved DEF Placed, Apart, InPieces, Nowhere, Everywhere
<1> QED
  BY <1>1, TakeBatchPlaced, SubmitPlaced, SubmittedPlaced, StartPlaced, WorkPlaced,
     CollectPlaced, LeavePlaced, ReadBatchPlaced, StreamPlaced
  DEF PassNext, Next, Main, Worker, StreamMain
-----------------------------------------------------------------------------
(***************************************************************************)
(* What the books say of the server.                                       *)
(***************************************************************************)
LEMMA InitTold == PassInit => Told /\ HandedOnce
<1> SUFFICES ASSUME PassInit PROVE Told /\ HandedOnce  OBVIOUS
<1>1. /\ failFile = [r \in Row |-> 0] /\ stored = [r \in Row |-> 0]
      /\ late = [r \in Row |-> 0] /\ lost = [r \in Row |-> 0]
      /\ handed = [r \in Row |-> 0] /\ made = {} /\ finished = {} /\ queue = << >>
      /\ pc \in {"submit", "stream"} /\ parts = << >>
  BY DEF PassInit, Init, StreamInit
<1>2. \A r \in Row : Reported(r) = 0  BY <1>1 DEF Reported
<1>3. Ahead \subseteq Row
  <2>1. Rows(parts) = {} /\ Queued = {}  BY <1>1, NoRows DEF Queued
  <2> QED  BY <2>1 DEF Ahead, ToCome
<1> QED  BY <1>1, <1>2, <1>3 DEF Told, HandedOnce

LEMMA ReportedType == TypeOK => \A r \in Row : Reported(r) \in Int
BY DEF TypeOK, Reported

LEMMA WorkTold ==
    ASSUME Typed, Placed, Told, NEW task \in running, NEW ok \in SUBSET task,
           Finish(task, ok) \/ Raise(task, ok)
    PROVE  Told'
<1>1. /\ UNCHANGED <<made, dropped, failFile, late, lost>>
      /\ stored' = [r \in Row |-> IF r \in ok THEN stored[r] + 1 ELSE stored[r]]
      /\ task \in SUBSET Row
      /\ \A r \in Row : stored[r] \in Nat /\ late[r] \in Nat /\ lost[r] \in Nat
  BY DEF Finish, Raise, books, Stored, Typed, TypeOK
<1>2. task \cap (made \cup dropped \cup Unread) = {}
  BY DEF Placed, Apart, Running, Settled
<1>3. \A r \in task : Reported(r) = 0  BY <1>1, <1>2 DEF Told
<1>4. /\ \A r \in ok : Reported(r)' = 1
      /\ \A r \in Row \ ok : Reported(r)' = Reported(r)
  <2>1. \A r \in ok : Reported(r)' = Reported(r) + 1
    BY <1>1 DEF Reported
  <2>2. \A r \in Row \ ok : Reported(r)' = Reported(r)
    BY <1>1 DEF Reported
  <2> QED  BY <1>1, <1>3, <2>1, <2>2
<1>5. PICK result :
         /\ result.rows = task /\ finished' = finished \cup {result}
         /\ result.raised \/ (result.made = ok /\ result.failed = task \ ok)
  BY WorkResult
<1>6. \A r \in Row : Reported(r)' \in 0 .. 1 /\ late'[r] <= lost'[r] /\ failFile'[r] <= 1
  BY <1>1, <1>4 DEF Told
<1>7. \A r \in made' : Reported(r)' = 1
  <2>1. made \subseteq Row \ ok  BY <1>2 DEF Typed, TypeOK
  <2> QED  BY <1>1, <1>4, <2>1 DEF Told
<1>8. \A r \in Row : Reported(r)' = 1 => r \in made' \cup dropped' \cup Unread'
  <2>1. Unread' = Unread \cup task  BY <1>5 DEF Unread
  <2> QED  BY <1>1, <1>4, <2>1 DEF Told
<1>9. ASSUME NEW f \in finished PROVE Faithful(f)'
  <2>1. f.rows \cap task = {} /\ f \in Result
    BY <1>2 DEF Unread, Typed, TypeOK
  <2>2. Faithful(f) /\ f.made \subseteq Row /\ f.failed \subseteq Row
    BY <2>1 DEF Told, Result
  <2>3. CASE f.raised  BY <2>3 DEF Faithful
  <2>4. CASE ~f.raised
    <3>1. f.made \cup f.failed = f.rows  BY <2>2, <2>4 DEF Faithful
    <3>2. f.made \subseteq Row \ ok /\ f.failed \subseteq Row \ ok
      BY <2>1, <2>2, <3>1
    <3>3. /\ \A r \in f.made : Reported(r)' = 1
          /\ \A r \in f.failed : Reported(r)' = 0
      BY <1>4, <2>2, <2>4, <3>2 DEF Faithful
    <3> QED  BY <3>1, <3>3 DEF Faithful
  <2> QED  BY <2>3, <2>4
<1>10. Faithful(result)'
  <2>1. \A r \in task \ ok : Reported(r)' = 0  BY <1>1, <1>3, <1>4
  <2> QED  BY <1>4, <1>5, <2>1 DEF Faithful
<1>11. \A f \in finished' : Faithful(f)'  BY <1>5, <1>9, <1>10
<1> QED  BY <1>6, <1>7, <1>8, <1>11 DEF Told

(* A lost reply is owed for until the call is carried out.                 *)
LEMMA NetworkTold == ASSUME Typed, Told, Network PROVE Told'
<1>1. \A r \in Row : stored[r] \in Nat /\ late[r] \in Nat /\ lost[r] \in Nat
  BY DEF Typed, TypeOK
<1>2. UNCHANGED <<made, dropped, failFile, finished>>
  BY DEF Network, Lose, LateStore, pool, books
<1>3. \A r \in Row : Reported(r)' = Reported(r) /\ late'[r] <= lost'[r]
  <2>1. ASSUME NEW task \in running, NEW q \in task, Lose(task, q), NEW r \in Row
        PROVE  Reported(r)' = Reported(r) /\ late'[r] <= lost'[r]
    <3>1. /\ UNCHANGED stored /\ late \in [Row -> Nat] /\ lost \in [Row -> Nat]
          /\ late' = [late EXCEPT ![q] = @ + 1] /\ lost' = [lost EXCEPT ![q] = @ + 1]
          /\ late[r] <= lost[r]
      BY <2>1 DEF Lose, Typed, TypeOK, Told
    <3>2. CASE r = q  BY <1>1, <3>1, <3>2 DEF Reported
    <3>3. CASE r # q  BY <1>1, <3>1, <3>3 DEF Reported
    <3> QED  BY <3>2, <3>3
  <2>2. ASSUME NEW q \in Row, LateStore(q), NEW r \in Row
        PROVE  Reported(r)' = Reported(r) /\ late'[r] <= lost'[r]
    <3>1. /\ UNCHANGED lost /\ late \in [Row -> Nat] /\ stored \in [Row -> Nat]
          /\ late' = [late EXCEPT ![q] = @ - 1] /\ stored' = [stored EXCEPT ![q] = @ + 1]
          /\ late[r] <= lost[r]
      BY <2>2 DEF LateStore, Typed, TypeOK, Told
    <3>2. CASE r = q  BY <1>1, <3>1, <3>2 DEF Reported
    <3>3. CASE r # q  BY <1>1, <3>1, <3>3 DEF Reported
    <3> QED  BY <3>2, <3>3
  <2> QED  BY <2>1, <2>2 DEF Network
<1>4. made \subseteq Row /\ finished \subseteq Result  BY DEF Typed, TypeOK
<1>5. UNCHANGED Unread  BY <1>2 DEF Unread
<1>6. \A f \in finished : Faithful(f)'
  BY <1>3, <1>4 DEF Told, Faithful, Result
<1> QED  BY <1>2, <1>3, <1>4, <1>5, <1>6 DEF Told

LEMMA ReadTold ==
    ASSUME Typed, Placed, Told, NEW result \in finished,
           \/ Collect(result) \/ CollectRaised(result) \/ Gather(result)
    PROVE  Told'
<1>0. /\ \A r \in Row : Reported(r)' = Reported(r)
      /\ \A r \in Row : Reported(r) \in Int
  BY ReportedType DEF Collect, CollectRaised, Gather, server, Typed, Reported
<1>1. /\ finished' = finished \ {result} /\ UNCHANGED <<stored, late, lost>>
      /\ \A r \in Row : stored[r] \in Nat /\ failFile[r] \in Nat
      /\ result.rows \subseteq Row /\ result.made \subseteq Row /\ result.failed \subseteq Row
  BY DEF Collect, CollectRaised, Gather, server, Typed, TypeOK, Result
<1>2. Unread = Unread' \cup result.rows /\ result.rows \cap Failed = {}
  BY <1>1 DEF Unread, Placed, Apart, Settled
<1>3. \A f \in finished' : Faithful(f)'
  BY <1>0, <1>1 DEF Told, Faithful, Typed, TypeOK, Result
<1>4. CASE ~result.raised /\ (Collect(result) \/ Gather(result))
  <2>1. /\ made' = made \cup result.made /\ dropped' = dropped
        /\ failFile' = [r \in Row |-> IF r \in result.failed THEN failFile[r] + 1
                                                             ELSE failFile[r]]
    BY <1>4 DEF Collect, Gather, Gained
  <2>2. /\ result.made \cup result.failed = result.rows
        /\ \A r \in result.made : Reported(r) = 1
        /\ \A r \in result.failed : Reported(r) = 0
    BY <1>4 DEF Told, Faithful
  <2>3. \A r \in result.failed : failFile[r] = 0
    BY <1>1, <1>2, <2>2 DEF Failed
  <2>4. \A r \in Row : failFile'[r] <= 1  BY <1>1, <2>1, <2>3 DEF Told
  <2>5. \A r \in Row : Reported(r) = 1 => r \in made' \cup dropped' \cup Unread'
    BY <1>1, <1>2, <2>1, <2>2 DEF Told
  <2> QED  BY <1>0, <1>1, <1>3, <2>1, <2>2, <2>4, <2>5 DEF Told, Typed, TypeOK
<1>5. CASE dropped' = dropped \cup result.rows /\ UNCHANGED <<made, failFile>>
  BY <1>0, <1>1, <1>2, <1>3, <1>5 DEF Told, Typed, TypeOK
<1> QED  BY <1>4, <1>5 DEF Collect, CollectRaised, Gather, books

LEMMA ToldStep == Typed /\ Placed /\ Told /\ [PassNext]_vars => Told'
<1> SUFFICES ASSUME Typed, Placed, Told, [PassNext]_vars PROVE Told'  OBVIOUS
<1>1. ASSUME UNCHANGED <<server, failFile, made, finished>>, dropped \subseteq dropped'
      PROVE  Told'
  <2>1. UNCHANGED Unread  BY <1>1, Unmoved
  <2>2. \A r : Reported(r)' = Reported(r)  BY <1>1 DEF Reported, server
  <2>3. \A f \in finished' : Faithful(f)'  BY <1>1, <2>2 DEF Told, Faithful
  <2> QED  BY <1>1, <2>1, <2>2, <2>3 DEF Told, server
<1>2. CASE TakeBatch \/ Submit \/ AllSubmitted \/ InterruptSubmit \/ Start
  BY <1>1, <1>2
  DEF TakeBatch, Submit, AllSubmitted, InterruptSubmit, Start, pool, books
<1>3. CASE Interrupt \/ CollectEnds \/ Cancel
  BY <1>1, <1>3 DEF Interrupt, CollectEnds, Cancel, Cancelled, pool, books
<1>4. CASE Exit
  <2>1. /\ UNCHANGED <<stored, late, lost, failFile, made>> /\ finished' = {}
        /\ dropped' = dropped \cup Unread
    BY <1>4 DEF Exit, books, server, Unread
  <2>2. \A r : Reported(r)' = Reported(r)  BY <2>1 DEF Reported
  <2> QED  BY <2>1, <2>2 DEF Told
<1>5. CASE ReadBatch \/ EndOfFile \/ Waited \/ Gathered \/ Unreadable \/ InterruptStream
  BY <1>1, <1>5
  DEF ReadBatch, EndOfFile, Waited, Gathered, Unreadable, InterruptStream, pool, books
<1>6. CASE UNCHANGED vars \/ Idle
  BY <1>1, <1>6 DEF Idle, vars, pool, books
<1> QED
  BY <1>2, <1>3, <1>4, <1>5, <1>6, WorkTold, NetworkTold, ReadTold
  DEF PassNext, Next, Main, Worker, StreamMain

(* Only a row that waits in the queue is handed to a worker, and none comes *)
(* back to it.                                                             *)
LEMMA HandedStep == Typed /\ Placed /\ HandedOnce /\ [PassNext]_vars => HandedOnce'
<1> SUFFICES ASSUME Typed, Placed, HandedOnce, [PassNext]_vars PROVE HandedOnce'
  OBVIOUS
<1>1. ASSUME UNCHANGED handed, Ahead' \subseteq Ahead PROVE HandedOnce'
  BY <1>1 DEF HandedOnce
<1>2. CASE TakeBatch \/ Submit \/ ReadBatch
  <2>1. UNCHANGED handed  BY <1>2 DEF TakeBatch, Submit, ReadBatch, history
  <2>2. UNCHANGED Ahead  BY <1>2, TakeBatchPlaced, SubmitPlaced, ReadBatchPlaced
  <2> QED  BY <1>1, <2>1, <2>2
<1>3. CASE Start
  <2> DEFINE h == Head(queue)
  <2>1. Ahead' \subseteq Ahead \ h /\ h \subseteq Ahead  BY <1>3, StartPlaced
  <2>2. /\ handed' = [r \in Row |-> IF r \in h THEN handed[r] + 1 ELSE handed[r]]
        /\ \A r \in Row : handed[r] \in Nat
    BY <1>3 DEF Start, Typed, TypeOK
  <2>3. Ahead \subseteq Row
    BY FileAssumption, BatchesAssumption DEF Ahead, ToCome, Queued, Rows, Typed, TypeOK
  <2> HIDE DEF h
  <2>4. \A r \in Row : handed'[r] <= 1  BY <2>1, <2>2 DEF HandedOnce
  <2>5. \A r \in Ahead' : handed'[r] = 0  BY <2>1, <2>2, <2>3 DEF HandedOnce
  <2> QED  BY <2>4, <2>5 DEF HandedOnce
<1>4. ASSUME UNCHANGED handed, UNCHANGED <<pc, next, parts>> \/ pc' \notin {"submit", "stream"},
             UNCHANGED queue \/ queue' = << >>
      PROVE  HandedOnce'
  <2>1. ToCome' \subseteq ToCome  BY <1>4, Unmoved
  <2>2. Queued' \subseteq Queued  BY <1>4, Unmoved, NoRows DEF Queued
  <2> QED  BY <1>1, <1>4, <2>1, <2>2 DEF Ahead
<1>5. CASE AllSubmitted \/ InterruptSubmit \/ Interrupt \/ CollectEnds \/ Cancel \/ Exit
  BY <1>4, <1>5
  DEF AllSubmitted, InterruptSubmit, Interrupt, CollectEnds, Cancel, Cancelled, Exit,
      pool, history
<1>6. ASSUME NEW task \in running, NEW ok \in SUBSET task,
             Finish(task, ok) \/ Raise(task, ok)
      PROVE  HandedOnce'
  BY <1>4, <1>6 DEF Finish, Raise, history
<1>7. ASSUME NEW result \in finished,
             Collect(result) \/ CollectRaised(result) \/ Gather(result)
      PROVE  HandedOnce'
  BY <1>4, <1>7 DEF Collect, CollectRaised, Gather, history
<1>8. CASE EndOfFile \/ Waited \/ Gathered \/ Unreadable \/ InterruptStream
  BY <1>4, <1>8 DEF EndOfFile, Waited, Gathered, Unreadable, InterruptStream, pool, history
<1>9. CASE Network \/ UNCHANGED vars \/ Idle
  BY <1>4, <1>9 DEF Network, Lose, LateStore, Idle, vars, pool, history
<1> QED
  BY <1>2, <1>3, <1>5, <1>6, <1>7, <1>8, <1>9 DEF PassNext, Next, Main, Worker, StreamMain
-----------------------------------------------------------------------------
(***************************************************************************)
(* What each phase of the main thread rules out.                           *)
(***************************************************************************)
LEMMA PhasedStep == Typed /\ Phased /\ [PassNext]_vars => Phased'
<1> SUFFICES ASSUME Typed, Phased, [PassNext]_vars PROVE Phased'  OBVIOUS
<1>1. CASE TakeBatch \/ Submit \/ AllSubmitted \/ InterruptSubmit
  BY <1>1
  DEF TakeBatch, Submit, AllSubmitted, InterruptSubmit, pool, books, server, history, Phased, Emptied
<1>2. CASE Start
  BY <1>2 DEF Start, books, history, Phased, Emptied
<1>3. ASSUME NEW task \in running, NEW ok \in SUBSET task,
             Finish(task, ok) \/ Raise(task, ok)
      PROVE  Phased'
  BY <1>3 DEF Finish, Raise, books, history, Phased, Emptied
<1>4. ASSUME NEW result \in finished,
             Collect(result) \/ CollectRaised(result) \/ Gather(result)
      PROVE  Phased'
  BY <1>4 DEF Collect, CollectRaised, Gather, books, history, Phased, Emptied
<1>5. CASE Interrupt \/ CollectEnds \/ Cancel
  BY <1>5
  DEF Interrupt, CollectEnds, AllCollected, Cancel, pool, books, server, history, Phased, Emptied
<1>6. CASE Exit
  <2>1. pc = "shutdown" /\ Emptied' /\ pc' \in {"returned", "raised"}
        /\ (~abort' => ~abort)
    BY <1>6 DEF Exit, PoolStopped, Emptied
  <2>2. ~abort' => dropped' = {}
    BY <1>6, <2>1 DEF Exit, Phased, Emptied
  <2> QED  BY <2>1, <2>2 DEF Phased
<1>7. CASE ReadBatch \/ EndOfFile \/ Waited \/ Gathered \/ Unreadable \/ InterruptStream
  BY <1>7
  DEF ReadBatch, EndOfFile, Waited, AllDone, Gathered, Unreadable, InterruptStream,
      pool, books, server, history, Phased, Emptied
<1>8. CASE UNCHANGED vars \/ Idle \/ Network
  BY <1>8
  DEF Idle, Network, Lose, LateStore, vars, pool, books, server, history, Phased, Emptied
<1> QED
  BY <1>1, <1>2, <1>3, <1>4, <1>5, <1>6, <1>7, <1>8
  DEF PassNext, Next, Main, Worker, StreamMain
-----------------------------------------------------------------------------
(***************************************************************************)
(* What the counters say of the outcomes collected.                        *)
(***************************************************************************)
LEMMA LastOnes ==
    ASSUME NEW n \in Nat, NEW l \in Nat, NEW k \in Nat, k <= n + 1, l <= k,
           NEW i \in (n + 1) - l + 1 .. n + 1
    PROVE  i \in 1 .. n + 1 /\ i > n + 1 - k
OBVIOUS

LEMMA CollectCounted ==
    ASSUME Typed, Phased, Counted, NEW result \in finished, Collect(result)
    PROVE  Counted'
<1> DEFINE n == Len(outcomes)
<1>1. /\ outcomes \in Seq(BOOLEAN) /\ result.success \in BOOLEAN /\ n \in Nat
      /\ streak \in Nat /\ successes \in Nat /\ Limit \in Nat \ {0}
      /\ DOMAIN outcomes = 1 .. n
  BY PoolAssumption DEF Typed, TypeOK, Result
<1>2. /\ Len(outcomes') = n + 1 /\ DOMAIN outcomes' = 1 .. n + 1
      /\ outcomes'[n + 1] = result.success
      /\ \A i \in 1 .. n : outcomes'[i] = outcomes[i]
  BY <1>1 DEF Collect
<1>3. /\ streak' = (IF result.success THEN 0 ELSE streak + 1)
      /\ successes' = (IF result.success THEN successes + 1 ELSE successes)
  BY DEF Collect, Streak
<1> HIDE DEF n
<1>4. streak' <= n + 1 /\ streak' \in Nat  BY <1>1, <1>3 DEF Counted, n
<1>5. ASSUME NEW i \in 1 .. n + 1, i > n + 1 - streak' PROVE ~outcomes'[i]
  <2>1. ~result.success /\ streak' = streak + 1
    BY <1>1, <1>3, <1>5
  <2>2. CASE i = n + 1  BY <1>2, <2>1, <2>2
  <2>3. CASE i # n + 1
    <3>1. i \in 1 .. n /\ i > n - streak  BY <1>1, <1>5, <2>1, <2>3
    <3>2. ~outcomes[i]  BY <1>1, <3>1 DEF Counted, n
    <3> QED  BY <1>2, <3>1, <3>2
  <2> QED  BY <2>2, <2>3
<1>6. ASSUME successes' = 0 PROVE NoneSucceeded'
  <2>1. ~result.success /\ successes = 0  BY <1>1, <1>3, <1>6
  <2>2. \A i \in 1 .. n : ~outcomes[i]  BY <1>1, <2>1 DEF Counted, NoneSucceeded
  <2>3. \A i \in 1 .. n + 1 : i \in 1 .. n \/ i = n + 1  BY <1>1
  <2> QED  BY <1>2, <2>1, <2>2, <2>3 DEF NoneSucceeded
<1>7. ASSUME pc' = "shutdown" PROVE LastFailed'
  <2>1. streak' >= Limit  BY <1>7 DEF Collect, Reached
  <2>2. Len(outcomes') >= Limit  BY <1>1, <1>2, <1>4, <2>1
  <2>3. ASSUME NEW i \in (n + 1) - Limit + 1 .. n + 1
        PROVE  i \in 1 .. n + 1 /\ i > n + 1 - streak'
    <3>1. n \in Nat /\ Limit \in Nat /\ streak' \in Nat  BY <1>1, <1>4
    <3>2. streak' <= n + 1 /\ Limit <= streak'  BY <1>4, <2>1, <3>1
    <3> QED  BY <3>1, <3>2, LastOnes
  <2>4. \A i \in (n + 1) - Limit + 1 .. n + 1 : ~outcomes'[i]  BY <1>5, <2>3
  <2> QED  BY <1>2, <2>2, <2>4 DEF LastFailed
<1>8. pc' # "returned"  BY DEF Collect
<1>9. \A i \in DOMAIN outcomes' : i > Len(outcomes') - streak' => ~outcomes'[i]
  <2>1. \A i \in 1 .. n + 1 : i > n + 1 - streak' => ~outcomes'[i]  BY <1>5
  <2>2. Len(outcomes') = n + 1 /\ DOMAIN outcomes' = 1 .. n + 1  BY <1>2
  <2>3. n \in Nat /\ streak' \in Nat  BY <1>1, <1>4
  <2>4. ASSUME NEW i \in DOMAIN outcomes', i > Len(outcomes') - streak'
        PROVE  i \in 1 .. n + 1 /\ i > n + 1 - streak'
    BY <2>2, <2>3, <2>4
  <2> QED  BY <2>1, <2>4
<1>10. streak' <= Len(outcomes')  BY <1>2, <1>4
<1> QED  BY <1>6, <1>7, <1>8, <1>9, <1>10, Zenon DEF Counted, AbortHasCause

LEMMA CountedStep == Typed /\ Phased /\ Counted /\ [PassNext]_vars => Counted'
<1> SUFFICES ASSUME Typed, Phased, Counted, [PassNext]_vars PROVE Counted'  OBVIOUS
<1>1. ASSUME UNCHANGED <<streak, successes, outcomes, abort, cause>>,
             pc' = pc \/ pc' \notin {"shutdown", "returned"}
      PROVE  Counted'
  BY <1>1 DEF Counted, NoneSucceeded, LastFailed, AbortHasCause
<1>2. ASSUME UNCHANGED <<streak, successes, outcomes>>,
             pc' \in {"shutdown", "interrupted"}, cause' # "failures"
      PROVE  Counted'
  BY <1>2 DEF Counted, NoneSucceeded, LastFailed, AbortHasCause
<1>3. CASE TakeBatch \/ Submit \/ AllSubmitted \/ Start
  BY <1>1, <1>3
  DEF TakeBatch, Submit, AllSubmitted, Start, books, history
<1>4. ASSUME NEW task \in running, NEW ok \in SUBSET task,
             Finish(task, ok) \/ Raise(task, ok)
      PROVE  Counted'
  BY <1>1, <1>4 DEF Finish, Raise, books, history
<1>5. ASSUME NEW result \in finished, CollectRaised(result) PROVE Counted'
  BY <1>2, <1>5 DEF CollectRaised, books
<1>6. CASE InterruptSubmit \/ Interrupt \/ Unreadable \/ InterruptStream
  BY <1>2, <1>6 DEF InterruptSubmit, Interrupt, Unreadable, InterruptStream, books
<1>7. CASE CollectEnds
  <2>1. cause' = "none"  BY <1>7 DEF CollectEnds, Phased, history
  <2> QED  BY <1>2, <1>7, <2>1 DEF CollectEnds, books, history
<1>8. CASE Exit
  <2>1. UNCHANGED <<streak, successes, outcomes>> /\ pc = "shutdown" /\ pc' # "shutdown"
    BY <1>8 DEF Exit, books
  <2>2. cause' = "failures" /\ abort' => LastFailed \/ NoneSucceeded
    BY <1>8 DEF Exit, Phased, Counted
  <2>3. (LastFailed \/ NoneSucceeded) => (LastFailed \/ NoneSucceeded)'
    BY <2>1 DEF LastFailed, NoneSucceeded
  <2> QED  BY <2>1, <2>2, <2>3 DEF Counted, NoneSucceeded, AbortHasCause
<1>9. CASE Cancel \/ ReadBatch \/ EndOfFile \/ Waited \/ Gathered
  BY <1>1, <1>9 DEF Cancel, ReadBatch, EndOfFile, Waited, Gathered, books, history
<1>10. ASSUME NEW result \in finished, Gather(result) PROVE Counted'
  BY <1>1, <1>10 DEF Gather, history
<1>11. CASE UNCHANGED vars \/ Idle \/ Network
  BY <1>1, <1>11 DEF Idle, Network, Lose, LateStore, vars, books, history
<1> QED
  BY <1>3, <1>4, <1>5, <1>6, <1>7, <1>8, <1>9, <1>10, <1>11, CollectCounted
  DEF PassNext, Next, Main, Worker, StreamMain
-----------------------------------------------------------------------------
(***************************************************************************)
(* The theorems.                                                           *)
(***************************************************************************)
LEMMA InitPassInv == PassInit => PassInv
<1> SUFFICES ASSUME PassInit PROVE PassInv  OBVIOUS
<1>1. /\ pc \in {"submit", "stream"} /\ ~abort /\ dropped = {} /\ cause = "none"
      /\ streak = 0 /\ outcomes = << >>
  BY DEF PassInit, Init, StreamInit
<1>2. Phased  BY <1>1 DEF Phased
<1>3. Len(outcomes) = 0 /\ DOMAIN outcomes = {}  BY <1>1
<1>4. Counted  BY <1>1, <1>3 DEF Counted, NoneSucceeded, AbortHasCause
<1> QED  BY <1>2, <1>4, InitTyped, InitPlaced, InitTold DEF PassInv, Placed

LEMMA PassInvStep == PassInv /\ [PassNext]_vars => PassInv'
BY TypedStep, PlacedStep, ToldStep, HandedStep, PhasedStep, CountedStep DEF PassInv, Placed

(* Every row of a pass is in one place at every moment, with what that     *)
(* place says of the server true.                                          *)
THEOREM RowsKeepTheirPlace == PassSpec => []PassInv
BY InitPassInv, PassInvStep, PTL DEF PassSpec

(* No row is handed to two workers, however the throttle cuts the batches. *)
THEOREM NoRowLoadedTwice == PassSpec => []RowLoadedOnce
<1>1. PassInv => RowLoadedOnce  BY DEF PassInv, HandedOnce, RowLoadedOnce
<1> QED  BY <1>1, RowsKeepTheirPlace, PTL

LEMMA CleanReturns == PassInv => CleanReturnIsComplete
<1>1. ASSUME PassInv, pc = "returned", ~abort, NEW r \in Members
      PROVE  /\ r \in made <=> failFile[r] = 0
             /\ failFile[r] <= 1
  <2>1. queue = << >> /\ running = {} /\ finished = {} /\ dropped = {}
    BY <1>1 DEF PassInv, Phased, Emptied
  <2>2. Queued = {} /\ Running = {} /\ Unread = {} /\ ToCome = {}
    BY <1>1, <2>1, NoRows DEF Queued, Running, Unread, ToCome
  <2>3. r \in made \cup Failed /\ made \cap Failed = {}
    BY <1>1, <2>1, <2>2 DEF PassInv, Nowhere, Pooled, Everywhere, Settled, Apart
  <2>4. r \in Row /\ failFile[r] \in Nat
    BY <1>1, <2>3 DEF PassInv, Typed, TypeOK, Failed
  <2>5. r \in made <=> failFile[r] = 0  BY <2>3, <2>4 DEF Failed
  <2> QED  BY <1>1, <2>4, <2>5 DEF PassInv, Told
<1> QED  BY <1>1 DEF CleanReturnIsComplete

(* A pass that returns without aborting has settled every row, once; one   *)
(* that aborts for failures has seen Limit in a row, or no success at all. *)
THEOREM ReturnsAreRight == PassSpec => []ReturnIsRight
<1>1. PassInv => ReturnIsRight
  BY CleanReturns DEF ReturnIsRight, PassInv, Typed, Counted
<1> QED  BY <1>1, RowsKeepTheirPlace, PTL

LEMMA StoresExplained ==
    ASSUME PassInv, NEW r \in Row
    PROVE  /\ r \in made => stored[r] > 0
           /\ stored[r] <= 1 + lost[r]
           /\ stored[r] > 0 /\ lost[r] = 0 =>
                 failFile[r] = 0 /\ r \in made \cup dropped \cup Unread
<1>1. /\ stored[r] \in Nat /\ late[r] \in Nat /\ lost[r] \in Nat /\ failFile[r] \in Nat
  BY DEF PassInv, Typed, TypeOK
<1>2. Reported(r) \in 0 .. 1 /\ late[r] <= lost[r] /\ (r \in made => Reported(r) = 1)
  BY DEF PassInv, Told
<1>3. r \in made => stored[r] > 0  BY <1>1, <1>2 DEF Reported
<1>4. stored[r] <= 1 + lost[r]  BY <1>1, <1>2 DEF Reported
<1>5. ASSUME stored[r] > 0, lost[r] = 0
      PROVE  failFile[r] = 0 /\ r \in made \cup dropped \cup Unread
  <2>1. Reported(r) = 1  BY <1>1, <1>2, <1>5 DEF Reported
  <2>2. r \in made \cup dropped \cup Unread  BY <2>1 DEF PassInv, Told
  <2>3. r \notin Failed  BY <2>2 DEF PassInv, Apart, Settled
  <2> QED  BY <1>1, <2>2, <2>3 DEF Failed
<1> QED  BY <1>3, <1>4, <1>5

(* No row goes to two workers, and what the main thread holds is true of   *)
(* the server at every moment, but for the replies that were lost.         *)
THEOREM ReportsHold == PassSpec => []StoresAreReported
<1>1. PassInv => StoresAreReported
  <2>1. PassInv => ReportsAreTrue  BY StoresExplained DEF ReportsAreTrue
  <2> QED  BY <2>1 DEF PassInv, HandedOnce, StoresAreReported, RowLoadedOnce
<1> QED  BY <1>1, RowsKeepTheirPlace, PTL

(* When a pass has returned, or raised, none of its threads is left.       *)
THEOREM ThreadsEndWithPass == PassSpec => []NoWorkerOutlivesPass
<1>1. PassInv => NoWorkerOutlivesPass
  BY DEF PassInv, Phased, Emptied, NoWorkerOutlivesPass
<1> QED  BY <1>1, RowsKeepTheirPlace, PTL

LEMMA StreamSums == PassInv => StreamAddsUp
<1>1. ASSUME PassInv, pc = "streamed"
      PROVE  LET unaccounted == (InFile \cap Malformed) \cup dropped IN
             /\ queue = << >> /\ running = {}
             /\ \A r \in InFile :
                   /\ r \in made => stored[r] > 0
                   /\ stored[r] > 0 => r \in made \cup dropped \/ lost[r] > 0
                   /\ stored[r] <= 1 + lost[r]
                   /\ failFile[r] = (IF r \in made \cup unaccounted THEN 0 ELSE 1)
             /\ made \cap unaccounted = {}
  <2>1. queue = << >> /\ running = {} /\ finished = {}
    BY <1>1 DEF PassInv, Phased
  <2>2. Queued = {} /\ Running = {} /\ Unread = {} /\ ToCome = {}
    BY <1>1, <2>1, NoRows DEF Queued, Running, Unread, ToCome
  <2>3. /\ (made \cup Failed) \cup dropped = InFile \ Malformed
        /\ made \cap Failed = {} /\ (made \cup Failed) \cap dropped = {}
    BY <1>1, <2>2 DEF PassInv, Nowhere, Streamed, Everywhere, Settled, Apart
  <2>4. \A r \in InFile : r \in Row /\ failFile[r] \in 0 .. 1 /\ lost[r] \in Nat
    <3>1. InFile \subseteq Row  BY FileAssumption DEF InFile
    <3> QED  BY <1>1, <3>1 DEF PassInv, Typed, TypeOK, Told
  <2>5. \A r \in InFile : failFile[r] = 1 <=> r \in Failed  BY <2>4 DEF Failed
  <2>6. \A r \in InFile : /\ r \in made => stored[r] > 0
                          /\ stored[r] > 0 => r \in made \cup dropped \/ lost[r] > 0
                          /\ stored[r] <= 1 + lost[r]
    BY <1>1, <2>2, <2>4, StoresExplained
  <2>7. \A r \in InFile :
           failFile[r] = (IF r \in made \cup ((InFile \cap Malformed) \cup dropped)
                          THEN 0 ELSE 1)
    BY <2>3, <2>4, <2>5
  <2> QED  BY <2>1, <2>3, <2>6, <2>7
<1> QED  BY <1>1 DEF StreamAddsUp

(* What is reported of a streamed pass adds up to the rows of its file.    *)
THEOREM StreamsAddUp == PassSpec => []StreamAddsUp
<1> QED  BY StreamSums, RowsKeepTheirPlace, PTL
-----------------------------------------------------------------------------
(***************************************************************************)
(* The promise of RowLedger, for the whole pass: what is noted of a row is *)
(* final, since a result that is read holds no row of another (Apart), and *)
(* the books are closed on settled rows only.                              *)
(***************************************************************************)
LEMMA ReadNotes ==
    ASSUME Typed, Placed, Told, NEW result \in finished,
           Collect(result) \/ CollectRaised(result) \/ Gather(result),
           NEW r \in Row, Noted(r) # "pending"
    PROVE  Noted(r)' = Noted(r)
<1>1. r \notin result.rows
  BY DEF Noted, Placed, Apart, Unread, Settled, Failed
<1>2. (r \notin result.made /\ r \notin result.failed) \/ result.raised
  BY <1>1 DEF Told, Faithful
<1>3. r \in made' <=> r \in made
  BY <1>2 DEF Collect, CollectRaised, Gather, Gained, books
<1>4. failFile'[r] = failFile[r]
  BY <1>2 DEF Collect, CollectRaised, Gather, books, Typed, TypeOK
<1> QED  BY <1>3, <1>4 DEF Noted

LEMMA NotesAreFinal ==
    ASSUME Typed, Placed, Told, [PassNext]_vars, NEW r \in Row, Noted(r) # "pending"
    PROVE  Noted(r)' = Noted(r)
<1>1. ASSUME UNCHANGED <<made, failFile>> PROVE Noted(r)' = Noted(r)
  BY <1>1 DEF Noted
<1>2. CASE TakeBatch \/ Submit \/ AllSubmitted \/ InterruptSubmit \/ Start
  BY <1>1, <1>2
  DEF TakeBatch, Submit, AllSubmitted, InterruptSubmit, Start, books
<1>3. ASSUME NEW task \in running, NEW ok \in SUBSET task,
             Finish(task, ok) \/ Raise(task, ok)
      PROVE  Noted(r)' = Noted(r)
  BY <1>1, <1>3 DEF Finish, Raise, books
<1>4. CASE Interrupt \/ CollectEnds \/ Cancel \/ Exit
  BY <1>1, <1>4 DEF Interrupt, CollectEnds, Cancel, Exit, books
<1>5. CASE ReadBatch \/ EndOfFile \/ Waited \/ Gathered \/ Unreadable \/ InterruptStream
  BY <1>1, <1>5
  DEF ReadBatch, EndOfFile, Waited, Gathered, Unreadable, InterruptStream, books
<1>6. CASE UNCHANGED vars \/ Idle \/ Network
  BY <1>1, <1>6 DEF Idle, Network, Lose, LateStore, vars, books
<1> QED
  BY <1>2, <1>3, <1>4, <1>5, <1>6, ReadNotes DEF PassNext, Next, Main, Worker, StreamMain

(* A pass that is over stays over.                                         *)
LEMMA OverForGood ==
    ASSUME Phased, [PassNext]_vars, pc \in {"returned", "streamed"}
    PROVE  UNCHANGED <<pc, abort, dropped, made, failFile>>
<1>1. queue = << >> /\ running = {}  BY DEF Phased, Emptied
<1>2. UNCHANGED vars \/ Idle \/ Network
  BY <1>1 DEF PassNext, Next, Main, Worker, StreamMain, TakeBatch, Submit, AllSubmitted,
     Collect, CollectRaised, CollectEnds, Cancel, Exit, Start, InterruptSubmit, Interrupt,
     ReadBatch, EndOfFile, Waited, Gathered, Gather, Unreadable, InterruptStream
<1> QED  BY <1>2 DEF Idle, Network, Lose, LateStore, vars, books

(* The pass keeps the promise its workers give for their batches: for any  *)
(* batches, cuts, threads and orders of completion the outcome noted of a  *)
(* row is final, and a clean return leaves none pending.                   *)
THEOREM PassKeepsLedger == PassSpec => ImplementsLedger
<1>0. Members \subseteq Row  BY BatchesAssumption DEF Members
<1>1. PassInit => Ledger!Init
  <2> SUFFICES ASSUME PassInit PROVE Ledger!Init  OBVIOUS
  <2>1. made = {} /\ ~Complete /\ \A r \in Row : failFile[r] = 0
    BY DEF PassInit, Init, StreamInit, Complete
  <2>2. \A r \in Members : Noted(r) = "pending"  BY <1>0, <2>1 DEF Noted
  <2> QED  BY <2>1, <2>2 DEF Ledger!Init, Outcome, Complete
<1>2. PassInv /\ PassInv' /\ [PassNext]_vars => [Ledger!Settle]_(Ledger!ledgerVars)
  <2> SUFFICES ASSUME PassInv, PassInv', [PassNext]_vars
               PROVE  [Ledger!Settle]_(Ledger!ledgerVars)
    OBVIOUS
  <2>1. CASE Complete
    <3>1. UNCHANGED <<pc, abort, made, failFile>>
      BY <2>1, OverForGood DEF Complete, PassInv
    <3> QED  BY <3>1 DEF Ledger!ledgerVars, Outcome, Noted, Complete
  <2>2. CASE ~Complete
    <3>1. \A r \in Members : Noted(r)' \in {"pending", "created", "failed"}
      BY DEF Noted
    <3>2. \A r \in Members : Noted(r) # "pending" => Noted(r)' = Noted(r)
      BY <1>0, NotesAreFinal DEF PassInv, Placed
    <3>3. ASSUME Complete' PROVE \A r \in Members : Noted(r)' # "pending"
      <4>1. CleanReturnIsComplete'  BY CleanReturns, PTL
      <4>2. \A r \in Members : failFile'[r] \in Nat
        BY <1>0 DEF PassInv, Typed, TypeOK
      <4> QED  BY <3>3, <4>1, <4>2 DEF CleanReturnIsComplete, Complete, Noted
    <3>4. Complete' \in BOOLEAN  BY DEF Complete
    <3> QED  BY <2>2, <3>1, <3>2, <3>3, <3>4 DEF Ledger!Settle, Ledger!Status, Outcome
  <2> QED  BY <2>1, <2>2
<1> QED
  BY <1>1, <1>2, RowsKeepTheirPlace, PTL DEF PassSpec, ImplementsLedger, Ledger!Spec

(* So does a streamed pass for the rows of its file that are whole, unless *)
(* a worker raised: then it does not close its books.                      *)
THEOREM StreamKeepsLedger == StreamInit /\ [][PassNext]_vars => StreamLedger!Spec
<1> DEFINE Whole == InFile \ Malformed
<1>0. Whole \subseteq Row  BY FileAssumption DEF InFile
<1>1. StreamInit => PassInit /\ StreamLedger!Init
  <2> SUFFICES ASSUME StreamInit PROVE StreamLedger!Init  BY DEF PassInit
  <2>1. made = {} /\ ~StreamComplete /\ \A r \in Row : failFile[r] = 0
    BY DEF StreamInit, StreamComplete
  <2>2. \A r \in Whole : Noted(r) = "pending"  BY <1>0, <2>1 DEF Noted
  <2> QED  BY <2>1, <2>2 DEF StreamLedger!Init, StreamOutcome, StreamComplete
<1>2. PassInv /\ PassInv' /\ [PassNext]_vars
         => [StreamLedger!Settle]_(StreamLedger!ledgerVars)
  <2> SUFFICES ASSUME PassInv, PassInv', [PassNext]_vars
               PROVE  [StreamLedger!Settle]_(StreamLedger!ledgerVars)
    OBVIOUS
  <2>1. CASE StreamComplete
    <3>1. UNCHANGED <<pc, dropped, made, failFile>>
      BY <2>1, OverForGood DEF StreamComplete, PassInv
    <3> QED  BY <3>1 DEF StreamLedger!ledgerVars, StreamOutcome, Noted, StreamComplete
  <2>2. CASE ~StreamComplete
    <3>1. \A r \in Whole : Noted(r)' \in {"pending", "created", "failed"}
      BY DEF Noted
    <3>2. \A r \in Whole : Noted(r) # "pending" => Noted(r)' = Noted(r)
      BY <1>0, NotesAreFinal DEF PassInv, Placed
    <3>3. ASSUME StreamComplete' PROVE \A r \in Whole : Noted(r)' # "pending"
      <4>1. StreamAddsUp'  BY StreamSums, PTL
      <4>2. \A r \in Whole : r \notin made' => failFile'[r] = 1
        BY <3>3, <4>1 DEF StreamAddsUp, StreamComplete
      <4> QED  BY <4>2 DEF Noted
    <3>4. StreamComplete' \in BOOLEAN  BY DEF StreamComplete
    <3> QED
      BY <2>2, <3>1, <3>2, <3>3, <3>4
      DEF StreamLedger!Settle, StreamLedger!Status, StreamOutcome
  <2> QED  BY <2>1, <2>2
<1> QED  BY <1>1, <1>2, InitPassInv, PassInvStep, PTL DEF StreamLedger!Spec
=============================================================================
