--------------------------- MODULE LoadBatch_proofs ---------------------------
(***************************************************************************)
(* Theorems about LoadBatch for every batch, every assignment of external  *)
(* ids and every server the module describes.                              *)
(***************************************************************************)
EXTENDS LoadBatch, FiniteSetTheorems, TLAPS

(***************************************************************************)
(* Positions in a set of rows.                                             *)
(***************************************************************************)
LEMMA RowsFinite == IsFiniteSet(Row) /\ \A S \in SUBSET Row : IsFiniteSet(S)
<1>1. IsFiniteSet(Row)  BY NAssumption, FS_Interval DEF Row
<1> QED  BY <1>1, FS_Subset

LEMMA PosType ==
    ASSUME NEW S \in SUBSET Row, NEW r
    PROVE  Pos(S, r) \in Nat
BY RowsFinite, FS_Subset, FS_CardinalityType DEF Pos

(* A member of S has at least itself at or below it. *)
LEMMA PosPositive ==
    ASSUME NEW S \in SUBSET Row, NEW r \in S
    PROVE  Pos(S, r) \in 1 .. Cardinality(S)
<1> DEFINE below == {q \in S : q <= r}
<1>1. r \in below /\ below \in SUBSET S  BY NAssumption DEF Row
<1>2. IsFiniteSet(S) /\ IsFiniteSet(below)  BY <1>1, RowsFinite, FS_Subset
<1>3. Cardinality(below) # 0  BY <1>1, <1>2, FS_EmptySet
<1>4. Cardinality(below) <= Cardinality(S)  BY <1>1, <1>2, FS_Subset
<1>5. Cardinality(below) \in Nat /\ Cardinality(S) \in Nat
  BY <1>2, FS_CardinalityType
<1> QED  BY <1>3, <1>4, <1>5 DEF Pos

(* Two members of S have two positions. *)
LEMMA PosInjective ==
    ASSUME NEW S \in SUBSET Row, NEW r \in S, NEW q \in S, Pos(S, r) = Pos(S, q)
    PROVE  r = q
<1> DEFINE upto(t) == {s \in S : s <= t}
<1>0. \A s \in S : s \in Int  BY NAssumption DEF Row
<1>1. ASSUME NEW a \in S, NEW b \in S, a < b, Pos(S, a) = Pos(S, b) PROVE FALSE
  <2>1. \A s \in S : s <= a => s <= b  BY <1>0, <1>1
  <2>0. upto(a) \in SUBSET upto(b)  BY <2>1
  <2>2. IsFiniteSet(upto(b))  BY RowsFinite
  <2>3. b \in upto(b) /\ b \notin upto(a)  BY <1>0, <1>1
  <2>4. upto(a) # upto(b)  BY <2>3
  <2>5. Cardinality(upto(a)) # Cardinality(upto(b))
    BY <2>0, <2>2, <2>4, FS_Subset
  <2> QED  BY <1>1, <2>5 DEF Pos
<1> QED  BY <1>0, <1>1

(* So the row at a row's position is that row. *)
LEMMA RowAtPos ==
    ASSUME NEW S \in SUBSET Row, NEW r \in S
    PROVE  RowAt(S, Pos(S, r)) = r
<1>1. \E q \in S : Pos(S, q) = Pos(S, r)  OBVIOUS
<1>2. RowAt(S, Pos(S, r)) \in S /\ Pos(S, RowAt(S, Pos(S, r))) = Pos(S, r)
  BY <1>1 DEF RowAt
<1> QED  BY <1>2, PosInjective

LEMMA IdsOfType ==
    ASSUME NEW S \in SUBSET Row, NEW made \in SUBSET S, NEW n \in Nat
    PROVE  IdsOf(S, made, n) \in Seq(Row \cup {NoRow})
BY DEF IdsOf

LEMMA ChunkType == ASSUME TypeOK PROVE Chunk \in SUBSET Row /\ Cardinality(Chunk) \in Nat
<1>1. Chunk \in SUBSET Row  BY DEF Chunk
<1> QED  BY <1>1, RowsFinite, FS_CardinalityType

LEMMA NextHeadType ==
    ASSUME TypeOK, NEW n \in Nat
    PROVE  NextHead(n) \in 1 .. N + 1
BY NAssumption DEF NextHead, TypeOK

LEMMA HalvedType == ASSUME TypeOK PROVE Halved \in 1 .. N
BY NAssumption DEF Halved, TypeOK

LEMMA FailLinesType ==
    ASSUME NEW f \in [Row -> Nat], NEW S
    PROVE  FailLines(f, S) \in [Row -> Nat]
BY DEF FailLines

LEMMA RecordedType ==
    ASSUME NEW m \in [Ids -> Row \cup {NoRow}], NEW rows \in SUBSET Row,
           NEW ids \in Seq(Row \cup {NoRow}), NEW made \in SUBSET Made(rows, ids)
    PROVE  Recorded(m, made, rows, ids) \in [Ids -> Row \cup {NoRow}]
<1>1. ASSUME NEW r \in made PROVE ids[Pos(rows, r)] \in Row \cup {NoRow}
  <2>1. r \in rows /\ Pos(rows, r) <= Len(ids)  BY DEF Made
  <2>2. Pos(rows, r) \in 1 .. Len(ids)
    BY <2>1, PosPositive, PosType
  <2> QED  BY <2>2
<1> QED  BY <1>1 DEF Recorded
-----------------------------------------------------------------------------
(***************************************************************************)
(* Every step keeps the types.                                             *)
(***************************************************************************)
LEMMA InitType == Init => TypeOK
<1> SUFFICES ASSUME Init PROVE TypeOK  OBVIOUS
<1>1. head \in 1 .. N + 1 /\ chunk \in 1 .. N /\ serial \in 0 .. MaxSerial - 1
  BY NAssumption, BoundAssumption DEF Init
<1>2. pending \subseteq SUBSET Row  BY DEF Init
<1>3. call \in [by : Callers, rows : SUBSET Row, answer : Answers]
  BY DEF Init, NoCall, Waiting, Callers, Answers
<1>4. idMap \in [Ids -> Row \cup {NoRow}]  BY DEF Init
<1>5. /\ failed \in [Row -> Nat] /\ stored \in [Row -> Nat]
      /\ late \in [Row -> Nat] /\ lost \in [Row -> Nat]
  BY DEF Init
<1> QED  BY <1>1, <1>2, <1>3, <1>4, <1>5 DEF TypeOK

Calls == [by : Callers, rows : SUBSET Row, answer : Answers]

LEMMA CallType ==
    /\ NoCall \in Calls
    /\ \A caller \in Callers, rows \in SUBSET Row : Load(caller, rows) \in Calls
BY DEF NoCall, Load, Waiting, Calls, Callers, Answers

LEMMA MainType == ASSUME TypeOK, Main PROVE TypeOK'
<1> USE DEF TypeOK, Calls
<1>0. Chunk \in SUBSET Row /\ Cardinality(Chunk) \in Nat  BY ChunkType
<1>h. /\ Halved \in 1 .. N /\ NextHead(chunk) \in 1 .. N + 1
      /\ NextHead(Handed) \in 1 .. N + 1
  BY <1>0, HalvedType, NextHeadType DEF Handed
<1>1. CASE MainSend
  <2>1. failed' \in [Row -> Nat]  BY <1>1, FailLinesType DEF MainSend
  <2>2. call' \in Calls
    BY <1>0, <1>1, CallType DEF MainSend, Callers
  <2>3. head' \in 1 .. N + 1  BY <1>1, <1>h DEF MainSend
  <2> QED  BY <1>1, <2>1, <2>2, <2>3 DEF MainSend, server
<1>2. CASE MainLoaded
  <2> DEFINE made == Made(Matched, call.answer.ids)
  <2>1. call.rows \in SUBSET Row /\ call.answer.ids \in Seq(Row \cup {NoRow})
    BY <1>2 DEF Answers
  <2>2. Matched \in SUBSET Row /\ Matched \ made \in SUBSET Row  BY <2>1 DEF Matched
  <2>3. idMap' \in [Ids -> Row \cup {NoRow}]
    BY <1>2, <2>1, <2>2, RecordedType DEF MainLoaded
  <2>4. pending' \subseteq SUBSET Row  BY <1>2, <2>2 DEF MainLoaded
  <2>5. failed' \in [Row -> Nat]  BY <1>2, FailLinesType DEF MainLoaded
  <2>6. serial' \in 0 .. MaxSerial - 1  BY <1>2, BoundAssumption DEF MainLoaded
  <2>7. call' \in Calls  BY <1>2, CallType DEF MainLoaded
  <2> QED  BY <1>2, <1>h, <2>3, <2>4, <2>5, <2>6, <2>7 DEF MainLoaded, server
<1>3. CASE MainReadTimeout
  <2>1. failed' \in [Row -> Nat]  BY <1>3, FailLinesType DEF MainReadTimeout
  <2>2. call' \in Calls  BY <1>3, CallType DEF MainReadTimeout
  <2> QED  BY <1>3, <1>h, <2>1, <2>2 DEF MainReadTimeout, server
<1>4. CASE MainTooLarge
  <2>1. failed' \in [Row -> Nat]  BY <1>4, FailLinesType DEF MainTooLarge
  <2>2. call' \in Calls  BY <1>4, CallType DEF MainTooLarge
  <2> QED  BY <1>4, <1>h, <2>1, <2>2 DEF MainTooLarge, server
<1>5. CASE MainHalve
  <2>1. call' \in Calls  BY <1>5, CallType DEF MainHalve
  <2> QED  BY <1>5, <1>h, <2>1 DEF MainHalve, server
<1>6. CASE MainSerialization
  <2>1. call' \in Calls  BY <1>6, CallType DEF MainSerialization
  <2>2. serial' \in 0 .. MaxSerial - 1
    BY <1>6, BoundAssumption DEF MainSerialization
  <2>3. head' \in 1 .. N + 1 /\ pending' \subseteq SUBSET Row
    BY <1>6, <1>0, <1>h DEF MainSerialization
  <2> QED  BY <1>6, <1>h, <2>1, <2>2, <2>3 DEF MainSerialization, server
<1>7. CASE MainFallback
  <2>1. call' \in Calls  BY <1>7, CallType DEF MainFallback
  <2>2. pending' \subseteq SUBSET Row  BY <1>7, <1>0 DEF MainFallback
  <2> QED  BY <1>7, <1>h, <2>1, <2>2 DEF MainFallback, server
<1> QED  BY <1>1, <1>2, <1>3, <1>4, <1>5, <1>6, <1>7 DEF Main

LEMMA FallbackType == ASSUME TypeOK, Fallback PROVE TypeOK'
<1> USE DEF TypeOK, Calls
<1>0. call.rows \in SUBSET Row /\ call.answer.ids \in Seq(Row \cup {NoRow})
  BY DEF Answers
<1>1. ASSUME NEW seg \in pending, Search(seg) PROVE TypeOK'
  <2>1. seg \ Ragged \in SUBSET Row  OBVIOUS
  <2>2. call' \in Calls  BY <1>1, <2>1, CallType DEF Search, Callers
  <2>3. failed' \in [Row -> Nat]  BY <1>1, FailLinesType DEF Search
  <2> QED  BY <1>1, <2>2, <2>3 DEF Search, server
<1>2. CASE SearchLoaded
  <2> DEFINE made == Made(call.rows, call.answer.ids)
  <2>1. call.rows \ made \in SUBSET Row  BY <1>0
  <2>2. idMap' \in [Ids -> Row \cup {NoRow}]
    BY <1>2, <1>0, RecordedType DEF SearchLoaded
  <2>3. call' \in Calls  BY <1>2, <2>1, CallType DEF SearchLoaded, Callers
  <2>4. pending' \subseteq SUBSET Row  BY <1>2, <2>1 DEF SearchLoaded
  <2> QED  BY <1>2, <2>2, <2>3, <2>4 DEF SearchLoaded, server
<1>3. CASE SearchSplit
  <2>1. LeftHalf(call.rows) \in SUBSET Row /\ RightHalf(call.rows) \in SUBSET Row
    BY <1>0 DEF LeftHalf, RightHalf
  <2>2. call' \in Calls  BY <1>3, CallType DEF SearchSplit
  <2>3. pending' \subseteq SUBSET Row  BY <1>3, <2>1 DEF SearchSplit
  <2> QED  BY <1>3, <2>2, <2>3 DEF SearchSplit, server
<1>4. CASE SingleLoaded
  <2>1. idMap' \in [Ids -> Row \cup {NoRow}]
    BY <1>4, <1>0, RecordedType DEF SingleLoaded
  <2>2. call' \in Calls  BY <1>4, CallType DEF SingleLoaded
  <2> QED  BY <1>4, <2>1, <2>2 DEF SingleLoaded, server
<1>5. CASE SingleFailed
  <2>1. failed' \in [Row -> Nat]  BY <1>5, FailLinesType DEF SingleFailed
  <2>2. call' \in Calls  BY <1>5, CallType DEF SingleFailed
  <2> QED  BY <1>5, <2>1, <2>2 DEF SingleFailed, server
<1> QED  BY <1>1, <1>2, <1>3, <1>4, <1>5 DEF Fallback

LEMMA AnswerType == ASSUME TypeOK, Answer PROVE TypeOK'
<1> USE DEF TypeOK, Calls
<1>0. call.rows \in SUBSET Row /\ Cardinality(call.rows) \in Nat
  BY RowsFinite, FS_CardinalityType
<1>a. ASSUME NEW a \in Answers PROVE [call EXCEPT !.answer = a] \in Calls
  BY <1>a
<1>f. \A e \in Errors : Failure(e) \in Answers  BY DEF Failure, Answers
<1>1. ASSUME NEW made \in SUBSET call.rows, NEW n \in 0 .. Cardinality(call.rows),
             Execute(made, n)
      PROVE TypeOK'
  <2>1. n \in Nat  BY <1>0
  <2>2. IdsOf(call.rows, made, n) \in Seq(Row \cup {NoRow})  BY <1>0, <2>1, IdsOfType
  <2>3. \A b \in BOOLEAN : [kind |-> "ids", ids |-> IdsOf(call.rows, made, n),
                             rowErrors |-> b] \in Answers
    BY <2>2 DEF Answers
  <2>4. call' \in Calls  BY <1>1, <1>a, <2>3 DEF Execute
  <2>5. stored' \in [Row -> Nat]  BY <1>1 DEF Execute
  <2> QED  BY <1>1, <2>4, <2>5 DEF Execute, client
<1>2. ASSUME NEW e \in Errors, Refuse(e) PROVE TypeOK'
  <2>1. call' \in Calls  BY <1>2, <1>a, <1>f DEF Refuse
  <2> QED  BY <1>2, <2>1 DEF Refuse, client, server
<1>3. ASSUME NEW e \in Errors, Lose(e) PROVE TypeOK'
  <2>1. call' \in Calls  BY <1>3, <1>a, <1>f DEF Lose
  <2>2. lost' \in [Row -> Nat] /\ late' \in [Row -> Nat]  BY <1>3 DEF Lose
  <2> QED  BY <1>3, <2>1, <2>2 DEF Lose, client
<1>4. {"readTimeout", "overload", "transient"} \subseteq Errors
  BY DEF Errors, Transient
<1> QED  BY <1>1, <1>2, <1>3, <1>4 DEF Answer

LEMMA LateType == ASSUME TypeOK, NEW r \in Row, LateStore(r) PROVE TypeOK'
<1>1. late' \in [Row -> Nat] /\ stored' \in [Row -> Nat]  BY DEF LateStore, TypeOK
<1> QED  BY <1>1 DEF LateStore, TypeOK, client

LEMMA StillType == ASSUME TypeOK, UNCHANGED vars PROVE TypeOK'
BY DEF vars, client, server, TypeOK, Callers, Answers

LEMMA TypeStep == TypeOK /\ [Next]_vars => TypeOK'
<1> SUFFICES ASSUME TypeOK, [Next]_vars PROVE TypeOK'  OBVIOUS
<1>1. CASE Main  BY <1>1, MainType
<1>2. CASE Fallback  BY <1>2, FallbackType
<1>3. CASE Answer  BY <1>3, AnswerType
<1>4. CASE \E r \in Row : LateStore(r)  BY <1>4, LateType
<1>5. CASE Return \/ UNCHANGED vars  BY <1>5, StillType DEF Return
<1> QED  BY <1>1, <1>2, <1>3, <1>4, <1>5 DEF Next, Worker

(* The worker never leaves its batch: head stops right past its end, the   *)
(* chunk size stays positive, and only rows of the batch are sent.         *)
THEOREM TypeCorrect == Spec => []TypeOK
BY InitType, TypeStep, PTL DEF Spec
-----------------------------------------------------------------------------
(***************************************************************************)
(* The id map.  It is right because an answer is: at the position of a row *)
(* there is None or that row's own record.  Nothing is assumed about how   *)
(* many ids the server returns, or about external ids being distinct.      *)
(***************************************************************************)
AnswerIsTrue ==
    call.answer.kind = "ids" =>
        \A r \in call.rows :
            Pos(call.rows, r) <= Len(call.answer.ids) =>
                /\ call.answer.ids[Pos(call.rows, r)] \in {NoRow, r}
                /\ call.answer.ids[Pos(call.rows, r)] = r => stored[r] > 0

MapInv == TypeOK /\ IdMapFaithful /\ AnswerIsTrue

LEMMA RecordedFaithful ==
    ASSUME MapInv, call.answer.kind = "ids",
           NEW made \in SUBSET Made(call.rows, call.answer.ids)
    PROVE  LET m == Recorded(idMap, made, call.rows, call.answer.ids)
           IN  \A x \in Ids : m[x] # NoRow => Xid[m[x]] = x /\ stored[m[x]] > 0
<1> DEFINE ids == call.answer.ids
           m == Recorded(idMap, made, call.rows, ids)
           at(r) == ids[Pos(call.rows, r)]
<1>1. ASSUME NEW r \in made PROVE at(r) = r /\ stored[r] > 0
  <2>1. r \in call.rows /\ Pos(call.rows, r) <= Len(ids) /\ at(r) # NoRow
    BY DEF Made
  <2> QED  BY <2>1 DEF MapInv, AnswerIsTrue
<1> SUFFICES ASSUME NEW x \in Ids, m[x] # NoRow
             PROVE  Xid[m[x]] = x /\ stored[m[x]] > 0
  OBVIOUS
<1> DEFINE hits == {r \in made : Xid[r] = x}
           last == {r \in hits : \A s \in hits : s <= r}
           top == CHOOSE r \in last : TRUE
<1>2. m[x] = IF last = {} THEN idMap[x] ELSE at(top)  BY DEF Recorded
<1>3. CASE last = {}  BY <1>2, <1>3 DEF MapInv, IdMapFaithful
<1>4. CASE last # {}
  <2>1. top \in made /\ Xid[top] = x  BY <1>4
  <2> QED  BY <1>1, <1>2, <1>4, <2>1
<1> QED  BY <1>3, <1>4

LEMMA StoredGrows ==
    ASSUME TypeOK, [Next]_vars
    PROVE  \A r \in Row : stored'[r] >= stored[r]
<1>1. CASE Worker \/ Return \/ UNCHANGED vars
  <2>1. UNCHANGED stored
    BY <1>1 DEF Worker, Main, Fallback, MainSend, MainLoaded, MainReadTimeout,
       MainTooLarge, MainHalve, MainSerialization, MainFallback, Search, SearchLoaded,
       SearchSplit, SingleLoaded, SingleFailed, Return, vars, server
  <2> QED  BY <2>1 DEF TypeOK
<1>2. CASE Answer
  BY <1>2 DEF Answer, Execute, Refuse, Lose, server, TypeOK
<1>3. CASE \E r \in Row : LateStore(r)  BY <1>3 DEF LateStore, TypeOK
<1> QED  BY <1>1, <1>2, <1>3 DEF Next

(* The map of the next state, compared with this state's server.           *)
LEMMA MapStep ==
    ASSUME MapInv, [Next]_vars
    PROVE  \A x \in Ids : idMap'[x] # NoRow =>
               Xid[idMap'[x]] = x /\ stored[idMap'[x]] > 0
<1> DEFINE Kept == UNCHANGED idMap
<1>0. call.rows \in SUBSET Row  BY DEF MapInv, TypeOK
<1>1. CASE Kept  BY <1>1 DEF MapInv, IdMapFaithful
<1>2. CASE MainLoaded
  <2>1. idMap' = Recorded(idMap, Made(call.rows, call.answer.ids),
                          call.rows, call.answer.ids)
    BY <1>2 DEF MainLoaded, Matched
  <2>2. call.answer.kind = "ids"  BY <1>2 DEF MainLoaded, Answered
  <2> QED  BY <2>1, <2>2, RecordedFaithful
<1>3. CASE SearchLoaded
  <2> DEFINE named == {r \in Made(call.rows, call.answer.ids) : Xid[r] # EmptyId}
  <2>1. idMap' = Recorded(idMap, named, call.rows, call.answer.ids)
    BY <1>3 DEF SearchLoaded
  <2>2. call.answer.kind = "ids"  BY <1>3 DEF SearchLoaded, Answered
  <2>3. named \in SUBSET Made(call.rows, call.answer.ids)  OBVIOUS
  <2> HIDE DEF named
  <2> QED  BY <2>1, <2>2, <2>3, RecordedFaithful
<1>4. CASE SingleLoaded /\ ~Kept
  <2>1. idMap' = Recorded(idMap, Made(call.rows, call.answer.ids),
                          call.rows, call.answer.ids)
    BY <1>4 DEF SingleLoaded
  <2>2. call.answer.kind = "ids"  BY <1>4 DEF SingleLoaded
  <2> QED  BY <2>1, <2>2, RecordedFaithful
<1>5. [Next]_vars => \/ Kept \/ MainLoaded \/ SearchLoaded \/ SingleLoaded
  BY DEF Next, Worker, Main, Fallback, MainSend, MainReadTimeout, MainTooLarge,
     MainHalve, MainSerialization, MainFallback, Search, SearchSplit, SingleFailed,
     Answer, Execute, Refuse, Lose, LateStore, Return, vars, client
<1> QED  BY <1>1, <1>2, <1>3, <1>4, <1>5

LEMMA ExecuteIsTrue ==
    ASSUME TypeOK, NEW made \in SUBSET call.rows, NEW n \in 0 .. Cardinality(call.rows),
           Execute(made, n)
    PROVE  AnswerIsTrue'
<1> DEFINE rows == call.rows
           ids == IdsOf(rows, made, n)
<1>1. rows \in SUBSET Row  BY DEF TypeOK
<1>2. call'.rows = rows /\ call'.answer.ids = ids
  BY DEF Execute, TypeOK
<1>3. n \in Nat  BY <1>1, RowsFinite, FS_CardinalityType
<1>4. Len(ids) = n  BY <1>3 DEF IdsOf
<1>5. ASSUME NEW r \in rows, Pos(rows, r) <= n
      PROVE  ids[Pos(rows, r)] \in {NoRow, r} /\ (ids[Pos(rows, r)] = r => stored'[r] > 0)
  <2>1. Pos(rows, r) \in 1 .. n  BY <1>1, <1>3, <1>5, PosPositive, PosType
  <2>a. RowAt(rows, Pos(rows, r)) = r  BY <1>1, RowAtPos
  <2>2. ids[Pos(rows, r)] = IF r \in made THEN r ELSE NoRow
    BY <2>1, <2>a DEF IdsOf
  <2>3. r \in made => stored'[r] > 0  BY <1>1 DEF Execute, TypeOK
  <2>4. r # NoRow  BY <1>1, NAssumption DEF Row, NoRow
  <2> QED  BY <2>2, <2>3, <2>4
<1> QED  BY <1>2, <1>4, <1>5 DEF AnswerIsTrue

LEMMA AnswerStep == ASSUME MapInv, [Next]_vars PROVE AnswerIsTrue'
<1>1. CASE UNCHANGED call
  <2>1. \A r \in call.rows : stored'[r] >= stored[r] /\ {stored[r], stored'[r]} \subseteq Nat
    BY StoredGrows, TypeStep DEF MapInv, TypeOK
  <2> QED  BY <1>1, <2>1 DEF MapInv, AnswerIsTrue
<1>2. CASE call'.answer.kind # "ids"  BY <1>2 DEF AnswerIsTrue
<1>3. ASSUME NEW made \in SUBSET call.rows, NEW n \in 0 .. Cardinality(call.rows),
             Execute(made, n)
      PROVE AnswerIsTrue'
  BY <1>3, ExecuteIsTrue DEF MapInv
<1>4. CASE Main \/ Fallback
  <2> DEFINE Idle == call' = call \/ call'.answer = Waiting
  <2>0. NoCall.answer = Waiting /\ \A c, S : Load(c, S).answer = Waiting
    BY DEF NoCall, Load
  <2>1. ASSUME Main PROVE Idle
    BY <2>0, <2>1 DEF Main, MainSend, MainLoaded, MainReadTimeout, MainTooLarge,
       MainHalve, MainSerialization, MainFallback
  <2>2. ASSUME NEW seg \in pending, Search(seg) PROVE Idle
    BY <2>0, <2>2 DEF Search
  <2>3. ASSUME SearchLoaded \/ SearchSplit \/ SingleLoaded \/ SingleFailed PROVE Idle
    BY <2>0, <2>3 DEF SearchLoaded, SearchSplit, SingleLoaded, SingleFailed
  <2>4. Idle  BY <1>4, <2>1, <2>2, <2>3 DEF Fallback
  <2> QED  BY <1>1, <1>2, <2>4 DEF Waiting
<1>5. ASSUME NEW e \in Errors, Refuse(e) \/ Lose(e) PROVE AnswerIsTrue'
  <2>1. call'.answer.kind = e  BY <1>5 DEF Refuse, Lose, Failure, MapInv, TypeOK
  <2> QED  BY <1>2, <2>1 DEF Errors, Transient
<1>6. (\E r \in Row : LateStore(r)) \/ Return \/ UNCHANGED vars => UNCHANGED call
  BY DEF LateStore, Return, vars
<1>7. {"readTimeout", "overload", "transient"} \subseteq Errors  BY DEF Errors, Transient
<1> QED  BY <1>1, <1>3, <1>4, <1>5, <1>6, <1>7 DEF Next, Worker, Answer

LEMMA MapInvInit == Init => MapInv
<1> SUFFICES ASSUME Init PROVE MapInv  OBVIOUS
<1>1. IdMapFaithful  BY DEF Init, IdMapFaithful
<1>2. AnswerIsTrue  BY DEF Init, AnswerIsTrue, NoCall, Waiting
<1> QED  BY <1>1, <1>2, InitType DEF MapInv

LEMMA MapInvStep == MapInv /\ [Next]_vars => MapInv'
<1> SUFFICES ASSUME MapInv, [Next]_vars PROVE MapInv'  OBVIOUS
<1>1. TypeOK'  BY TypeStep DEF MapInv
<1>2. \A r \in Row : stored'[r] >= stored[r]  BY StoredGrows DEF MapInv
<1>3. ASSUME NEW x \in Ids, idMap'[x] # NoRow
      PROVE  Xid[idMap'[x]] = x /\ stored'[idMap'[x]] > 0
  <2>1. idMap'[x] \in Row  BY <1>1, <1>3 DEF TypeOK
  <2>2. Xid[idMap'[x]] = x /\ stored[idMap'[x]] > 0  BY <1>3, MapStep
  <2> QED  BY <1>1, <1>2, <2>1, <2>2 DEF TypeOK, MapInv
<1>4. IdMapFaithful'  BY <1>3 DEF IdMapFaithful, Ids
<1> QED  BY <1>1, <1>4, AnswerStep DEF MapInv

(* Pass 2 may trust the map: an external id leads to a record the server   *)
(* made from a row that carries this external id, in every batch, however  *)
(* the rows were filtered, halved, searched and retried on the way.        *)
THEOREM MapIsFaithful == Spec => []IdMapFaithful
<1>1. MapInv => IdMapFaithful  BY DEF MapInv
<1> QED  BY <1>1, MapInvInit, MapInvStep, PTL DEF Spec
-----------------------------------------------------------------------------
(***************************************************************************)
(* The books.  Against a server that stores all the rows of a call or none *)
(* of them, and for rows that each have an external id of their own, the   *)
(* worker implements RowLedger.  Every row is in one place: still ahead in *)
(* the batch, in a segment to search, in the call under way, or settled.   *)
(***************************************************************************)
Contract ==
    /\ Shapes \subseteq {"all", "none"}
    /\ \A r \in Row : Xid[r] # EmptyId
    /\ \A r, s \in Row : Xid[r] = Xid[s] => r = s
    /\ Ignoring => Short = {}

Ahead == {r \in Row : head <= r}
Open == Ahead \cup (UNION pending) \cup call.rows

OnePlace ==
    /\ call.by \in {"none", "main", "search", "single"}
    /\ call.by = "none" => call = NoCall
    /\ call.by = "main" => head <= N /\ pending = {} /\ call.rows = Chunk
    /\ call.by # "main" => call.rows \cap (Ahead \cup UNION pending) = {}
    /\ Ahead \cap UNION pending = {}
    /\ \A s, t \in pending : s = t \/ s \cap t = {}

WholeAnswer ==
    call.answer.kind = "ids" =>
        LET made == Made(call.rows, call.answer.ids)
        IN  \/ call.answer.ids = << >> /\ made = {}
            \/ Len(call.answer.ids) = Cardinality(call.rows) /\ made = call.rows

Settled ==
    \A r \in Row :
        /\ r \in Open => failed[r] = 0 /\ ~Mapped(r)
        /\ r \notin Open => failed[r] + (IF Mapped(r) THEN 1 ELSE 0) = 1

LedgerInv == TypeOK /\ OnePlace /\ WholeAnswer /\ Settled

(* A step settles the rows of F as failed and those of M as made.          *)
Settles(F, M) ==
    /\ F \subseteq Open /\ M \subseteq Open /\ F \cap M = {}
    /\ \A r \in Row : failed'[r] = IF r \in F THEN failed[r] + 1 ELSE failed[r]
    /\ \A r \in Row : Mapped(r)' <=> Mapped(r) \/ r \in M
    /\ Open' = Open \ (F \cup M)

LEMMA OpenIsRows == ASSUME TypeOK PROVE Open \in SUBSET Row
<1>1. call.rows \in SUBSET Row  BY DEF TypeOK
<1>2. pending \in SUBSET SUBSET Row  BY DEF TypeOK
<1>3. UNION pending \in SUBSET Row  BY <1>2
<1> QED  BY <1>1, <1>3 DEF Open, Ahead

LEMMA SettledStep ==
    ASSUME LedgerInv, NEW F, NEW M, Settles(F, M)
    PROVE  Settled'
<1> SUFFICES ASSUME NEW r \in Row
             PROVE  /\ r \in Open' => failed'[r] = 0 /\ ~Mapped(r)'
                    /\ r \notin Open' => failed'[r] + (IF Mapped(r)' THEN 1 ELSE 0) = 1
  BY DEF Settled
<1>1. failed[r] \in Nat  BY DEF LedgerInv, TypeOK
<1>2. CASE r \in Open
  <2>1. failed[r] = 0 /\ ~Mapped(r)  BY <1>2 DEF LedgerInv, Settled
  <2>2. CASE r \in F  BY <1>2, <2>1, <2>2 DEF Settles
  <2>3. CASE r \in M  BY <1>2, <2>1, <2>3 DEF Settles
  <2>4. CASE r \notin F /\ r \notin M  BY <1>2, <2>1, <2>4 DEF Settles
  <2> QED  BY <2>2, <2>3, <2>4
<1>3. CASE r \notin Open
  <2>1. failed[r] + (IF Mapped(r) THEN 1 ELSE 0) = 1
    BY <1>3 DEF LedgerInv, Settled
  <2>2. r \notin F /\ r \notin M /\ r \notin Open'  BY <1>3 DEF Settles
  <2>3. failed'[r] = failed[r] /\ (Mapped(r)' <=> Mapped(r))  BY <2>2 DEF Settles
  <2> QED  BY <2>1, <2>2, <2>3
<1> QED  BY <1>2, <1>3

(* With an id of its own, a row enters the map when it is recorded and     *)
(* disturbs no other row.                                                  *)
LEMMA RecordedDistinct ==
    ASSUME Contract, NEW m \in [Ids -> Row \cup {NoRow}], NEW rows \in SUBSET Row,
           NEW ids, NEW made \in SUBSET Made(rows, ids), NEW r \in Row
    PROVE  Recorded(m, made, rows, ids)[Xid[r]] # NoRow <=> m[Xid[r]] # NoRow \/ r \in made
<1> DEFINE hits == {q \in made : Xid[q] = Xid[r]}
           last == {q \in hits : \A t \in hits : t <= q}
           top == CHOOSE q \in last : TRUE
<1>1. Xid[r] \in Ids  BY DEF Ids
<1>2. Recorded(m, made, rows, ids)[Xid[r]] =
        IF last = {} THEN m[Xid[r]] ELSE ids[Pos(rows, top)]
  BY <1>1 DEF Recorded
<1>3. made \subseteq Row  BY DEF Made
<1>4. hits \subseteq {r}  BY <1>3 DEF Contract
<1>5. CASE r \in made
  <2>1. hits = {r}  BY <1>4, <1>5
  <2>2. last = {r}  BY <2>1, NAssumption DEF Row
  <2>3. top = r  BY <2>2
  <2>4. ids[Pos(rows, r)] # NoRow  BY <1>5 DEF Made
  <2> HIDE DEF hits, last, top
  <2> QED  BY <1>2, <1>5, <2>2, <2>3, <2>4
<1>6. CASE r \notin made
  <2>1. hits = {}  BY <1>4, <1>6
  <2>2. last = {}  BY <2>1
  <2> HIDE DEF hits, last, top
  <2> QED  BY <1>2, <1>6, <2>2
<1> QED  BY <1>5, <1>6

LEMMA NextHeadPasses ==
    ASSUME TypeOK, NEW n \in Nat, NEW r \in Row
    PROVE  NextHead(n) <= r <=> head + n <= r
BY NAssumption DEF NextHead, Row, TypeOK

LEMMA ChunkSize ==
    ASSUME TypeOK, head <= N
    PROVE  /\ \A r \in Row : r \in Chunk <=> head <= r /\ r < head + Cardinality(Chunk)
           /\ Chunk # {} /\ Cardinality(Chunk) \in Nat \ {0}
<1> DEFINE end == IF head + chunk - 1 <= N THEN head + chunk - 1 ELSE N
<1>1. end \in Int /\ head <= end /\ end <= N  BY NAssumption DEF TypeOK
<1>0. head \in Int /\ chunk \in Int /\ 1 <= head /\ N \in Int
  BY NAssumption DEF TypeOK
<1>2. \A r : r \in Chunk <=> r \in head .. end  BY <1>0, <1>1 DEF Chunk, Row
<1>3. PICK e \in Int : head <= e /\ e <= N /\ Chunk = head .. e  BY <1>1, <1>2
<1>4. head \in 1 .. N  BY NAssumption DEF TypeOK
<1>5. Cardinality(head .. e) = IF head > e THEN 0 ELSE e - head + 1
  BY <1>3, <1>4, FS_Interval
<1>6. Cardinality(Chunk) = e - head + 1  BY <1>3, <1>4, <1>5
<1>7. head \in Chunk  BY <1>3, <1>4
<1>8. \A r \in Row : r \in Chunk <=> head <= r /\ r <= e  BY <1>0, <1>3 DEF Row
<1>9. \A r \in Row : r \in Int  BY <1>0 DEF Row
<1>a. Cardinality(Chunk) \in Nat \ {0} /\ head + Cardinality(Chunk) = e + 1
  BY <1>0, <1>3, <1>6
<1>b. \A r \in Row : r \in Chunk <=> head <= r /\ r < head + Cardinality(Chunk)
  BY <1>8, <1>9, <1>a, <1>3
<1> QED  BY <1>7, <1>a, <1>b

LEMMA AheadStep ==
    ASSUME TypeOK, NEW n \in Nat, head' = NextHead(n),
           \A r \in Row : r \in Chunk <=> head <= r /\ r < head + n
    PROVE  Ahead' = Ahead \ Chunk
<1>1. ASSUME NEW r \in Row PROVE head' <= r <=> head <= r /\ r \notin Chunk
  <2>1. head' <= r <=> head + n <= r  BY NextHeadPasses
  <2>2. r \in Int /\ head \in Int  BY NAssumption DEF Row, TypeOK
  <2> QED  BY <2>1, <2>2
<1> QED  BY <1>1 DEF Ahead

LEMMA ChunkAhead == ASSUME TypeOK PROVE Chunk \subseteq Ahead
BY DEF Chunk, Ahead

LEMMA ChunkSpan ==
    ASSUME TypeOK PROVE \A r \in Row : r \in Chunk <=> head <= r /\ r < head + chunk
BY DEF Chunk

LEMMA NothingTooShort == ASSUME Contract PROVE TooShort = {}
BY DEF Contract, TooShort

LEMMA Quiet == ASSUME call'.answer = Waiting PROVE WholeAnswer'
BY DEF WholeAnswer, Waiting

LEMMA FailLinesAt ==
    ASSUME NEW S, failed' = FailLines(failed, S)
    PROVE  \A r \in Row : failed'[r] = IF r \in S THEN failed[r] + 1 ELSE failed[r]
BY DEF FailLines

LEMMA MappedSame == ASSUME UNCHANGED idMap PROVE \A r \in Row : Mapped(r)' <=> Mapped(r)
BY DEF Mapped

LEMMA MappedMore ==
    ASSUME Contract, TypeOK, NEW made \in SUBSET Made(call.rows, call.answer.ids),
           idMap' = Recorded(idMap, made, call.rows, call.answer.ids)
    PROVE  \A r \in Row : Mapped(r)' <=> Mapped(r) \/ r \in made
<1>1. idMap \in [Ids -> Row \cup {NoRow}] /\ call.rows \in SUBSET Row  BY DEF TypeOK
<1> QED  BY <1>1, RecordedDistinct DEF Mapped

(* What each action has to show.                                           *)
Kept == OnePlace' /\ WholeAnswer' /\ \E F, M : Settles(F, M)

LEMMA MainSendKeeps == ASSUME Contract, LedgerInv, MainSend PROVE Kept
<1>0. TypeOK /\ head <= N /\ pending = {} /\ call = NoCall  BY DEF MainSend, LedgerInv
<1>1. TooShort = {} /\ Chunk # {}  BY <1>0, ChunkSize, NothingTooShort
<1>2. call' = Load("main", Chunk) /\ failed' = FailLines(failed, {})
  BY <1>1 DEF MainSend
<1>3. UNCHANGED <<head, chunk, pending, idMap>>  BY <1>1 DEF MainSend
<1>4. call'.by = "main" /\ call'.rows = Chunk /\ call'.answer = Waiting
  BY <1>2 DEF Load
<1>5. Chunk' = Chunk /\ Ahead' = Ahead  BY <1>3 DEF Chunk, Ahead
<1>6. OnePlace'  BY <1>0, <1>3, <1>4, <1>5 DEF OnePlace
<1>7. Open' = Open  BY <1>0, <1>3, <1>4, <1>5, ChunkAhead DEF Open, NoCall
<1>8. Settles({}, {})  BY <1>2, <1>3, <1>7, FailLinesAt, MappedSame DEF Settles
<1> QED  BY <1>4, <1>6, <1>8, Quiet DEF Kept

(* What a call of the main loop holds is all that is ahead in its chunk.   *)
LEMMA MainCall ==
    ASSUME LedgerInv, call.by = "main"
    PROVE  /\ TypeOK /\ head <= N /\ pending = {} /\ call.rows = Chunk
           /\ Open = Ahead /\ Chunk \subseteq Ahead
<1>1. TypeOK /\ head <= N /\ pending = {} /\ call.rows = Chunk
  BY DEF LedgerInv, OnePlace
<1> QED  BY <1>1, ChunkAhead DEF Open

(* The chunk is passed, some of its rows failed, others made, and the rest *)
(* handed to the fallback as one segment.                                  *)
LEMMA ChunkPassed ==
    ASSUME LedgerInv, call.by = "main", NEW F, NEW M, NEW rest,
           F \cup M \cup rest = Chunk, F \cap M = {}, (F \cup M) \cap rest = {},
           Ahead' = Ahead \ Chunk, call' = NoCall,
           pending' = IF rest = {} THEN {} ELSE {rest},
           \A r \in Row : failed'[r] = IF r \in F THEN failed[r] + 1 ELSE failed[r],
           \A r \in Row : Mapped(r)' <=> Mapped(r) \/ r \in M
    PROVE  Kept
<1>0. TypeOK /\ Open = Ahead /\ Chunk \subseteq Ahead  BY MainCall
<1>1. UNION pending' = rest  OBVIOUS
<1>2. call'.by = "none" /\ call'.rows = {} /\ call'.answer = Waiting  BY DEF NoCall
<1>3. Open' = Open \ (F \cup M)  BY <1>0, <1>1, <1>2 DEF Open
<1>4. Settles(F, M)  BY <1>0, <1>3 DEF Settles
<1>5. OnePlace'  BY <1>1, <1>2 DEF OnePlace
<1> QED  BY <1>2, <1>4, <1>5, Quiet DEF Kept

LEMMA MainLoadedKeeps == ASSUME Contract, LedgerInv, MainLoaded PROVE Kept
<1> DEFINE rows == call.rows
           ids == call.answer.ids
           made == Made(rows, ids)
           missing == rows \ made
           count == Cardinality(rows) - Len(ids)
           search == count > 1 /\ ~call.answer.rowErrors
<1>0. call.by = "main" /\ call.answer.kind = "ids"  BY DEF MainLoaded, Answered
<1>1. TypeOK /\ head <= N /\ rows = Chunk  BY <1>0, MainCall
<1>2. Cardinality(rows) \in Nat \ {0} /\ rows # {}  BY <1>1, ChunkSize
<1>3. Ahead' = Ahead \ Chunk
  <2>1. head' = NextHead(chunk)  BY DEF MainLoaded
  <2>2. chunk \in Nat  BY <1>1, NAssumption DEF TypeOK
  <2> QED  BY <1>1, <2>1, <2>2, AheadStep, ChunkSpan
<1>4. \A r \in Row : Mapped(r)' <=> Mapped(r) \/ r \in made
  <2>1. idMap' = Recorded(idMap, made, rows, ids)  BY DEF MainLoaded, Matched
  <2> QED  BY <1>1, <2>1, MappedMore
<1>5. /\ call' = NoCall
      /\ pending' = IF search THEN {missing} ELSE {}
      /\ failed' = IF count > 0 /\ ~search THEN FailLines(failed, missing) ELSE failed
  BY DEF MainLoaded, Matched
<1>6. CASE ids = << >> /\ made = {}
  <2>1. count > 0 /\ missing = rows  BY <1>2, <1>6
  <2> HIDE DEF count, made, missing, search
  <2>2. CASE search
    <3>1. pending' = {rows} /\ failed' = failed  BY <1>5, <2>1, <2>2
    <3>2. \A r \in Row : failed'[r] = IF r \in {} THEN failed[r] + 1 ELSE failed[r]
      BY <3>1
    <3>3. \A r \in Row : Mapped(r)' <=> Mapped(r) \/ r \in {}  BY <1>4, <1>6
    <3>4. pending' = IF rows = {} THEN {} ELSE {rows}  BY <1>2, <3>1
    <3>5. /\ {} \cup {} \cup rows = Chunk /\ {} \cap {} = {}
          /\ ({} \cup {}) \cap rows = {}
      BY <1>1
    <3> QED  BY <1>0, <1>3, <1>5, <3>2, <3>3, <3>4, <3>5, ChunkPassed
  <2>3. CASE ~search
    <3>1. pending' = {} /\ failed' = FailLines(failed, rows)  BY <1>5, <2>1, <2>3
    <3>2. \A r \in Row : failed'[r] = IF r \in rows THEN failed[r] + 1 ELSE failed[r]
      BY <3>1, FailLinesAt
    <3>3. \A r \in Row : Mapped(r)' <=> Mapped(r) \/ r \in {}  BY <1>4, <1>6
    <3>4. pending' = IF {} = {} THEN {} ELSE {{}}  BY <3>1
    <3> QED  BY <1>0, <1>1, <1>3, <1>5, <3>2, <3>3, <3>4, ChunkPassed
  <2> QED  BY <2>2, <2>3
<1>7. CASE Len(ids) = Cardinality(rows) /\ made = rows
  <2>1. pending' = {} /\ failed' = failed  BY <1>2, <1>5, <1>7
  <2>2. \A r \in Row : failed'[r] = IF r \in {} THEN failed[r] + 1 ELSE failed[r]
    BY <2>1
  <2>3. \A r \in Row : Mapped(r)' <=> Mapped(r) \/ r \in rows  BY <1>4, <1>7
  <2>4. pending' = IF {} = {} THEN {} ELSE {{}}  BY <2>1
  <2> QED  BY <1>0, <1>1, <1>3, <1>5, <2>2, <2>3, <2>4, ChunkPassed
<1> QED  BY <1>0, <1>6, <1>7 DEF LedgerInv, WholeAnswer

LEMMA ChunkFailed ==
    ASSUME LedgerInv, call.by = "main", call' = NoCall, head' = NextHead(chunk),
           failed' = FailLines(failed, call.rows), UNCHANGED <<pending, idMap>>
    PROVE  Kept
<1>1. TypeOK /\ pending = {} /\ call.rows = Chunk  BY MainCall
<1>2. chunk \in Nat  BY <1>1, NAssumption DEF TypeOK
<1>3. Ahead' = Ahead \ Chunk  BY <1>1, <1>2, AheadStep, ChunkSpan
<1>4. \A r \in Row : failed'[r] = IF r \in Chunk THEN failed[r] + 1 ELSE failed[r]
  BY <1>1, FailLinesAt
<1>5. \A r \in Row : Mapped(r)' <=> Mapped(r) \/ r \in {}  BY MappedSame
<1>6. pending' = IF {} = {} THEN {} ELSE {{}}  BY <1>1
<1>7. Chunk \cup {} \cup {} = Chunk /\ Chunk \cap {} = {} /\ (Chunk \cup {}) \cap {} = {}
  OBVIOUS
<1> QED  BY <1>3, <1>4, <1>5, <1>6, <1>7, ChunkPassed

LEMMA ChunkHanded ==
    ASSUME LedgerInv, call.by = "main", call' = NoCall, Ahead' = Ahead \ Chunk,
           pending' = {Chunk}, UNCHANGED <<failed, idMap>>
    PROVE  Kept
<1>1. TypeOK /\ head <= N  BY MainCall
<1>2. Chunk # {}  BY <1>1, ChunkSize
<1>3. \A r \in Row : failed'[r] = IF r \in {} THEN failed[r] + 1 ELSE failed[r]
  OBVIOUS
<1>4. \A r \in Row : Mapped(r)' <=> Mapped(r) \/ r \in {}  BY MappedSame
<1>5. pending' = IF Chunk = {} THEN {} ELSE {Chunk}  BY <1>2
<1>6. {} \cup {} \cup Chunk = Chunk /\ {} \cap {} = {} /\ ({} \cup {}) \cap Chunk = {}
  OBVIOUS
<1> QED  BY <1>3, <1>4, <1>5, <1>6, ChunkPassed

(* The same rows are to be sent again, in a smaller chunk.                 *)
LEMMA Retried ==
    ASSUME LedgerInv, call.by = "main", call' = NoCall,
           UNCHANGED <<head, pending, failed, idMap>>
    PROVE  Kept
<1>1. TypeOK /\ pending = {} /\ Open = Ahead  BY MainCall
<1>2. Ahead' = Ahead  BY DEF Ahead
<1>3. call'.by = "none" /\ call'.rows = {} /\ call'.answer = Waiting  BY DEF NoCall
<1>4. Open' = Open  BY <1>1, <1>2, <1>3 DEF Open
<1>5. Settles({}, {})  BY <1>4, MappedSame DEF Settles
<1>6. OnePlace'  BY <1>1, <1>3 DEF OnePlace
<1> QED  BY <1>3, <1>5, <1>6, Quiet DEF Kept

LEMMA MainKeeps == ASSUME Contract, LedgerInv, Main PROVE Kept
<1>0. TypeOK  BY DEF LedgerInv
<1>1. CASE MainSend  BY <1>1, MainSendKeeps
<1>2. CASE MainLoaded  BY <1>2, MainLoadedKeeps
<1>3. CASE MainReadTimeout
  BY <1>3, ChunkFailed DEF MainReadTimeout, Answered
<1>4. CASE MainTooLarge
  BY <1>4, ChunkFailed DEF MainTooLarge, Answered
<1>5. CASE MainHalve
  BY <1>5, Retried DEF MainHalve, Answered
<1>6. CASE MainSerialization
  <2>1. call.by = "main" /\ call' = NoCall /\ UNCHANGED <<failed, idMap>>
    BY <1>6 DEF MainSerialization, Answered
  <2>2. CASE serial + 1 < MaxSerial
    BY <1>6, <2>1, <2>2, Retried DEF MainSerialization
  <2>3. CASE ~(serial + 1 < MaxSerial)
    <3>1. head' = NextHead(Cardinality(Chunk)) /\ pending' = {Chunk}
      BY <1>6, <2>3 DEF MainSerialization, Handed
    <3>2. head <= N  BY <2>1, MainCall
    <3>3. Ahead' = Ahead \ Chunk  BY <1>0, <3>1, <3>2, ChunkSize, AheadStep
    <3> QED  BY <2>1, <3>1, <3>3, ChunkHanded
  <2> QED  BY <2>2, <2>3
<1>7. CASE MainFallback
  <2>1. /\ call.by = "main" /\ call' = NoCall /\ UNCHANGED <<failed, idMap>>
        /\ head' = NextHead(chunk) /\ pending' = {Chunk}
    BY <1>7 DEF MainFallback, Answered
  <2>2. chunk \in Nat  BY <1>0, NAssumption DEF TypeOK
  <2>3. Ahead' = Ahead \ Chunk  BY <1>0, <2>1, <2>2, AheadStep, ChunkSpan
  <2> QED  BY <2>1, <2>3, ChunkHanded
<1> QED  BY <1>1, <1>2, <1>3, <1>4, <1>5, <1>6, <1>7 DEF Main

(* What a call of the fallback holds is in no other place.                 *)
LEMMA FallbackCall ==
    ASSUME LedgerInv, call.by \in {"search", "single"}
    PROVE  /\ TypeOK /\ call.rows \in SUBSET Row
           /\ call.rows \cap Ahead = {} /\ call.rows \cap UNION pending = {}
           /\ Ahead \cap UNION pending = {}
           /\ \A s, t \in pending : s = t \/ s \cap t = {}
BY DEF LedgerInv, OnePlace, TypeOK

(* The call's rows are settled, some failed and others made.               *)
LEMMA CallSettled ==
    ASSUME LedgerInv, call.by \in {"search", "single"}, NEW F, NEW M,
           F \cup M = call.rows, F \cap M = {},
           call' = NoCall, UNCHANGED <<head, pending>>,
           \A r \in Row : failed'[r] = IF r \in F THEN failed[r] + 1 ELSE failed[r],
           \A r \in Row : Mapped(r)' <=> Mapped(r) \/ r \in M
    PROVE  Kept
<1>1. Ahead' = Ahead /\ UNION pending' = UNION pending  BY DEF Ahead
<1>2. call'.by = "none" /\ call'.rows = {} /\ call'.answer = Waiting  BY DEF NoCall
<1>3. Open' = Open \ (F \cup M)  BY <1>1, <1>2, FallbackCall DEF Open
<1>4. Settles(F, M)  BY <1>3 DEF Settles, Open
<1>5. OnePlace'  BY <1>1, <1>2, FallbackCall DEF OnePlace
<1> QED  BY <1>2, <1>4, <1>5, Quiet DEF Kept

LEMMA SearchKeeps ==
    ASSUME Contract, LedgerInv, NEW seg \in pending, Search(seg)
    PROVE  Kept
<1> DEFINE valid == seg \ Ragged
           bad == seg \cap Ragged
<1>0. /\ TypeOK /\ call = NoCall /\ call.rows = {} /\ call.by = "none"
      /\ Ahead \cap UNION pending = {}
      /\ \A s, t \in pending : s = t \/ s \cap t = {}
  BY DEF Search, LedgerInv, OnePlace, NoCall
<1>1. /\ pending' = pending \ {seg} /\ failed' = FailLines(failed, bad)
      /\ UNCHANGED <<head, idMap>>
  BY DEF Search
<1>2. Ahead' = Ahead  BY <1>1 DEF Ahead
<1>3. UNION pending = (UNION pending') \cup seg /\ (UNION pending') \cap seg = {}
  BY <1>0, <1>1
<1>4. /\ call'.rows = valid /\ call'.answer = Waiting
      /\ call'.by \in {"none", "single", "search"}
      /\ call'.by = "none" => call' = NoCall
  BY DEF Search, NoCall, Load
<1>5. Open' = Open \ (bad \cup {})  BY <1>0, <1>2, <1>3, <1>4 DEF Open
<1>6. Settles(bad, {})
  BY <1>1, <1>3, <1>5, FailLinesAt, MappedSame DEF Settles, Open
<1>7. OnePlace'  BY <1>0, <1>1, <1>2, <1>3, <1>4 DEF OnePlace
<1> QED  BY <1>4, <1>6, <1>7, Quiet DEF Kept

LEMMA NothingFails ==
    ASSUME UNCHANGED failed
    PROVE  \A r \in Row : failed'[r] = IF r \in {} THEN failed[r] + 1 ELSE failed[r]
OBVIOUS

LEMMA SearchLoadedKeeps == ASSUME Contract, LedgerInv, SearchLoaded PROVE Kept
<1> DEFINE rows == call.rows
           ids == call.answer.ids
           made == Made(rows, ids)
           named == {r \in made : Xid[r] # EmptyId}
<1>0. call.by = "search" /\ call.answer.kind = "ids" /\ ids # << >>
  BY DEF SearchLoaded, Answered
<1>1. TypeOK /\ rows \in SUBSET Row  BY <1>0, FallbackCall
<1>2. made = rows  BY <1>0 DEF LedgerInv, WholeAnswer
<1>3. named = rows  BY <1>1, <1>2 DEF Contract
<1>4. Cardinality(rows \ made) = 0  BY <1>2, FS_EmptySet
<1>5. call' = NoCall /\ UNCHANGED <<head, pending, failed>>
  BY <1>4 DEF SearchLoaded
<1>6. \A r \in Row : Mapped(r)' <=> Mapped(r) \/ r \in rows
  <2>1. idMap' = Recorded(idMap, named, rows, ids)  BY DEF SearchLoaded
  <2>2. named \in SUBSET Made(rows, ids)  OBVIOUS
  <2>3. \A r \in Row : Mapped(r)' <=> Mapped(r) \/ r \in named
    BY <1>1, <2>1, <2>2, MappedMore
  <2> QED  BY <1>3, <2>3
<1>7. {} \cup rows = rows /\ {} \cap rows = {}  OBVIOUS
<1> QED  BY <1>0, <1>5, <1>6, <1>7, NothingFails, CallSettled

LEMMA SearchSplitKeeps == ASSUME Contract, LedgerInv, SearchSplit PROVE Kept
<1> DEFINE L == LeftHalf(call.rows)
           R == RightHalf(call.rows)
<1>0. call.by = "search"  BY DEF SearchSplit, Answered
<1>1. L \cup R = call.rows /\ L \cap R = {}  BY DEF LeftHalf, RightHalf
<1>2. /\ pending' = pending \cup {L, R} /\ call' = NoCall
      /\ UNCHANGED <<head, idMap, failed>>
  BY DEF SearchSplit
<1>3. Ahead' = Ahead  BY <1>2 DEF Ahead
<1> HIDE DEF L, R
<1>4. UNION pending' = (UNION pending) \cup call.rows  BY <1>1, <1>2
<1>5. call'.by = "none" /\ call'.rows = {} /\ call'.answer = Waiting
  BY <1>2 DEF NoCall
<1>6. Open' = Open  BY <1>3, <1>4, <1>5 DEF Open
<1>7. Settles({}, {})  BY <1>2, <1>6, MappedSame DEF Settles
<1>8. ASSUME NEW s \in pending', NEW t \in pending' PROVE s = t \/ s \cap t = {}
  <2>1. \A u \in pending : u \cap L = {} /\ u \cap R = {}
    BY <1>0, <1>1, FallbackCall
  <2> QED  BY <1>0, <1>1, <1>2, <1>8, <2>1, FallbackCall
<1>9. OnePlace'  BY <1>0, <1>2, <1>3, <1>4, <1>5, <1>8, FallbackCall DEF OnePlace
<1> QED  BY <1>5, <1>7, <1>9, Quiet DEF Kept

LEMMA SingleLoadedKeeps == ASSUME Contract, LedgerInv, SingleLoaded PROVE Kept
<1> DEFINE rows == call.rows
           ids == call.answer.ids
           made == Made(rows, ids)
<1>0. call.by = "single" /\ call.answer.kind = "ids" /\ made # {}
  BY DEF SingleLoaded, LedgerInv, OnePlace
<1>1. TypeOK /\ made = rows  BY <1>0 DEF LedgerInv, WholeAnswer
<1>2. call' = NoCall /\ UNCHANGED <<head, pending, failed>>  BY DEF SingleLoaded
<1>3. idMap' = Recorded(idMap, made, rows, ids)  BY <1>0 DEF SingleLoaded
<1>4. \A r \in Row : Mapped(r)' <=> Mapped(r) \/ r \in made  BY <1>1, <1>3, MappedMore
<1>5. {} \cup rows = rows /\ {} \cap rows = {}  OBVIOUS
<1> QED  BY <1>0, <1>1, <1>2, <1>4, <1>5, NothingFails, CallSettled

LEMMA SingleFailedKeeps == ASSUME Contract, LedgerInv, SingleFailed PROVE Kept
<1>0. call.by = "single"  BY DEF SingleFailed, LedgerInv, OnePlace
<1>1. /\ call' = NoCall /\ UNCHANGED <<head, pending, idMap>>
      /\ failed' = FailLines(failed, call.rows)
  BY DEF SingleFailed
<1>2. \A r \in Row : failed'[r] = IF r \in call.rows THEN failed[r] + 1 ELSE failed[r]
  BY <1>1, FailLinesAt
<1>3. \A r \in Row : Mapped(r)' <=> Mapped(r) \/ r \in {}  BY <1>1, MappedSame
<1>4. call.rows \cup {} = call.rows /\ call.rows \cap {} = {}  OBVIOUS
<1> QED  BY <1>0, <1>1, <1>2, <1>3, <1>4, CallSettled

(* The server and the network change what the call will say, never which   *)
(* rows it holds nor anything of the worker's.                             *)
LEMMA SameBooks ==
    ASSUME LedgerInv, UNCHANGED client, call'.by = call.by, call'.rows = call.rows,
           call.by = "none" => call' = call, WholeAnswer'
    PROVE  Kept
<1>1. UNCHANGED <<head, chunk, pending, idMap, failed>>  BY DEF client
<1>2. Ahead' = Ahead /\ Open' = Open /\ Chunk' = Chunk  BY <1>1 DEF Ahead, Open, Chunk
<1>3. Settles({}, {})  BY <1>1, <1>2, MappedSame DEF Settles
<1>4. OnePlace'  BY <1>1, <1>2 DEF OnePlace, LedgerInv
<1> QED  BY <1>3, <1>4 DEF Kept

LEMMA ExecuteKeeps ==
    ASSUME Contract, LedgerInv, NEW made \in SUBSET call.rows,
           NEW n \in 0 .. Cardinality(call.rows), Execute(made, n)
    PROVE  Kept
<1> DEFINE rows == call.rows
           ids == IdsOf(rows, made, n)
<1>1. TypeOK /\ rows \in SUBSET Row /\ call # NoCall  BY DEF LedgerInv, TypeOK, Execute, Asked
<1>2. call'.rows = rows /\ call'.by = call.by /\ call'.answer.ids = ids
  BY <1>1 DEF Execute, TypeOK
<1>3. n \in Nat /\ Cardinality(rows) \in Nat  BY <1>1, RowsFinite, FS_CardinalityType
<1>4. Len(ids) = n  BY <1>3 DEF IdsOf
<1>5. n = 0 \/ (made = rows /\ n = Cardinality(rows))
  <2>1. PICK f \in Shapes : Fits(f, rows, made, n)  BY DEF Execute
  <2>2. f \in {"all", "none"}  BY DEF Contract
  <2> QED  BY <2>1, <2>2 DEF Fits
<1>a. UNCHANGED client  BY DEF Execute
<1>b. call.by # "none"  BY <1>1 DEF LedgerInv, OnePlace
<1>p. \A r \in rows : Pos(rows, r) \in Nat \ {0} /\ Pos(rows, r) \in 1 .. Cardinality(rows)
  BY <1>1, PosPositive, PosType
<1>6. CASE n = 0
  <2>1. ids = << >>  BY <1>6 DEF IdsOf
  <2>2. Made(rows, ids) = {}  BY <1>4, <1>6, <1>p DEF Made
  <2>3. WholeAnswer'  BY <1>2, <2>1, <2>2 DEF WholeAnswer
  <2> QED  BY <1>a, <1>b, <1>2, <2>3, SameBooks
<1>7. CASE made = rows /\ n = Cardinality(rows)
  <2>1. ASSUME NEW r \in rows PROVE Pos(rows, r) <= Len(ids) /\ ids[Pos(rows, r)] # NoRow
    <3>1. Pos(rows, r) \in 1 .. n  BY <1>7, <1>p
    <3>2. RowAt(rows, Pos(rows, r)) = r  BY <1>1, RowAtPos
    <3>3. ids[Pos(rows, r)] = r  BY <1>7, <3>1, <3>2 DEF IdsOf
    <3>4. r # NoRow  BY <1>1, NAssumption DEF Row, NoRow
    <3> QED  BY <1>3, <1>4, <3>1, <3>3, <3>4
  <2>2. Made(rows, ids) = rows  BY <2>1 DEF Made
  <2>3. WholeAnswer'  BY <1>2, <1>4, <1>7, <2>2 DEF WholeAnswer
  <2> QED  BY <1>a, <1>b, <1>2, <2>3, SameBooks
<1> QED  BY <1>5, <1>6, <1>7

LEMMA FailureKeeps ==
    ASSUME LedgerInv, NEW e \in Errors, Asked, UNCHANGED client,
           call' = [call EXCEPT !.answer = Failure(e)]
    PROVE  Kept
<1>1. call'.by = call.by /\ call'.rows = call.rows /\ call'.answer.kind = e
  BY DEF LedgerInv, TypeOK, Failure
<1>2. call.by # "none"  BY DEF LedgerInv, OnePlace, Asked
<1>3. WholeAnswer'  BY <1>1 DEF WholeAnswer, Errors, Transient
<1> QED  BY <1>1, <1>2, <1>3, SameBooks

LEMMA StillKeeps == ASSUME LedgerInv, UNCHANGED <<client, call>> PROVE Kept
<1>1. WholeAnswer'  BY DEF LedgerInv, WholeAnswer
<1> QED  BY <1>1, SameBooks

LEMMA NextKeeps == ASSUME Contract, LedgerInv, [Next]_vars PROVE Kept
<1>1. CASE Main  BY <1>1, MainKeeps
<1>2. CASE Fallback
  BY <1>2, SearchKeeps, SearchLoadedKeeps, SearchSplitKeeps, SingleLoadedKeeps,
     SingleFailedKeeps DEF Fallback
<1>3. CASE Answer
  <2>1. ASSUME NEW e \in Errors, Refuse(e) \/ Lose(e) PROVE Kept
    BY <2>1, FailureKeeps DEF Refuse, Lose
  <2>2. {"readTimeout", "overload", "transient"} \subseteq Errors  BY DEF Errors, Transient
  <2> QED  BY <1>3, <2>1, <2>2, ExecuteKeeps DEF Answer
<1>4. CASE (\E r \in Row : LateStore(r)) \/ Return \/ UNCHANGED vars
  BY <1>4, StillKeeps DEF LateStore, Return, vars
<1> QED  BY <1>1, <1>2, <1>3, <1>4 DEF Next, Worker

LEMMA LedgerInvInit == ASSUME Contract, Init PROVE LedgerInv
<1>1. TypeOK  BY InitType
<1>2. WholeAnswer  BY DEF Init, WholeAnswer, NoCall, Waiting
<1>3. /\ call = NoCall /\ call.by = "none" /\ call.rows = {}
      /\ failed = [r \in Row |-> 0] /\ \A r \in Row : ~Mapped(r)
  BY DEF Init, NoCall, Mapped, Ids
<1>4. CASE head = 1 /\ pending = {}
  <2>1. Open = Row  BY <1>3, <1>4, NAssumption DEF Open, Ahead, Row
  <2>2. OnePlace  BY <1>3, <1>4 DEF OnePlace
  <2> QED  BY <1>1, <1>2, <1>3, <2>1, <2>2 DEF LedgerInv, Settled
<1>5. CASE head = N + 1 /\ pending = {{r} : r \in Row}
  <2>1. Ahead = {}  BY <1>5, NAssumption DEF Ahead, Row
  <2>2. UNION pending = Row  BY <1>5
  <2>5. \A t, u \in pending : t = u \/ t \cap u = {}  BY <1>5
  <2>3. Open = Row  BY <1>3, <2>1, <2>2 DEF Open
  <2>4. OnePlace  BY <1>3, <2>1, <2>5 DEF OnePlace
  <2> QED  BY <1>1, <1>2, <1>3, <2>3, <2>4 DEF LedgerInv, Settled
<1> QED  BY <1>4, <1>5 DEF Init

LEMMA LedgerInvStep == ASSUME Contract, LedgerInv, [Next]_vars PROVE LedgerInv'
<1>1. TypeOK'  BY TypeStep DEF LedgerInv
<1>2. Kept  BY NextKeeps
<1>3. Settled'  BY <1>2, SettledStep DEF Kept
<1> QED  BY <1>1, <1>2, <1>3 DEF Kept, LedgerInv

(***************************************************************************)
(* The step simulation: a settled row keeps its outcome, and the worker    *)
(* returns when nothing is open.                                           *)
(***************************************************************************)
LEMMA OutcomeOf ==
    ASSUME LedgerInv, NEW r \in Row
    PROVE  /\ Outcome[r] \in {"pending", "created", "failed"}
           /\ Outcome[r] = "pending" <=> r \in Open
<1>1. failed[r] \in Nat  BY DEF LedgerInv, TypeOK
<1>2. r \in Open => failed[r] = 0 /\ ~Mapped(r)  BY DEF LedgerInv, Settled
<1>3. r \notin Open => failed[r] + (IF Mapped(r) THEN 1 ELSE 0) = 1
  BY DEF LedgerInv, Settled
<1>4. r \notin Open => failed[r] > 0 \/ Mapped(r)  BY <1>1, <1>3
<1> QED  BY <1>1, <1>2, <1>4 DEF Outcome

LEMMA DoneIsClosed == LedgerInv /\ Done => Open = {}
<1> SUFFICES ASSUME LedgerInv, Done PROVE Open = {}  OBVIOUS
<1>1. call.rows = {} /\ UNION pending = {}  BY DEF Done, NoCall
<1>2. Ahead = {}  BY NAssumption DEF Done, Ahead, Row, LedgerInv, TypeOK
<1> QED  BY <1>1, <1>2 DEF Open

LEMMA DoneStays == ASSUME LedgerInv, Done, [Next]_vars PROVE Done'
<1>1. call.by = "none" /\ call.answer.kind = "waiting"
  BY DEF Done, NoCall, Waiting
<1>2. ~Main
  BY <1>1, NAssumption DEF Done, Main, MainSend, MainLoaded, MainReadTimeout,
     MainTooLarge, MainHalve, MainSerialization, MainFallback, Answered, LedgerInv, TypeOK
<1>3. ~Fallback
  BY <1>1 DEF Done, Fallback, SearchLoaded, SearchSplit, SingleLoaded, SingleFailed,
     Answered
<1>4. ~Answer  BY DEF Done, Answer, Execute, Refuse, Lose, Asked
<1>5. UNCHANGED <<head, pending, call>>
  BY <1>2, <1>3, <1>4 DEF Next, Worker, LateStore, Return, vars, client
<1> QED  BY <1>5 DEF Done

LEMMA StepSettles ==
    ASSUME Contract, LedgerInv, LedgerInv', [Next]_vars
    PROVE  [Ledger!Settle]_(Ledger!ledgerVars)
<1>1. PICK F, M : Settles(F, M)  BY NextKeeps DEF Kept
<1>2. ASSUME NEW r \in Row, Outcome[r] # "pending" PROVE Outcome'[r] = Outcome[r]
  <2>1. r \notin F /\ r \notin M  BY <1>1, <1>2, OutcomeOf DEF Settles
  <2>2. failed'[r] = failed[r] /\ (Mapped(r)' <=> Mapped(r))  BY <1>1, <2>1 DEF Settles
  <2> QED  BY <2>2 DEF Outcome
<1>3. ASSUME NEW r \in Row
      PROVE  /\ Outcome'[r] \in {"pending", "created", "failed"}
             /\ Done' => Outcome'[r] # "pending"
  <2>1. failed'[r] \in Nat  BY DEF LedgerInv, TypeOK
  <2>2. Outcome'[r] \in {"pending", "created", "failed"}  BY DEF Outcome
  <2>a. (LedgerInv /\ Done => Open = {})'  BY DoneIsClosed, PTL
  <2>3. Done' => r \notin Open'  BY <2>a
  <2>4. r \notin Open' => failed'[r] + (IF Mapped(r)' THEN 1 ELSE 0) = 1
    BY DEF LedgerInv, Settled
  <2>5. r \notin Open' => Outcome'[r] # "pending"  BY <2>1, <2>4 DEF Outcome
  <2> QED  BY <2>2, <2>3, <2>5
<1>4. Outcome = [r \in Row |-> Outcome[r]] /\ Outcome' = [r \in Row |-> Outcome'[r]]
  BY DEF Outcome
<1>5. CASE Done
  <2>1. Done'  BY <1>5, DoneStays
  <2>2. \A r \in Row : Outcome[r] # "pending"  BY <1>5, DoneIsClosed, OutcomeOf
  <2>3. Outcome' = Outcome  BY <1>2, <1>4, <2>2
  <2> QED  BY <1>5, <2>1, <2>3 DEF Ledger!ledgerVars
<1>6. CASE ~Done
  <2>1. Outcome' \in [Row -> {"pending", "created", "failed"}]  BY <1>3, <1>4
  <2>2. Done' \in BOOLEAN  BY DEF Done
  <2> QED  BY <1>2, <1>3, <1>6, <2>1, <2>2 DEF Ledger!Settle, Ledger!Status
<1> QED  BY <1>5, <1>6

LEMMA StartsPending == ASSUME Contract, Init PROVE Ledger!Init
<1>1. LedgerInv  BY LedgerInvInit
<1>2. Outcome = [r \in Row |-> "pending"]
  BY DEF Init, Outcome, Mapped, Ids
<1>3. ~Done
  <2>1. 1 \in Row  BY NAssumption DEF Row
  <2>2. Outcome[1] = "pending"  BY <1>2, <2>1
  <2> QED  BY <1>1, <2>1, <2>2, OutcomeOf, DoneIsClosed
<1> QED  BY <1>2, <1>3 DEF Ledger!Init

(* The worker keeps the promise of RowLedger whatever the size of the batch *)
(* and whatever errors, conflicts and lost replies it meets: each row ends *)
(* with exactly one outcome, no outcome is ever revised, and the worker    *)
(* does not return before every row has its own.                           *)
THEOREM LoadImplementsLedger == Contract => (Spec => ImplementsLedger)
<1> SUFFICES ASSUME Contract PROVE Spec => ImplementsLedger  OBVIOUS
<1>1. Init => LedgerInv /\ Ledger!Init  BY LedgerInvInit, StartsPending
<1>2. LedgerInv /\ [Next]_vars => LedgerInv'  BY LedgerInvStep
<1>3. LedgerInv /\ LedgerInv' /\ [Next]_vars => [Ledger!Settle]_(Ledger!ledgerVars)
  BY StepSettles
<1> QED  BY <1>1, <1>2, <1>3, PTL DEF Spec, ImplementsLedger, Ledger!Spec

(* No row is counted twice: it is in the map or has one failed line, never *)
(* both and never two lines, however often its chunk was sent again.       *)
THEOREM OneOutcomeEach == Contract => (Spec => []OneOutcome)
<1> SUFFICES ASSUME Contract PROVE Spec => []OneOutcome  OBVIOUS
<1>1. Init => LedgerInv  BY LedgerInvInit
<1>2. LedgerInv /\ [Next]_vars => LedgerInv'  BY LedgerInvStep
<1>3. LedgerInv => OneOutcome
  <2> SUFFICES ASSUME LedgerInv, NEW r \in Row
               PROVE  failed[r] <= 1 /\ (Mapped(r) => failed[r] = 0)
    BY DEF OneOutcome
  <2>1. failed[r] \in Nat  BY DEF LedgerInv, TypeOK
  <2>2. failed[r] = 0 \/ failed[r] + (IF Mapped(r) THEN 1 ELSE 0) = 1
    BY DEF LedgerInv, Settled
  <2> QED  BY <2>1, <2>2
<1> QED  BY <1>1, <1>2, <1>3, PTL DEF Spec
-----------------------------------------------------------------------------
(***************************************************************************)
(* What is stored, against a server that may store any part of a call, for *)
(* rows with or without external ids, some of them too short.  A row that  *)
(* may be sent again was stored or is under way no more often than replies *)
(* for it were lost; a failed one too, and it is not sent again, unless it *)
(* is too short to be stored at all.                                       *)
(***************************************************************************)
Confirmed(r) == call.answer.kind = "ids" /\ r \in Made(call.rows, call.answer.ids)

OnePlaceEach ==
    /\ call.by = "none" => call = NoCall
    /\ call.by = "main" => head <= N /\ pending = {} /\ call.rows = Chunk \ TooShort
    /\ call.by # "main" => call.rows \cap (Ahead \cup UNION pending) = {}
    /\ call.by \in {"single", "culprit"} => \A r, q \in call.rows : r = q
    /\ Ahead \cap UNION pending = {}
    /\ \A s, t \in pending : s = t \/ s \cap t = {}

Spent(r) == stored[r] + late[r]

Accounted ==
    \A r \in Row :
        /\ Spent(r) <= lost[r] + 1
        /\ r \in Open /\ ~Confirmed(r) => Spent(r) <= lost[r]
        /\ failed[r] > 0 => Spent(r) <= lost[r] /\ (r \in Short \/ r \notin Open)
        /\ r \in Short => Spent(r) = 0

(* A full list of ids names every row, if the server leaves no holes.      *)
NoHoles == "holes" \notin Shapes

FullAnswer ==
    call.answer.kind = "ids" /\ Len(call.answer.ids) >= Cardinality(call.rows) =>
        Made(call.rows, call.answer.ids) = call.rows

NothingForgotten ==
    NoHoles =>
        /\ FullAnswer
        /\ call.by = "main" => \A r \in TooShort : failed[r] > 0
        /\ \A r \in Row : r \in Open \/ Mapped(r) \/ failed[r] > 0 \/ stored[r] > 0

StoreInv == MapInv /\ OnePlaceEach /\ Accounted /\ NothingForgotten

(* What a step of the worker does: of the rows it may still send, those of *)
(* F fail, and none that the answer confirms is kept.                      *)
Passes(F) ==
    /\ F \subseteq Open /\ Open' \subseteq Open /\ F \cap Open' \subseteq Short
    /\ \A r \in F \cup Open' : ~Confirmed(r)
    /\ failed' = FailLines(failed, F)
    /\ UNCHANGED server
    /\ \A r \in Row : Mapped(r) => Mapped(r)'
    /\ NoHoles => \A r \in Open \ Open' : r \in F \/ Confirmed(r) \/ failed[r] > 0

LEMMA ConfirmedStored ==
    ASSUME MapInv, NEW r \in Row, Confirmed(r)
    PROVE  stored[r] > 0 /\ r \in call.rows
<1>1. /\ r \in call.rows /\ Pos(call.rows, r) <= Len(call.answer.ids)
      /\ call.answer.ids[Pos(call.rows, r)] # NoRow
  BY DEF Confirmed, Made
<1> QED  BY <1>1 DEF Confirmed, MapInv, AnswerIsTrue

LEMMA PassesKeeps ==
    ASSUME StoreInv, call'.answer = Waiting, NEW F, Passes(F),
           call'.by = "main" => \A r \in TooShort' : r \in F
    PROVE  Accounted' /\ NothingForgotten'
<1>0. /\ TypeOK /\ failed \in [Row -> Nat] /\ stored \in [Row -> Nat]
      /\ late \in [Row -> Nat] /\ lost \in [Row -> Nat]
  BY DEF StoreInv, MapInv, TypeOK
<1>1. /\ stored' = stored /\ late' = late /\ lost' = lost
      /\ \A r \in Row : Spent(r)' = Spent(r)
  BY DEF Passes, server, Spent
<1>2. \A r \in Row : /\ r \in F => failed'[r] = failed[r] + 1
                     /\ r \notin F => failed'[r] = failed[r]
  BY DEF Passes, FailLines
<1>3. \A r \in Row : failed'[r] >= failed[r] /\ (r \in F => failed'[r] > 0)
  BY <1>0, <1>2
<1>4. Accounted'
  <2> SUFFICES ASSUME NEW r \in Row
               PROVE  /\ Spent(r) <= lost[r] + 1
                      /\ r \in Open' => Spent(r) <= lost[r]
                      /\ failed'[r] > 0 => /\ Spent(r) <= lost[r]
                                           /\ r \in Short \/ r \notin Open'
                      /\ r \in Short => Spent(r) = 0
    BY <1>1 DEF Accounted
  <2>1. /\ Spent(r) <= lost[r] + 1
        /\ r \in Open /\ ~Confirmed(r) => Spent(r) <= lost[r]
        /\ failed[r] > 0 => Spent(r) <= lost[r] /\ (r \in Short \/ r \notin Open)
        /\ r \in Short => Spent(r) = 0
    BY DEF StoreInv, Accounted
  <2>2. r \in Open' => r \in Open /\ ~Confirmed(r)  BY DEF Passes
  <2>3. r \in F => r \in Open /\ ~Confirmed(r) /\ (r \in Short \/ r \notin Open')
    BY DEF Passes
  <2> QED  BY <1>2, <2>1, <2>2, <2>3
<1>5. FullAnswer'  BY DEF FullAnswer, Waiting
<1>6. ASSUME NoHoles, NEW r \in Row, r \notin Open'
      PROVE  Mapped(r)' \/ failed'[r] > 0 \/ stored[r] > 0
  <2>1. CASE r \in Open
    <3>1. r \in F \/ Confirmed(r) \/ failed[r] > 0  BY <1>6, <2>1 DEF Passes
    <3> QED  BY <1>0, <1>2, <1>3, <3>1, ConfirmedStored DEF StoreInv
  <2>2. CASE r \notin Open
    <3>1. Mapped(r) \/ failed[r] > 0 \/ stored[r] > 0
      BY <1>6, <2>2 DEF StoreInv, NothingForgotten
    <3> QED  BY <1>0, <1>2, <3>1 DEF Passes
  <2> QED  BY <2>1, <2>2
<1>7. call'.by = "main" => \A r \in TooShort' : failed'[r] > 0
  <2>1. TooShort' \subseteq Row  BY DEF TooShort, Chunk
  <2> QED  BY <1>3, <2>1
<1>8. NothingForgotten'
  BY <1>1, <1>5, <1>6, <1>7 DEF NothingForgotten, NoHoles
<1> QED  BY <1>4, <1>8

LEMMA RecordedKeeps ==
    ASSUME NEW m, NEW rows, NEW ids, NEW made \in SUBSET Made(rows, ids),
           NEW x \in Ids, m[x] # NoRow
    PROVE  Recorded(m, made, rows, ids)[x] # NoRow
<1> DEFINE hits == {r \in made : Xid[r] = x}
           last == {r \in hits : \A s \in hits : s <= r}
           top == CHOOSE r \in last : TRUE
<1>1. Recorded(m, made, rows, ids)[x] = IF last = {} THEN m[x] ELSE ids[Pos(rows, top)]
  BY DEF Recorded
<1>2. last # {} => top \in made  OBVIOUS
<1>3. \A r \in made : ids[Pos(rows, r)] # NoRow  BY DEF Made
<1> QED  BY <1>1, <1>2, <1>3

LEMMA MappedKept ==
    ASSUME NEW made \in SUBSET Made(call.rows, call.answer.ids),
           idMap' = idMap \/ idMap' = Recorded(idMap, made, call.rows, call.answer.ids)
    PROVE  \A r \in Row : Mapped(r) => Mapped(r)'
<1> SUFFICES ASSUME NEW r \in Row, idMap[Xid[r]] # NoRow PROVE idMap'[Xid[r]] # NoRow
  BY DEF Mapped
<1>1. Xid[r] \in Ids  BY DEF Ids
<1> QED  BY <1>1, RecordedKeeps

LEMMA MappedStays == ASSUME UNCHANGED idMap PROVE \A r \in Row : Mapped(r) => Mapped(r)'
BY DEF Mapped

LEMMA NoFailLines == ASSUME TypeOK PROVE FailLines(failed, {}) = failed
BY DEF FailLines, TypeOK
-----------------------------------------------------------------------------
(* The chunk of the main loop.                                             *)
LEMMA MainChunk ==
    ASSUME StoreInv, call.by = "main"
    PROVE  /\ TypeOK /\ head <= N /\ pending = {} /\ call.rows = Chunk \ TooShort
           /\ Open = Ahead /\ Chunk \subseteq Ahead /\ TooShort \subseteq Chunk
           /\ Chunk \subseteq Row /\ \A r : Confirmed(r) => r \in call.rows
<1>1. TypeOK /\ head <= N /\ pending = {} /\ call.rows = Chunk \ TooShort
  BY DEF StoreInv, MapInv, OnePlaceEach
<1>2. Chunk \subseteq Ahead /\ Chunk \subseteq Row  BY <1>1, ChunkAhead DEF Chunk
<1>3. TooShort \subseteq Chunk  BY DEF TooShort
<1> QED  BY <1>1, <1>2, <1>3 DEF Open, Confirmed, Made

(* The chunk is passed: the rows of F fail, those of rest go to the        *)
(* fallback.                                                               *)
LEMMA ChunkLeaves ==
    ASSUME StoreInv, call.by = "main", NEW F \in SUBSET Chunk, NEW rest \in SUBSET Chunk,
           F \cap rest = {}, \A r \in F \cup rest : ~Confirmed(r),
           Ahead' = Ahead \ Chunk, call' = NoCall,
           pending' = {rest} \/ (pending' = {} /\ rest = {}),
           failed' = FailLines(failed, F), UNCHANGED server,
           \A r \in Row : Mapped(r) => Mapped(r)',
           NoHoles => \A r \in call.rows : r \in F \cup rest \/ Confirmed(r)
    PROVE  OnePlaceEach' /\ Passes(F) /\ call'.answer = Waiting /\ call'.by # "main"
<1>0. /\ head <= N /\ pending = {} /\ call.rows = Chunk \ TooShort
      /\ Open = Ahead /\ Chunk \subseteq Ahead /\ Chunk \subseteq Row
      /\ \A r : Confirmed(r) => r \in call.rows
  BY MainChunk
<1>1. UNION pending' = rest
  <2>1. UNION {rest} = rest  OBVIOUS
  <2> QED  BY <2>1
<1>2. call'.by = "none" /\ call'.rows = {} /\ call'.answer = Waiting  BY DEF NoCall
<1>3. Open' = (Ahead \ Chunk) \cup rest  BY <1>1, <1>2 DEF Open
<1>4. OnePlaceEach'  BY <1>1, <1>2 DEF OnePlaceEach
<1>5. NoHoles => \A r \in TooShort : failed[r] > 0
  BY DEF StoreInv, NothingForgotten
<1>6. Passes(F)  BY <1>0, <1>3, <1>5 DEF Passes
<1> QED  BY <1>2, <1>4, <1>6

(* What each step of the worker has to show.                               *)
Sound(F) == /\ Passes(F) /\ OnePlaceEach' /\ call'.answer = Waiting
            /\ call'.by = "main" => \A r \in TooShort' : r \in F

LEMMA ChunkPasses ==
    ASSUME TypeOK, NEW n \in {chunk, Handed}, head <= N, head' = NextHead(n)
    PROVE  Ahead' = Ahead \ Chunk
<1>1. CASE n = chunk
  <2>1. chunk \in Nat  BY NAssumption DEF TypeOK
  <2> QED  BY <1>1, <2>1, AheadStep, ChunkSpan
<1>2. CASE n = Handed
  <2>1. /\ n \in Nat
        /\ \A r \in Row : r \in Chunk <=> head <= r /\ r < head + n
    BY <1>2, ChunkSize DEF Handed
  <2> QED  BY <2>1, AheadStep
<1> QED  BY <1>1, <1>2

LEMMA SendPasses == ASSUME StoreInv, MainSend PROVE \E F : Sound(F)
<1>0. TypeOK /\ head <= N /\ pending = {} /\ call = NoCall
  BY DEF MainSend, StoreInv, MapInv
<1>1. /\ call.by = "none" /\ call.rows = {} /\ call.answer.kind = "waiting"
      /\ Open = Ahead /\ Chunk \subseteq Ahead /\ TooShort \subseteq Chunk
      /\ TooShort \subseteq Short
  BY <1>0, ChunkAhead DEF NoCall, Waiting, Open, TooShort
<1>2. \A r : ~Confirmed(r)  BY <1>1 DEF Confirmed
<1>3. /\ failed' = FailLines(failed, TooShort)
      /\ UNCHANGED <<chunk, pending, idMap, stored, late, lost>>
  BY DEF MainSend, server
<1>4. \A r \in Row : Mapped(r) => Mapped(r)'  BY <1>3, MappedStays
<1>5. CASE Chunk = TooShort
  <2>1. head' = NextHead(chunk) /\ call' = call  BY <1>5 DEF MainSend
  <2>2. Ahead' = Ahead \ Chunk  BY <1>0, <2>1, ChunkPasses
  <2>3. Open' = Ahead \ Chunk  BY <1>0, <1>1, <1>3, <2>1, <2>2 DEF Open
  <2>4. Passes(TooShort)
    BY <1>1, <1>2, <1>3, <1>4, <1>5, <2>3 DEF Passes, server
  <2>5. OnePlaceEach'  BY <1>0, <1>1, <1>3, <2>1 DEF OnePlaceEach
  <2>6. call'.by # "main" /\ call'.answer = Waiting  BY <1>0, <2>1 DEF NoCall
  <2> QED  BY <2>4, <2>5, <2>6 DEF Sound
<1>6. CASE Chunk # TooShort
  <2>1. head' = head /\ call' = Load("main", Chunk \ TooShort)
    BY <1>6 DEF MainSend
  <2>2. Ahead' = Ahead /\ Chunk' = Chunk /\ TooShort' = TooShort
    BY <1>3, <2>1 DEF Ahead, Chunk, TooShort
  <2>3. call'.by = "main" /\ call'.rows = Chunk \ TooShort /\ call'.answer = Waiting
    BY <2>1 DEF Load
  <2>4. Open' = Open  BY <1>0, <1>1, <1>3, <2>2, <2>3 DEF Open
  <2>5. Passes(TooShort)
    BY <1>1, <1>2, <1>3, <1>4, <2>4 DEF Passes, server
  <2>6. OnePlaceEach'  BY <1>0, <1>3, <2>1, <2>2, <2>3 DEF OnePlaceEach
  <2> QED  BY <2>2, <2>3, <2>5, <2>6 DEF Sound
<1> QED  BY <1>5, <1>6

LEMMA LoadedPasses == ASSUME StoreInv, MainLoaded PROVE \E F : Sound(F)
<1> DEFINE rows == call.rows
           ids == call.answer.ids
           made == Made(rows, ids)
           missing == rows \ made
           count == Cardinality(rows) - Len(ids)
           search == count > 1 /\ ~call.answer.rowErrors
           F == IF count > 0 /\ ~search THEN missing ELSE {}
           rest == IF search THEN missing ELSE {}
<1>0. call.by = "main" /\ call.answer.kind = "ids"  BY DEF MainLoaded, Answered
<1>1. /\ TypeOK /\ head <= N /\ rows = Chunk \ TooShort
      /\ Chunk \subseteq Row
  BY <1>0, MainChunk
<1>2. Ahead' = Ahead \ Chunk
  <2>1. head' = NextHead(chunk)  BY DEF MainLoaded
  <2> QED  BY <1>1, <2>1, ChunkPasses
<1>3. \A r \in Row : Mapped(r) => Mapped(r)'
  <2>1. idMap' = Recorded(idMap, made, rows, ids)  BY DEF MainLoaded, Matched
  <2>2. made \in SUBSET Made(rows, ids)  OBVIOUS
  <2> QED  BY <2>1, <2>2, MappedKept
<1>4. /\ call' = NoCall /\ UNCHANGED server
      /\ pending' = IF search THEN {missing} ELSE {}
      /\ failed' = IF count > 0 /\ ~search THEN FailLines(failed, missing) ELSE failed
  BY DEF MainLoaded, Matched
<1>5. failed' = FailLines(failed, F)  BY <1>1, <1>4, NoFailLines
<1>6. F \in SUBSET Chunk /\ rest \in SUBSET Chunk /\ F \cap rest = {}
  BY <1>1
<1>7. /\ \A r \in missing : ~Confirmed(r)
      /\ \A r \in made : Confirmed(r)
  BY <1>0 DEF Confirmed
<1>8. \A r \in F \cup rest : ~Confirmed(r)  BY <1>7
<1>9. ASSUME NoHoles, NEW r \in rows PROVE r \in F \cup rest \/ Confirmed(r)
  <2>1. Cardinality(rows) \in Nat /\ Len(ids) \in Nat
    BY <1>1, RowsFinite, FS_CardinalityType DEF TypeOK, Answers
  <2>2. ~(count > 0) => made = rows
    BY <1>0, <1>9, <2>1 DEF StoreInv, NothingForgotten, FullAnswer
  <2>3. count > 0 => missing = F \/ missing = rest  OBVIOUS
  <2> QED  BY <1>7, <2>2, <2>3
<1>10. pending' = {rest} \/ (pending' = {} /\ rest = {})  BY <1>4
<1>11. call' = NoCall /\ UNCHANGED server  BY <1>4
<1>12. NoHoles => \A r \in call.rows : r \in F \cup rest \/ Confirmed(r)  BY <1>9
<1> HIDE DEF F, rest
<1>13. OnePlaceEach' /\ Passes(F) /\ call'.answer = Waiting /\ call'.by # "main"
  BY <1>0, <1>2, <1>3, <1>5, <1>6, <1>8, <1>10, <1>11, <1>12, ChunkLeaves
<1> QED  BY <1>13 DEF Sound

(* An error: the chunk fails, goes to the fallback, or is tried again.     *)
LEMMA NotConfirmed ==
    ASSUME call.answer.kind # "ids" PROVE \A r : ~Confirmed(r)
BY DEF Confirmed

LEMMA ChunkFailsOpen ==
    ASSUME StoreInv, call.by = "main", call.answer.kind # "ids", call' = NoCall,
           head' = NextHead(chunk), failed' = FailLines(failed, call.rows),
           UNCHANGED <<pending, idMap, server>>
    PROVE  \E F : Sound(F)
<1>0. /\ TypeOK /\ head <= N /\ pending = {} /\ call.rows = Chunk \ TooShort
  BY MainChunk
<1>1. Ahead' = Ahead \ Chunk  BY <1>0, ChunkPasses
<1>2. /\ call.rows \in SUBSET Chunk /\ {} \in SUBSET Chunk /\ call.rows \cap {} = {}
      /\ \A r \in call.rows \cup {} : ~Confirmed(r)
      /\ \A r \in call.rows : r \in call.rows \cup {} \/ Confirmed(r)
  BY <1>0, NotConfirmed
<1>3. pending' = {} /\ \A r \in Row : Mapped(r) => Mapped(r)'  BY <1>0, MappedStays
<1> QED  BY <1>1, <1>2, <1>3, ChunkLeaves DEF Sound

LEMMA ChunkHandedOver ==
    ASSUME StoreInv, call.by = "main", call.answer.kind # "ids", call' = NoCall,
           NEW n \in {chunk, Handed}, head' = NextHead(n), pending' = {Chunk},
           UNCHANGED <<failed, idMap, server>>
    PROVE  \E F : Sound(F)
<1>0. TypeOK /\ head <= N /\ call.rows = Chunk \ TooShort  BY MainChunk
<1>1. Ahead' = Ahead \ Chunk  BY <1>0, ChunkPasses
<1>2. /\ {} \in SUBSET Chunk /\ Chunk \in SUBSET Chunk /\ {} \cap Chunk = {}
      /\ \A r \in {} \cup Chunk : ~Confirmed(r)
      /\ \A r \in call.rows : r \in {} \cup Chunk \/ Confirmed(r)
  BY <1>0, NotConfirmed
<1>3. failed' = FailLines(failed, {}) /\ \A r \in Row : Mapped(r) => Mapped(r)'
  BY <1>0, NoFailLines, MappedStays
<1>4. OnePlaceEach' /\ Passes({}) /\ call'.answer = Waiting /\ call'.by # "main"
  BY <1>1, <1>2, <1>3, ChunkLeaves
<1> QED  BY <1>4 DEF Sound

LEMMA ChunkTriedAgain ==
    ASSUME StoreInv, call.by = "main", call.answer.kind # "ids", call' = NoCall,
           UNCHANGED <<head, pending, failed, idMap, server>>
    PROVE  \E F : Sound(F)
<1>0. TypeOK /\ pending = {} /\ Open = Ahead  BY MainChunk
<1>1. /\ call'.by = "none" /\ call'.rows = {} /\ call'.answer = Waiting
  BY DEF NoCall
<1>2. Ahead' = Ahead  BY DEF Ahead
<1>3. Open' = Open  BY <1>0, <1>1, <1>2 DEF Open
<1>4. \A r \in Row : Mapped(r) => Mapped(r)'  BY MappedStays
<1>5. Passes({})  BY <1>0, <1>3, <1>4, NoFailLines, NotConfirmed DEF Passes
<1>6. OnePlaceEach'  BY <1>0, <1>1 DEF OnePlaceEach
<1> QED  BY <1>1, <1>5, <1>6 DEF Sound

LEMMA MainPasses == ASSUME StoreInv, Main PROVE \E F : Sound(F)
<1>1. CASE MainSend  BY <1>1, SendPasses
<1>2. CASE MainLoaded  BY <1>2, LoadedPasses
<1>3. CASE MainReadTimeout
  BY <1>3, ChunkFailsOpen DEF MainReadTimeout, Answered
<1>4. CASE MainTooLarge  BY <1>4, ChunkFailsOpen DEF MainTooLarge, Answered
<1>5. CASE MainHalve  BY <1>5, ChunkTriedAgain DEF MainHalve, Answered
<1>6. CASE MainSerialization
  <2>1. /\ call.by = "main" /\ call' = NoCall /\ call.answer.kind # "ids"
        /\ UNCHANGED <<failed, idMap, server>>
    BY <1>6 DEF MainSerialization, Answered
  <2>2. CASE serial + 1 < MaxSerial
    BY <1>6, <2>1, <2>2, ChunkTriedAgain DEF MainSerialization
  <2>3. CASE ~(serial + 1 < MaxSerial)
    <3>1. head' = NextHead(Handed) /\ pending' = {Chunk}
      BY <1>6, <2>3 DEF MainSerialization
    <3> QED  BY <2>1, <3>1, ChunkHandedOver
  <2> QED  BY <2>2, <2>3
<1>7. CASE MainFallback
  <2>1. /\ call.by = "main" /\ call' = NoCall /\ call.answer.kind # "ids"
        /\ UNCHANGED <<failed, idMap, server>>
        /\ head' = NextHead(chunk) /\ pending' = {Chunk}
    BY <1>7 DEF MainFallback, Answered, Transient
  <2> QED  BY <2>1, ChunkHandedOver
<1> QED  BY <1>1, <1>2, <1>3, <1>4, <1>5, <1>6, <1>7 DEF Main
-----------------------------------------------------------------------------
(* The segments of the fallback.                                           *)
LEMMA SearchPasses ==
    ASSUME StoreInv, NEW seg \in pending, Search(seg) PROVE \E F : Sound(F)
<1> DEFINE valid == seg \ Ragged
           bad == seg \cap Ragged
<1>0. /\ TypeOK /\ call = NoCall /\ call.rows = {} /\ call.answer.kind # "ids"
      /\ Ahead \cap UNION pending = {}
      /\ \A s, t \in pending : s = t \/ s \cap t = {}
  BY DEF Search, StoreInv, MapInv, OnePlaceEach, NoCall, Waiting
<1>1. /\ pending' = pending \ {seg} /\ failed' = FailLines(failed, bad)
      /\ UNCHANGED <<head, idMap, stored, late, lost>>
  BY DEF Search, server
<1>2. Ahead' = Ahead  BY <1>1 DEF Ahead
<1>3. UNION pending = (UNION pending') \cup seg /\ (UNION pending') \cap seg = {}
  BY <1>0, <1>1
<1>4. /\ call'.rows = valid /\ call'.answer = Waiting
      /\ call'.by \in {"none", "single", "search"}
      /\ call'.by = "none" => call' = NoCall
      /\ call'.by = "single" => Cardinality(valid) = 1
  BY DEF Search, NoCall, Load
<1>5. Open' = Open \ bad  BY <1>0, <1>2, <1>3, <1>4 DEF Open
<1>6. bad \subseteq Open  BY <1>3 DEF Open
<1>7. \A r \in Row : Mapped(r) => Mapped(r)'  BY <1>1, MappedStays
<1>8. Passes(bad)
  BY <1>0, <1>1, <1>5, <1>6, <1>7, NotConfirmed DEF Passes, server
<1>9. call'.by = "single" => \A r, q \in call'.rows : r = q
  <2>1. IsFiniteSet(valid)  BY <1>0, RowsFinite DEF TypeOK
  <2> QED  BY <1>4, <2>1, FS_Singleton
<1>10. OnePlaceEach'
  BY <1>0, <1>1, <1>2, <1>3, <1>4, <1>9 DEF OnePlaceEach
<1> QED  BY <1>4, <1>8, <1>10 DEF Sound

(* What a call of the fallback holds is in no other place.                 *)
LEMMA CallApart ==
    ASSUME StoreInv, call.by \in {"search", "single", "culprit"}
    PROVE  /\ TypeOK /\ call.rows \in SUBSET Row
           /\ call.rows \cap Ahead = {} /\ call.rows \cap UNION pending = {}
           /\ Ahead \cap UNION pending = {}
           /\ \A s, t \in pending : s = t \/ s \cap t = {}
           /\ \A r : Confirmed(r) => r \in call.rows
BY DEF StoreInv, MapInv, OnePlaceEach, TypeOK, Confirmed, Made

LEMMA SearchLoadedPasses == ASSUME StoreInv, SearchLoaded PROVE \E F : Sound(F)
<1> DEFINE rows == call.rows
           ids == call.answer.ids
           made == Made(rows, ids)
           named == {r \in made : Xid[r] # EmptyId}
           missing == rows \ made
<1>0. call.by = "search" /\ call.answer.kind = "ids"  BY DEF SearchLoaded, Answered
<1>1. /\ TypeOK /\ rows \in SUBSET Row
      /\ rows \cap Ahead = {} /\ rows \cap UNION pending = {}
      /\ Ahead \cap UNION pending = {}
      /\ \A s, t \in pending : s = t \/ s \cap t = {}
  BY <1>0, CallApart
<1>2. \A r \in Row : Mapped(r) => Mapped(r)'
  <2>1. idMap' = Recorded(idMap, named, rows, ids)  BY DEF SearchLoaded
  <2>2. named \in SUBSET Made(rows, ids)  OBVIOUS
  <2> HIDE DEF named
  <2> QED  BY <2>1, <2>2, MappedKept
<1>3. /\ UNCHANGED <<head, failed, stored, late, lost>>
      /\ call' = IF Cardinality(missing) = 1 THEN Load("culprit", missing) ELSE NoCall
      /\ pending' = IF Cardinality(missing) > 1 THEN pending \cup {missing} ELSE pending
  BY DEF SearchLoaded, server
<1>4. IsFiniteSet(missing) /\ Cardinality(missing) \in Nat
  BY <1>1, RowsFinite, FS_CardinalityType
<1>5. Ahead' = Ahead  BY <1>3 DEF Ahead
<1>6. (UNION pending') \cup call'.rows = (UNION pending) \cup missing
  <2>1. CASE Cardinality(missing) = 1
    BY <1>3, <2>1 DEF Load
  <2>2. CASE Cardinality(missing) > 1
    <3>1. UNION (pending \cup {missing}) = (UNION pending) \cup missing  OBVIOUS
    <3>2. call'.rows = {}  BY <1>3, <2>2 DEF NoCall
    <3> QED  BY <1>3, <2>2, <3>1, <3>2
  <2>3. CASE Cardinality(missing) = 0
    <3>1. missing = {}  BY <1>4, <2>3, FS_EmptySet
    <3>2. call'.rows = {} /\ pending' = pending  BY <1>3, <2>3 DEF NoCall
    <3> QED  BY <3>1, <3>2
  <2> QED  BY <1>4, <2>1, <2>2, <2>3
<1>7. Open' = Ahead \cup (UNION pending) \cup missing  BY <1>5, <1>6 DEF Open
<1>8. /\ \A r \in rows : Confirmed(r) <=> r \in made
      /\ \A r : Confirmed(r) => r \in rows
  BY <1>0 DEF Confirmed, Made
<1>9. Passes({})
  BY <1>1, <1>2, <1>3, <1>7, <1>8, NoFailLines DEF Passes, server, Open
<1>10. /\ call'.answer = Waiting /\ call'.by \in {"none", "culprit"}
       /\ call'.by = "none" => call' = NoCall /\ call'.rows = {}
       /\ call'.by = "culprit" => /\ call'.rows = missing /\ pending' = pending
                                  /\ Cardinality(missing) = 1
  BY <1>3 DEF Load, NoCall
<1>11. call'.by = "culprit" => \A r, q \in call'.rows : r = q
  BY <1>4, <1>10, FS_Singleton
<1>12. \A s, t \in pending' : s = t \/ s \cap t = {}
  <2>1. \A s \in pending : s \cap missing = {}  BY <1>1
  <2> QED  BY <1>1, <1>3, <2>1
<1>13. Ahead' \cap UNION pending' = {}  BY <1>1, <1>5, <1>6
<1>14. call'.rows \cap (Ahead' \cup UNION pending') = {}
  BY <1>1, <1>5, <1>10
<1>15. OnePlaceEach'  BY <1>10, <1>11, <1>12, <1>13, <1>14 DEF OnePlaceEach
<1> QED  BY <1>9, <1>10, <1>15 DEF Sound

LEMMA SearchSplitPasses == ASSUME StoreInv, SearchSplit PROVE \E F : Sound(F)
<1> DEFINE L == LeftHalf(call.rows)
           R == RightHalf(call.rows)
<1>0. call.by = "search"  BY DEF SearchSplit, Answered
<1>1. L \cup R = call.rows /\ L \cap R = {}  BY DEF LeftHalf, RightHalf
<1>2. /\ pending' = pending \cup {L, R} /\ call' = NoCall
      /\ UNCHANGED <<head, idMap, failed, stored, late, lost>>
  BY DEF SearchSplit, server
<1>3. Ahead' = Ahead  BY <1>2 DEF Ahead
<1>4. \A r : ~Confirmed(r)
  <2>1. CASE Answered("search", Errors)
    BY <2>1, NotConfirmed DEF Answered, Errors, Transient
  <2>2. CASE call.answer.ids = << >>
    <3>1. \A r \in call.rows : Pos(call.rows, r) \in 1 .. Cardinality(call.rows)
      BY <1>0, CallApart, PosPositive
    <3>2. Cardinality(call.rows) \in Nat
      BY <1>0, CallApart, RowsFinite, FS_CardinalityType
    <3>3. \A r \in call.rows : ~(Pos(call.rows, r) <= 0)  BY <3>1, <3>2
    <3>4. Made(call.rows, call.answer.ids) = {}  BY <2>2, <3>3 DEF Made
    <3> QED  BY <3>4 DEF Confirmed
  <2> QED  BY <2>1, <2>2 DEF SearchSplit
<1> HIDE DEF L, R
<1>5. UNION pending' = (UNION pending) \cup call.rows  BY <1>1, <1>2
<1>6. call'.by = "none" /\ call'.rows = {} /\ call'.answer = Waiting
  BY <1>2 DEF NoCall
<1>7. Open' = Open  BY <1>3, <1>5, <1>6 DEF Open
<1>8. Passes({})
  <2>1. TypeOK /\ \A r \in Row : Mapped(r) => Mapped(r)'
    BY <1>2, MappedStays DEF StoreInv, MapInv
  <2> QED  BY <1>2, <1>4, <1>7, <2>1, NoFailLines DEF Passes, server
<1>9. ASSUME NEW s \in pending', NEW t \in pending' PROVE s = t \/ s \cap t = {}
  <2>1. \A u \in pending : u \cap L = {} /\ u \cap R = {}
    BY <1>0, <1>1, CallApart
  <2> QED  BY <1>0, <1>1, <1>2, <1>9, <2>1, CallApart
<1>10. OnePlaceEach'
  BY <1>0, <1>2, <1>3, <1>5, <1>6, <1>9, CallApart DEF OnePlaceEach
<1> QED  BY <1>6, <1>8, <1>10 DEF Sound

LEMMA SinglePasses == ASSUME StoreInv, SingleLoaded \/ SingleFailed PROVE \E F : Sound(F)
<1> DEFINE made == Made(call.rows, call.answer.ids)
<1>0. call.by \in {"single", "culprit"}  BY DEF SingleLoaded, SingleFailed
<1>1. /\ call' = NoCall /\ UNCHANGED <<head, pending, stored, late, lost>>
  BY DEF SingleLoaded, SingleFailed, server
<1>2. call'.by = "none" /\ call'.rows = {} /\ call'.answer = Waiting
  BY <1>1 DEF NoCall
<1>3. Ahead' = Ahead  BY <1>1 DEF Ahead
<1>4. Open = (Ahead \cup UNION pending) \cup call.rows /\ Open' = Ahead \cup UNION pending
  BY <1>1, <1>2, <1>3 DEF Open
<1>5. OnePlaceEach'  BY <1>0, <1>1, <1>2, <1>3, CallApart DEF OnePlaceEach
<1>6. /\ TypeOK /\ call.rows \cap Open' = {}
      /\ \A r : Confirmed(r) => r \in call.rows
  BY <1>0, <1>4, CallApart
<1>7. CASE SingleLoaded
  <2>1. call.answer.kind = "ids" /\ made # {} /\ failed' = failed
    BY <1>7 DEF SingleLoaded
  <2>2. \A r, q \in call.rows : r = q  BY <1>0 DEF StoreInv, OnePlaceEach
  <2>3. made = call.rows  BY <2>1, <2>2 DEF Made
  <2>4. \A r \in call.rows : Confirmed(r)  BY <2>1, <2>3 DEF Confirmed
  <2>5. \A r \in Row : Mapped(r) => Mapped(r)'
    <3>1. idMap' = idMap \/ idMap' = Recorded(idMap, made, call.rows, call.answer.ids)
      BY <1>7 DEF SingleLoaded
    <3>2. made \in SUBSET made  OBVIOUS
    <3> QED  BY <3>1, <3>2, MappedKept
  <2>6. Passes({})
    BY <1>1, <1>4, <1>6, <2>1, <2>4, <2>5, NoFailLines DEF Passes, server
  <2> QED  BY <1>2, <1>5, <2>6 DEF Sound
<1>8. CASE SingleFailed
  <2>1. /\ made = {} /\ failed' = FailLines(failed, call.rows) /\ idMap' = idMap
    BY <1>8 DEF SingleFailed
  <2>2. \A r : ~Confirmed(r)  BY <2>1 DEF Confirmed
  <2>3. \A r \in Row : Mapped(r) => Mapped(r)'  BY <2>1, MappedStays
  <2>4. Passes(call.rows)
    BY <1>1, <1>4, <1>6, <2>1, <2>2, <2>3 DEF Passes, server
  <2> QED  BY <1>2, <1>5, <2>4 DEF Sound
<1> QED  BY <1>7, <1>8
-----------------------------------------------------------------------------
(* The server.  It answers a call that was sent and not yet answered.      *)
LEMMA CallWaits ==
    ASSUME StoreInv, Asked
    PROVE  /\ TypeOK /\ call.by # "none" /\ call.rows \in SUBSET Row
           /\ call.rows \subseteq Open /\ \A r : ~Confirmed(r)
BY DEF StoreInv, MapInv, OnePlaceEach, TypeOK, Asked, Open, Confirmed

LEMMA SamePlaces ==
    ASSUME StoreInv, UNCHANGED client, call'.by = call.by, call'.rows = call.rows,
           call.by # "none" \/ call' = call
    PROVE  OnePlaceEach' /\ Open' = Open /\ (\A r \in Row : Mapped(r)' <=> Mapped(r))
           /\ failed' = failed /\ TooShort' = TooShort
<1>1. /\ head' = head /\ chunk' = chunk /\ pending' = pending /\ idMap' = idMap
      /\ failed' = failed
  BY DEF client
<1>2. Ahead' = Ahead /\ Open' = Open /\ Chunk' = Chunk /\ TooShort' = TooShort
  BY <1>1 DEF Ahead, Open, Chunk, TooShort
<1>3. OnePlaceEach'
  BY <1>1, <1>2 DEF StoreInv, OnePlaceEach
<1> QED  BY <1>1, <1>2, <1>3 DEF Mapped

(* A row is confirmed exactly if the server stored it and its list of ids  *)
(* reaches the row.                                                        *)
LEMMA ExecuteConfirms ==
    ASSUME StoreInv, NEW made \in SUBSET call.rows,
           NEW n \in 0 .. Cardinality(call.rows), Execute(made, n)
    PROVE  /\ call'.by = call.by /\ call'.rows = call.rows /\ call'.answer.kind = "ids"
           /\ Len(call'.answer.ids) = n
           /\ Made(call'.rows, call'.answer.ids) = made
<1> DEFINE rows == call.rows
           ids == IdsOf(rows, made, n)
<1>1. TypeOK /\ rows \in SUBSET Row  BY CallWaits DEF Execute
<1>2. /\ call'.rows = rows /\ call'.by = call.by /\ call'.answer.ids = ids
      /\ call'.answer.kind = "ids"
  BY <1>1 DEF Execute, TypeOK
<1>3. n \in Nat  BY <1>1, RowsFinite, FS_CardinalityType
<1>4. Len(ids) = n  BY <1>3 DEF IdsOf
<1>5. ASSUME NEW r \in rows
      PROVE  (Pos(rows, r) <= n /\ ids[Pos(rows, r)] # NoRow) <=> r \in made
  <2>1. Pos(rows, r) \in Nat \ {0}  BY <1>1, PosPositive, PosType
  <2>2. RowAt(rows, Pos(rows, r)) = r  BY <1>1, RowAtPos
  <2>3. r # NoRow  BY <1>1, NAssumption DEF Row, NoRow
  <2>4. r \in made => Pos(rows, r) <= n  BY DEF Execute
  <2>5. Pos(rows, r) <= n => ids[Pos(rows, r)] = IF r \in made THEN r ELSE NoRow
    BY <1>3, <2>1, <2>2 DEF IdsOf
  <2> QED  BY <2>3, <2>4, <2>5
<1>6. Made(rows, ids) = made  BY <1>4, <1>5 DEF Made
<1> QED  BY <1>2, <1>4, <1>6

LEMMA ExecuteStores ==
    ASSUME StoreInv, NEW made \in SUBSET call.rows,
           NEW n \in 0 .. Cardinality(call.rows), Execute(made, n)
    PROVE  OnePlaceEach' /\ Accounted' /\ NothingForgotten'
<1>0. /\ TypeOK /\ call.by # "none" /\ call.rows \in SUBSET Row
      /\ call.rows \subseteq Open /\ \A r : ~Confirmed(r)
  BY CallWaits DEF Execute
<1>1. /\ call'.by = call.by /\ call'.rows = call.rows /\ call'.answer.kind = "ids"
      /\ Len(call'.answer.ids) = n /\ Made(call'.rows, call'.answer.ids) = made
  BY ExecuteConfirms
<1>2. UNCHANGED client /\ late' = late /\ lost' = lost  BY DEF Execute
<1>3. /\ OnePlaceEach' /\ Open' = Open /\ failed' = failed /\ TooShort' = TooShort
      /\ \A r \in Row : Mapped(r)' <=> Mapped(r)
  BY <1>0, <1>1, <1>2, SamePlaces
<1>4. \A r : Confirmed(r)' <=> r \in made  BY <1>1 DEF Confirmed
<1>5. /\ \A r \in Row : stored'[r] = IF r \in made THEN stored[r] + 1 ELSE stored[r]
      /\ made \cap Short = {}
  BY DEF Execute
<1>6. /\ stored \in [Row -> Nat] /\ late \in [Row -> Nat] /\ lost \in [Row -> Nat]
      /\ failed \in [Row -> Nat]
  BY <1>0 DEF TypeOK
<1>7. \A r \in Row : Spent(r)' = IF r \in made THEN Spent(r) + 1 ELSE Spent(r)
  BY <1>2, <1>5, <1>6 DEF Spent
<1>8. \A r \in Row : Spent(r) \in Nat  BY <1>6 DEF Spent
<1>9. Accounted'
  <2> SUFFICES ASSUME NEW r \in Row
               PROVE  /\ Spent(r)' <= lost[r] + 1
                      /\ r \in Open /\ r \notin made => Spent(r)' <= lost[r]
                      /\ failed[r] > 0 => /\ Spent(r)' <= lost[r]
                                          /\ r \in Short \/ r \notin Open
                      /\ r \in Short => Spent(r)' = 0
    BY <1>2, <1>3, <1>4 DEF Accounted
  <2>1. /\ Spent(r) <= lost[r] + 1
        /\ r \in Open => Spent(r) <= lost[r]
        /\ failed[r] > 0 => Spent(r) <= lost[r] /\ (r \in Short \/ r \notin Open)
        /\ r \in Short => Spent(r) = 0
    BY <1>0 DEF StoreInv, Accounted
  <2>2. r \in made => r \in Open /\ r \notin Short  BY <1>0, <1>5
  <2> QED  BY <1>6, <1>7, <1>8, <2>1, <2>2
<1>10. NothingForgotten'
  <2> SUFFICES ASSUME NoHoles PROVE NothingForgotten'
    BY DEF NothingForgotten, NoHoles
  <2>1. FullAnswer'
    <3>1. PICK f \in Shapes : Fits(f, call.rows, made, n)  BY DEF Execute
    <3>2. f \in {"all", "none", "short"}
      BY ShapesAssumption DEF NoHoles
    <3>3. Cardinality(call.rows) \in Nat
      BY <1>0, RowsFinite, FS_CardinalityType
    <3>4. ASSUME n >= Cardinality(call.rows) PROVE made = call.rows
      <4>1. CASE f = "all"  BY <3>1, <4>1 DEF Fits
      <4>2. CASE f = "short"  BY <3>1, <3>3, <3>4, <4>2 DEF Fits
      <4>3. CASE f = "none"
        <5>1. Cardinality(call.rows) = 0  BY <3>1, <3>3, <3>4, <4>3 DEF Fits
        <5>2. call.rows = {}  BY <1>0, <5>1, RowsFinite, FS_EmptySet
        <5> QED  BY <5>2
      <4> QED  BY <3>2, <4>1, <4>2, <4>3
    <3> QED  BY <1>1, <3>4 DEF FullAnswer
  <2>2. \A r \in Row : stored[r] > 0 => stored'[r] > 0  BY <1>5, <1>6
  <2> QED  BY <1>1, <1>3, <2>1, <2>2 DEF StoreInv, NothingForgotten
<1> QED  BY <1>3, <1>9, <1>10

LEMMA FailureAccounted ==
    ASSUME StoreInv, NEW e \in Errors, Refuse(e) \/ Lose(e)
    PROVE  OnePlaceEach' /\ Accounted' /\ NothingForgotten'
<1>0. /\ TypeOK /\ call.by # "none" /\ call.rows \in SUBSET Row
      /\ \A r : ~Confirmed(r)
  BY CallWaits DEF Refuse, Lose
<1>1. call'.by = call.by /\ call'.rows = call.rows /\ call'.answer.kind = e
  BY <1>0 DEF Refuse, Lose, TypeOK, Failure
<1>2. call'.answer.kind # "ids"  BY <1>1 DEF Errors, Transient
<1>3. UNCHANGED client /\ stored' = stored  BY DEF Refuse, Lose, server
<1>4. /\ OnePlaceEach' /\ Open' = Open /\ failed' = failed /\ TooShort' = TooShort
      /\ \A r \in Row : Mapped(r)' <=> Mapped(r)
  BY <1>0, <1>1, <1>3, SamePlaces
<1>5. \A r : ~Confirmed(r)'  BY <1>2 DEF Confirmed
<1>6. /\ stored \in [Row -> Nat] /\ late \in [Row -> Nat] /\ lost \in [Row -> Nat]
  BY <1>0 DEF TypeOK
<1>7. \A r \in Row : \/ Spent(r)' = Spent(r) /\ lost'[r] = lost[r]
                     \/ Spent(r)' = Spent(r) + 1 /\ lost'[r] = lost[r] + 1 /\ r \notin Short
                     \/ Spent(r)' = Spent(r) /\ lost'[r] = lost[r] + 1
  <2>1. CASE Refuse(e)  BY <2>1 DEF Refuse, server, Spent
  <2>2. CASE Lose(e)  BY <1>3, <1>6, <2>2 DEF Lose, Spent
  <2> QED  BY <2>1, <2>2
<1>8. \A r \in Row : Spent(r) \in Nat  BY <1>6 DEF Spent
<1>9. Accounted'
  <2> SUFFICES ASSUME NEW r \in Row
               PROVE  /\ Spent(r)' <= lost'[r] + 1
                      /\ r \in Open => Spent(r)' <= lost'[r]
                      /\ failed[r] > 0 => /\ Spent(r)' <= lost'[r]
                                          /\ r \in Short \/ r \notin Open
                      /\ r \in Short => Spent(r)' = 0
    BY <1>4, <1>5 DEF Accounted
  <2>1. /\ Spent(r) <= lost[r] + 1
        /\ r \in Open => Spent(r) <= lost[r]
        /\ failed[r] > 0 => Spent(r) <= lost[r] /\ (r \in Short \/ r \notin Open)
        /\ r \in Short => Spent(r) = 0
    BY <1>0 DEF StoreInv, Accounted
  <2> QED  BY <1>6, <1>7, <1>8, <2>1
<1>10. FullAnswer'  BY <1>2 DEF FullAnswer
<1>11. NothingForgotten'
  BY <1>1, <1>3, <1>4, <1>10 DEF StoreInv, NothingForgotten, NoHoles
<1> QED  BY <1>4, <1>9, <1>11

LEMMA LateAccounted ==
    ASSUME StoreInv, (\E r \in Row : LateStore(r)) \/ Return \/ UNCHANGED vars
    PROVE  OnePlaceEach' /\ Accounted' /\ NothingForgotten'
<1>0. TypeOK  BY DEF StoreInv, MapInv
<1>1. UNCHANGED client /\ call' = call /\ lost' = lost
  BY DEF LateStore, Return, vars, server
<1>2. /\ OnePlaceEach' /\ Open' = Open /\ failed' = failed /\ TooShort' = TooShort
      /\ \A r \in Row : Mapped(r)' <=> Mapped(r)
  BY <1>1, SamePlaces
<1>3. \A r : Confirmed(r)' <=> Confirmed(r)  BY <1>1 DEF Confirmed
<1>4. \A r \in Row : Spent(r)' = Spent(r) /\ stored'[r] >= stored[r]
  <2>1. stored \in [Row -> Nat] /\ late \in [Row -> Nat]  BY <1>0 DEF TypeOK
  <2>2. ASSUME NEW q \in Row, LateStore(q), NEW r \in Row
        PROVE  Spent(r)' = Spent(r) /\ stored'[r] >= stored[r]
    <3>1. /\ late'[r] = IF r = q THEN late[r] - 1 ELSE late[r]
          /\ stored'[r] = IF r = q THEN stored[r] + 1 ELSE stored[r]
      BY <2>1, <2>2 DEF LateStore
    <3> QED  BY <2>1, <3>1 DEF Spent
  <2>3. ASSUME Return \/ UNCHANGED vars, NEW r \in Row
        PROVE  Spent(r)' = Spent(r) /\ stored'[r] >= stored[r]
    BY <2>1, <2>3 DEF Return, vars, server, Spent
  <2> QED  BY <2>2, <2>3
<1>5. Accounted'  BY <1>1, <1>2, <1>3, <1>4 DEF StoreInv, Accounted
<1>6. \A r \in Row : stored[r] > 0 => stored'[r] > 0
  <2>1. \A r \in Row : stored[r] \in Nat /\ stored'[r] \in Int
    BY <1>0, TypeStep DEF TypeOK, Next
  <2> QED  BY <1>4, <2>1
<1>7. FullAnswer' <=> FullAnswer  BY <1>1 DEF FullAnswer
<1>8. NothingForgotten'
  BY <1>1, <1>2, <1>6, <1>7 DEF StoreInv, NothingForgotten, NoHoles
<1> QED  BY <1>2, <1>5, <1>8
-----------------------------------------------------------------------------
LEMMA StoreInvInit == Init => StoreInv
<1> SUFFICES ASSUME Init PROVE StoreInv  OBVIOUS
<1>1. /\ call.by = "none" /\ call.rows = {} /\ call = NoCall
      /\ call.answer.kind = "waiting"
      /\ stored = [r \in Row |-> 0] /\ late = [r \in Row |-> 0]
      /\ lost = [r \in Row |-> 0] /\ failed = [r \in Row |-> 0]
  BY DEF Init, NoCall, Waiting
<1>2. MapInv  BY MapInvInit
<1>3. Open = Row /\ OnePlaceEach
  <2>1. CASE head = 1 /\ pending = {}
    <3>1. Open = Row  BY <1>1, <2>1, NAssumption DEF Open, Ahead, Row
    <3> QED  BY <1>1, <2>1, <3>1 DEF OnePlaceEach
  <2>2. CASE head = N + 1 /\ pending = {{r} : r \in Row}
    <3>1. Ahead = {} /\ UNION pending = Row
      BY <2>2, NAssumption DEF Ahead, Row
    <3>2. \A t, u \in pending : t = u \/ t \cap u = {}  BY <2>2
    <3>3. Open = Row  BY <1>1, <3>1 DEF Open
    <3> QED  BY <1>1, <3>1, <3>2, <3>3 DEF OnePlaceEach
  <2> QED  BY <2>1, <2>2 DEF Init
<1>4. Accounted  BY <1>1 DEF Accounted, Spent
<1>5. NothingForgotten  BY <1>1, <1>3 DEF NothingForgotten, FullAnswer
<1> QED  BY <1>2, <1>3, <1>4, <1>5 DEF StoreInv

LEMMA StoreInvStep == StoreInv /\ [Next]_vars => StoreInv'
<1> SUFFICES ASSUME StoreInv, [Next]_vars PROVE StoreInv'  OBVIOUS
<1>1. MapInv'  BY MapInvStep DEF StoreInv
<1>2. ASSUME NEW F, Sound(F) PROVE OnePlaceEach' /\ Accounted' /\ NothingForgotten'
  <2>1. /\ Passes(F) /\ OnePlaceEach' /\ call'.answer = Waiting
        /\ call'.by = "main" => \A r \in TooShort' : r \in F
    BY <1>2 DEF Sound
  <2>2. Accounted' /\ NothingForgotten'  BY <2>1, PassesKeeps
  <2> QED  BY <2>1, <2>2
<1>3. CASE Main  BY <1>1, <1>2, <1>3, MainPasses DEF StoreInv
<1>4. CASE Fallback
  BY <1>1, <1>2, <1>4, SearchPasses, SearchLoadedPasses, SearchSplitPasses, SinglePasses
     DEF StoreInv, Fallback
<1>5. CASE Answer
  <2>1. {"readTimeout", "overload", "transient"} \subseteq Errors  BY DEF Errors, Transient
  <2> QED  BY <1>1, <1>5, <2>1, ExecuteStores, FailureAccounted DEF StoreInv, Answer
<1>6. CASE (\E r \in Row : LateStore(r)) \/ Return \/ UNCHANGED vars
  BY <1>1, <1>6, LateAccounted DEF StoreInv
<1> QED  BY <1>3, <1>4, <1>5, <1>6 DEF Next, Worker

(* A failed row that the server nevertheless stored was in a call whose    *)
(* reply was lost, whatever the server stores and however the rows are     *)
(* numbered, too short or too long: else the failure is certain, and       *)
(* loading the fail file again makes no second record.                     *)
THEOREM FailuresAreCertain == Spec => []FailedIsCertain
<1>1. ASSUME StoreInv PROVE FailedIsCertain
  <2> SUFFICES ASSUME NEW r \in Row, failed[r] > 0, stored[r] > 0 PROVE lost[r] > 0
    BY DEF FailedIsCertain
  <2>1. Spent(r) <= lost[r]  BY <1>1 DEF StoreInv, Accounted
  <2>2. stored[r] \in Nat /\ late[r] \in Nat /\ lost[r] \in Nat
    BY <1>1 DEF StoreInv, MapInv, TypeOK
  <2> QED  BY <2>1, <2>2 DEF Spent
<1> QED  BY <1>1, StoreInvInit, StoreInvStep, PTL DEF Spec

(* No row is stored more often than once and once for each lost reply, and *)
(* if the server never leaves a None in a list of full length, no row is   *)
(* dropped without having been stored.                                     *)
THEOREM StoresAreRight == NoHoles => (Spec => []StoredRight)
<1> SUFFICES ASSUME NoHoles PROVE Spec => []StoredRight  OBVIOUS
<1>1. ASSUME StoreInv PROVE StoredRight
  <2>1. NoNeedlessDuplicate
    <3> SUFFICES ASSUME NEW r \in Row PROVE stored[r] <= 1 + lost[r]
      BY DEF NoNeedlessDuplicate
    <3>1. Spent(r) <= lost[r] + 1  BY <1>1 DEF StoreInv, Accounted
    <3>2. stored[r] \in Nat /\ late[r] \in Nat /\ lost[r] \in Nat
      BY <1>1 DEF StoreInv, MapInv, TypeOK
    <3> QED  BY <3>1, <3>2 DEF Spent
  <2>2. NothingDroppedUnstored
    <3> SUFFICES ASSUME Done, NEW r \in Row
                 PROVE  Mapped(r) \/ failed[r] > 0 \/ stored[r] > 0
      BY DEF NothingDroppedUnstored
    <3>1. call.rows = {} /\ UNION pending = {}  BY DEF Done, NoCall
    <3>2. Ahead = {}
      BY <1>1, NAssumption DEF Done, Ahead, Row, StoreInv, MapInv, TypeOK
    <3>3. r \notin Open  BY <3>1, <3>2 DEF Open
    <3> QED  BY <1>1, <3>3 DEF StoreInv, NothingForgotten
  <2> QED  BY <2>1, <2>2 DEF StoredRight
<1> QED  BY <1>1, StoreInvInit, StoreInvStep, PTL DEF Spec
=============================================================================
