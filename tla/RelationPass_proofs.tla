-------------------------- MODULE RelationPass_proofs --------------------------
(***************************************************************************)
(* What Pass 2 promises, for every file, every size and every limit.       *)
(***************************************************************************)
EXTENDS RelationPass, Slicing_proofs, FunctionTheorems, SequenceTheorems

-----------------------------------------------------------------------------
(***************************************************************************)
(* Folds.  The folds of the community modules run over the parts of the    *)
(* sequence's domain: the function they are made of exists, and its values *)
(* at 1 .. k are the successive results of the fold.                       *)
(***************************************************************************)
LEMMA UpTo ==
    ASSUME NEW n \in Nat, NEW S, 0 \in S, \A k \in 0 .. n : k > 0 /\ k - 1 \in S => k \in S
    PROVE  0 .. n \subseteq S
<1> SUFFICES ASSUME (0 .. n) \ S # {} PROVE FALSE  OBVIOUS
<1>1. (0 .. n) \ S \in SUBSET Nat  OBVIOUS
<1>2. PICK k \in (0 .. n) \ S : \A j \in (0 .. n) \ S : k <= j  BY <1>1, LeastExists
<1>3. k > 0  BY <1>2
<1>4. k - 1 \in 0 .. n  BY <1>2, <1>3
<1>5. k - 1 \in S  BY <1>2, <1>4
<1> QED  BY <1>2, <1>3, <1>5

LEMMA MaxIs ==
    ASSUME NEW S \in SUBSET Int, NEW m \in S, \A x \in S : m >= x
    PROVE  Max(S) = m
<1>1. Max(S) \in S /\ \A x \in S : Max(S) >= x  BY DEF Max
<1>2. Max(S) \in Int /\ m \in Int /\ Max(S) >= m /\ m >= Max(S)  BY <1>1
<1> QED  BY <1>2

LEMMA MaxOfSome ==
    ASSUME NEW n \in Nat, NEW S \in SUBSET (1 .. n), S # {}
    PROVE  /\ Max(S) \in S /\ \A x \in S : Max(S) >= x
<1>1. S \in SUBSET (0 .. n)  OBVIOUS
<1>2. PICK m \in S : \A x \in S : x <= m  BY <1>1, GreatestExists
<1>3. S \in SUBSET Int  OBVIOUS
<1> QED  BY <1>2, <1>3, MaxIs

LEMMA MaxOfInterval ==
    ASSUME NEW k \in Nat \ {0}
    PROVE  Max(1 .. k) = k /\ (1 .. k) \ {k} = 1 .. (k - 1)
<1>1. k \in 1 .. k /\ \A x \in 1 .. k : k >= x  OBVIOUS
<1>2. 1 .. k \in SUBSET Int  OBVIOUS
<1>3. Max(1 .. k) = k  BY <1>1, <1>2, MaxIs
<1> QED  BY <1>3

(* The function a fold is made of.                                         *)
Folds(g, A, Op, base, n, q) ==
    /\ g \in [SUBSET (1 .. n) -> A]
    /\ \A s \in SUBSET (1 .. n) :
          g[s] = IF s = {} THEN base ELSE Op[<<g[s \ {Max(s)}], q[Max(s)]>>]

LEMMA FoldExists ==
    ASSUME NEW A, NEW B, NEW Op \in [A \X B -> A], NEW base \in A,
           NEW n \in Nat, NEW q \in [1 .. n -> B]
    PROVE  \E g : Folds(g, A, Op, base, n, q)
<1> DEFINE Holds(g, s) == g[s] = IF s = {} THEN base ELSE Op[<<g[s \ {Max(s)}], q[Max(s)]>>]
           S == {k \in 0 .. n : \E g \in [SUBSET (1 .. n) -> A] :
                                   \A s \in SUBSET (1 .. k) : Holds(g, s)}
<1>1. 0 \in S
  <2> DEFINE g == [s \in SUBSET (1 .. n) |-> base]
  <2>1. g \in [SUBSET (1 .. n) -> A]  OBVIOUS
  <2>2. \A s \in SUBSET (1 .. 0) : s = {} /\ g[s] = base  OBVIOUS
  <2>3. \A s \in SUBSET (1 .. 0) : Holds(g, s)  BY <2>2
  <2> HIDE DEF g, Holds
  <2> QED  BY <2>1, <2>3
<1>2. ASSUME NEW k \in 0 .. n, k > 0, k - 1 \in S PROVE k \in S
  <2>1. PICK g \in [SUBSET (1 .. n) -> A] : \A s \in SUBSET (1 .. (k - 1)) : Holds(g, s)
    BY <1>2
  <2> DEFINE h == [s \in SUBSET (1 .. n) |->
                     IF k \in s /\ s \subseteq 1 .. k THEN Op[<<g[s \ {k}], q[k]>>] ELSE g[s]]
  <2>2. h \in [SUBSET (1 .. n) -> A]
    <3>1. k \in 1 .. n  BY <1>2
    <3>2. ASSUME NEW s \in SUBSET (1 .. n) PROVE Op[<<g[s \ {k}], q[k]>>] \in A /\ g[s] \in A
      <4>1. s \ {k} \in SUBSET (1 .. n)  OBVIOUS
      <4>2. g[s \ {k}] \in A /\ q[k] \in B  BY <3>1, <4>1
      <4> QED  BY <4>2
    <3> QED  BY <3>2
  <2>3. ASSUME NEW s \in SUBSET (1 .. k) PROVE Holds(h, s)
    <3>1. s \in SUBSET (1 .. n) /\ s \ {k} \in SUBSET (1 .. (k - 1))
          /\ s \ {k} \in SUBSET (1 .. n)
      BY <1>2
    <3>2. CASE k \in s
      <4>1. Max(s) = k
        <5>1. s \in SUBSET Int /\ \A x \in s : k >= x  BY <1>2
        <5> QED  BY <3>2, <5>1, MaxIs
      <4>2. h[s] = Op[<<g[s \ {k}], q[k]>>]  BY <3>1, <3>2
      <4>3. h[s \ {k}] = g[s \ {k}]  BY <3>1
      <4> QED  BY <3>2, <4>1, <4>2, <4>3
    <3>3. CASE k \notin s
      <4>1. s \in SUBSET (1 .. (k - 1)) /\ s = s \ {k}  BY <3>1, <3>3
      <4>2. Holds(g, s)  BY <2>1, <4>1
      <4>3. h[s] = g[s]  BY <3>1, <3>3
      <4>4. h[s \ {Max(s)}] = g[s \ {Max(s)}]  BY <3>1, <3>3
      <4> QED  BY <4>2, <4>3, <4>4
    <3> QED  BY <3>2, <3>3
  <2> HIDE DEF h, Holds
  <2> QED  BY <2>2, <2>3
<1>3. n \in S
  <2> HIDE DEF S
  <2>1. 0 .. n \subseteq S  BY <1>1, <1>2, UpTo
  <2> QED  BY <2>1
<1>4. PICK g \in [SUBSET (1 .. n) -> A] : \A s \in SUBSET (1 .. n) : Holds(g, s)
  BY <1>3
<1> QED  BY <1>4 DEF Folds
-----------------------------------------------------------------------------
Updates == [rec : Record, val : Target]

(* A record is added to the one group of its value.                        *)
LEMMA AddedType ==
    ASSUME NEW groups \in Seq(WriteOps), NEW u \in Updates
    PROVE  Added(groups, u) \in Seq(WriteOps)
<1>1. u.rec \in Record /\ u.val \in Target  BY DEF Updates
<1>2. [recs |-> <<u.rec>>, val |-> u.val] \in WriteOps  BY <1>1 DEF WriteOps
<1>3. Append(groups, [recs |-> <<u.rec>>, val |-> u.val]) \in Seq(WriteOps)  BY <1>2
<1>4. ASSUME NEW i \in DOMAIN groups
      PROVE  [groups[i] EXCEPT !.recs = Append(@, u.rec)] \in WriteOps
  <2>1. groups[i] \in WriteOps  OBVIOUS
  <2>2. Append(groups[i].recs, u.rec) \in Seq(Record)  BY <1>1, <2>1 DEF WriteOps
  <2> QED  BY <2>1, <2>2 DEF WriteOps
<1>5. [i \in DOMAIN groups |->
            IF groups[i].val = u.val THEN [groups[i] EXCEPT !.recs = Append(@, u.rec)]
                                     ELSE groups[i]] \in Seq(WriteOps)
  <2>1. DOMAIN groups = 1 .. Len(groups) /\ Len(groups) \in Nat  OBVIOUS
  <2>2. \A i \in DOMAIN groups : groups[i] \in WriteOps  OBVIOUS
  <2> QED  BY <1>4, <2>1, <2>2
<1> QED  BY <1>3, <1>5 DEF Added

LEMMA GroupedSteps ==
    ASSUME NEW us \in Seq(Updates)
    PROVE  \E f \in [0 .. Len(us) -> Seq(WriteOps)] :
              /\ f[0] = << >> /\ f[Len(us)] = Grouped(us)
              /\ \A k \in 1 .. Len(us) : f[k] = Added(f[k - 1], us[k])
<1> DEFINE A == Seq(WriteOps)
           B == Updates
           n == Len(us)
           Op == [p \in A \X B |-> Added(p[1], p[2])]
           Eq(h) == h = [s \in SUBSET DOMAIN us |->
                           IF s = {} THEN << >>
                                     ELSE Added(h[s \ {Max(s)}], us[Max(s)])]
           h == CHOOSE h : Eq(h)
           f == [k \in 0 .. n |-> h[1 .. k]]
<1>1. \A a \in A, b \in B : Added(a, b) \in A  BY AddedType
<1>2. Op \in [A \X B -> A]  BY <1>1
<1>3. n \in Nat /\ DOMAIN us = 1 .. n /\ us \in [1 .. n -> B] /\ << >> \in A  OBVIOUS
<1> HIDE DEF n
<1>4. PICK g : Folds(g, A, Op, << >>, n, us)
  <2> HIDE DEF A, B, Op
  <2> QED  BY <1>2, <1>3, FoldExists
<1>5. Eq(g)
  <2>1. ASSUME NEW s \in SUBSET (1 .. n), s # {}
        PROVE  g[s] = Added(g[s \ {Max(s)}], us[Max(s)])
    <3>1. Max(s) \in 1 .. n  BY <1>3, <2>1, MaxOfSome
    <3>2. g[s \ {Max(s)}] \in A /\ us[Max(s)] \in B  BY <1>3, <1>4, <3>1 DEF Folds
    <3>3. g[s] = Op[<<g[s \ {Max(s)}], us[Max(s)]>>]  BY <1>4, <2>1 DEF Folds
    <3> QED  BY <3>2, <3>3
  <2>2. g \in [SUBSET (1 .. n) -> A] /\ g[{}] = << >>  BY <1>4 DEF Folds
  <2> QED  BY <1>3, <2>1, <2>2
<1>6. Eq(h)  BY <1>5
<1>7. Grouped(us) = h[1 .. n]
  BY <1>3 DEF Grouped, FoldLeft, MapThenFoldSet
<1> HIDE DEF h
<1>8. f[0] = << >>  BY <1>3, <1>6
<1>9. ASSUME NEW k \in 1 .. n PROVE f[k] = Added(f[k - 1], us[k])
  <2>1. Max(1 .. k) = k /\ (1 .. k) \ {k} = 1 .. (k - 1)  BY <1>3, MaxOfInterval
  <2>2. 1 .. k \in SUBSET DOMAIN us /\ 1 .. k # {}  BY <1>3
  <2>3. h[1 .. k] = Added(h[1 .. (k - 1)], us[k])  BY <1>6, <2>1, <2>2
  <2>4. k - 1 \in 0 .. n /\ k \in 0 .. n  BY <1>3
  <2> QED  BY <2>3, <2>4
<1>10. f \in [0 .. n -> A]
  <2> DEFINE S == {k \in 0 .. n : f[k] \in A}
  <2>1. 0 \in S
    <3>1. 0 \in 0 .. n /\ << >> \in A  BY <1>3
    <3> HIDE DEF f, A
    <3> QED  BY <1>8, <3>1
  <2>2. ASSUME NEW k \in 0 .. n, k > 0, k - 1 \in S PROVE k \in S
    <3>1. k \in 1 .. n /\ us[k] \in B  BY <1>3, <2>2
    <3>2. f[k] = Added(f[k - 1], us[k]) /\ f[k - 1] \in A  BY <1>9, <2>2, <3>1
    <3>3. f[k] \in A  BY <1>1, <3>1, <3>2
    <3> QED  BY <3>3
  <2>3. 0 .. n \subseteq S
    <3> HIDE DEF S
    <3> QED  BY <1>3, <2>1, <2>2, UpTo
  <2> QED  BY <2>3
<1>11. f[n] = Grouped(us)  BY <1>3, <1>7
<1> HIDE DEF f
<1> QED  BY <1>8, <1>9, <1>10, <1>11 DEF n

(* Where a sequence of groups or operations holds a record with a value.   *)
Held(ops, r, t) ==
    {p \in (1 .. Len(ops)) \X Nat : /\ p[2] \in 1 .. Len(ops[p[1]].recs)
                                    /\ ops[p[1]].recs[p[2]] = r /\ ops[p[1]].val = t}

(* No two groups have the same value.                                      *)
OneOfEach(groups) == \A i, j \in DOMAIN groups : groups[i].val = groups[j].val => i = j

LEMMA AddedToGroup ==
    ASSUME NEW groups \in Seq(WriteOps), NEW u \in Updates, OneOfEach(groups),
           NEW g \in DOMAIN groups, groups[g].val = u.val
    PROVE  LET more == Added(groups, u)
               k == Len(groups[g].recs) + 1
           IN  /\ OneOfEach(more)
               /\ <<g, k>> \notin Held(groups, u.rec, u.val)
               /\ Held(more, u.rec, u.val) = Held(groups, u.rec, u.val) \cup {<<g, k>>}
               /\ \A r, t : r # u.rec \/ t # u.val => Held(more, r, t) = Held(groups, r, t)
<1> DEFINE more == Added(groups, u)
           k == Len(groups[g].recs) + 1
<1>1. /\ DOMAIN groups = 1 .. Len(groups) /\ Len(groups) \in Nat
      /\ \A i \in DOMAIN groups : groups[i] \in WriteOps
  OBVIOUS
<1>2. \A i \in DOMAIN groups : groups[i].recs \in Seq(Record) /\ Len(groups[i].recs) \in Nat
  BY <1>1 DEF WriteOps
<1>3. more = [i \in DOMAIN groups |->
                IF groups[i].val = u.val THEN [groups[i] EXCEPT !.recs = Append(@, u.rec)]
                                         ELSE groups[i]]
  BY DEF Added
<1>4. more \in Seq(WriteOps) /\ Len(more) = Len(groups)
  <2>1. more \in Seq(WriteOps)  BY AddedType
  <2>2. DOMAIN more = DOMAIN groups  BY <1>3
  <2> HIDE DEF more
  <2>3. DOMAIN more = 1 .. Len(more) /\ Len(more) \in Nat  BY <2>1
  <2> QED  BY <1>1, <2>1, <2>2, <2>3
<1>5. \A i \in DOMAIN groups : i # g => more[i] = groups[i]
  BY <1>3 DEF OneOfEach
<1>6. /\ more[g].val = u.val
      /\ Len(more[g].recs) = k
      /\ more[g].recs[k] = u.rec
      /\ \A j \in 1 .. (k - 1) : more[g].recs[j] = groups[g].recs[j]
  <2>1. more[g] = [groups[g] EXCEPT !.recs = Append(@, u.rec)]  BY <1>3
  <2>2. more[g].recs = Append(groups[g].recs, u.rec) /\ more[g].val = groups[g].val
    BY <1>1, <2>1 DEF WriteOps
  <2> QED  BY <1>2, <2>2
<1> HIDE DEF more
<1>7. OneOfEach(more)
  <2>1. DOMAIN more = DOMAIN groups  BY <1>1, <1>4
  <2>2. \A i \in DOMAIN groups : more[i].val = groups[i].val  BY <1>5, <1>6
  <2> QED  BY <2>1, <2>2 DEF OneOfEach
<1>8. k \in Nat \ {0} /\ k - 1 = Len(groups[g].recs)  BY <1>2
<1> HIDE DEF k
<1>9. <<g, k>> \notin Held(groups, u.rec, u.val)  BY <1>8 DEF Held
<1>10. ASSUME NEW r, NEW t, NEW i \in 1 .. Len(groups), NEW j \in Nat
       PROVE  <<i, j>> \in Held(more, r, t) <=>
                \/ <<i, j>> \in Held(groups, r, t)
                \/ i = g /\ j = k /\ r = u.rec /\ t = u.val
  <2>1. CASE i # g  BY <1>1, <1>4, <1>5, <2>1 DEF Held
  <2>2. CASE i = g
    <3>1. j \in 1 .. k <=> j \in 1 .. (k - 1) \/ j = k  BY <1>8
    <3> QED  BY <1>4, <1>6, <1>8, <2>2, <3>1 DEF Held
  <2> QED  BY <2>1, <2>2
<1>11. \A r, t : /\ Held(more, r, t) \subseteq (1 .. Len(groups)) \X Nat
                 /\ Held(groups, r, t) \subseteq (1 .. Len(groups)) \X Nat
  BY <1>4 DEF Held
<1>12. <<g, k>> \in (1 .. Len(groups)) \X Nat  BY <1>1, <1>8
<1>13. ASSUME NEW r, NEW t, r # u.rec \/ t # u.val
       PROVE  Held(more, r, t) = Held(groups, r, t)
  <2>1. \A i \in 1 .. Len(groups), j \in Nat : <<i, j>> \in Held(more, r, t) <=> <<i, j>> \in Held(groups, r, t)
    BY <1>10, <1>13
  <2>2. /\ Held(more, r, t) \in SUBSET ((1 .. Len(groups)) \X Nat)
        /\ Held(groups, r, t) \in SUBSET ((1 .. Len(groups)) \X Nat)
    BY <1>11
  <2>3. \A p \in Held(more, r, t) : p \in Held(groups, r, t)  BY <2>1, <2>2
  <2>4. \A p \in Held(groups, r, t) : p \in Held(more, r, t)  BY <2>1, <2>2
  <2> QED  BY <2>3, <2>4
<1>14. Held(more, u.rec, u.val) = Held(groups, u.rec, u.val) \cup {<<g, k>>}
  BY <1>10, <1>11, <1>12
<1> QED  BY <1>7, <1>9, <1>13, <1>14 DEF more, k

LEMMA AddedAsGroup ==
    ASSUME NEW groups \in Seq(WriteOps), NEW u \in Updates, OneOfEach(groups),
           \A g \in DOMAIN groups : groups[g].val # u.val
    PROVE  LET more == Added(groups, u)
               p == <<Len(groups) + 1, 1>>
           IN  /\ OneOfEach(more)
               /\ p \notin Held(groups, u.rec, u.val)
               /\ Held(more, u.rec, u.val) = Held(groups, u.rec, u.val) \cup {p}
               /\ \A r, t : r # u.rec \/ t # u.val => Held(more, r, t) = Held(groups, r, t)
<1> DEFINE more == Added(groups, u)
           m == Len(groups) + 1
           new == [recs |-> <<u.rec>>, val |-> u.val]
<1>1. /\ DOMAIN groups = 1 .. Len(groups) /\ Len(groups) \in Nat
      /\ \A i \in DOMAIN groups : groups[i] \in WriteOps
  OBVIOUS
<1>2. more = Append(groups, new)  BY DEF Added
<1>3. more \in Seq(WriteOps)  BY AddedType
<1>4. /\ Len(more) = m /\ DOMAIN more = 1 .. m
      /\ \A i \in 1 .. Len(groups) : more[i] = groups[i]
      /\ more[m] = new
  BY <1>1, <1>2, <1>3
<1>5. Len(new.recs) = 1 /\ new.recs[1] = u.rec /\ new.val = u.val  OBVIOUS
<1> HIDE DEF more, new
<1>6. m \in Nat /\ m - 1 = Len(groups)  BY <1>1
<1>7. \A i \in 1 .. m : i \in 1 .. Len(groups) \/ i = m  BY <1>1
<1>8. OneOfEach(more)  BY <1>1, <1>4, <1>5, <1>7 DEF OneOfEach
<1>9. <<m, 1>> \notin Held(groups, u.rec, u.val)  BY <1>6 DEF Held
<1>10. ASSUME NEW r, NEW t, NEW i \in 1 .. m, NEW j \in Nat
       PROVE  <<i, j>> \in Held(more, r, t) <=>
                \/ <<i, j>> \in Held(groups, r, t)
                \/ i = m /\ j = 1 /\ r = u.rec /\ t = u.val
  <2>1. CASE i \in 1 .. Len(groups)
    <3>1. i # m /\ more[i] = groups[i]  BY <1>4, <1>6, <2>1
    <3> QED  BY <1>4, <2>1, <3>1 DEF Held
  <2>2. CASE i = m
    <3>1. i \notin 1 .. Len(groups) /\ more[i] = new  BY <1>4, <1>6, <2>2
    <3>2. j \in 1 .. 1 <=> j = 1  OBVIOUS
    <3> QED  BY <1>4, <1>5, <2>2, <3>1, <3>2 DEF Held
  <2> QED  BY <1>7, <2>1, <2>2
<1>11. \A r, t : /\ Held(more, r, t) \subseteq (1 .. m) \X Nat
                 /\ Held(groups, r, t) \subseteq (1 .. m) \X Nat
  <2>1. 1 .. Len(groups) \subseteq 1 .. m  BY <1>1
  <2> QED  BY <1>4, <2>1 DEF Held
<1>12. <<m, 1>> \in (1 .. m) \X Nat  BY <1>1
<1>13. ASSUME NEW r, NEW t, r # u.rec \/ t # u.val
       PROVE  Held(more, r, t) = Held(groups, r, t)
  <2>1. \A i \in 1 .. m, j \in Nat : <<i, j>> \in Held(more, r, t) <=> <<i, j>> \in Held(groups, r, t)
    BY <1>10, <1>13
  <2>2. /\ Held(more, r, t) \in SUBSET ((1 .. m) \X Nat)
        /\ Held(groups, r, t) \in SUBSET ((1 .. m) \X Nat)
    BY <1>11
  <2>3. \A p \in Held(more, r, t) : p \in Held(groups, r, t)  BY <2>1, <2>2
  <2>4. \A p \in Held(groups, r, t) : p \in Held(more, r, t)  BY <2>1, <2>2
  <2> QED  BY <2>3, <2>4
<1>14. Held(more, u.rec, u.val) = Held(groups, u.rec, u.val) \cup {<<m, 1>>}
  BY <1>10, <1>11, <1>12
<1> QED  BY <1>8, <1>9, <1>13, <1>14 DEF more

LEMMA OneMore ==
    ASSUME NEW S, NEW T, NEW x, IsFiniteSet(S), x \notin S, T = S \cup {x}
    PROVE  IsFiniteSet(T) /\ Cardinality(T) = Cardinality(S) + 1
BY FS_AddElement

(* The first k updates that give a record a value.                         *)
Giving(us, k, r, t) == {j \in 1 .. k : us[j].rec = r /\ us[j].val = t}

(* Grouping keeps every update, and keeps it once.                         *)
LEMMA GroupedHolds ==
    ASSUME NEW us \in Seq(Updates)
    PROVE  /\ Grouped(us) \in Seq(WriteOps)
           /\ \A r, t : /\ IsFiniteSet(Held(Grouped(us), r, t))
                        /\ Cardinality(Held(Grouped(us), r, t))
                             = Cardinality(Giving(us, Len(us), r, t))
<1> DEFINE n == Len(us)
<1>1. PICK f \in [0 .. n -> Seq(WriteOps)] :
         /\ f[0] = << >> /\ f[n] = Grouped(us)
         /\ \A k \in 1 .. n : f[k] = Added(f[k - 1], us[k])
  BY GroupedSteps
<1>2. n \in Nat /\ \A k \in 1 .. n : us[k] \in Updates  OBVIOUS
<1> HIDE DEF n
<1> DEFINE Same(k, r, t) ==
               /\ IsFiniteSet(Held(f[k], r, t))
               /\ Cardinality(Held(f[k], r, t)) = Cardinality(Giving(us, k, r, t))
           S == {k \in 0 .. n : OneOfEach(f[k]) /\ \A r, t : Same(k, r, t)}
<1>3. 0 \in S
  <2>1. OneOfEach(f[0])  BY <1>1 DEF OneOfEach
  <2>2. \A r, t : Held(f[0], r, t) = {} /\ Giving(us, 0, r, t) = {}
    BY <1>1 DEF Held, Giving
  <2>3. \A r, t : Same(0, r, t)  BY <2>2, FS_EmptySet
  <2>4. 0 \in 0 .. n  BY <1>2
  <2> HIDE DEF Same
  <2> QED  BY <2>1, <2>3, <2>4
<1>4. ASSUME NEW k \in 0 .. n, k > 0, k - 1 \in S PROVE k \in S
  <2> DEFINE groups == f[k - 1]
             u == us[k]
             more == Added(groups, u)
  <2>1. /\ k \in 1 .. n /\ k - 1 \in 0 .. n
        /\ groups \in Seq(WriteOps) /\ u \in Updates /\ f[k] = more
    BY <1>1, <1>2, <1>4
  <2>2. OneOfEach(groups) /\ \A r, t : Same(k - 1, r, t)  BY <1>4
  <2>3. \E p : /\ OneOfEach(more) /\ p \notin Held(groups, u.rec, u.val)
               /\ Held(more, u.rec, u.val) = Held(groups, u.rec, u.val) \cup {p}
               /\ \A r, t : r # u.rec \/ t # u.val => Held(more, r, t) = Held(groups, r, t)
    <3> HIDE DEF groups, u
    <3>1. CASE \E g \in DOMAIN groups : groups[g].val = u.val
      <4>1. PICK g \in DOMAIN groups : groups[g].val = u.val  BY <3>1
      <4> QED  BY <2>1, <2>2, <4>1, AddedToGroup
    <3>2. CASE \A g \in DOMAIN groups : groups[g].val # u.val
      BY <2>1, <2>2, <3>2, AddedAsGroup
    <3> QED  BY <3>1, <3>2
  <2>4. PICK p : /\ OneOfEach(more) /\ p \notin Held(groups, u.rec, u.val)
                 /\ Held(more, u.rec, u.val) = Held(groups, u.rec, u.val) \cup {p}
                 /\ \A r, t : r # u.rec \/ t # u.val => Held(more, r, t) = Held(groups, r, t)
    BY <2>3
  <2>5. ASSUME NEW r, NEW t
        PROVE  Giving(us, k, r, t) = IF r = u.rec /\ t = u.val
                                     THEN Giving(us, k - 1, r, t) \cup {k}
                                     ELSE Giving(us, k - 1, r, t)
    <3>1. \A j \in Int : j \in 1 .. k <=> j \in 1 .. (k - 1) \/ j = k  BY <2>1
    <3>2. 1 .. k \subseteq Int /\ 1 .. (k - 1) \subseteq Int  OBVIOUS
    <3> QED  BY <3>1, <3>2, <2>1 DEF Giving
  <2>6. \A r, t : IsFiniteSet(Giving(us, k - 1, r, t)) /\ k \notin Giving(us, k - 1, r, t)
    <3>1. IsFiniteSet(1 .. (k - 1)) /\ k \notin 1 .. (k - 1)  BY <2>1, FS_Interval
    <3> QED  BY <3>1, FS_Subset DEF Giving
  <2>7. ASSUME NEW r, NEW t PROVE Same(k, r, t)
    <3>1. Same(k - 1, r, t)  BY <2>2
    <3>2. CASE r = u.rec /\ t = u.val
      <4>1. /\ Held(f[k], r, t) = Held(groups, r, t) \cup {p} /\ p \notin Held(groups, r, t)
            /\ Giving(us, k, r, t) = Giving(us, k - 1, r, t) \cup {k}
        BY <2>1, <2>4, <2>5, <3>2
      <4>2. /\ IsFiniteSet(Held(groups, r, t)) /\ IsFiniteSet(Giving(us, k - 1, r, t))
            /\ k \notin Giving(us, k - 1, r, t)
            /\ Cardinality(Held(groups, r, t)) = Cardinality(Giving(us, k - 1, r, t))
        BY <2>6, <3>1
      <4>3. /\ IsFiniteSet(Held(f[k], r, t))
            /\ Cardinality(Held(f[k], r, t)) = Cardinality(Held(groups, r, t)) + 1
        BY <4>1, <4>2, OneMore
      <4>4. Cardinality(Giving(us, k, r, t)) = Cardinality(Giving(us, k - 1, r, t)) + 1
        BY <4>1, <4>2, OneMore
      <4> QED  BY <4>2, <4>3, <4>4
    <3>3. CASE ~(r = u.rec /\ t = u.val)
      <4>1. /\ Held(f[k], r, t) = Held(groups, r, t)
            /\ Giving(us, k, r, t) = Giving(us, k - 1, r, t)
        BY <2>1, <2>4, <2>5, <3>3
      <4> QED  BY <3>1, <4>1
    <3> QED  BY <3>2, <3>3
  <2>8. OneOfEach(f[k])  BY <2>1, <2>4
  <2> HIDE DEF Same
  <2> QED  BY <2>7, <2>8
<1>5. n \in S
  <2> HIDE DEF S
  <2>1. 0 .. n \subseteq S  BY <1>2, <1>3, <1>4, UpTo
  <2> QED  BY <1>2, <2>1
<1>6. Grouped(us) \in Seq(WriteOps)  BY <1>1, <1>2
<1>7. \A r, t : Same(n, r, t)
  <2> HIDE DEF Same
  <2> QED  BY <1>5
<1> QED  BY <1>1, <1>6, <1>7 DEF n

Iterated(f, A, Op, base, n, q) ==
    /\ f \in [0 .. n -> A]
    /\ f[0] = base /\ \A k \in 1 .. n : f[k] = Op[<<f[k - 1], q[k]>>]

LEMMA Iterates ==
    ASSUME NEW A, NEW B, NEW Op \in [A \X B -> A], NEW base \in A,
           NEW n \in Nat, NEW q \in [1 .. n -> B]
    PROVE  \E f : Iterated(f, A, Op, base, n, q)
<1>1. PICK g : Folds(g, A, Op, base, n, q)  BY FoldExists
<1> DEFINE f == [k \in 0 .. n |-> g[1 .. k]]
<1>2. f \in [0 .. n -> A]
  <2>1. \A k \in 0 .. n : 1 .. k \in SUBSET (1 .. n)  OBVIOUS
  <2> QED  BY <1>1, <2>1 DEF Folds
<1>3. f[0] = base
  <2>1. {} \in SUBSET (1 .. n) /\ 1 .. 0 = {} /\ 0 \in 0 .. n  OBVIOUS
  <2>2. g[{}] = base  BY <1>1, <2>1 DEF Folds
  <2> QED  BY <2>1, <2>2
<1>4. ASSUME NEW k \in 1 .. n PROVE f[k] = Op[<<f[k - 1], q[k]>>]
  <2>1. Max(1 .. k) = k /\ (1 .. k) \ {k} = 1 .. (k - 1)  BY MaxOfInterval
  <2>2. 1 .. k \in SUBSET (1 .. n) /\ 1 .. k # {}  OBVIOUS
  <2>3. g[1 .. k] = Op[<<g[1 .. (k - 1)], q[k]>>]  BY <1>1, <2>1, <2>2 DEF Folds
  <2>4. k - 1 \in 0 .. n /\ k \in 0 .. n  OBVIOUS
  <2> QED  BY <2>3, <2>4
<1> HIDE DEF f
<1> QED  BY <1>2, <1>3, <1>4 DEF Iterated

-----------------------------------------------------------------------------
(***************************************************************************)
(* A sequence cut into parts: start[b] items precede part b.               *)
(***************************************************************************)
Starts(start, parts, s) ==
    /\ start \in [1 .. Len(parts) + 1 -> Nat]
    /\ start[1] = 0 /\ start[Len(parts) + 1] = Len(s)
    /\ \A b \in 1 .. Len(parts) :
          /\ start[b + 1] = start[b] + Len(parts[b])
          /\ \A o \in 1 .. Len(parts[b]) : s[start[b] + o] = parts[b][o]

LEMMA StartsGrow ==
    ASSUME NEW A, NEW parts \in Seq(Seq(A)), NEW s \in Seq(A),
           NEW start, Starts(start, parts, s)
    PROVE  \A b, c \in 1 .. Len(parts) + 1 : b <= c => start[b] <= start[c]
<1> DEFINE n == Len(parts)
<1>1. /\ n \in Nat /\ \A b \in 1 .. n + 1 : start[b] \in Nat
      /\ \A b \in 1 .. n : start[b] <= start[b + 1]
  <2>1. n \in Nat /\ \A b \in 1 .. n : Len(parts[b]) \in Nat  OBVIOUS
  <2>2. \A b \in 1 .. n : b \in 1 .. n + 1  BY <2>1
  <2>3. start \in [1 .. n + 1 -> Nat]  BY DEF Starts
  <2>4. \A b \in 1 .. n : start[b + 1] = start[b] + Len(parts[b])  BY DEF Starts
  <2>5. ASSUME NEW b \in 1 .. n PROVE start[b] <= start[b + 1]
    <3>1. start[b] \in Nat /\ Len(parts[b]) \in Nat  BY <2>1, <2>2, <2>3
    <3>2. start[b + 1] = start[b] + Len(parts[b])  BY <2>4
    <3> QED  BY <3>1, <3>2
  <2> HIDE DEF n
  <2> QED  BY <2>1, <2>3, <2>5
<1> HIDE DEF n
<1> SUFFICES ASSUME NEW b \in 1 .. n + 1
             PROVE  \A c \in 1 .. n + 1 : b <= c => start[b] <= start[c]
  BY DEF n
<1> DEFINE S == {k \in 0 .. n + 1 - b : start[b] <= start[b + k]}
<1>2. 0 \in S  BY <1>1
<1>3. ASSUME NEW k \in 0 .. n + 1 - b, k > 0, k - 1 \in S PROVE k \in S
  <2>1. b + (k - 1) \in 1 .. n /\ (b + (k - 1)) + 1 = b + k /\ b + k \in 1 .. n + 1
    BY <1>1, <1>3
  <2>2. start[b] <= start[b + (k - 1)] /\ start[b + (k - 1)] <= start[b + k]
    BY <1>1, <1>3, <2>1
  <2>3. start[b] \in Nat /\ start[b + (k - 1)] \in Nat /\ start[b + k] \in Nat
    BY <1>1, <2>1
  <2> QED  BY <2>2, <2>3
<1>4. 0 .. n + 1 - b \subseteq S
  <2>1. n + 1 - b \in Nat  BY <1>1
  <2> HIDE DEF S
  <2> QED  BY <1>2, <1>3, <2>1, UpTo
<1>5. ASSUME NEW c \in 1 .. n + 1, b <= c PROVE start[b] <= start[c]
  <2>1. c - b \in 0 .. n + 1 - b /\ b + (c - b) = c  BY <1>1, <1>5
  <2>2. c - b \in S  BY <1>4, <2>1
  <2>3. start[b] <= start[b + (c - b)]  BY <2>2
  <2> QED  BY <2>1, <2>3
<1> QED  BY <1>5

(* Every item is in one part, at one place of it.                          *)
LEMMA StartsPart ==
    ASSUME NEW A, NEW parts \in Seq(Seq(A)), NEW s \in Seq(A),
           NEW start, Starts(start, parts, s)
    PROVE  /\ \A b \in 1 .. Len(parts) : \A o \in 1 .. Len(parts[b]) :
                 start[b] + o \in 1 .. Len(s)
           /\ \A b, c \in 1 .. Len(parts) :
                 \A o \in 1 .. Len(parts[b]), u \in 1 .. Len(parts[c]) :
                     start[b] + o = start[c] + u => b = c /\ o = u
           /\ \A p \in 1 .. Len(s) :
                 \E b \in 1 .. Len(parts) :
                     \E o \in 1 .. Len(parts[b]) : p = start[b] + o
<1> DEFINE n == Len(parts)
           len(b) == Len(parts[b])
<1>1. /\ n \in Nat /\ Len(s) \in Nat /\ start[1] = 0 /\ start[n + 1] = Len(s)
      /\ \A b \in 1 .. n + 1 : start[b] \in Nat
      /\ \A b \in 1 .. n : len(b) \in Nat /\ start[b + 1] = start[b] + len(b)
      /\ \A b, c \in 1 .. n + 1 : b <= c => start[b] <= start[c]
  <2>1. n \in Nat /\ Len(s) \in Nat /\ \A b \in 1 .. n : len(b) \in Nat  OBVIOUS
  <2>2. /\ start \in [1 .. n + 1 -> Nat] /\ start[1] = 0 /\ start[n + 1] = Len(s)
        /\ \A b \in 1 .. n : start[b + 1] = start[b] + len(b)
    BY DEF Starts
  <2>3. \A b, c \in 1 .. n + 1 : b <= c => start[b] <= start[c]  BY StartsGrow
  <2> HIDE DEF n, len
  <2> QED  BY <2>1, <2>2, <2>3
<1> HIDE DEF n, len
<1>2. ASSUME NEW b \in 1 .. n, NEW o \in 1 .. len(b)
      PROVE  start[b] + o \in 1 .. Len(s)
  <2>1. b \in 1 .. n + 1 /\ b + 1 \in 1 .. n + 1 /\ n + 1 \in 1 .. n + 1 /\ b + 1 <= n + 1
    BY <1>1
  <2>2. /\ start[b] \in Nat /\ start[b + 1] = start[b] + len(b) /\ len(b) \in Nat
        /\ start[b + 1] <= start[n + 1]
    BY <1>1, <2>1
  <2> QED  BY <1>1, <2>2
<1>3. ASSUME NEW b \in 1 .. n, NEW c \in 1 .. n, NEW o \in 1 .. len(b), NEW u \in 1 .. len(c),
             start[b] + o = start[c] + u, b < c
      PROVE  FALSE
  <2>1. b + 1 \in 1 .. n + 1 /\ c \in 1 .. n + 1 /\ b \in 1 .. n + 1 /\ b + 1 <= c
    BY <1>1, <1>3
  <2>2. /\ start[b] \in Nat /\ start[c] \in Nat /\ start[b + 1] = start[b] + len(b)
        /\ len(b) \in Nat /\ len(c) \in Nat /\ start[b + 1] <= start[c]
    BY <1>1, <2>1
  <2> QED  BY <1>3, <2>2
<1>4. ASSUME NEW b \in 1 .. n, NEW c \in 1 .. n, NEW o \in 1 .. len(b), NEW u \in 1 .. len(c),
             start[b] + o = start[c] + u
      PROVE  b = c /\ o = u
  <2>1. b \in Int /\ c \in Int /\ b \in 1 .. n + 1 /\ c \in 1 .. n + 1  BY <1>1
  <2>2. ~(b < c)  BY <1>3, <1>4
  <2>3. ~(c < b)
    <3>1. start[c] + u = start[b] + o  BY <1>4
    <3> QED  BY <1>3, <3>1
  <2>4. b = c  BY <2>1, <2>2, <2>3
  <2>5. start[b] \in Nat /\ o \in Int /\ u \in Int  BY <1>1, <2>1, <2>4
  <2>6. start[b] + o = start[b] + u  BY <1>4, <2>4
  <2>7. o = u  BY <2>5, <2>6
  <2> QED  BY <2>4, <2>7
<1>5. ASSUME NEW p \in 1 .. Len(s)
      PROVE  \E b \in 1 .. n : \E o \in 1 .. len(b) : p = start[b] + o
  <2> DEFINE B == {b \in 1 .. n + 1 : start[b] < p}
  <2>1. 1 \in B  BY <1>1
  <2>2. B \in SUBSET (0 .. n + 1) /\ n + 1 \in Nat  BY <1>1
  <2>3. PICK b \in B : \A c \in B : c <= b  BY <2>1, <2>2, GreatestExists
  <2>4. b # n + 1  BY <1>1, <2>3
  <2>5. b \in 1 .. n /\ b + 1 \in 1 .. n + 1  BY <1>1, <2>4
  <2>6. ~(start[b + 1] < p)
    <3>1. ~(b + 1 <= b)  BY <2>5
    <3> QED  BY <2>3, <2>5, <3>1
  <2>7. /\ start[b] \in Nat /\ len(b) \in Nat /\ start[b + 1] = start[b] + len(b)
        /\ start[b] < p
    BY <1>1, <2>3, <2>5
  <2>8. p - start[b] \in 1 .. len(b) /\ p = start[b] + (p - start[b])
    BY <2>6, <2>7
  <2> QED  BY <2>5, <2>8
<1> QED  BY <1>2, <1>4, <1>5 DEF n, len

LEMMA ConcatParts ==
    ASSUME NEW A, NEW s \in Seq(A), NEW t \in Seq(A)
    PROVE  /\ Len(s \o t) = Len(s) + Len(t) /\ s \o t \in Seq(A)
           /\ Len(s) \in Nat /\ Len(t) \in Nat
           /\ \A p \in 1 .. Len(s) : (s \o t)[p] = s[p]
           /\ \A o \in 1 .. Len(t) : (s \o t)[Len(s) + o] = t[o]
OBVIOUS

(* FlattenSeq lays its parts one after the other.                          *)
LEMMA FlattenedSteps ==
    ASSUME NEW A, NEW parts \in Seq(Seq(A))
    PROVE  \E f \in [0 .. Len(parts) -> Seq(A)] :
              /\ f[0] = << >> /\ f[Len(parts)] = FlattenSeq(parts)
              /\ \A k \in 1 .. Len(parts) : f[k] = f[k - 1] \o parts[k]
<1> DEFINE n == Len(parts)
           T == Seq(A)
           Op == [p \in T \X T |-> p[1] \o p[2]]
           Eq(h) == h = [i \in 1 .. Len(parts) |->
                           IF i = 1 THEN parts[i] ELSE h[i - 1] \o parts[i]]
           h == CHOOSE h : Eq(h)
<1>1. /\ n \in Nat /\ parts \in [1 .. n -> T] /\ << >> \in T
      /\ Op \in [T \X T -> T]
  OBVIOUS
<1>a. PICK f : Iterated(f, T, Op, << >>, n, parts)
  <2> HIDE DEF n, Op, T
  <2> QED  BY <1>1, Iterates
<1>2. /\ f \in [0 .. n -> T] /\ f[0] = << >>
      /\ \A k \in 1 .. n : f[k] = Op[<<f[k - 1], parts[k]>>]
  BY <1>a DEF Iterated
<1>3. \A k \in 1 .. n : f[k] = f[k - 1] \o parts[k] /\ f[k - 1] \in Seq(A) /\ parts[k] \in Seq(A)
  <2>1. \A k \in 1 .. n : k - 1 \in 0 .. n  BY <1>1
  <2> QED  BY <1>1, <1>2, <2>1
<1>4. CASE n = 0  BY <1>2, <1>4 DEF FlattenSeq
<1>5. CASE n # 0
  <2> DEFINE e == [i \in 1 .. n |-> f[i]]
  <2>1. ASSUME NEW i \in 1 .. n
        PROVE  e[i] = IF i = 1 THEN parts[i] ELSE e[i - 1] \o parts[i]
    <3>1. CASE i = 1
      <4>1. 1 \in 1 .. n /\ 1 - 1 = 0  BY <3>1
      <4> DEFINE w == parts[1]
      <4>2. f[1] = f[0] \o w /\ w \in Seq(A)  BY <1>3, <4>1
      <4> HIDE DEF w
      <4>3. f[1] = w  BY <1>2, <4>2, ConcatEmptySeq
      <4> QED  BY <3>1, <4>3 DEF w
    <3>2. CASE i # 1
      <4>1. i - 1 \in 1 .. n  BY <1>1, <3>2
      <4> QED  BY <1>3, <3>2, <4>1
    <3> QED  BY <3>1, <3>2
  <2>2. Eq(e)
    <3>1. e = [i \in 1 .. n |-> IF i = 1 THEN parts[i] ELSE e[i - 1] \o parts[i]]
      BY <2>1
    <3> HIDE DEF e
    <3> QED  BY <3>1
  <2>3. Eq(h)
    <3> HIDE DEF e
    <3> QED  BY <2>2
  <2>4. FlattenSeq(parts) = h[n]  BY <1>5 DEF FlattenSeq
  <2> HIDE DEF h
  <2> DEFINE S == {k \in 0 .. n : k > 0 => h[k] = f[k]}
  <2>5. 0 \in S  BY <1>1
  <2>6. ASSUME NEW k \in 0 .. n, k > 0, k - 1 \in S PROVE k \in S
    <3>1. k \in 1 .. n  BY <1>1, <2>6
    <3>2. h[k] = IF k = 1 THEN parts[k] ELSE h[k - 1] \o parts[k]  BY <2>3, <3>1
    <3>3. e[k] = f[k]  BY <3>1
    <3>4. k # 1 => h[k - 1] = f[k - 1] /\ e[k - 1] = f[k - 1]
      <4>1. k # 1 => k - 1 > 0 /\ k - 1 \in 1 .. n  BY <1>1, <2>6
      <4> QED  BY <2>6, <4>1
    <3>5. e[k] = IF k = 1 THEN parts[k] ELSE e[k - 1] \o parts[k]  BY <2>1, <3>1
    <3>6. h[k] = e[k]
      <4> HIDE DEF e
      <4> QED  BY <3>2, <3>4, <3>5
    <3>7. h[k] = f[k]  BY <3>3, <3>6
    <3> QED  BY <3>7
  <2>7. 0 .. n \subseteq S
    <3> HIDE DEF S
    <3> QED  BY <1>1, <2>5, <2>6, UpTo
  <2>8. n \in S /\ n > 0  BY <1>1, <1>5, <2>7
  <2>9. h[n] = f[n]  BY <2>8
  <2> QED  BY <1>2, <1>3, <2>4, <2>9
<1> QED  BY <1>4, <1>5

LEMMA FlattenedStarts ==
    ASSUME NEW A, NEW parts \in Seq(Seq(A))
    PROVE  /\ FlattenSeq(parts) \in Seq(A)
           /\ \E start : Starts(start, parts, FlattenSeq(parts))
<1> DEFINE n == Len(parts)
<1>1. PICK f \in [0 .. n -> Seq(A)] :
         /\ f[0] = << >> /\ f[n] = FlattenSeq(parts)
         /\ \A k \in 1 .. n : f[k] = f[k - 1] \o parts[k]
  BY FlattenedSteps
<1>2. /\ n \in Nat /\ \A k \in 1 .. n : k - 1 \in 0 .. n
      /\ \A k \in 1 .. n : parts[k] \in Seq(A) /\ Len(parts[k]) \in Nat
      /\ \A k \in 0 .. n : f[k] \in Seq(A) /\ Len(f[k]) \in Nat
  BY <1>1
<1> DEFINE start == [b \in 1 .. n + 1 |-> Len(f[b - 1])]
<1>3. /\ start \in [1 .. n + 1 -> Nat] /\ start[1] = 0
      /\ start[n + 1] = Len(FlattenSeq(parts))
  <2>1. \A b \in 1 .. n + 1 : b - 1 \in 0 .. n  BY <1>2
  <2>2. 1 \in 1 .. n + 1 /\ n + 1 \in 1 .. n + 1 /\ (n + 1) - 1 = n  BY <1>2
  <2> HIDE DEF n
  <2>3. start[1] = Len(f[0]) /\ start[n + 1] = Len(f[n])  BY <2>2
  <2> QED  BY <1>1, <1>2, <2>1, <2>3
<1>4. \A b \in 1 .. n : start[b] = Len(f[b - 1]) /\ start[b + 1] = Len(f[b])
  <2>1. \A b \in 1 .. n : b \in 1 .. n + 1 /\ b + 1 \in 1 .. n + 1 /\ (b + 1) - 1 = b
    BY <1>2
  <2> HIDE DEF n
  <2> QED  BY <2>1
<1> HIDE DEF start, n
<1>5. ASSUME NEW k \in 1 .. n
      PROVE  /\ Len(f[k]) = Len(f[k - 1]) + Len(parts[k])
             /\ \A p \in 1 .. Len(f[k - 1]) : f[k][p] = f[k - 1][p]
             /\ \A o \in 1 .. Len(parts[k]) : f[k][Len(f[k - 1]) + o] = parts[k][o]
  <2> DEFINE u == f[k]
             v == f[k - 1]
             w == parts[k]
  <2>1. u = v \o w /\ v \in Seq(A) /\ w \in Seq(A)  BY <1>1, <1>2
  <2> HIDE DEF u, v, w
  <2>2. /\ Len(u) = Len(v) + Len(w)
        /\ \A p \in 1 .. Len(v) : u[p] = v[p]
        /\ \A o \in 1 .. Len(w) : u[Len(v) + o] = w[o]
    BY <2>1, ConcatParts
  <2> QED  BY <2>2 DEF u, v, w
<1> DEFINE S == {k \in 0 .. n :
                   \A b \in 1 .. n : b <= k =>
                       /\ Len(f[b]) <= Len(f[k])
                       /\ \A o \in 1 .. Len(parts[b]) : f[k][Len(f[b - 1]) + o] = parts[b][o]}
<1>6. 0 \in S  BY <1>2
<1>7. ASSUME NEW k \in 0 .. n, k > 0, k - 1 \in S PROVE k \in S
  <2>1. k \in 1 .. n /\ k \in Nat  BY <1>2, <1>7
  <2>2. /\ Len(f[k]) = Len(f[k - 1]) + Len(parts[k])
        /\ \A p \in 1 .. Len(f[k - 1]) : f[k][p] = f[k - 1][p]
        /\ \A o \in 1 .. Len(parts[k]) : f[k][Len(f[k - 1]) + o] = parts[k][o]
    BY <1>5, <2>1
  <2>3. ASSUME NEW b \in 1 .. n, b <= k
        PROVE  /\ Len(f[b]) <= Len(f[k])
               /\ \A o \in 1 .. Len(parts[b]) : f[k][Len(f[b - 1]) + o] = parts[b][o]
    <3>0. b \in Nat  BY <1>2
    <3>1. CASE b = k
      <4>1. Len(f[k]) \in Nat /\ Len(f[k]) <= Len(f[k])  BY <1>2
      <4>2. \A o \in 1 .. Len(parts[k]) : f[k][Len(f[k - 1]) + o] = parts[k][o]
        BY <2>2
      <4> QED  BY <3>1, <4>1, <4>2
    <3>2. CASE b <= k - 1
      <4>1. /\ Len(f[b]) <= Len(f[k - 1])
            /\ \A o \in 1 .. Len(parts[b]) : f[k - 1][Len(f[b - 1]) + o] = parts[b][o]
        BY <1>7, <3>2
      <4>2. /\ Len(f[b]) \in Nat /\ Len(f[k - 1]) \in Nat /\ Len(f[k]) \in Nat
            /\ Len(parts[k]) \in Nat /\ Len(parts[b]) \in Nat /\ Len(f[b - 1]) \in Nat
            /\ Len(f[b]) = Len(f[b - 1]) + Len(parts[b])
        <5>1. b \in 0 .. n /\ k - 1 \in 0 .. n /\ b - 1 \in 0 .. n  BY <1>2, <2>1
        <5> QED  BY <1>2, <1>5, <2>1, <5>1
      <4>3. Len(f[b]) <= Len(f[k])
        <5>1. Len(f[k]) = Len(f[k - 1]) + Len(parts[k]) /\ Len(f[b]) <= Len(f[k - 1])
          BY <2>2, <4>1
        <5> DEFINE x == Len(f[b])
                   y == Len(f[k - 1])
                   z == Len(f[k])
                   w == Len(parts[k])
        <5>2. x \in Nat /\ y \in Nat /\ z \in Nat /\ w \in Nat /\ z = y + w /\ x <= y
          BY <4>2, <5>1
        <5> HIDE DEF x, y, z, w
        <5>3. x <= z  BY <5>2
        <5> QED  BY <5>3 DEF x, z
      <4>4. ASSUME NEW o \in 1 .. Len(parts[b])
            PROVE  f[k][Len(f[b - 1]) + o] = parts[b][o]
        <5>1. Len(f[b - 1]) + o \in 1 .. Len(f[k - 1])
          <6> DEFINE x == Len(f[b])
                     y == Len(f[k - 1])
                     z == Len(f[b - 1])
                     w == Len(parts[b])
          <6>1. /\ x \in Nat /\ y \in Nat /\ z \in Nat /\ w \in Nat
                /\ x = z + w /\ x <= y /\ o \in 1 .. w
            BY <4>1, <4>2
          <6> HIDE DEF x, y, z, w
          <6>2. z + o \in 1 .. y  BY <6>1
          <6> QED  BY <6>2 DEF y, z
        <5> QED  BY <2>2, <4>1, <5>1
      <4> QED  BY <4>3, <4>4
    <3> QED  BY <2>1, <2>3, <3>0, <3>1, <3>2
  <2> QED  BY <2>3
<1>8. n \in S
  <2>1. 0 .. n \subseteq S
    <3> HIDE DEF S
    <3> QED  BY <1>2, <1>6, <1>7, UpTo
  <2> QED  BY <1>2, <2>1
<1>9. ASSUME NEW b \in 1 .. n
      PROVE  /\ start[b + 1] = start[b] + Len(parts[b])
             /\ \A o \in 1 .. Len(parts[b]) : f[n][start[b] + o] = parts[b][o]
  <2>1. b <= n  BY <1>2
  <2>2. \A o \in 1 .. Len(parts[b]) : f[n][Len(f[b - 1]) + o] = parts[b][o]
    BY <1>8, <2>1
  <2> QED  BY <1>4, <1>5, <2>2
<1>10. Starts(start, parts, FlattenSeq(parts))  BY <1>1, <1>3, <1>9 DEF Starts, n
<1>11. FlattenSeq(parts) \in Seq(A)
  <2>1. n \in 0 .. n  BY <1>2
  <2> QED  BY <1>1, <1>2, <2>1
<1> QED  BY <1>10, <1>11

(***************************************************************************)
(* Cutting the groups.                                                     *)
(***************************************************************************)
LEMMA TimesIn ==
    ASSUME NEW n \in Nat \ {0}, NEW i \in Nat \ {0}
    PROVE  (i - 1) * n \in Nat /\ i * n = (i - 1) * n + n /\ i * n \in Nat
OBVIOUS

LEMMA ChunkIs ==
    ASSUME NEW s \in Seq(Record), NEW i \in Nat \ {0}, (i - 1) * BatchSize <= Len(s)
    PROVE  /\ Chunk(s, i) \in Seq(Record)
           /\ Len(Chunk(s, i)) <= BatchSize
           /\ \A k \in 1 .. Len(Chunk(s, i)) :
                 /\ (i - 1) * BatchSize + k \in 1 .. Len(s)
                 /\ Chunk(s, i)[k] = s[(i - 1) * BatchSize + k]
           /\ \A p \in 1 .. Len(s) :
                 (i - 1) * BatchSize < p /\ p <= i * BatchSize =>
                     p - (i - 1) * BatchSize \in 1 .. Len(Chunk(s, i))
<1> DEFINE n == BatchSize
           a == (i - 1) * n
           z == i * n
           y == Len(s)
           b == IF z < y THEN z ELSE y
           c == SubSeq(s, a + 1, b)
<1>1. /\ n \in Nat \ {0} /\ a \in Nat /\ z = a + n /\ y \in Nat /\ a <= y
      /\ z \in Nat /\ b \in Nat
  BY BoundAssumption, TimesIn
<1>2. c = Chunk(s, i)  BY DEF Chunk
<1> HIDE DEF a, z, y, n
<1>3. \A j \in a + 1 .. b : j \in 1 .. y  BY <1>1
<1>4. \A j \in a + 1 .. b : s[j] \in Record  BY <1>3 DEF y
<1> HIDE DEF b
<1>5. /\ c \in Seq(Record)
      /\ Len(c) = IF a + 1 <= b THEN b - (a + 1) + 1 ELSE 0
      /\ \A k \in 1 .. b - (a + 1) + 1 : c[k] = s[a + 1 + k - 1]
  <2>1. a + 1 \in Int /\ b \in Int  BY <1>1
  <2> QED  BY <1>4, <2>1, SubSeqProperties
<1> HIDE DEF c
<1>6. Len(c) = b - a /\ b - a <= n
  <2>1. a <= b /\ b <= a + n  BY <1>1 DEF b
  <2> QED  BY <1>1, <1>5, <2>1
<1>7. ASSUME NEW k \in 1 .. Len(c) PROVE a + k \in 1 .. y /\ c[k] = s[a + k]
  <2>1. k \in 1 .. b - a /\ k \in 1 .. b - (a + 1) + 1 /\ a + 1 + k - 1 = a + k
    BY <1>1, <1>6
  <2>2. a + k \in a + 1 .. b  BY <1>1, <2>1
  <2> QED  BY <1>3, <1>5, <2>1, <2>2
<1>8. ASSUME NEW p \in 1 .. y, a < p, p <= z PROVE p - a \in 1 .. Len(c)
  <2>1. p <= b  BY <1>1, <1>8 DEF b
  <2> QED  BY <1>1, <1>6, <1>8, <2>1
<1> QED  BY <1>2, <1>5, <1>6, <1>7, <1>8 DEF a, z, y, n

LEMMA QuotientIsNat ==
    ASSUME NEW a \in Nat, NEW n \in Nat \ {0}
    PROVE  a \div n \in Nat
OBVIOUS

LEMMA SlicesBegin ==
    ASSUME NEW n \in Nat \ {0}, NEW x \in Nat, NEW i \in 1 .. (x + n - 1) \div n
    PROVE  (i - 1) * n <= x
<1> DEFINE m == (x + n - 1) \div n
<1>1. m \in Int /\ i \in Int /\ m * n <= x + n - 1 /\ i <= m  OBVIOUS
<1> HIDE DEF m
<1>2. (i - 1) * n <= (m - 1) * n  BY <1>1
<1>3. (m - 1) * n = m * n - n /\ m * n \in Int /\ (m - 1) * n \in Int  BY <1>1
<1>4. (i - 1) * n \in Int  BY <1>1
<1> QED  BY <1>1, <1>2, <1>3, <1>4

LEMMA ChunksIs ==
    ASSUME NEW group \in WriteOps
    PROVE  /\ Chunks(group) \in Seq(WriteOps)
           /\ \A i \in 1 .. Len(Chunks(group)) :
                 /\ Chunks(group)[i].val = group.val
                 /\ Chunks(group)[i].recs = Chunk(group.recs, i)
                 /\ (i - 1) * BatchSize <= Len(group.recs)
           /\ \A p \in 1 .. Len(group.recs) :
                 \E i \in 1 .. Len(Chunks(group)) :
                     (i - 1) * BatchSize < p /\ p <= i * BatchSize
<1> DEFINE recs == group.recs
           x == Len(recs)
           n == BatchSize
           m == (x + n - 1) \div n
           c == Chunks(group)
<1>1. /\ n \in Nat \ {0} /\ x \in Nat /\ recs \in Seq(Record) /\ group.val \in Target
      /\ group = [recs |-> recs, val |-> group.val]
  BY BoundAssumption DEF WriteOps
<1>2. c = [i \in 1 .. m |-> [group EXCEPT !.recs = Chunk(@, i)]]  BY DEF Chunks
<1> HIDE DEF x, recs, n, c
<1>3. m \in Nat
  <2>1. x + n - 1 \in Nat  BY <1>1
  <2> QED  BY <1>1, <2>1, QuotientIsNat
<1>4. ASSUME NEW i \in 1 .. m
      PROVE  /\ c[i] \in WriteOps /\ c[i].val = group.val /\ c[i].recs = Chunk(recs, i)
             /\ (i - 1) * n <= x
  <2>1. (i - 1) * n <= x /\ i \in Nat \ {0}  BY <1>1, SlicesBegin
  <2>2. Chunk(recs, i) \in Seq(Record)  BY <1>1, <2>1, ChunkIs DEF n, x
  <2>3. c[i] = [recs |-> Chunk(recs, i), val |-> group.val]  BY <1>1, <1>2
  <2> QED  BY <1>1, <2>1, <2>2, <2>3 DEF WriteOps
<1> HIDE DEF m
<1>5. c \in Seq(WriteOps) /\ Len(c) = m
  <2>1. \A i \in 1 .. m : c[i] \in WriteOps  BY <1>4
  <2>2. DOMAIN c = 1 .. m  BY <1>2
  <2>3. c = [i \in 1 .. m |-> c[i]]  BY <1>2, <2>2
  <2> QED  BY <1>3, <2>1, <2>2, <2>3
<1>6. ASSUME NEW p \in 1 .. x PROVE \E i \in 1 .. m : (i - 1) * n < p /\ p <= i * n
  <2> DEFINE i == (p + n - 1) \div n
  <2>1. i \in Nat \ {0} /\ (i - 1) * n < p /\ p <= i * n  BY <1>1, SliceOf
  <2>2. i <= m
    <3>1. p + n - 1 \in Nat /\ x + n - 1 \in Nat /\ p + n - 1 <= x + n - 1  BY <1>1
    <3> QED  BY <1>1, <3>1, SlicesGrow DEF m
  <2> HIDE DEF i
  <2>3. i \in 1 .. m  BY <1>3, <2>1, <2>2
  <2> QED  BY <2>1, <2>3
<1> QED  BY <1>4, <1>5, <1>6 DEF c, x, recs, n

(* The places of a record with a value, in parts of operations.            *)
HeldIn(parts, r, t) ==
    {p \in (1 .. Len(parts)) \X Nat \X Nat :
        /\ p[2] \in 1 .. Len(parts[p[1]])
        /\ <<p[2], p[3]>> \in Held(parts[p[1]], r, t)}

(* A part is laid out as it was.                                           *)
LEMMA HeldFlat ==
    ASSUME NEW parts \in Seq(Seq(WriteOps)), NEW s \in Seq(WriteOps),
           NEW start, Starts(start, parts, s), NEW r, NEW t
    PROVE  ExistsBijection(HeldIn(parts, r, t), Held(s, r, t))
<1> DEFINE P == HeldIn(parts, r, t)
           Q == Held(s, r, t)
           F == [p \in P |-> <<start[p[1]] + p[2], p[3]>>]
<1>1. /\ \A b \in 1 .. Len(parts) : \A o \in 1 .. Len(parts[b]) :
            start[b] + o \in 1 .. Len(s) /\ s[start[b] + o] = parts[b][o]
      /\ \A b, c \in 1 .. Len(parts) :
            \A o \in 1 .. Len(parts[b]), u \in 1 .. Len(parts[c]) :
                start[b] + o = start[c] + u => b = c /\ o = u
      /\ \A q \in 1 .. Len(s) :
            \E b \in 1 .. Len(parts) : \E o \in 1 .. Len(parts[b]) : q = start[b] + o
  <2>1. \A b \in 1 .. Len(parts) : \A o \in 1 .. Len(parts[b]) : s[start[b] + o] = parts[b][o]
    BY DEF Starts
  <2> QED  BY <2>1, StartsPart
<1>2. ASSUME NEW b \in 1 .. Len(parts), NEW o \in 1 .. Len(parts[b]), NEW k \in Nat
      PROVE  /\ <<b, o, k>> \in P <=> /\ k \in 1 .. Len(parts[b][o].recs)
                                      /\ parts[b][o].recs[k] = r /\ parts[b][o].val = t
             /\ <<start[b] + o, k>> \in Q <=> <<b, o, k>> \in P
             /\ <<b, o, k>> \in P => F[<<b, o, k>>] = <<start[b] + o, k>>
  <2>1. o \in Nat /\ start[b] + o \in 1 .. Len(s) /\ s[start[b] + o] = parts[b][o]
    BY <1>1
  <2>2. <<b, o, k>> \in P <=> <<o, k>> \in Held(parts[b], r, t)  BY <2>1 DEF HeldIn
  <2>3. <<o, k>> \in Held(parts[b], r, t) <=>
            /\ k \in 1 .. Len(parts[b][o].recs)
            /\ parts[b][o].recs[k] = r /\ parts[b][o].val = t
    BY DEF Held
  <2>4. <<start[b] + o, k>> \in Q <=>
            /\ k \in 1 .. Len(parts[b][o].recs)
            /\ parts[b][o].recs[k] = r /\ parts[b][o].val = t
    BY <2>1 DEF Held
  <2>5. <<b, o, k>> \in P => F[<<b, o, k>>] = <<start[b] + o, k>>  OBVIOUS
  <2> QED  BY <2>2, <2>3, <2>4, <2>5
<1>3. ASSUME NEW p \in P
      PROVE  \E b \in 1 .. Len(parts) : \E o \in 1 .. Len(parts[b]) : \E k \in Nat :
                 p = <<b, o, k>>
  BY DEF HeldIn
<1>4. ASSUME NEW q \in Q
      PROVE  \E b \in 1 .. Len(parts) : \E o \in 1 .. Len(parts[b]) : \E k \in Nat :
                 q = <<start[b] + o, k>>
  <2>1. q[1] \in 1 .. Len(s) /\ q[2] \in Nat /\ q = <<q[1], q[2]>>  BY DEF Held
  <2>2. PICK b \in 1 .. Len(parts) : \E o \in 1 .. Len(parts[b]) : q[1] = start[b] + o
    BY <1>1, <2>1
  <2>3. PICK o \in 1 .. Len(parts[b]) : q[1] = start[b] + o  BY <2>2
  <2>4. q = <<start[b] + o, q[2]>>  BY <2>1, <2>3
  <2> QED  BY <2>1, <2>4
<1> HIDE DEF F, P, Q
<1>5. F \in [P -> Q]
  <2>1. ASSUME NEW p \in P PROVE F[p] \in Q
    <3>1. PICK b \in 1 .. Len(parts) :
             \E o \in 1 .. Len(parts[b]) : \E k \in Nat : p = <<b, o, k>>
      BY <1>3
    <3>2. PICK o \in 1 .. Len(parts[b]) : \E k \in Nat : p = <<b, o, k>>  BY <3>1
    <3>3. PICK k \in Nat : p = <<b, o, k>>  BY <3>2
    <3> QED  BY <1>2, <3>3
  <2>2. F = [p \in P |-> F[p]]  BY DEF F
  <2> QED  BY <2>1, <2>2
<1>6. ASSUME NEW p \in P, NEW q \in P, F[p] = F[q] PROVE p = q
  <2>1. PICK b \in 1 .. Len(parts), o \in Nat, k \in Nat :
           o \in 1 .. Len(parts[b]) /\ p = <<b, o, k>>
    BY <1>3
  <2>2. PICK c \in 1 .. Len(parts), u \in Nat, l \in Nat :
           u \in 1 .. Len(parts[c]) /\ q = <<c, u, l>>
    BY <1>3
  <2>3. F[p] = <<start[b] + o, k>> /\ F[q] = <<start[c] + u, l>>  BY <1>2, <2>1, <2>2
  <2>4. start[b] + o = start[c] + u /\ k = l
    <3>1. <<start[b] + o, k>> = <<start[c] + u, l>>  BY <1>6, <2>3
    <3> QED  BY <3>1
  <2>5. b = c /\ o = u  BY <1>1, <2>1, <2>2, <2>4
  <2> QED  BY <2>1, <2>2, <2>4, <2>5
<1>7. ASSUME NEW q \in Q PROVE \E p \in P : F[p] = q
  <2>1. PICK b \in 1 .. Len(parts) :
           \E o \in 1 .. Len(parts[b]) : \E k \in Nat : q = <<start[b] + o, k>>
    BY <1>4
  <2>2. PICK o \in 1 .. Len(parts[b]) : \E k \in Nat : q = <<start[b] + o, k>>  BY <2>1
  <2>3. PICK k \in Nat : q = <<start[b] + o, k>>  BY <2>2
  <2> QED  BY <1>2, <2>3
<1>8. F \in Bijection(P, Q)
  <2>1. \A p, q \in P : F[p] = F[q] => p = q  BY <1>6
  <2> QED  BY <1>5, <1>7, <2>1, Fun_IsBij
<1> QED  BY <1>8, Fun_ExistsBij DEF P, Q

LEMMA OneWay ==
    ASSUME NEW n \in Nat \ {0}, NEW c \in Nat \ {0}, NEW d \in Nat \ {0},
           NEW k \in 1 .. n, NEW l \in 1 .. n, (c - 1) * n + k = (d - 1) * n + l
    PROVE  c = d /\ k = l
<1>1. ASSUME NEW x \in Nat \ {0}, NEW y \in Nat \ {0}, NEW i \in 1 .. n, NEW j \in 1 .. n,
             (x - 1) * n + i = (y - 1) * n + j, x < y
      PROVE  FALSE
  <2>1. x * n <= (y - 1) * n  BY <1>1, SlicesInOrder
  <2>2. x * n = (x - 1) * n + n /\ (x - 1) * n \in Nat /\ (y - 1) * n \in Nat
    BY TimesIn
  <2> QED  BY <1>1, <2>1, <2>2
<1>2. ~(c < d) /\ ~(d < c)  BY <1>1
<1>3. c = d  BY <1>2
<1>4. (c - 1) * n \in Nat  BY TimesIn
<1> QED  BY <1>3, <1>4

(* Cutting the groups moves no record from its value.                      *)
LEMMA HeldChunks ==
    ASSUME NEW groups \in Seq(WriteOps), NEW r, NEW t, NEW parts,
           parts = [g \in DOMAIN groups |-> Chunks(groups[g])]
    PROVE  /\ parts \in Seq(Seq(WriteOps))
           /\ ExistsBijection(HeldIn(parts, r, t), Held(groups, r, t))
<1> DEFINE n == BatchSize
           P == HeldIn(parts, r, t)
           Q == Held(groups, r, t)
           F == [p \in P |-> <<p[1], (p[2] - 1) * n + p[3]>>]
           len(g) == Len(groups[g].recs)
           most(g) == Len(parts[g])
           size(g, c) == Len(parts[g][c].recs)
           At(p, g, c, k) ==
               /\ g \in 1 .. Len(groups) /\ c \in 1 .. most(g) /\ k \in 1 .. size(g, c)
               /\ c \in Nat /\ k \in Nat /\ p = <<g, c, k>>
               /\ parts[g][c].recs[k] = r /\ parts[g][c].val = t
               /\ F[p] = <<g, (c - 1) * n + k>>
<1>1. /\ DOMAIN groups = 1 .. Len(groups) /\ Len(groups) \in Nat
      /\ \A g \in 1 .. Len(groups) : groups[g] \in WriteOps /\ parts[g] = Chunks(groups[g])
  OBVIOUS
<1>2. /\ parts \in Seq(Seq(WriteOps)) /\ Len(parts) = Len(groups)
      /\ \A g \in 1 .. Len(groups) : parts[g] \in Seq(WriteOps) /\ most(g) \in Nat
  <2>1. \A g \in 1 .. Len(groups) : Chunks(groups[g]) \in Seq(WriteOps)  BY <1>1, ChunksIs
  <2>2. parts = [g \in 1 .. Len(groups) |-> Chunks(groups[g])]  BY <1>1
  <2>3. parts \in Seq(Seq(WriteOps))  BY <1>1, <2>1, <2>2
  <2>4. Len(parts) = Len(groups)  BY <1>1, <2>2
  <2> QED  BY <1>1, <2>1, <2>3, <2>4
<1>3. n \in Nat \ {0}  BY BoundAssumption
<1> HIDE DEF n
<1>4. ASSUME NEW g \in 1 .. Len(groups), NEW c \in 1 .. most(g)
      PROVE  /\ c \in Nat \ {0} /\ (c - 1) * n \in Nat
             /\ parts[g][c].val = groups[g].val
             /\ size(g, c) \in Nat /\ size(g, c) <= n
             /\ \A k \in 1 .. size(g, c) :
                   /\ (c - 1) * n + k \in 1 .. len(g)
                   /\ parts[g][c].recs[k] = groups[g].recs[(c - 1) * n + k]
             /\ \A p \in 1 .. len(g) :
                   (c - 1) * n < p /\ p <= c * n =>
                       p - (c - 1) * n \in 1 .. size(g, c)
  <2>1. c \in Nat \ {0}  OBVIOUS
  <2>2. (c - 1) * n \in Nat  BY <1>3, <2>1, TimesIn
  <2>3. groups[g] \in WriteOps /\ groups[g].recs \in Seq(Record)  BY <1>1 DEF WriteOps
  <2>4. /\ parts[g][c].val = groups[g].val /\ parts[g][c].recs = Chunk(groups[g].recs, c)
        /\ (c - 1) * BatchSize <= len(g)
    BY <1>1, <2>3, ChunksIs
  <2>5. /\ Chunk(groups[g].recs, c) \in Seq(Record)
        /\ Len(Chunk(groups[g].recs, c)) <= BatchSize
        /\ \A k \in 1 .. Len(Chunk(groups[g].recs, c)) :
              /\ (c - 1) * BatchSize + k \in 1 .. len(g)
              /\ Chunk(groups[g].recs, c)[k] = groups[g].recs[(c - 1) * BatchSize + k]
        /\ \A p \in 1 .. len(g) :
              (c - 1) * BatchSize < p /\ p <= c * BatchSize =>
                  p - (c - 1) * BatchSize \in 1 .. Len(Chunk(groups[g].recs, c))
    BY <2>1, <2>3, <2>4, ChunkIs
  <2>6. size(g, c) \in Nat  BY <2>4, <2>5
  <2> QED  BY <2>1, <2>2, <2>4, <2>5, <2>6 DEF n
<1>5. ASSUME NEW g \in 1 .. Len(groups), NEW p \in 1 .. len(g)
      PROVE  \E c \in 1 .. most(g) : (c - 1) * n < p /\ p <= c * n
  BY <1>1, ChunksIs DEF n
<1>6. ASSUME NEW p \in P PROVE \E g, c, k : At(p, g, c, k)
  <2>1. /\ p = <<p[1], p[2], p[3]>> /\ p[1] \in 1 .. Len(groups) /\ p[2] \in Nat
        /\ p[3] \in Nat /\ p[2] \in 1 .. most(p[1])
        /\ <<p[2], p[3]>> \in Held(parts[p[1]], r, t)
    BY <1>2 DEF HeldIn
  <2>2. /\ p[3] \in 1 .. Len(parts[p[1]][p[2]].recs)
        /\ parts[p[1]][p[2]].recs[p[3]] = r /\ parts[p[1]][p[2]].val = t
    BY <2>1 DEF Held
  <2>3. F[p] = <<p[1], (p[2] - 1) * n + p[3]>>  OBVIOUS
  <2>4. At(p, p[1], p[2], p[3])  BY <2>1, <2>2, <2>3
  <2> HIDE DEF At
  <2> QED  BY <2>4
<1>7. ASSUME NEW q \in Q
      PROVE  \E g \in 1 .. Len(groups) : \E j \in 1 .. len(g) :
                 q = <<g, j>> /\ groups[g].recs[j] = r /\ groups[g].val = t
  BY DEF Held
<1>8. ASSUME NEW g \in 1 .. Len(groups), NEW c \in 1 .. most(g),
             NEW k \in 1 .. size(g, c)
      PROVE  <<g, c, k>> \in P <=> parts[g][c].recs[k] = r /\ parts[g][c].val = t
  <2>1. c \in Nat /\ k \in Nat  BY <1>4
  <2> QED  BY <1>2, <2>1 DEF HeldIn, Held
<1>9. ASSUME NEW g \in 1 .. Len(groups), NEW j \in 1 .. len(g)
      PROVE  <<g, j>> \in Q <=> groups[g].recs[j] = r /\ groups[g].val = t
  BY DEF Held
<1> HIDE DEF P, Q, F, len, most, size, At
<1>10. F \in [P -> Q]
  <2>1. ASSUME NEW p \in P PROVE F[p] \in Q
    <3>1. PICK g, c, k : At(p, g, c, k)  BY <1>6
    <3>2. /\ g \in 1 .. Len(groups) /\ c \in 1 .. most(g) /\ k \in 1 .. size(g, c)
          /\ parts[g][c].recs[k] = r /\ parts[g][c].val = t
          /\ F[p] = <<g, (c - 1) * n + k>>
      BY <3>1 DEF At
    <3>3. /\ (c - 1) * n + k \in 1 .. len(g)
          /\ groups[g].recs[(c - 1) * n + k] = r /\ groups[g].val = t
      BY <1>4, <3>2
    <3> QED  BY <1>9, <3>2, <3>3
  <2>2. F = [p \in P |-> F[p]]  BY DEF F
  <2> QED  BY <2>1, <2>2
<1>11. ASSUME NEW p \in P, NEW q \in P, F[p] = F[q] PROVE p = q
  <2>1. PICK g, c, k : At(p, g, c, k)  BY <1>6
  <2>2. PICK h, d, l : At(q, h, d, l)  BY <1>6
  <2>3. g = h /\ (c - 1) * n + k = (d - 1) * n + l /\ p = <<g, c, k>> /\ q = <<h, d, l>>
    <3>1. <<g, (c - 1) * n + k>> = <<h, (d - 1) * n + l>>  BY <1>11, <2>1, <2>2 DEF At
    <3>2. p = <<g, c, k>> /\ q = <<h, d, l>>  BY <2>1, <2>2 DEF At
    <3> QED  BY <3>1, <3>2
  <2>4. c \in Nat \ {0} /\ d \in Nat \ {0} /\ k \in 1 .. n /\ l \in 1 .. n
    <3>1. /\ g \in 1 .. Len(groups) /\ c \in 1 .. most(g) /\ k \in 1 .. size(g, c)
          /\ h \in 1 .. Len(groups) /\ d \in 1 .. most(h) /\ l \in 1 .. size(h, d)
      BY <2>1, <2>2 DEF At
    <3>2. /\ c \in Nat \ {0} /\ size(g, c) \in Nat /\ size(g, c) <= n
          /\ d \in Nat \ {0} /\ size(h, d) \in Nat /\ size(h, d) <= n
      BY <1>4, <3>1
    <3> QED  BY <1>3, <3>1, <3>2
  <2>5. c = d /\ k = l
    <3>1. (c - 1) * n + k = (d - 1) * n + l  BY <2>3
    <3> QED  BY <1>3, <2>4, <3>1, OneWay
  <2> QED  BY <2>3, <2>5
<1>12. ASSUME NEW q \in Q PROVE \E p \in P : F[p] = q
  <2>1. PICK g \in 1 .. Len(groups) :
           \E j \in 1 .. len(g) : q = <<g, j>> /\ groups[g].recs[j] = r /\ groups[g].val = t
    BY <1>7
  <2>2. PICK j \in 1 .. len(g) : q = <<g, j>> /\ groups[g].recs[j] = r /\ groups[g].val = t
    BY <2>1
  <2>3. PICK c \in 1 .. most(g) : (c - 1) * n < j /\ j <= c * n  BY <1>5
  <2> DEFINE k == j - (c - 1) * n
  <2>4. k \in 1 .. size(g, c) /\ (c - 1) * n \in Nat  BY <1>4, <2>3
  <2>a. j \in Int
    <3>1. len(g) \in Nat  BY <1>1 DEF len, WriteOps
    <3> QED  BY <3>1
  <2>5. (c - 1) * n + k = j  BY <2>4, <2>a
  <2> HIDE DEF k
  <2>6. parts[g][c].recs[k] = r /\ parts[g][c].val = t  BY <1>4, <2>2, <2>4, <2>5
  <2>7. <<g, c, k>> \in P  BY <1>8, <2>4, <2>6
  <2>8. F[<<g, c, k>>] = <<g, (c - 1) * n + k>>  BY <2>7 DEF F
  <2> QED  BY <2>2, <2>5, <2>7, <2>8
<1>13. F \in Bijection(P, Q)
  <2>1. \A p, q \in P : F[p] = F[q] => p = q  BY <1>11
  <2> QED  BY <1>10, <1>12, <2>1, Fun_IsBij
<1> QED  BY <1>2, <1>13, Fun_ExistsBij DEF P, Q

LEMMA OperationsHold ==
    ASSUME NEW us \in Seq(Updates)
    PROVE  /\ Operations(us) \in Seq(WriteOps)
           /\ \A r, t : /\ IsFiniteSet(Held(Operations(us), r, t))
                        /\ Cardinality(Held(Operations(us), r, t))
                             = Cardinality(Giving(us, Len(us), r, t))
<1> DEFINE groups == Grouped(us)
           parts == [g \in DOMAIN groups |-> Chunks(groups[g])]
<1>1. /\ groups \in Seq(WriteOps)
      /\ \A r, t : /\ IsFiniteSet(Held(groups, r, t))
                   /\ Cardinality(Held(groups, r, t)) = Cardinality(Giving(us, Len(us), r, t))
  BY GroupedHolds
<1>2. Operations(us) = FlattenSeq(parts)  BY DEF Operations
<1>3. parts = [g \in DOMAIN groups |-> Chunks(groups[g])]  OBVIOUS
<1> HIDE DEF groups, parts
<1>4. /\ parts \in Seq(Seq(WriteOps))
      /\ \A r, t : ExistsBijection(HeldIn(parts, r, t), Held(groups, r, t))
  BY <1>1, <1>3, HeldChunks
<1>5. FlattenSeq(parts) \in Seq(WriteOps)  BY <1>4, FlattenedStarts
<1>6. PICK start : Starts(start, parts, FlattenSeq(parts))  BY <1>4, FlattenedStarts
<1>7. ASSUME NEW r, NEW t
      PROVE  /\ IsFiniteSet(Held(Operations(us), r, t))
             /\ Cardinality(Held(Operations(us), r, t)) = Cardinality(Held(groups, r, t))
  <2>1. ExistsBijection(HeldIn(parts, r, t), Held(Operations(us), r, t))
    BY <1>2, <1>4, <1>5, <1>6, HeldFlat
  <2>2. ExistsBijection(Held(groups, r, t), HeldIn(parts, r, t))
    BY <1>4, Fun_ExistsBijSymmetric
  <2>3. ExistsBijection(Held(groups, r, t), Held(Operations(us), r, t))
    BY <2>1, <2>2, Fun_ExistsBijTransitive
  <2>4. IsFiniteSet(Held(groups, r, t))  BY <1>1
  <2> QED  BY <2>3, <2>4, FS_Bijection
<1> QED  BY <1>1, <1>2, <1>5, <1>7

-----------------------------------------------------------------------------
(***************************************************************************)
(* Packing the operations.                                                 *)
(***************************************************************************)
LEMMA CountSteps ==
    ASSUME NEW us \in Seq(WriteOps)
    PROVE  \E f \in [0 .. Len(us) -> Nat] :
              /\ f[0] = 0 /\ f[Len(us)] = Count(us)
              /\ \A k \in 1 .. Len(us) : f[k] = f[k - 1] + Len(us[k].recs)
<1> DEFINE A == Nat
           B == WriteOps
           n == Len(us)
           Op == [p \in A \X B |-> p[1] + Len(p[2].recs)]
           Eq(h) == h = [s \in SUBSET DOMAIN us |->
                           IF s = {} THEN 0
                                     ELSE h[s \ {Max(s)}] + Len(us[Max(s)].recs)]
           h == CHOOSE h : Eq(h)
           f == [k \in 0 .. n |-> h[1 .. k]]
<1>1. \A a \in A, b \in B : a + Len(b.recs) \in A  BY DEF WriteOps
<1>2. Op \in [A \X B -> A]  BY <1>1
<1>3. n \in Nat /\ DOMAIN us = 1 .. n /\ us \in [1 .. n -> B] /\ 0 \in A  OBVIOUS
<1> HIDE DEF n
<1>4. PICK g : Folds(g, A, Op, 0, n, us)
  <2> HIDE DEF A, B, Op
  <2> QED  BY <1>2, <1>3, FoldExists
<1>5. Eq(g)
  <2>1. ASSUME NEW s \in SUBSET (1 .. n), s # {}
        PROVE  g[s] = g[s \ {Max(s)}] + Len(us[Max(s)].recs)
    <3>1. Max(s) \in 1 .. n  BY <1>3, <2>1, MaxOfSome
    <3>2. g[s \ {Max(s)}] \in A /\ us[Max(s)] \in B  BY <1>3, <1>4, <3>1 DEF Folds
    <3>3. g[s] = Op[<<g[s \ {Max(s)}], us[Max(s)]>>]  BY <1>4, <2>1 DEF Folds
    <3> QED  BY <3>2, <3>3
  <2>2. g \in [SUBSET (1 .. n) -> A] /\ g[{}] = 0  BY <1>4 DEF Folds
  <2> QED  BY <1>3, <2>1, <2>2
<1>6. Eq(h)  BY <1>5
<1>7. Count(us) = h[1 .. n]
  BY <1>3 DEF Count, FoldLeft, MapThenFoldSet
<1> HIDE DEF h
<1>8. f[0] = 0  BY <1>3, <1>6
<1>9. ASSUME NEW k \in 1 .. n PROVE f[k] = f[k - 1] + Len(us[k].recs)
  <2>1. Max(1 .. k) = k /\ (1 .. k) \ {k} = 1 .. (k - 1)  BY <1>3, MaxOfInterval
  <2>2. 1 .. k \in SUBSET DOMAIN us /\ 1 .. k # {}  BY <1>3
  <2>3. h[1 .. k] = h[1 .. (k - 1)] + Len(us[k].recs)  BY <1>6, <2>1, <2>2
  <2>4. k - 1 \in 0 .. n /\ k \in 0 .. n  BY <1>3
  <2> QED  BY <2>3, <2>4
<1>10. f \in [0 .. n -> A]
  <2> DEFINE S == {k \in 0 .. n : f[k] \in A}
  <2>1. 0 \in S
    <3>1. 0 \in 0 .. n /\ 0 \in A  BY <1>3
    <3> HIDE DEF f, A
    <3> QED  BY <1>8, <3>1
  <2>2. ASSUME NEW k \in 0 .. n, k > 0, k - 1 \in S PROVE k \in S
    <3>1. k \in 1 .. n /\ us[k] \in B  BY <1>3, <2>2
    <3>2. f[k] = f[k - 1] + Len(us[k].recs) /\ f[k - 1] \in A  BY <1>9, <2>2, <3>1
    <3>3. f[k] \in A  BY <1>1, <3>1, <3>2
    <3> QED  BY <3>3
  <2>3. 0 .. n \subseteq S
    <3> HIDE DEF S
    <3> QED  BY <1>3, <2>1, <2>2, UpTo
  <2> QED  BY <2>3
<1>11. f[n] = Count(us)  BY <1>3, <1>7
<1> HIDE DEF f
<1> QED  BY <1>8, <1>9, <1>10, <1>11 DEF n

LEMMA PayloadSteps ==
    ASSUME NEW us \in Seq(WriteOps)
    PROVE  \E f \in [0 .. Len(us) -> Nat] :
              /\ f[0] = 0 /\ f[Len(us)] = Payload(us)
              /\ \A k \in 1 .. Len(us) : f[k] = f[k - 1] + Bytes[us[k].val]
<1> DEFINE A == Nat
           B == WriteOps
           n == Len(us)
           Op == [p \in A \X B |-> p[1] + Bytes[p[2].val]]
           Eq(h) == h = [s \in SUBSET DOMAIN us |->
                           IF s = {} THEN 0
                                     ELSE h[s \ {Max(s)}] + Bytes[us[Max(s)].val]]
           h == CHOOSE h : Eq(h)
           f == [k \in 0 .. n |-> h[1 .. k]]
<1>1. \A a \in A, b \in B : a + Bytes[b.val] \in A  BY BytesAssumption DEF WriteOps
<1>2. Op \in [A \X B -> A]  BY <1>1
<1>3. n \in Nat /\ DOMAIN us = 1 .. n /\ us \in [1 .. n -> B] /\ 0 \in A  OBVIOUS
<1> HIDE DEF n
<1>4. PICK g : Folds(g, A, Op, 0, n, us)
  <2> HIDE DEF A, B, Op
  <2> QED  BY <1>2, <1>3, FoldExists
<1>5. Eq(g)
  <2>1. ASSUME NEW s \in SUBSET (1 .. n), s # {}
        PROVE  g[s] = g[s \ {Max(s)}] + Bytes[us[Max(s)].val]
    <3>1. Max(s) \in 1 .. n  BY <1>3, <2>1, MaxOfSome
    <3>2. g[s \ {Max(s)}] \in A /\ us[Max(s)] \in B  BY <1>3, <1>4, <3>1 DEF Folds
    <3>3. g[s] = Op[<<g[s \ {Max(s)}], us[Max(s)]>>]  BY <1>4, <2>1 DEF Folds
    <3> QED  BY <3>2, <3>3
  <2>2. g \in [SUBSET (1 .. n) -> A] /\ g[{}] = 0  BY <1>4 DEF Folds
  <2> QED  BY <1>3, <2>1, <2>2
<1>6. Eq(h)  BY <1>5
<1>7. Payload(us) = h[1 .. n]
  BY <1>3 DEF Payload, FoldLeft, MapThenFoldSet
<1> HIDE DEF h
<1>8. f[0] = 0  BY <1>3, <1>6
<1>9. ASSUME NEW k \in 1 .. n PROVE f[k] = f[k - 1] + Bytes[us[k].val]
  <2>1. Max(1 .. k) = k /\ (1 .. k) \ {k} = 1 .. (k - 1)  BY <1>3, MaxOfInterval
  <2>2. 1 .. k \in SUBSET DOMAIN us /\ 1 .. k # {}  BY <1>3
  <2>3. h[1 .. k] = h[1 .. (k - 1)] + Bytes[us[k].val]  BY <1>6, <2>1, <2>2
  <2>4. k - 1 \in 0 .. n /\ k \in 0 .. n  BY <1>3
  <2> QED  BY <2>3, <2>4
<1>10. f \in [0 .. n -> A]
  <2> DEFINE S == {k \in 0 .. n : f[k] \in A}
  <2>1. 0 \in S
    <3>1. 0 \in 0 .. n /\ 0 \in A  BY <1>3
    <3> HIDE DEF f, A
    <3> QED  BY <1>8, <3>1
  <2>2. ASSUME NEW k \in 0 .. n, k > 0, k - 1 \in S PROVE k \in S
    <3>1. k \in 1 .. n /\ us[k] \in B  BY <1>3, <2>2
    <3>2. f[k] = f[k - 1] + Bytes[us[k].val] /\ f[k - 1] \in A  BY <1>9, <2>2, <3>1
    <3>3. f[k] \in A  BY <1>1, <3>1, <3>2
    <3> QED  BY <3>3
  <2>3. 0 .. n \subseteq S
    <3> HIDE DEF S
    <3> QED  BY <1>3, <2>1, <2>2, UpTo
  <2> QED  BY <2>3
<1>11. f[n] = Payload(us)  BY <1>3, <1>7
<1> HIDE DEF f
<1> QED  BY <1>8, <1>9, <1>10, <1>11 DEF n

SumsUp(f, w, n) == f[0] = 0 /\ \A k \in 1 .. n : f[k] = f[k - 1] + w[k]

LEMMA SameSums ==
    ASSUME NEW n \in Nat, NEW f, NEW g, NEW w, SumsUp(f, w, n), SumsUp(g, w, n)
    PROVE  f[n] = g[n]
<1> DEFINE S == {k \in 0 .. n : f[k] = g[k]}
<1>1. 0 \in S  BY DEF SumsUp
<1>2. \A k \in 0 .. n : k > 0 /\ k - 1 \in S => k \in S
  <2> SUFFICES ASSUME NEW k \in 0 .. n, k > 0, k - 1 \in S PROVE k \in S  OBVIOUS
  <2>1. k \in 1 .. n /\ f[k - 1] = g[k - 1]  OBVIOUS
  <2> QED  BY <2>1 DEF SumsUp
<1>3. 0 .. n \subseteq S
  <2> HIDE DEF S
  <2> QED  BY <1>1, <1>2, UpTo
<1>4. n \in S  BY <1>3
<1> QED  BY <1>4

LEMMA CountAppend ==
    ASSUME NEW ops \in Seq(WriteOps), NEW op \in WriteOps
    PROVE  /\ Count(ops) \in Nat /\ Len(op.recs) \in Nat
           /\ Count(Append(ops, op)) = Count(ops) + Len(op.recs)
           /\ Count(<<op>>) = Len(op.recs)
<1> DEFINE more == Append(ops, op)
           n == Len(ops)
           w == [k \in 1 .. n |-> Len(ops[k].recs)]
           one == <<op>>
<1>1. /\ n \in Nat /\ more \in Seq(WriteOps) /\ Len(more) = n + 1 /\ more[n + 1] = op
      /\ \A k \in 1 .. n : more[k] = ops[k]
      /\ one \in Seq(WriteOps) /\ Len(one) = 1 /\ one[1] = op
  OBVIOUS
<1> HIDE DEF more, n, one
<1>2. PICK f \in [0 .. n -> Nat] :
         /\ f[0] = 0 /\ f[n] = Count(ops)
         /\ \A k \in 1 .. n : f[k] = f[k - 1] + Len(ops[k].recs)
  BY CountSteps DEF n
<1>a. PICK g \in [0 .. Len(more) -> Nat] :
         /\ g[0] = 0 /\ g[Len(more)] = Count(more)
         /\ \A k \in 1 .. Len(more) : g[k] = g[k - 1] + Len(more[k].recs)
  BY <1>1, CountSteps
<1>3. /\ g[0] = 0 /\ g[n + 1] = Count(more)
      /\ \A k \in 1 .. n + 1 : g[k] = g[k - 1] + Len(more[k].recs)
  BY <1>1, <1>a
<1>b. PICK h \in [0 .. Len(one) -> Nat] :
         /\ h[0] = 0 /\ h[Len(one)] = Count(one)
         /\ \A k \in 1 .. Len(one) : h[k] = h[k - 1] + Len(one[k].recs)
  BY <1>1, CountSteps
<1>4. /\ h[0] = 0 /\ h[1] = Count(one)
      /\ \A k \in 1 .. 1 : h[k] = h[k - 1] + Len(one[k].recs)
  BY <1>1, <1>b
<1>5. f[n] = g[n]
  <2>1. \A k \in 1 .. n : k \in 1 .. n + 1 /\ w[k] = Len(ops[k].recs)  BY <1>1
  <2> HIDE DEF w
  <2>2. SumsUp(f, w, n)  BY <1>2, <2>1 DEF SumsUp
  <2>3. \A k \in 1 .. n : g[k] = g[k - 1] + w[k]
    <3> SUFFICES ASSUME NEW k \in 1 .. n PROVE g[k] = g[k - 1] + w[k]  OBVIOUS
    <3>1. g[k] = g[k - 1] + Len(more[k].recs)  BY <1>3, <2>1
    <3>2. more[k] = ops[k] /\ w[k] = Len(ops[k].recs)  BY <1>1, <2>1
    <3> QED  BY <3>1, <3>2
  <2>4. SumsUp(g, w, n)  BY <1>3, <2>3 DEF SumsUp
  <2> QED  BY <1>1, <2>2, <2>4, SameSums
<1>6. g[n + 1] = g[n] + Len(op.recs)
  <2>1. n + 1 \in 1 .. n + 1 /\ (n + 1) - 1 = n  BY <1>1
  <2> QED  BY <1>1, <1>3, <2>1
<1>7. Len(op.recs) \in Nat  BY DEF WriteOps
<1>8. Count(one) = Len(op.recs)
  <2>1. 1 \in 1 .. 1 /\ 1 - 1 = 0  OBVIOUS
  <2>2. h[1] = h[0] + Len(op.recs)  BY <1>1, <1>4, <2>1
  <2> QED  BY <1>4, <1>7, <2>2
<1>9. Count(ops) \in Nat
  <2>1. n \in 0 .. n  BY <1>1
  <2> QED  BY <1>2, <2>1
<1>10. Count(more) = Count(ops) + Len(op.recs)  BY <1>2, <1>3, <1>5, <1>6
<1> QED  BY <1>7, <1>8, <1>9, <1>10 DEF more, one

LEMMA PayloadAppend ==
    ASSUME NEW ops \in Seq(WriteOps), NEW op \in WriteOps
    PROVE  /\ Payload(ops) \in Nat /\ Bytes[op.val] \in Nat
           /\ Payload(Append(ops, op)) = Payload(ops) + Bytes[op.val]
           /\ Payload(<<op>>) = Bytes[op.val]
<1> DEFINE more == Append(ops, op)
           n == Len(ops)
           w == [k \in 1 .. n |-> Bytes[ops[k].val]]
           one == <<op>>
<1>1. /\ n \in Nat /\ more \in Seq(WriteOps) /\ Len(more) = n + 1 /\ more[n + 1] = op
      /\ \A k \in 1 .. n : more[k] = ops[k]
      /\ one \in Seq(WriteOps) /\ Len(one) = 1 /\ one[1] = op
  OBVIOUS
<1> HIDE DEF more, n, one
<1>2. PICK f \in [0 .. n -> Nat] :
         /\ f[0] = 0 /\ f[n] = Payload(ops)
         /\ \A k \in 1 .. n : f[k] = f[k - 1] + Bytes[ops[k].val]
  BY PayloadSteps DEF n
<1>a. PICK g \in [0 .. Len(more) -> Nat] :
         /\ g[0] = 0 /\ g[Len(more)] = Payload(more)
         /\ \A k \in 1 .. Len(more) : g[k] = g[k - 1] + Bytes[more[k].val]
  BY <1>1, PayloadSteps
<1>3. /\ g[0] = 0 /\ g[n + 1] = Payload(more)
      /\ \A k \in 1 .. n + 1 : g[k] = g[k - 1] + Bytes[more[k].val]
  BY <1>1, <1>a
<1>b. PICK h \in [0 .. Len(one) -> Nat] :
         /\ h[0] = 0 /\ h[Len(one)] = Payload(one)
         /\ \A k \in 1 .. Len(one) : h[k] = h[k - 1] + Bytes[one[k].val]
  BY <1>1, PayloadSteps
<1>4. /\ h[0] = 0 /\ h[1] = Payload(one)
      /\ \A k \in 1 .. 1 : h[k] = h[k - 1] + Bytes[one[k].val]
  BY <1>1, <1>b
<1>5. f[n] = g[n]
  <2>1. \A k \in 1 .. n : k \in 1 .. n + 1 /\ w[k] = Bytes[ops[k].val]  BY <1>1
  <2> HIDE DEF w
  <2>2. SumsUp(f, w, n)  BY <1>2, <2>1 DEF SumsUp
  <2>3. \A k \in 1 .. n : g[k] = g[k - 1] + w[k]
    <3> SUFFICES ASSUME NEW k \in 1 .. n PROVE g[k] = g[k - 1] + w[k]  OBVIOUS
    <3>1. g[k] = g[k - 1] + Bytes[more[k].val]  BY <1>3, <2>1
    <3>2. more[k] = ops[k] /\ w[k] = Bytes[ops[k].val]  BY <1>1, <2>1
    <3> QED  BY <3>1, <3>2
  <2>4. SumsUp(g, w, n)  BY <1>3, <2>3 DEF SumsUp
  <2> QED  BY <1>1, <2>2, <2>4, SameSums
<1>6. g[n + 1] = g[n] + Bytes[op.val]
  <2>1. n + 1 \in 1 .. n + 1 /\ (n + 1) - 1 = n  BY <1>1
  <2> QED  BY <1>1, <1>3, <2>1
<1>7. Bytes[op.val] \in Nat  BY BytesAssumption DEF WriteOps
<1>8. Payload(one) = Bytes[op.val]
  <2>1. 1 \in 1 .. 1 /\ 1 - 1 = 0  OBVIOUS
  <2>2. h[1] = h[0] + Bytes[op.val]  BY <1>1, <1>4, <2>1
  <2> QED  BY <1>4, <1>7, <2>2
<1>9. Payload(ops) \in Nat
  <2>1. n \in 0 .. n  BY <1>1
  <2> QED  BY <1>2, <2>1
<1>10. Payload(more) = Payload(ops) + Bytes[op.val]  BY <1>2, <1>3, <1>5, <1>6
<1> QED  BY <1>7, <1>8, <1>9, <1>10 DEF more, one

Packs == [full : Seq(Seq(WriteOps)), current : Seq(WriteOps)]
NonePacked == [full |-> << >>, current |-> << >>]
Packed(ops) == FoldLeft(Pack, [full |-> << >>, current |-> << >>], ops)

(* A super-batch of several operations keeps the limits.                   *)
Fits(ops) == Len(ops) > 1 => /\ Count(ops) <= BatchSize
                             /\ MaxBytes > 0 => Payload(ops) <= MaxBytes

LEMMA PackCases ==
    ASSUME NEW acc \in Packs, NEW op \in WriteOps
    PROVE  /\ Pack(acc, op) \in Packs
           /\ \/ /\ Pack(acc, op).full = Append(acc.full, acc.current)
                 /\ Pack(acc, op).current = <<op>>
              \/ /\ Pack(acc, op).full = acc.full
                 /\ Pack(acc, op).current = Append(acc.current, op)
                 /\ acc.current = << >> \/ ~Overfull(acc.current, op)
<1>1. /\ acc.full \in Seq(Seq(WriteOps)) /\ acc.current \in Seq(WriteOps)
      /\ acc = [full |-> acc.full, current |-> acc.current]
  BY DEF Packs
<1>2. CASE acc.current # << >> /\ Overfull(acc.current, op)
  <2>1. Pack(acc, op) = [full |-> Append(acc.full, acc.current), current |-> <<op>>]
    BY <1>2 DEF Pack
  <2>2. Append(acc.full, acc.current) \in Seq(Seq(WriteOps)) /\ <<op>> \in Seq(WriteOps)
    BY <1>1
  <2> QED  BY <2>1, <2>2 DEF Packs
<1>3. CASE ~(acc.current # << >> /\ Overfull(acc.current, op))
  <2>1. Pack(acc, op) = [acc EXCEPT !.current = Append(@, op)]  BY <1>3 DEF Pack
  <2>2. Append(acc.current, op) \in Seq(WriteOps)  BY <1>1
  <2>3. Pack(acc, op) = [full |-> acc.full, current |-> Append(acc.current, op)]
    BY <1>1, <2>1
  <2> QED  BY <1>1, <1>3, <2>2, <2>3 DEF Packs
<1> QED  BY <1>2, <1>3

LEMMA PackFits ==
    ASSUME NEW acc \in Packs, NEW op \in WriteOps,
           \A b \in 1 .. Len(acc.full) : Fits(acc.full[b]), Fits(acc.current)
    PROVE  /\ \A b \in 1 .. Len(Pack(acc, op).full) : Fits(Pack(acc, op).full[b])
           /\ Fits(Pack(acc, op).current)
<1> DEFINE full == acc.full
           current == acc.current
<1>1. full \in Seq(Seq(WriteOps)) /\ current \in Seq(WriteOps)  BY DEF Packs
<1>2. CASE Pack(acc, op).full = Append(full, current) /\ Pack(acc, op).current = <<op>>
  <2>1. ASSUME NEW b \in 1 .. Len(Append(full, current)) PROVE Fits(Append(full, current)[b])
    <3>1. b \in 1 .. Len(full) \/ b = Len(full) + 1  BY <1>1
    <3>2. b \in 1 .. Len(full) => Append(full, current)[b] = full[b]  BY <1>1
    <3>3. b = Len(full) + 1 => Append(full, current)[b] = current  BY <1>1
    <3> QED  BY <3>1, <3>2, <3>3
  <2>2. Fits(<<op>>)
    <3>1. ~(Len(<<op>>) > 1)  OBVIOUS
    <3> QED  BY <3>1 DEF Fits
  <2> QED  BY <1>2, <2>1, <2>2
<1>3. CASE /\ Pack(acc, op).full = full /\ Pack(acc, op).current = Append(current, op)
           /\ current = << >> \/ ~Overfull(current, op)
  <2> DEFINE more == Append(current, op)
             x == Count(current)
             y == Len(op.recs)
             z == Payload(current)
             w == Bytes[op.val]
  <2>1. /\ Count(more) = x + y /\ x \in Nat /\ y \in Nat
        /\ Payload(more) = z + w /\ z \in Nat /\ w \in Nat
    BY <1>1, CountAppend, PayloadAppend
  <2>2. ~Overfull(current, op) =>
            /\ ~(x + y > BatchSize) /\ ~(MaxBytes > 0 /\ z + w > MaxBytes)
    BY DEF Overfull
  <2>3. current = << >> => Len(more) = 1  BY <1>1
  <2> HIDE DEF more, x, y, z, w
  <2>4. Fits(more)
    <3>1. CASE Len(more) = 1  BY <3>1 DEF Fits
    <3>2. CASE ~Overfull(current, op)
      <4>1. x + y <= BatchSize /\ (MaxBytes > 0 => z + w <= MaxBytes)
        BY <2>1, <2>2, <3>2, BoundAssumption, BytesAssumption
      <4> QED  BY <2>1, <4>1 DEF Fits
    <3> QED  BY <1>3, <2>3, <3>1, <3>2
  <2> QED  BY <1>3, <2>4 DEF more
<1> QED  BY <1>2, <1>3, PackCases

LEMMA StartsNext ==
    ASSUME NEW A, NEW parts \in Seq(Seq(A)), NEW s \in Seq(A), NEW op \in A,
           NEW start, Starts(start, parts, s)
    PROVE  \E st : Starts(st, Append(parts, <<op>>), Append(s, op))
<1> DEFINE n == Len(parts)
           more == Append(parts, <<op>>)
           u == Append(s, op)
           st == [b \in 1 .. n + 2 |-> IF b = n + 2 THEN Len(s) + 1 ELSE start[b]]
<1>1. /\ n \in Nat /\ Len(s) \in Nat /\ Len(u) = Len(s) + 1 /\ u[Len(s) + 1] = op
      /\ \A p \in 1 .. Len(s) : u[p] = s[p]
  OBVIOUS
<1>2. /\ Len(more) = n + 1 /\ Len(more[n + 1]) = 1 /\ more[n + 1][1] = op
      /\ \A b \in 1 .. n : more[b] = parts[b]
  <2>1. <<op>> \in Seq(A)  OBVIOUS
  <2>2. Len(more) = n + 1 /\ more[n + 1] = <<op>> /\ \A b \in 1 .. n : more[b] = parts[b]
    BY <2>1
  <2>3. Len(<<op>>) = 1 /\ <<op>>[1] = op  OBVIOUS
  <2> HIDE DEF more
  <2> QED  BY <2>2, <2>3
<1>3. /\ start \in [1 .. n + 1 -> Nat] /\ start[1] = 0 /\ start[n + 1] = Len(s)
      /\ \A b \in 1 .. n : start[b + 1] = start[b] + Len(parts[b])
      /\ \A b \in 1 .. n : \A o \in 1 .. Len(parts[b]) : s[start[b] + o] = parts[b][o]
  BY DEF Starts
<1>4. \A b \in 1 .. n : \A o \in 1 .. Len(parts[b]) : start[b] + o \in 1 .. Len(s)
  BY StartsPart
<1> HIDE DEF n, more, u
<1>5. /\ st[n + 2] = Len(s) + 1 /\ \A b \in 1 .. n + 1 : st[b] = start[b]
      /\ 1 \in 1 .. n + 1 /\ n + 1 \in 1 .. n + 1
      /\ \A b \in 1 .. n : b \in 1 .. n + 1 /\ b + 1 \in 1 .. n + 1
  BY <1>1
<1>6. st \in [1 .. n + 2 -> Nat]
  <2>1. \A b \in 1 .. n + 2 : b = n + 2 \/ b \in 1 .. n + 1  BY <1>1
  <2> QED  BY <1>1, <1>3, <2>1
<1> HIDE DEF st
<1>7. ASSUME NEW b \in 1 .. n
      PROVE  /\ st[b + 1] = st[b] + Len(more[b])
             /\ \A o \in 1 .. Len(more[b]) : u[st[b] + o] = more[b][o]
  <2>1. st[b] = start[b] /\ st[b + 1] = start[b + 1] /\ more[b] = parts[b]  BY <1>2, <1>5
  <2>2. ASSUME NEW o \in 1 .. Len(parts[b]) PROVE u[start[b] + o] = parts[b][o]
    BY <1>1, <1>3, <1>4
  <2> QED  BY <1>3, <2>1, <2>2
<1>8. /\ st[(n + 1) + 1] = st[n + 1] + Len(more[n + 1])
      /\ \A o \in 1 .. Len(more[n + 1]) : u[st[n + 1] + o] = more[n + 1][o]
  <2>1. (n + 1) + 1 = n + 2  BY <1>1
  <2>2. st[n + 1] = Len(s)  BY <1>3, <1>5
  <2>3. \A o \in 1 .. Len(more[n + 1]) : o = 1  BY <1>2
  <2> QED  BY <1>1, <1>2, <1>5, <2>1, <2>2, <2>3
<1>9. /\ st \in [1 .. Len(more) + 1 -> Nat] /\ st[1] = 0
      /\ st[Len(more) + 1] = Len(u)
  <2>1. (n + 1) + 1 = n + 2  BY <1>1
  <2> QED  BY <1>1, <1>2, <1>3, <1>5, <1>6, <2>1
<1>10. \A b \in 1 .. Len(more) : b \in 1 .. n \/ b = n + 1  BY <1>1, <1>2
<1>11. Starts(st, more, u)  BY <1>7, <1>8, <1>9, <1>10 DEF Starts
<1> QED  BY <1>11 DEF more, u

LEMMA StartsMore ==
    ASSUME NEW A, NEW full \in Seq(Seq(A)), NEW current \in Seq(A), NEW s \in Seq(A),
           NEW op \in A, NEW start, Starts(start, Append(full, current), s)
    PROVE  \E st : Starts(st, Append(full, Append(current, op)), Append(s, op))
<1> DEFINE n == Len(full)
           parts == Append(full, current)
           last == Append(current, op)
           more == Append(full, last)
           u == Append(s, op)
           st == [b \in 1 .. n + 2 |-> IF b = n + 2 THEN Len(s) + 1 ELSE start[b]]
<1>1. /\ n \in Nat /\ Len(s) \in Nat /\ Len(u) = Len(s) + 1 /\ u[Len(s) + 1] = op
      /\ \A p \in 1 .. Len(s) : u[p] = s[p]
      /\ Len(current) \in Nat /\ Len(last) = Len(current) + 1 /\ last[Len(current) + 1] = op
      /\ \A o \in 1 .. Len(current) : last[o] = current[o]
  OBVIOUS
<1>2. /\ parts \in Seq(Seq(A)) /\ Len(parts) = n + 1 /\ parts[n + 1] = current
      /\ \A b \in 1 .. n : parts[b] = full[b]
  OBVIOUS
<1>3. /\ Len(more) = n + 1 /\ more[n + 1] = last
      /\ \A b \in 1 .. n : more[b] = full[b]
  <2>1. last \in Seq(A)  OBVIOUS
  <2> HIDE DEF last
  <2> QED  BY <2>1
<1>4. /\ start \in [1 .. Len(parts) + 1 -> Nat] /\ start[1] = 0
      /\ start[Len(parts) + 1] = Len(s)
      /\ \A b \in 1 .. Len(parts) : start[b + 1] = start[b] + Len(parts[b])
      /\ \A b \in 1 .. Len(parts) : \A o \in 1 .. Len(parts[b]) : s[start[b] + o] = parts[b][o]
  BY DEF Starts
<1>5. \A b \in 1 .. Len(parts) : \A o \in 1 .. Len(parts[b]) : start[b] + o \in 1 .. Len(s)
  <2> HIDE DEF parts
  <2> QED  BY <1>2, StartsPart DEF parts
<1> HIDE DEF n, parts, last, more, u
<1>6. /\ st[n + 2] = Len(s) + 1 /\ \A b \in 1 .. n + 1 : st[b] = start[b]
      /\ 1 \in 1 .. n + 1 /\ n + 1 \in 1 .. n + 1 /\ (n + 1) + 1 = n + 2
      /\ \A b \in 1 .. n : b \in 1 .. n + 1 /\ b + 1 \in 1 .. n + 1
  BY <1>1
<1>7. st \in [1 .. n + 2 -> Nat]
  <2>1. \A b \in 1 .. n + 2 : b = n + 2 \/ (b \in 1 .. n + 1 /\ b \in 1 .. (n + 1) + 1)  BY <1>1
  <2> QED  BY <1>1, <1>2, <1>4, <2>1
<1> HIDE DEF st
<1>8. ASSUME NEW b \in 1 .. n
      PROVE  /\ st[b + 1] = st[b] + Len(more[b])
             /\ \A o \in 1 .. Len(more[b]) : u[st[b] + o] = more[b][o]
  <2>1. /\ st[b] = start[b] /\ st[b + 1] = start[b + 1] /\ more[b] = parts[b]
        /\ b \in 1 .. Len(parts)
    BY <1>2, <1>3, <1>6
  <2>2. ASSUME NEW o \in 1 .. Len(parts[b]) PROVE u[start[b] + o] = parts[b][o]
    BY <1>1, <1>4, <1>5, <2>1
  <2> QED  BY <1>4, <2>1, <2>2
<1>9. /\ st[n + 1] \in Nat /\ Len(s) = st[n + 1] + Len(current)
      /\ \A o \in 1 .. Len(current) : s[st[n + 1] + o] = current[o]
      /\ \A o \in 1 .. Len(current) : st[n + 1] + o \in 1 .. Len(s)
  <2>1. n + 1 \in 1 .. Len(parts) /\ st[n + 1] = start[n + 1]  BY <1>2, <1>6
  <2>2. n + 1 \in 1 .. Len(parts) + 1  BY <1>1, <1>2
  <2>3. start[n + 1] \in Nat  BY <1>4, <2>2
  <2> QED  BY <1>2, <1>4, <1>5, <2>1, <2>3
<1>10. /\ st[(n + 1) + 1] = st[n + 1] + Len(more[n + 1])
       /\ \A o \in 1 .. Len(more[n + 1]) : u[st[n + 1] + o] = more[n + 1][o]
  <2>1. \A o \in 1 .. Len(last) : o \in 1 .. Len(current) \/ o = Len(current) + 1  BY <1>1
  <2>2. st[n + 1] + (Len(current) + 1) = Len(s) + 1
    <3> DEFINE x == st[n + 1]
               y == Len(current)
               z == Len(s)
    <3>1. x \in Nat /\ y \in Nat /\ z = x + y  BY <1>1, <1>9
    <3> HIDE DEF x, y, z
    <3>2. x + (y + 1) = z + 1  BY <3>1
    <3> QED  BY <3>2 DEF x, y, z
  <2>3. \A o \in 1 .. Len(current) : u[st[n + 1] + o] = last[o]  BY <1>1, <1>9
  <2>4. u[st[n + 1] + (Len(current) + 1)] = last[Len(current) + 1]  BY <1>1, <2>2
  <2>5. \A o \in 1 .. Len(last) : u[st[n + 1] + o] = last[o]  BY <2>1, <2>3, <2>4
  <2>6. st[n + 2] = st[n + 1] + Len(last)  BY <1>1, <1>6, <1>9
  <2> QED  BY <1>3, <1>6, <2>5, <2>6
<1>11. /\ st \in [1 .. Len(more) + 1 -> Nat] /\ st[1] = 0
       /\ st[Len(more) + 1] = Len(u)
  BY <1>1, <1>3, <1>4, <1>6, <1>7
<1>12. \A b \in 1 .. Len(more) : b \in 1 .. n \/ b = n + 1  BY <1>1, <1>3
<1>13. Starts(st, more, u)  BY <1>8, <1>10, <1>11, <1>12 DEF Starts
<1> QED  BY <1>13 DEF more, last, u

LEMMA StartsLess ==
    ASSUME NEW A, NEW full \in Seq(Seq(A)), NEW s \in Seq(A),
           NEW start, Starts(start, Append(full, << >>), s)
    PROVE  \E st : Starts(st, full, s)
<1> DEFINE n == Len(full)
           parts == Append(full, << >>)
           st == [b \in 1 .. n + 1 |-> start[b]]
<1>1. /\ n \in Nat /\ Len(parts) = n + 1 /\ \A b \in 1 .. n : parts[b] = full[b]
      /\ Len(parts[n + 1]) = 0
  <2>1. << >> \in Seq(A) /\ Len(<< >>) = 0  OBVIOUS
  <2>2. Len(parts) = n + 1 /\ parts[n + 1] = << >> /\ \A b \in 1 .. n : parts[b] = full[b]
    BY <2>1
  <2> HIDE DEF parts
  <2> QED  BY <2>1, <2>2
<1>2. /\ start \in [1 .. Len(parts) + 1 -> Nat] /\ start[1] = 0
      /\ start[Len(parts) + 1] = Len(s)
      /\ \A b \in 1 .. Len(parts) : start[b + 1] = start[b] + Len(parts[b])
      /\ \A b \in 1 .. Len(parts) : \A o \in 1 .. Len(parts[b]) : s[start[b] + o] = parts[b][o]
  BY DEF Starts
<1> HIDE DEF n, parts
<1>3. /\ \A b \in 1 .. n + 1 : st[b] = start[b] /\ b \in 1 .. (n + 1) + 1
      /\ \A b \in 1 .. n : b \in 1 .. n + 1 /\ b + 1 \in 1 .. n + 1 /\ b \in 1 .. Len(parts)
      /\ 1 \in 1 .. n + 1 /\ n + 1 \in 1 .. n + 1 /\ n + 1 \in 1 .. Len(parts)
  BY <1>1
<1>4. st \in [1 .. n + 1 -> Nat]  BY <1>1, <1>2, <1>3
<1> HIDE DEF st
<1>5. st[n + 1] = Len(s)
  <2>1. start[(n + 1) + 1] = start[n + 1] + 0 /\ start[(n + 1) + 1] = Len(s)
    BY <1>1, <1>2, <1>3
  <2>2. start[n + 1] \in Nat  BY <1>1, <1>2, <1>3
  <2> QED  BY <1>3, <2>1, <2>2
<1>6. ASSUME NEW b \in 1 .. n
      PROVE  /\ st[b + 1] = st[b] + Len(full[b])
             /\ \A o \in 1 .. Len(full[b]) : s[st[b] + o] = full[b][o]
  <2>1. /\ st[b] = start[b] /\ st[b + 1] = start[b + 1] /\ full[b] = parts[b]
        /\ b \in 1 .. Len(parts)
    BY <1>1, <1>3
  <2> QED  BY <1>2, <2>1
<1>7. st[1] = 0  BY <1>2, <1>3
<1>8. Starts(st, full, s)  BY <1>4, <1>5, <1>6, <1>7 DEF Starts, n
<1> QED  BY <1>8

LEMMA PackSteps ==
    ASSUME NEW us \in Seq(WriteOps)
    PROVE  \E f \in [0 .. Len(us) -> Packs] :
              /\ f[0] = NonePacked /\ f[Len(us)] = Packed(us)
              /\ \A k \in 1 .. Len(us) : f[k] = Pack(f[k - 1], us[k])
<1> DEFINE A == Packs
           B == WriteOps
           n == Len(us)
           Op == [p \in A \X B |-> Pack(p[1], p[2])]
           Eq(h) == h = [s \in SUBSET DOMAIN us |->
                           IF s = {} THEN NonePacked
                                     ELSE Pack(h[s \ {Max(s)}], us[Max(s)])]
           h == CHOOSE h : Eq(h)
           f == [k \in 0 .. n |-> h[1 .. k]]
<1>1. \A a \in A, b \in B : Pack(a, b) \in A  BY PackCases
<1>2. Op \in [A \X B -> A]  BY <1>1
<1>3. n \in Nat /\ DOMAIN us = 1 .. n /\ us \in [1 .. n -> B] /\ NonePacked \in A
  BY DEF NonePacked, Packs
<1> HIDE DEF n
<1>4. PICK g : Folds(g, A, Op, NonePacked, n, us)
  <2> HIDE DEF A, B, Op
  <2> QED  BY <1>2, <1>3, FoldExists
<1>5. Eq(g)
  <2>1. ASSUME NEW s \in SUBSET (1 .. n), s # {}
        PROVE  g[s] = Pack(g[s \ {Max(s)}], us[Max(s)])
    <3>1. Max(s) \in 1 .. n  BY <1>3, <2>1, MaxOfSome
    <3>2. g[s \ {Max(s)}] \in A /\ us[Max(s)] \in B  BY <1>3, <1>4, <3>1 DEF Folds
    <3>3. g[s] = Op[<<g[s \ {Max(s)}], us[Max(s)]>>]  BY <1>4, <2>1 DEF Folds
    <3> QED  BY <3>2, <3>3
  <2>2. g \in [SUBSET (1 .. n) -> A] /\ g[{}] = NonePacked  BY <1>4 DEF Folds
  <2> QED  BY <1>3, <2>1, <2>2
<1>6. Eq(h)  BY <1>5
<1>7. Packed(us) = h[1 .. n]
  BY <1>3 DEF Packed, NonePacked, FoldLeft, MapThenFoldSet
<1> HIDE DEF h
<1>8. f[0] = NonePacked  BY <1>3, <1>6
<1>9. ASSUME NEW k \in 1 .. n PROVE f[k] = Pack(f[k - 1], us[k])
  <2>1. Max(1 .. k) = k /\ (1 .. k) \ {k} = 1 .. (k - 1)  BY <1>3, MaxOfInterval
  <2>2. 1 .. k \in SUBSET DOMAIN us /\ 1 .. k # {}  BY <1>3
  <2>3. h[1 .. k] = Pack(h[1 .. (k - 1)], us[k])  BY <1>6, <2>1, <2>2
  <2>4. k - 1 \in 0 .. n /\ k \in 0 .. n  BY <1>3
  <2> QED  BY <2>3, <2>4
<1>10. f \in [0 .. n -> A]
  <2> DEFINE S == {k \in 0 .. n : f[k] \in A}
  <2>1. 0 \in S
    <3>1. 0 \in 0 .. n /\ NonePacked \in A  BY <1>3
    <3> HIDE DEF f, A
    <3> QED  BY <1>8, <3>1
  <2>2. ASSUME NEW k \in 0 .. n, k > 0, k - 1 \in S PROVE k \in S
    <3>1. k \in 1 .. n /\ us[k] \in B  BY <1>3, <2>2
    <3>2. f[k] = Pack(f[k - 1], us[k]) /\ f[k - 1] \in A  BY <1>9, <2>2, <3>1
    <3>3. f[k] \in A  BY <1>1, <3>1, <3>2
    <3> QED  BY <3>3
  <2>3. 0 .. n \subseteq S
    <3> HIDE DEF S
    <3> QED  BY <1>3, <2>1, <2>2, UpTo
  <2> QED  BY <2>3
<1>11. f[n] = Packed(us)  BY <1>3, <1>7
<1> HIDE DEF f
<1> QED  BY <1>8, <1>9, <1>10, <1>11 DEF n

(* What packing has made so far lays out what it was given so far.         *)
LaidOut(acc, s) == \E start : Starts(start, Append(acc.full, acc.current), s)

LEMMA NoneLaidOut == LaidOut(NonePacked, << >>)
<1> DEFINE parts == Append(<< >>, << >>)
           s == << >>
           st == [b \in 1 .. 2 |-> 0]
<1>1. Len(parts) = 1 /\ Len(parts[1]) = 0 /\ Len(s) = 0  OBVIOUS
<1>2. st \in [1 .. 2 -> Nat] /\ st[1] = 0 /\ st[2] = 0  OBVIOUS
<1> HIDE DEF parts, s, st
<1>3. Starts(st, parts, s)
  <2>1. Len(parts) + 1 = 2 /\ \A b \in 1 .. Len(parts) : b = 1 /\ b + 1 = 2
    BY <1>1
  <2>2. \A b \in 1 .. Len(parts) :
           /\ st[b + 1] = st[b] + Len(parts[b])
           /\ \A o \in 1 .. Len(parts[b]) : s[st[b] + o] = parts[b][o]
    BY <1>1, <1>2, <2>1
  <2> QED  BY <1>1, <1>2, <2>1, <2>2 DEF Starts
<1>4. NonePacked.full = << >> /\ NonePacked.current = << >>  BY DEF NonePacked
<1> QED  BY <1>3, <1>4 DEF LaidOut, parts, s

LEMMA MoreLaidOut ==
    ASSUME NEW acc \in Packs, NEW op \in WriteOps, NEW s \in Seq(WriteOps), LaidOut(acc, s)
    PROVE  LaidOut(Pack(acc, op), Append(s, op))
<1> DEFINE full == acc.full
           current == acc.current
<1>1. /\ full \in Seq(Seq(WriteOps)) /\ current \in Seq(WriteOps)
      /\ Append(full, current) \in Seq(Seq(WriteOps))
  BY DEF Packs
<1>2. PICK start : Starts(start, Append(full, current), s)  BY DEF LaidOut
<1> HIDE DEF full, current
<1>3. CASE Pack(acc, op).full = Append(full, current) /\ Pack(acc, op).current = <<op>>
  <2>1. \E st : Starts(st, Append(Append(full, current), <<op>>), Append(s, op))
    BY <1>1, <1>2, StartsNext
  <2> QED  BY <1>3, <2>1 DEF LaidOut
<1>4. CASE Pack(acc, op).full = full /\ Pack(acc, op).current = Append(current, op)
  <2>1. \E st : Starts(st, Append(full, Append(current, op)), Append(s, op))
    BY <1>1, <1>2, StartsMore
  <2> QED  BY <1>4, <2>1 DEF LaidOut
<1> QED  BY <1>3, <1>4, PackCases DEF full, current

(* Packing keeps every operation, in order, in super-batches that fit.     *)
LEMMA PackedStarts ==
    ASSUME NEW ops \in Seq(WriteOps)
    PROVE  /\ Packed(ops) \in Packs /\ LaidOut(Packed(ops), ops)
           /\ \A b \in 1 .. Len(Packed(ops).full) : Fits(Packed(ops).full[b])
           /\ Fits(Packed(ops).current)
<1> DEFINE n == Len(ops)
           First(k) == [i \in 1 .. k |-> ops[i]]
<1>1. PICK f \in [0 .. n -> Packs] :
         /\ f[0] = NonePacked /\ f[n] = Packed(ops)
         /\ \A k \in 1 .. n : f[k] = Pack(f[k - 1], ops[k])
  BY PackSteps
<1>2. n \in Nat /\ \A k \in 1 .. n : ops[k] \in WriteOps  OBVIOUS
<1>3. First(n) = ops /\ First(0) = << >>  OBVIOUS
<1> HIDE DEF n
<1>4. ASSUME NEW k \in 1 .. n
      PROVE  First(k - 1) \in Seq(WriteOps) /\ First(k) = Append(First(k - 1), ops[k])
  <2>1. First(k - 1) \in Seq(WriteOps) /\ First(k) \in Seq(WriteOps)  BY <1>2
  <2>2. Len(First(k - 1)) = k - 1 /\ Len(First(k)) = k  BY <1>2
  <2>3. First(k)[k] = ops[k] /\ \A i \in 1 .. k - 1 : First(k)[i] = First(k - 1)[i]
    BY <1>2
  <2>4. ops[k] \in WriteOps  BY <1>2
  <2> QED  BY <2>1, <2>2, <2>3, <2>4
<1> HIDE DEF First
<1> DEFINE Done(k) == /\ LaidOut(f[k], First(k))
                      /\ \A b \in 1 .. Len(f[k].full) : Fits(f[k].full[b])
                      /\ Fits(f[k].current)
           S == {k \in 0 .. n : Done(k)}
<1>5. 0 \in S
  <2>1. f[0].full = << >> /\ f[0].current = << >>  BY <1>1 DEF NonePacked
  <2>2. Fits(f[0].current)
    <3>1. ~(Len(f[0].current) > 1)  BY <2>1
    <3> QED  BY <3>1 DEF Fits
  <2>3. \A b \in 1 .. Len(f[0].full) : FALSE  BY <2>1
  <2> QED  BY <1>1, <1>2, <1>3, <2>2, <2>3, NoneLaidOut
<1>6. ASSUME NEW k \in 0 .. n, k > 0, k - 1 \in S PROVE k \in S
  <2>1. k \in 1 .. n /\ k - 1 \in 0 .. n  BY <1>2, <1>6
  <2>2. /\ f[k - 1] \in Packs /\ ops[k] \in WriteOps /\ First(k - 1) \in Seq(WriteOps)
        /\ f[k] = Pack(f[k - 1], ops[k]) /\ First(k) = Append(First(k - 1), ops[k])
    BY <1>1, <1>2, <1>4, <2>1
  <2>3. Done(k - 1)  BY <1>6
  <2>4. LaidOut(f[k], First(k))  BY <2>2, <2>3, MoreLaidOut
  <2>5. (\A b \in 1 .. Len(f[k].full) : Fits(f[k].full[b])) /\ Fits(f[k].current)
    BY <2>2, <2>3, PackFits
  <2> QED  BY <2>4, <2>5
<1>7. n \in S
  <2>1. 0 .. n \subseteq S
    <3> HIDE DEF S
    <3> QED  BY <1>2, <1>5, <1>6, UpTo
  <2>2. n \in 0 .. n  BY <1>2
  <2> QED  BY <2>1, <2>2
<1>8. f[n] \in Packs  BY <1>1, <1>2
<1> QED  BY <1>1, <1>3, <1>7, <1>8

(* Every update is in one place of one super-batch.                        *)
LEMMA SuperBatchesHold ==
    ASSUME NEW us \in Seq(Updates)
    PROVE  /\ SuperBatches(us) \in Seq(Seq(WriteOps))
           /\ \A b \in 1 .. Len(SuperBatches(us)) : Fits(SuperBatches(us)[b])
           /\ \A r, t : /\ IsFiniteSet(HeldIn(SuperBatches(us), r, t))
                        /\ Cardinality(HeldIn(SuperBatches(us), r, t))
                             = Cardinality(Giving(us, Len(us), r, t))
<1> DEFINE ops == Operations(us)
           full == Packed(ops).full
           current == Packed(ops).current
           sb == SuperBatches(us)
<1>1. /\ ops \in Seq(WriteOps)
      /\ \A r, t : /\ IsFiniteSet(Held(ops, r, t))
                   /\ Cardinality(Held(ops, r, t)) = Cardinality(Giving(us, Len(us), r, t))
  BY OperationsHold
<1>2. sb = IF current = << >> THEN full ELSE Append(full, current)
  BY DEF SuperBatches, Packed
<1> HIDE DEF ops
<1>3. /\ full \in Seq(Seq(WriteOps)) /\ current \in Seq(WriteOps)
      /\ \A b \in 1 .. Len(full) : Fits(full[b])
      /\ Fits(current)
  BY <1>1, PackedStarts DEF Packs
<1>4. PICK start : Starts(start, Append(full, current), ops)
  BY <1>1, PackedStarts DEF LaidOut
<1> HIDE DEF full, current, sb
<1>5. sb \in Seq(Seq(WriteOps)) /\ \E st : Starts(st, sb, ops)
  <2>1. CASE current = << >>
    <3>1. \E st : Starts(st, full, ops)  BY <1>1, <1>3, <1>4, <2>1, StartsLess
    <3> QED  BY <1>2, <1>3, <2>1, <3>1
  <2>2. CASE current # << >>
    <3>1. Append(full, current) \in Seq(Seq(WriteOps))  BY <1>3
    <3> QED  BY <1>2, <1>4, <2>2, <3>1
  <2> QED  BY <2>1, <2>2
<1>6. ASSUME NEW b \in 1 .. Len(sb) PROVE Fits(sb[b])
  <2>1. CASE current = << >>  BY <1>2, <1>3, <1>6, <2>1
  <2>2. CASE current # << >>
    <3>1. b \in 1 .. Len(full) \/ b = Len(full) + 1  BY <1>2, <1>3, <1>6, <2>2
    <3>2. b \in 1 .. Len(full) => Append(full, current)[b] = full[b]  BY <1>3
    <3>3. b = Len(full) + 1 => Append(full, current)[b] = current  BY <1>3
    <3> QED  BY <1>2, <1>3, <2>2, <3>1, <3>2, <3>3
  <2> QED  BY <2>1, <2>2
<1>7. ASSUME NEW r, NEW t
      PROVE  /\ IsFiniteSet(HeldIn(sb, r, t))
             /\ Cardinality(HeldIn(sb, r, t)) = Cardinality(Held(ops, r, t))
  <2>1. ExistsBijection(HeldIn(sb, r, t), Held(ops, r, t))  BY <1>1, <1>5, HeldFlat
  <2>2. ExistsBijection(Held(ops, r, t), HeldIn(sb, r, t))  BY <2>1, Fun_ExistsBijSymmetric
  <2> QED  BY <1>1, <2>2, FS_Bijection
<1> QED  BY <1>1, <1>5, <1>6, <1>7 DEF sb

-----------------------------------------------------------------------------
(***************************************************************************)
(* The inductive invariant.  While rows are prepared, the updates are the  *)
(* rows passed whose targets are known; from then on the super-batches are *)
(* those of the updates, and what the server holds is explained by the     *)
(* operations the workers have passed and the calls that timed out.        *)
(***************************************************************************)
(* Every row passed whose target is known has its update, and every update *)
(* its row.                                                                *)
Prepared ==
    /\ \A t \in Target : cache[t] = "missing" => t \notin OnServer \/ t \in lostLookups
    /\ \A r \in Record, t \in Known :
          Cardinality(Giving(updates, Len(updates), r, t))
            = Cardinality({i \in 1 .. next - 1 : Asks(i, r, t)})
    /\ \A k \in 1 .. Len(updates) : \E i \in Row : Asks(i, updates[k].rec, updates[k].val)

(* What is written depends on what was prepared.                           *)
Planned ==
    /\ pc = "prepare" => /\ batches = << >> /\ late = {} /\ failed = {} /\ unanswered = {}
                         /\ \A r \in Record : link[r] = NoTarget
    /\ pc # "prepare" => next = N + 1 /\ batches = SuperBatches(updates)

(* The workers' operations; those of super-batch b before at are done with.*)
Passed(b, w) == \E o \in DOMAIN batches[b] : o < work[b].at /\ w \in Pairs(batches[b][o])

(* Every operation that writes the record writes this value.               *)
Undisputed(w) ==
    \A b \in DOMAIN batches : \A o \in DOMAIN batches[b] :
        w[1] \in ToSet(batches[b][o].recs) => batches[b][o].val = w[2]

(* One operation writes the value on the record.                           *)
Single(w) ==
    \A b, c \in DOMAIN batches : \A o \in DOMAIN batches[b], p \in DOMAIN batches[c] :
        w \in Pairs(batches[b][o]) /\ w \in Pairs(batches[c][p]) => b = c /\ o = p

InBounds ==
    /\ DOMAIN work = DOMAIN batches
    /\ \A b \in DOMAIN batches : work[b].at <= Len(batches[b]) + 1

(* Calls without a reply, and those still to be carried out, are of the    *)
(* operations.                                                             *)
FromBatches(op) == \E b \in DOMAIN batches : \E o \in DOMAIN batches[b] : op = batches[b][o]
LateOnes ==
    /\ \A op \in late : FromBatches(op) /\ Pairs(op) \subseteq unanswered
    /\ \A w \in unanswered : \E b \in DOMAIN batches : \E o \in DOMAIN batches[b] :
          w \in Pairs(batches[b][o])

(* What an operation passed was to write is failed, or written for good.   *)
WrittenOrFailed ==
    \A b \in DOMAIN batches : \A w \in Writes :
        Passed(b, w) => w \in work[b].failed \/ (Undisputed(w) => link[w[1]] = w[2])

(* What is written was written by an operation passed, or by a call that   *)
(* had no reply.                                                           *)
Explained ==
    \A r \in Record : link[r] # NoTarget =>
        \/ <<r, link[r]>> \in unanswered
        \/ \E b \in DOMAIN batches : Passed(b, <<r, link[r]>>)

(* What has failed was passed, and is written only by a call that had no   *)
(* reply, if one operation writes it.                                      *)
FailedRight ==
    \A b \in DOMAIN batches : \A w \in work[b].failed :
        /\ Passed(b, w)
        /\ Single(w) /\ link[w[1]] = w[2] => w \in unanswered

WriteInv == InBounds /\ LateOnes /\ WrittenOrFailed /\ Explained /\ FailedRight

(* The results read, and what the pass returns.                            *)
Collected ==
    /\ \A b \in collected : ~Busy(b) /\ work[b].failed \subseteq failed
    /\ \A w \in failed : \E b \in DOMAIN batches : w \in work[b].failed
Returned ==
    /\ success => pc = "done" /\ collected = DOMAIN batches /\ failed = {}
    /\ pc = "done" => failLines = Lines

RelInv == TypeOK /\ Prepared /\ Planned /\ WriteInv /\ Collected /\ Returned

-----------------------------------------------------------------------------
(* The pairs an operation writes.                                          *)
LEMMA PairsOf ==
    ASSUME NEW op \in WriteOps
    PROVE  /\ ToSet(op.recs) \subseteq Record /\ op.val \in Target
           /\ Pairs(op) \subseteq Writes
           /\ \A w \in Writes : w \in Pairs(op) <=> w[1] \in ToSet(op.recs) /\ w[2] = op.val
           /\ \A r \in ToSet(op.recs) : <<r, op.val>> \in Pairs(op)
<1>1. op.recs \in Seq(Record) /\ op.val \in Target  BY DEF WriteOps
<1>2. ToSet(op.recs) \subseteq Record  BY <1>1 DEF ToSet
<1>3. Pairs(op) \subseteq Writes  BY <1>1, <1>2 DEF Pairs, Writes
<1>4. \A w \in Writes : w = <<w[1], w[2]>>  BY DEF Writes
<1>5. ASSUME NEW w \in Writes
      PROVE  w \in Pairs(op) <=> w[1] \in ToSet(op.recs) /\ w[2] = op.val
  <2>1. w = <<w[1], w[2]>>  BY <1>4
  <2>2. ASSUME w \in Pairs(op) PROVE w[1] \in ToSet(op.recs) /\ w[2] = op.val
    <3>1. PICK r \in ToSet(op.recs) : w = <<r, op.val>>  BY <2>2 DEF Pairs
    <3> QED  BY <3>1
  <2>3. ASSUME w[1] \in ToSet(op.recs), w[2] = op.val PROVE w \in Pairs(op)
    BY <2>1, <2>3 DEF Pairs
  <2> QED  BY <2>2, <2>3
<1>6. \A r \in ToSet(op.recs) : <<r, op.val>> \in Pairs(op)  BY DEF Pairs
<1> QED  BY <1>1, <1>2, <1>3, <1>5, <1>6

LEMMA AppliedIs ==
    ASSUME NEW op \in WriteOps, link \in [Record -> Target \cup {NoTarget}]
    PROVE  /\ Applied(op) \in [Record -> Target \cup {NoTarget}]
           /\ \A r \in Record : Applied(op)[r] = IF r \in ToSet(op.recs) THEN op.val ELSE link[r]
  BY PairsOf DEF Applied

(* The places of the invariant the runs check are those counted here.      *)
LEMMA PlacesHeld ==
    ASSUME batches \in Seq(Seq(WriteOps)), NEW r, NEW t
    PROVE  Places(r, t) = HeldIn(batches, r, t)
<1> DEFINE K(b, o) == {k \in DOMAIN batches[b][o].recs :
                          batches[b][o].recs[k] = r /\ batches[b][o].val = t}
           InBatch(b) == UNION {{<<b, o, k>> : k \in K(b, o)} : o \in DOMAIN batches[b]}
<1>1. /\ DOMAIN batches = 1 .. Len(batches)
      /\ \A b \in DOMAIN batches : batches[b] \in Seq(WriteOps)
  OBVIOUS
<1>2. ASSUME NEW b \in DOMAIN batches
      PROVE  /\ DOMAIN batches[b] = 1 .. Len(batches[b])
             /\ \A o \in DOMAIN batches[b] : batches[b][o] \in WriteOps
  BY <1>1
<1>3. ASSUME NEW b \in DOMAIN batches, NEW o \in DOMAIN batches[b], NEW k
      PROVE  k \in K(b, o) <=> <<b, o, k>> \in HeldIn(batches, r, t)
  <2>1. batches[b][o].recs \in Seq(Record)  BY <1>2 DEF WriteOps
  <2>2. DOMAIN batches[b][o].recs = 1 .. Len(batches[b][o].recs)  BY <2>1
  <2>3. o \in 1 .. Len(batches[b]) /\ o \in Nat /\ b \in 1 .. Len(batches)  BY <1>1, <1>2
  <2>4. k \in 1 .. Len(batches[b][o].recs) => k \in Nat  BY <2>1
  <2>5. <<b, o, k>> \in HeldIn(batches, r, t) <=> k \in Nat /\ <<o, k>> \in Held(batches[b], r, t)
    BY <2>3 DEF HeldIn
  <2>6. <<o, k>> \in Held(batches[b], r, t) <=>
            /\ k \in Nat /\ k \in 1 .. Len(batches[b][o].recs)
            /\ batches[b][o].recs[k] = r /\ batches[b][o].val = t
    BY <2>3 DEF Held
  <2> QED  BY <2>2, <2>4, <2>5, <2>6
<1>4. Places(r, t) = UNION {InBatch(b) : b \in DOMAIN batches}  BY DEF Places
<1> HIDE DEF K
<1>5. ASSUME NEW p \in Places(r, t) PROVE p \in HeldIn(batches, r, t)
  <2>1. PICK b \in DOMAIN batches : p \in InBatch(b)  BY <1>4
  <2>2. PICK o \in DOMAIN batches[b] : p \in {<<b, o, k>> : k \in K(b, o)}  BY <2>1
  <2>3. PICK k \in K(b, o) : p = <<b, o, k>>  BY <2>2
  <2> QED  BY <1>3, <2>3
<1>6. ASSUME NEW p \in HeldIn(batches, r, t) PROVE p \in Places(r, t)
  <2>1. p = <<p[1], p[2], p[3]>> /\ p[1] \in 1 .. Len(batches) /\ p[2] \in 1 .. Len(batches[p[1]])
    BY DEF HeldIn
  <2>2. p[1] \in DOMAIN batches /\ p[2] \in DOMAIN batches[p[1]]  BY <1>1, <1>2, <2>1
  <2>3. p[3] \in K(p[1], p[2])  BY <1>3, <2>1, <2>2
  <2>4. p \in {<<p[1], p[2], k>> : k \in K(p[1], p[2])}  BY <2>1, <2>3
  <2>5. p \in InBatch(p[1])  BY <2>2, <2>4
  <2> QED  BY <1>4, <2>2, <2>5
<1> QED  BY <1>5, <1>6

(* The operations write what the rows ask for, each row in one place.      *)
LEMMA RowsPlaced ==
    ASSUME TypeOK, Prepared, Planned, pc # "prepare"
    PROVE  /\ \A r \in Record, t \in Known :
                 /\ IsFiniteSet(Places(r, t))
                 /\ Cardinality(Places(r, t)) = Cardinality({i \in Row : Asks(i, r, t)})
           /\ \A b \in 1 .. Len(batches) : Fits(batches[b])
<1>1. updates \in Seq(Updates) /\ batches \in Seq(Seq(WriteOps))  BY DEF TypeOK, Updates
<1>2. next = N + 1 /\ batches = SuperBatches(updates)  BY DEF Planned
<1>3. 1 .. next - 1 = Row  BY <1>2, NAssumption DEF Row
<1>4. ASSUME NEW r \in Record, NEW t \in Known
      PROVE  /\ IsFiniteSet(Places(r, t))
             /\ Cardinality(Places(r, t)) = Cardinality({i \in Row : Asks(i, r, t)})
  <2>1. Cardinality(Giving(updates, Len(updates), r, t))
            = Cardinality({i \in 1 .. next - 1 : Asks(i, r, t)})
    BY DEF Prepared
  <2> QED  BY <1>1, <1>2, <1>3, <2>1, SuperBatchesHold, PlacesHeld
<1> QED  BY <1>1, <1>2, <1>4, SuperBatchesHold

LEMMA OpsTyped ==
    ASSUME TypeOK
    PROVE  /\ DOMAIN batches = 1 .. Len(batches) /\ Len(batches) \in Nat
           /\ \A b \in DOMAIN batches :
                 /\ batches[b] \in Seq(WriteOps)
                 /\ DOMAIN batches[b] = 1 .. Len(batches[b]) /\ Len(batches[b]) \in Nat
                 /\ \A o \in DOMAIN batches[b] : batches[b][o] \in WriteOps
<1>1. batches \in Seq(Seq(WriteOps))  BY DEF TypeOK
<1>2. \A b \in DOMAIN batches : batches[b] \in Seq(WriteOps)  BY <1>1
<1> QED  BY <1>1, <1>2

(* No operation writes what no row asks for.                               *)
LEMMA OpsAsked ==
    ASSUME TypeOK, Prepared, Planned
    PROVE  \A b \in DOMAIN batches : \A o \in DOMAIN batches[b] :
              \A w \in Pairs(batches[b][o]) : \E i \in Row : Asks(i, w[1], w[2])
<1> SUFFICES ASSUME NEW b \in DOMAIN batches, NEW o \in DOMAIN batches[b],
                    NEW w \in Pairs(batches[b][o])
             PROVE  \E i \in Row : Asks(i, w[1], w[2])
  OBVIOUS
<1> DEFINE r == w[1]
           t == w[2]
           op == batches[b][o]
<1>1. /\ updates \in Seq(Updates) /\ batches \in Seq(Seq(WriteOps)) /\ op \in WriteOps
      /\ b \in 1 .. Len(batches) /\ o \in 1 .. Len(batches[b]) /\ o \in Nat
  BY OpsTyped DEF TypeOK, Updates
<1>2. pc # "prepare" /\ batches = SuperBatches(updates)
  <2>1. batches # << >>  BY <1>1
  <2> QED  BY <2>1 DEF Planned
<1>3. r \in ToSet(op.recs) /\ t = op.val /\ op.recs \in Seq(Record)
  BY <1>1, PairsOf DEF WriteOps
<1>4. PICK k \in DOMAIN op.recs : op.recs[k] = r  BY <1>3 DEF ToSet
<1>5. k \in 1 .. Len(op.recs) /\ k \in Nat  BY <1>3
<1>6. <<b, o, k>> \in HeldIn(batches, r, t)
  <2>1. <<o, k>> \in Held(batches[b], r, t)  BY <1>1, <1>3, <1>4, <1>5 DEF Held
  <2> QED  BY <1>1, <1>5, <2>1 DEF HeldIn
<1>7. /\ IsFiniteSet(HeldIn(batches, r, t))
      /\ Cardinality(HeldIn(batches, r, t)) = Cardinality(Giving(updates, Len(updates), r, t))
  BY <1>1, <1>2, SuperBatchesHold
<1>8. Cardinality(HeldIn(batches, r, t)) # 0  BY <1>6, <1>7, FS_EmptySet
<1>9. Giving(updates, Len(updates), r, t) # {}
  <2>1. Cardinality({}) = 0  BY FS_EmptySet
  <2> QED  BY <1>7, <1>8, <2>1
<1>10. PICK j \in 1 .. Len(updates) : updates[j].rec = r /\ updates[j].val = t
  BY <1>9 DEF Giving
<1>11. \E i \in Row : Asks(i, updates[j].rec, updates[j].val)  BY DEF Prepared
<1> QED  BY <1>10, <1>11

-----------------------------------------------------------------------------
(* One more update, one more row.                                          *)
LEMMA OneMoreUpdate ==
    ASSUME NEW us \in Seq(Updates), NEW u \in Updates, NEW r, NEW t
    PROVE  LET more == Append(us, u)
           IN  Cardinality(Giving(more, Len(more), r, t))
                 = IF u.rec = r /\ u.val = t THEN Cardinality(Giving(us, Len(us), r, t)) + 1
                                             ELSE Cardinality(Giving(us, Len(us), r, t))
<1> DEFINE n == Len(us)
           more == Append(us, u)
           before == Giving(us, n, r, t)
           after == Giving(more, n + 1, r, t)
<1>1. n \in Nat /\ Len(more) = n + 1 /\ more[n + 1] = u /\ \A j \in 1 .. n : more[j] = us[j]
  OBVIOUS
<1> HIDE DEF n, more
<1>2. IsFiniteSet(before) /\ n + 1 \notin before
  <2>1. before \subseteq 1 .. n  BY DEF Giving
  <2>2. IsFiniteSet(1 .. n)  BY <1>1, FS_Interval
  <2>3. IsFiniteSet(before)  BY <2>1, <2>2, FS_Subset
  <2>4. n + 1 \notin 1 .. n  BY <1>1
  <2> QED  BY <2>1, <2>3, <2>4
<1>3. \A j : j \in 1 .. n + 1 <=> j \in 1 .. n \/ j = n + 1  BY <1>1
<1>4. u.rec = r /\ u.val = t => after = before \cup {n + 1}  BY <1>1, <1>3 DEF Giving
<1>5. ~(u.rec = r /\ u.val = t) => after = before  BY <1>1, <1>3 DEF Giving
<1>6. Cardinality(before \cup {n + 1}) = Cardinality(before) + 1  BY <1>2, FS_AddElement
<1> HIDE DEF before, after
<1>7. Cardinality(after) = IF u.rec = r /\ u.val = t THEN Cardinality(before) + 1
                                                     ELSE Cardinality(before)
  BY <1>4, <1>5, <1>6
<1> QED  BY <1>1, <1>7 DEF before, after, n, more

LEMMA OneMoreRow ==
    ASSUME NEW k \in Row, NEW r, NEW t
    PROVE  Cardinality({i \in 1 .. k : Asks(i, r, t)})
             = IF Asks(k, r, t) THEN Cardinality({i \in 1 .. k - 1 : Asks(i, r, t)}) + 1
                                ELSE Cardinality({i \in 1 .. k - 1 : Asks(i, r, t)})
<1> DEFINE before == {i \in 1 .. k - 1 : Asks(i, r, t)}
           after == {i \in 1 .. k : Asks(i, r, t)}
<1>1. k \in Nat /\ k - 1 \in Nat  BY NAssumption DEF Row
<1>2. IsFiniteSet(before) /\ k \notin before
  <2>1. before \subseteq 1 .. k - 1  OBVIOUS
  <2>2. IsFiniteSet(1 .. k - 1)  BY <1>1, FS_Interval
  <2>3. IsFiniteSet(before)  BY <2>1, <2>2, FS_Subset
  <2>4. k \notin 1 .. k - 1  BY <1>1
  <2> QED  BY <2>1, <2>3, <2>4
<1>3. \A i : i \in 1 .. k <=> i \in 1 .. k - 1 \/ i = k  BY <1>1
<1>4. Asks(k, r, t) => after = before \cup {k}  BY <1>3
<1>5. ~Asks(k, r, t) => after = before  BY <1>3
<1>6. Cardinality(before \cup {k}) = Cardinality(before) + 1  BY <1>2, FS_AddElement
<1> HIDE DEF before, after
<1>7. Cardinality(after) = IF Asks(k, r, t) THEN Cardinality(before) + 1
                                            ELSE Cardinality(before)
  BY <1>4, <1>5, <1>6
<1> QED  BY <1>7 DEF before, after

LEMMA SourceTyped ==
    ASSUME TypeOK
    PROVE  /\ source.rec \in [Row -> Record \cup {NoRecord}]
           /\ source.target \in [Row -> Target \cup {NoTarget}]
<1>1. source \in Files  BY DEF TypeOK
<1> QED  BY <1>1, FileAssumption

(* A row passed has its update if its target is known, and none if not.    *)
LEMMA RowTaken ==
    ASSUME TypeOK, Prepared, next \in Row, next' = next + 1, source' = source,
           lostLookups \subseteq lostLookups',
           \A t \in Target : cache'[t] = "missing" => t \notin OnServer \/ t \in lostLookups',
           \/ /\ Wanted
              /\ updates' = Append(updates, [rec |-> TheRecord, val |-> TheTarget])
           \/ updates' = updates /\ (Wanted => TheTarget \notin Known')
    PROVE  Prepared' /\ updates' \in Seq(Updates) /\ next' \in 1 .. N + 1
<1> DEFINE u == [rec |-> TheRecord, val |-> TheTarget]
<1>1. /\ source.rec \in [Row -> Record \cup {NoRecord}]
      /\ source.target \in [Row -> Target \cup {NoTarget}]
      /\ updates \in Seq(Updates)
  BY SourceTyped DEF TypeOK, Updates
<1>2. Wanted => u \in Updates
  BY <1>1 DEF Wanted, TheRecord, TheTarget, Updates
<1>3. next' \in 1 .. N + 1 /\ next' - 1 = next  BY NAssumption DEF Row
<1>4. \A i, r, t : Asks(i, r, t) <=> source'.rec[i] = r /\ source'.target[i] = t
  BY DEF Asks
<1>5. \A t \in Known' : t \in Known  BY DEF Known
<1>6. \A r, t : Asks(next, r, t) <=> TheRecord = r /\ TheTarget = t
  BY DEF Asks, TheRecord, TheTarget
<1>7. \A r \in Record, t \in Known : Asks(next, r, t) => Wanted
  <2>1. \A t \in Known : t \in Target  BY TargetAssumption DEF Known
  <2> QED  BY <1>6, <2>1, NameAssumption DEF Wanted
<1>8. updates' \in Seq(Updates)  BY <1>1, <1>2
<1>9. ASSUME NEW r \in Record, NEW t \in Known'
      PROVE  Cardinality(Giving(updates', Len(updates'), r, t))
               = Cardinality({i \in 1 .. next' - 1 : Asks(i, r, t)})
  <2>1. Cardinality(Giving(updates, Len(updates), r, t))
          = Cardinality({i \in 1 .. next - 1 : Asks(i, r, t)})
    BY <1>5 DEF Prepared
  <2>2. {i \in 1 .. next' - 1 : Asks(i, r, t)} = {i \in 1 .. next : Asks(i, r, t)}
    BY <1>3
  <2>3. Cardinality({i \in 1 .. next : Asks(i, r, t)})
          = IF Asks(next, r, t) THEN Cardinality({i \in 1 .. next - 1 : Asks(i, r, t)}) + 1
                                ELSE Cardinality({i \in 1 .. next - 1 : Asks(i, r, t)})
    BY OneMoreRow
  <2>4. CASE Wanted /\ updates' = Append(updates, u)
    <3>1. Cardinality(Giving(updates', Len(updates'), r, t))
            = IF u.rec = r /\ u.val = t
              THEN Cardinality(Giving(updates, Len(updates), r, t)) + 1
              ELSE Cardinality(Giving(updates, Len(updates), r, t))
      <4>1. u \in Updates  BY <1>2, <2>4
      <4> HIDE DEF u
      <4> QED  BY <1>1, <2>4, <4>1, OneMoreUpdate
    <3>2. u.rec = r /\ u.val = t <=> Asks(next, r, t)  BY <1>6
    <3> QED  BY <2>1, <2>2, <2>3, <3>1, <3>2
  <2>5. CASE updates' = updates /\ (Wanted => TheTarget \notin Known')
    <3>1. ~Asks(next, r, t)  BY <1>5, <1>6, <1>7, <2>5
    <3> QED  BY <2>1, <2>2, <2>3, <2>5, <3>1
  <2> QED  BY <2>4, <2>5
<1>10. ASSUME NEW k \in 1 .. Len(updates')
       PROVE  \E i \in Row : Asks(i, updates'[k].rec, updates'[k].val)
  <2>1. ASSUME NEW j \in 1 .. Len(updates)
        PROVE  \E i \in Row : Asks(i, updates[j].rec, updates[j].val)
    BY DEF Prepared
  <2>2. CASE updates' = updates  BY <2>1, <2>2
  <2>3. CASE Wanted /\ updates' = Append(updates, u)
    <3>1. u \in Updates  BY <1>2, <2>3
    <3>2. Asks(next, u.rec, u.val)  BY <1>6
    <3> HIDE DEF u
    <3>3. k \in 1 .. Len(updates) \/ (k = Len(updates) + 1 /\ updates'[k] = u)
      BY <1>1, <2>3, <3>1
    <3>4. k \in 1 .. Len(updates) => updates'[k] = updates[k]  BY <1>1, <2>3, <3>1
    <3> QED  BY <2>1, <3>2, <3>3, <3>4
  <2> QED  BY <2>2, <2>3
<1>11. ASSUME NEW r \in Record, NEW t \in Known'
       PROVE  Cardinality(Giving(updates', Len(updates'), r, t))
                = Cardinality({i \in 1 .. next' - 1 : source'.rec[i] = r /\ source'.target[i] = t})
  <2>1. {i \in 1 .. next' - 1 : Asks(i, r, t)}
          = {i \in 1 .. next' - 1 : source'.rec[i] = r /\ source'.target[i] = t}
    BY <1>4
  <2> QED  BY <1>9, <2>1
<1>12. ASSUME NEW k \in 1 .. Len(updates')
       PROVE  \E i \in Row : source'.rec[i] = updates'[k].rec /\ source'.target[i] = updates'[k].val
  BY <1>4, <1>10
<1>13. Prepared'  BY <1>11, <1>12 DEF Prepared, Asks
<1> QED  BY <1>3, <1>8, <1>13

-----------------------------------------------------------------------------
(* Steps that leave the workers and the server alone.                      *)
LEMMA WritesSame ==
    ASSUME WriteInv, batches' = batches, work' = work, link' = link, late' = late,
           unanswered' = unanswered
    PROVE  WriteInv'
<1>1. \A b, w : Passed(b, w)' <=> Passed(b, w)  BY DEF Passed
<1>2. \A w : /\ Undisputed(w)' <=> Undisputed(w)
             /\ Single(w)' <=> Single(w)
  BY DEF Undisputed, Single
<1>3. InBounds'  BY DEF WriteInv, InBounds
<1>4. LateOnes'
  <2>1. LateOnes  BY DEF WriteInv
  <2> QED  BY <2>1 DEF LateOnes, FromBatches
<1>5. WrittenOrFailed'
  <2>1. WrittenOrFailed  BY DEF WriteInv
  <2> QED  BY <1>1, <1>2, <2>1 DEF WrittenOrFailed
<1>6. Explained'
  <2>1. Explained  BY DEF WriteInv
  <2> QED  BY <2>1 DEF Explained, Passed
<1>7. FailedRight'
  <2>1. FailedRight  BY DEF WriteInv
  <2> QED  BY <1>1, <1>2, <2>1 DEF FailedRight
<1> QED  BY <1>3, <1>4, <1>5, <1>6, <1>7 DEF WriteInv

LEMMA CollectedSame ==
    ASSUME Collected, batches' = batches, work' = work, collected' = collected, failed' = failed
    PROVE  Collected'
  BY DEF Collected, Busy

Jobs == [at : Nat \ {0}, tries : 0 .. MaxRetries, failed : SUBSET Writes]

(* A worker goes on to the next operation of its super-batch.              *)
LEMMA GoesOn ==
    ASSUME TypeOK, InBounds, NEW b \in DOMAIN batches, Busy(b), NEW lost \in SUBSET Writes,
           Advance(b, lost), batches' = batches
    PROVE  /\ work' \in Seq(Jobs) /\ InBounds'
           /\ \A c \in DOMAIN batches :
                 /\ work'[c].failed = IF c = b THEN work[b].failed \cup lost ELSE work[c].failed
                 /\ work'[c].at = IF c = b THEN work[b].at + 1 ELSE work[c].at
           /\ \A c \in DOMAIN batches : \A w :
                 Passed(c, w)' <=> Passed(c, w) \/ (c = b /\ w \in Pairs(Operation(b)))
<1> DEFINE n == Len(work)
           new == [at |-> work[b].at + 1, tries |-> 0, failed |-> work[b].failed \cup lost]
<1>1. /\ work \in Seq(Jobs) /\ n \in Nat /\ DOMAIN batches = 1 .. n
      /\ work \in [1 .. n -> Jobs]
  <2>1. work \in Seq(Jobs)  BY DEF TypeOK, Jobs
  <2>2. DOMAIN batches = DOMAIN work  BY DEF InBounds
  <2> QED  BY <2>1, <2>2
<1> HIDE DEF n
<1>2. work[b].at \in Nat \ {0} /\ work[b].failed \in SUBSET Writes  BY <1>1 DEF Jobs
<1>3. new \in Jobs  BY <1>2, BoundAssumption DEF Jobs
<1>4. work' = [work EXCEPT ![b] = new]  BY DEF Advance
<1>5. /\ new.at = work[b].at + 1 /\ new.failed = work[b].failed \cup lost  OBVIOUS
<1> HIDE DEF new
<1>6. work' \in [1 .. n -> Jobs]  BY <1>1, <1>3, <1>4
<1>7. work' \in Seq(Jobs)  BY <1>1, <1>6
<1>8. \A c \in DOMAIN batches : work'[c] = IF c = b THEN new ELSE work[c]  BY <1>1, <1>4
<1>9. ASSUME NEW c \in DOMAIN batches
      PROVE  /\ work'[c].failed = IF c = b THEN work[b].failed \cup lost ELSE work[c].failed
             /\ work'[c].at = IF c = b THEN work[b].at + 1 ELSE work[c].at
  BY <1>5, <1>8
<1>10. InBounds'
  <2>1. DOMAIN work' = DOMAIN batches  BY <1>1, <1>6
  <2>2. ASSUME NEW c \in DOMAIN batches PROVE work'[c].at <= Len(batches[c]) + 1
    <3>1. work[b].at <= Len(batches[b]) /\ Len(batches[b]) \in Nat  BY OpsTyped DEF Busy
    <3>2. work[c].at <= Len(batches[c]) + 1  BY DEF InBounds
    <3>3. c = b => work[b].at + 1 <= Len(batches[b]) + 1  BY <1>2, <3>1
    <3> QED  BY <1>9, <3>2, <3>3
  <2> QED  BY <2>1, <2>2 DEF InBounds
<1>11. ASSUME NEW c \in DOMAIN batches, NEW w
       PROVE  Passed(c, w)' <=> Passed(c, w) \/ (c = b /\ w \in Pairs(Operation(b)))
  <2>1. Passed(c, w)' <=> \E o \in DOMAIN batches[c] : o < work'[c].at /\ w \in Pairs(batches[c][o])
    BY DEF Passed
  <2>2. CASE c # b  BY <1>9, <2>1, <2>2 DEF Passed
  <2>3. CASE c = b
    <3>1. DOMAIN batches[b] = 1 .. Len(batches[b]) /\ Len(batches[b]) \in Nat  BY OpsTyped
    <3>2. work[b].at \in DOMAIN batches[b]  BY <1>2, <3>1 DEF Busy
    <3>3. \A o \in DOMAIN batches[b] : o < work[b].at + 1 <=> o < work[b].at \/ o = work[b].at
      BY <1>2, <3>1
    <3> QED  BY <1>9, <2>1, <2>3, <3>2, <3>3 DEF Passed, Operation
  <2> QED  BY <2>2, <2>3
<1> QED  BY <1>7, <1>9, <1>10, <1>11

(* It tries again.                                                         *)
LEMMA TriesAgain ==
    ASSUME TypeOK, InBounds, NEW b \in DOMAIN batches, ~GivenUp(b),
           work' = [work EXCEPT ![b].tries = Tries(b)], batches' = batches
    PROVE  /\ work' \in Seq(Jobs) /\ InBounds'
           /\ \A c \in DOMAIN batches : work'[c].failed = work[c].failed
           /\ \A c \in DOMAIN batches : \A w : Passed(c, w)' <=> Passed(c, w)
<1> DEFINE n == Len(work)
           new == [work[b] EXCEPT !.tries = Tries(b)]
<1>1. /\ work \in Seq(Jobs) /\ n \in Nat /\ DOMAIN batches = 1 .. n
      /\ work \in [1 .. n -> Jobs]
  <2>1. work \in Seq(Jobs)  BY DEF TypeOK, Jobs
  <2>2. DOMAIN batches = DOMAIN work  BY DEF InBounds
  <2> QED  BY <2>1, <2>2
<1> HIDE DEF n
<1>2. /\ work[b].at \in Nat \ {0} /\ work[b].failed \in SUBSET Writes
      /\ work[b].tries \in 0 .. MaxRetries /\ work[b] \in Jobs
  BY <1>1 DEF Jobs
<1>3. Tries(b) \in 0 .. MaxRetries  BY <1>2, BoundAssumption DEF Tries, GivenUp
<1>4. new \in Jobs /\ new.at = work[b].at /\ new.failed = work[b].failed
  BY <1>2, <1>3 DEF Jobs
<1>5. work' = [work EXCEPT ![b] = new]  OBVIOUS
<1> HIDE DEF new
<1>6. work' \in [1 .. n -> Jobs]  BY <1>1, <1>4, <1>5
<1>7. work' \in Seq(Jobs)  BY <1>1, <1>6
<1>8. \A c \in DOMAIN batches : work'[c] = IF c = b THEN new ELSE work[c]  BY <1>1, <1>5
<1>9. \A c \in DOMAIN batches : work'[c].at = work[c].at /\ work'[c].failed = work[c].failed
  BY <1>4, <1>8
<1>10. InBounds'
  <2>1. DOMAIN work' = DOMAIN batches  BY <1>1, <1>6
  <2> QED  BY <1>9, <2>1 DEF InBounds
<1> QED  BY <1>7, <1>9, <1>10 DEF Passed

-----------------------------------------------------------------------------
(* What an operation carried out does to the values of the records.        *)
LEMMA CarriedOut ==
    ASSUME TypeOK, NEW op, FromBatches(op), link' = Applied(op)
    PROVE  /\ op \in WriteOps /\ link' \in [Record -> Target \cup {NoTarget}]
           /\ \A w \in Writes :
                 /\ w \in Pairs(op) => link'[w[1]] = w[2]
                 /\ Undisputed(w) /\ link[w[1]] = w[2] => link'[w[1]] = w[2]
                 /\ link'[w[1]] = w[2] => link[w[1]] = w[2] \/ w \in Pairs(op)
           /\ \A r \in Record : <<r, link'[r]>> \in Pairs(op) \/ link'[r] = link[r]
<1>1. PICK b \in DOMAIN batches : \E o \in DOMAIN batches[b] : op = batches[b][o]
  BY DEF FromBatches
<1>2. PICK o \in DOMAIN batches[b] : op = batches[b][o]  BY <1>1
<1>3. op \in WriteOps  BY <1>2, OpsTyped
<1>4. link \in [Record -> Target \cup {NoTarget}]  BY DEF TypeOK
<1>5. /\ link' \in [Record -> Target \cup {NoTarget}]
      /\ \A r \in Record : link'[r] = IF r \in ToSet(op.recs) THEN op.val ELSE link[r]
  BY <1>3, <1>4, AppliedIs
<1>6. \A w \in Writes : w[1] \in Record  BY DEF Writes
<1>7. ASSUME NEW w \in Writes
      PROVE  /\ w \in Pairs(op) => link'[w[1]] = w[2]
             /\ Undisputed(w) /\ link[w[1]] = w[2] => link'[w[1]] = w[2]
             /\ link'[w[1]] = w[2] => link[w[1]] = w[2] \/ w \in Pairs(op)
  <2>1. w \in Pairs(op) <=> w[1] \in ToSet(op.recs) /\ w[2] = op.val  BY <1>3, PairsOf
  <2>2. link'[w[1]] = IF w[1] \in ToSet(op.recs) THEN op.val ELSE link[w[1]]
    BY <1>5, <1>6
  <2>3. Undisputed(w) /\ w[1] \in ToSet(op.recs) => op.val = w[2]
    BY <1>2 DEF Undisputed
  <2> QED  BY <2>1, <2>2, <2>3
<1>8. ASSUME NEW r \in Record PROVE <<r, link'[r]>> \in Pairs(op) \/ link'[r] = link[r]
  BY <1>3, <1>5, PairsOf
<1> QED  BY <1>3, <1>5, <1>7, <1>8

(* The operation a worker is at is one of its super-batch.                 *)
LEMMA AtOperation ==
    ASSUME TypeOK, InBounds, NEW b \in DOMAIN batches, Busy(b)
    PROVE  /\ work[b].at \in DOMAIN batches[b] /\ Operation(b) = batches[b][work[b].at]
           /\ FromBatches(Operation(b)) /\ Operation(b) \in WriteOps
           /\ Pairs(Operation(b)) \subseteq Writes
<1>1. /\ DOMAIN batches[b] = 1 .. Len(batches[b]) /\ Len(batches[b]) \in Nat
      /\ \A o \in DOMAIN batches[b] : batches[b][o] \in WriteOps
  BY OpsTyped
<1>2. work \in Seq(Jobs) /\ DOMAIN work = DOMAIN batches  BY DEF TypeOK, Jobs, InBounds
<1>3. work[b].at \in Nat \ {0}
  <2>1. work[b] \in Jobs  BY <1>2
  <2> QED  BY <2>1 DEF Jobs
<1>4. work[b].at \in DOMAIN batches[b]  BY <1>1, <1>3 DEF Busy
<1>5. Operation(b) = batches[b][work[b].at]  BY DEF Operation
<1>6. Operation(b) \in WriteOps  BY <1>1, <1>4, <1>5
<1> QED  BY <1>4, <1>5, <1>6, PairsOf DEF FromBatches

(* One operation at most has written what a single one writes.             *)
LEMMA NotPassedYet ==
    ASSUME TypeOK, InBounds, NEW b \in DOMAIN batches, Busy(b), NEW w \in Pairs(Operation(b)),
           Single(w), NEW c \in DOMAIN batches, Passed(c, w)
    PROVE  FALSE
<1>1. work[b].at \in DOMAIN batches[b] /\ Operation(b) = batches[b][work[b].at]
  BY AtOperation
<1>2. PICK o \in DOMAIN batches[c] : o < work[c].at /\ w \in Pairs(batches[c][o])
  BY DEF Passed
<1>3. b = c /\ work[b].at = o  BY <1>1, <1>2 DEF Single
<1>4. work[b].at \in Nat  BY <1>1, OpsTyped
<1> QED  BY <1>2, <1>3, <1>4

LEMMA ExplainedWrites ==
    ASSUME Explained, NEW w \in Writes, link[w[1]] = w[2]
    PROVE  w \in unanswered \/ \E b \in DOMAIN batches : Passed(b, w)
<1>1. w = <<w[1], w[2]>> /\ w[1] \in Record /\ w[2] \in Target  BY DEF Writes
<1>2. w[2] # NoTarget  BY <1>1, NameAssumption
<1>3. w = <<w[1], link[w[1]]>>  BY <1>1
<1> QED  BY <1>1, <1>2, <1>3 DEF Explained

LEMMA FailedTyped ==
    ASSUME TypeOK, InBounds
    PROVE  \A b \in DOMAIN batches : work[b].failed \subseteq Writes
<1>1. work \in Seq(Jobs) /\ DOMAIN work = DOMAIN batches  BY DEF TypeOK, Jobs, InBounds
<1>2. \A b \in DOMAIN batches : work[b] \in Jobs  BY <1>1
<1> QED  BY <1>2 DEF Jobs
-----------------------------------------------------------------------------
(* A write that is carried out.                                            *)
LEMMA WriteStep ==
    ASSUME TypeOK, WriteInv, NEW b \in DOMAIN batches, Write(b)
    PROVE  WriteInv' /\ work' \in Seq(Jobs) /\ link' \in [Record -> Target \cup {NoTarget}]
<1> DEFINE op == Operation(b)
<1>1. InBounds /\ LateOnes /\ WrittenOrFailed /\ Explained /\ FailedRight  BY DEF WriteInv
<1>2. /\ Busy(b) /\ link' = Applied(op) /\ Advance(b, {}) /\ batches' = batches
      /\ late' = late /\ unanswered' = unanswered
  BY DEF Write, Runs
<1>3. FromBatches(op) /\ op \in WriteOps /\ Pairs(op) \subseteq Writes
  BY <1>1, <1>2, AtOperation
<1>4. /\ work' \in Seq(Jobs) /\ InBounds'
      /\ \A c \in DOMAIN batches :
            work'[c].failed = IF c = b THEN work[b].failed \cup {} ELSE work[c].failed
      /\ \A c \in DOMAIN batches : \A w :
            Passed(c, w)' <=> Passed(c, w) \/ (c = b /\ w \in Pairs(op))
  <2>1. {} \in SUBSET Writes  OBVIOUS
  <2> QED  BY <1>1, <1>2, <2>1, GoesOn
<1>5. \A c \in DOMAIN batches : work'[c].failed = work[c].failed  BY <1>4
<1>6. /\ link' \in [Record -> Target \cup {NoTarget}]
      /\ \A w \in Writes :
            /\ w \in Pairs(op) => link'[w[1]] = w[2]
            /\ Undisputed(w) /\ link[w[1]] = w[2] => link'[w[1]] = w[2]
            /\ link'[w[1]] = w[2] => link[w[1]] = w[2] \/ w \in Pairs(op)
      /\ \A r \in Record : <<r, link'[r]>> \in Pairs(op) \/ link'[r] = link[r]
  BY <1>2, <1>3, CarriedOut
<1>7. \A w : (Undisputed(w)' <=> Undisputed(w)) /\ (Single(w)' <=> Single(w))
  BY <1>2 DEF Undisputed, Single
<1>8. \A c \in DOMAIN batches : work[c].failed \subseteq Writes  BY <1>1, FailedTyped
<1>9. LateOnes'  BY <1>1, <1>2 DEF LateOnes, FromBatches
<1> HIDE DEF op
<1>10. WrittenOrFailed'
  <2>1. ASSUME NEW c \in DOMAIN batches, NEW w \in Writes, Passed(c, w)'
        PROVE  w \in work'[c].failed \/ (Undisputed(w) => link'[w[1]] = w[2])
    <3>1. CASE Passed(c, w)
      <4>1. w \in work[c].failed \/ (Undisputed(w) => link[w[1]] = w[2])
        BY <1>1, <3>1 DEF WrittenOrFailed
      <4> QED  BY <1>5, <1>6, <4>1
    <3>2. CASE w \in Pairs(op)  BY <1>6, <3>2
    <3> QED  BY <1>4, <2>1, <3>1, <3>2
  <2> QED  BY <1>2, <1>7, <2>1 DEF WrittenOrFailed
<1>11. Explained'
  <2> DEFINE After(c, w) == Passed(c, w) \/ (c = b /\ w \in Pairs(op))
  <2>1. ASSUME NEW r \in Record, NEW t, t = link'[r], t # NoTarget
        PROVE  <<r, t>> \in unanswered \/ \E c \in DOMAIN batches : After(c, <<r, t>>)
    <3>1. CASE <<r, t>> \in Pairs(op)  BY <3>1
    <3>2. CASE t = link[r]  BY <1>1, <2>1, <3>2 DEF Explained
    <3> QED  BY <1>6, <2>1, <3>1, <3>2
  <2>2. \A c \in DOMAIN batches : \A w :
           After(c, w) => \E o \in DOMAIN batches[c] : o < work'[c].at /\ w \in Pairs(batches[c][o])
    BY <1>2, <1>4 DEF Passed
  <2> HIDE DEF After
  <2> QED  BY <1>2, <2>1, <2>2 DEF Explained, Passed
<1>12. FailedRight'
  <2>1. ASSUME NEW c \in DOMAIN batches, NEW w \in work[c].failed
        PROVE  Passed(c, w)' /\ (Single(w) /\ link'[w[1]] = w[2] => w \in unanswered)
    <3>1. Passed(c, w) /\ (Single(w) /\ link[w[1]] = w[2] => w \in unanswered)
      BY <1>1 DEF FailedRight
    <3>2. w \in Writes  BY <1>8
    <3>3. Single(w) => w \notin Pairs(op)  BY <1>1, <1>2, <3>1, NotPassedYet DEF op
    <3> QED  BY <1>4, <1>6, <3>1, <3>2, <3>3
  <2> QED  BY <1>2, <1>5, <1>7, <2>1 DEF FailedRight
<1> QED  BY <1>4, <1>6, <1>9, <1>10, <1>11, <1>12 DEF WriteInv

(* A write the server refuses.                                             *)
LEMMA RefuseStep ==
    ASSUME TypeOK, WriteInv, NEW b \in DOMAIN batches, Refuse(b)
    PROVE  WriteInv' /\ work' \in Seq(Jobs)
<1> DEFINE op == Operation(b)
<1>1. InBounds /\ LateOnes /\ WrittenOrFailed /\ Explained /\ FailedRight  BY DEF WriteInv
<1>2. /\ Busy(b) /\ link' = link /\ Advance(b, Pairs(op)) /\ batches' = batches
      /\ late' = late /\ unanswered' = unanswered
  BY DEF Refuse, Runs, LostPairs, server
<1>3. FromBatches(op) /\ op \in WriteOps /\ Pairs(op) \subseteq Writes
  BY <1>1, <1>2, AtOperation
<1>4. /\ work' \in Seq(Jobs) /\ InBounds'
      /\ \A c \in DOMAIN batches :
            work'[c].failed = IF c = b THEN work[b].failed \cup Pairs(op) ELSE work[c].failed
      /\ \A c \in DOMAIN batches : \A w :
            Passed(c, w)' <=> Passed(c, w) \/ (c = b /\ w \in Pairs(op))
  BY <1>1, <1>2, <1>3, GoesOn
<1>5. \A w : (Undisputed(w)' <=> Undisputed(w)) /\ (Single(w)' <=> Single(w))
  BY <1>2 DEF Undisputed, Single
<1>6. \A c \in DOMAIN batches : work[c].failed \subseteq Writes  BY <1>1, FailedTyped
<1>7. LateOnes'  BY <1>1, <1>2 DEF LateOnes, FromBatches
<1> HIDE DEF op
<1>8. WrittenOrFailed'
  <2>1. ASSUME NEW c \in DOMAIN batches, NEW w \in Writes, Passed(c, w)'
        PROVE  w \in work'[c].failed \/ (Undisputed(w) => link[w[1]] = w[2])
    <3>1. CASE Passed(c, w)  BY <1>1, <1>4, <3>1 DEF WrittenOrFailed
    <3>2. CASE c = b /\ w \in Pairs(op)  BY <1>4, <3>2
    <3> QED  BY <1>4, <2>1, <3>1, <3>2
  <2> QED  BY <1>2, <1>5, <2>1 DEF WrittenOrFailed
<1>9. Explained'
  <2>1. \A c \in DOMAIN batches : \A w :
           Passed(c, w) => \E o \in DOMAIN batches[c] : o < work'[c].at /\ w \in Pairs(batches[c][o])
    BY <1>2, <1>4 DEF Passed
  <2>2. \A r \in Record : link[r] # NoTarget =>
           \/ <<r, link[r]>> \in unanswered
           \/ \E c \in DOMAIN batches : Passed(c, <<r, link[r]>>)
    BY <1>1 DEF Explained
  <2> QED  BY <1>2, <2>1, <2>2 DEF Explained, Passed
<1>10. FailedRight'
  <2>1. ASSUME NEW c \in DOMAIN batches, NEW w \in work'[c].failed
        PROVE  Passed(c, w)' /\ (Single(w) /\ link[w[1]] = w[2] => w \in unanswered)
    <3>1. CASE w \in work[c].failed  BY <1>1, <1>4, <3>1 DEF FailedRight
    <3>2. CASE c = b /\ w \in Pairs(op)
      <4>1. w \in Writes  BY <1>3, <3>2
      <4>2. ASSUME Single(w), link[w[1]] = w[2] PROVE w \in unanswered
        <5>1. w \in unanswered \/ \E d \in DOMAIN batches : Passed(d, w)
          BY <1>1, <4>1, <4>2, ExplainedWrites
        <5> QED  BY <1>1, <1>2, <3>2, <4>2, <5>1, NotPassedYet DEF op
      <4> QED  BY <1>4, <3>2, <4>2
    <3> QED  BY <1>4, <2>1, <3>1, <3>2
  <2> QED  BY <1>2, <1>5, <2>1 DEF FailedRight
<1> QED  BY <1>4, <1>7, <1>8, <1>9, <1>10 DEF WriteInv

(* A write that times out, carried out or not, repeated or given up.       *)
LEMMA NoReplyStep ==
    ASSUME TypeOK, WriteInv, NEW b \in DOMAIN batches,
           NEW again \in BOOLEAN, NoReply(b, again), again => ~GivenUp(b)
    PROVE  /\ WriteInv' /\ work' \in Seq(Jobs) /\ link' \in [Record -> Target \cup {NoTarget}]
           /\ late' \subseteq WriteOps /\ unanswered' \subseteq Writes
<1> DEFINE op == Operation(b)
           Moved(c, w) == ~again /\ c = b /\ w \in Pairs(op)
<1>1. InBounds /\ LateOnes /\ WrittenOrFailed /\ Explained /\ FailedRight  BY DEF WriteInv
<1>2. /\ Busy(b) /\ batches' = batches /\ unanswered' = unanswered \cup Pairs(op)
      /\ \/ link' = Applied(op) /\ late' = late
         \/ late' = late \cup {op} /\ link' = link
      /\ IF again THEN work' = [work EXCEPT ![b].tries = Tries(b)]
                  ELSE Advance(b, Pairs(op))
  BY DEF NoReply, Runs, LostPairs
<1>3. FromBatches(op) /\ op \in WriteOps /\ Pairs(op) \subseteq Writes
  BY <1>1, <1>2, AtOperation
<1> HIDE DEF op
<1>4. /\ work' \in Seq(Jobs) /\ InBounds'
      /\ \A c \in DOMAIN batches : \A w :
            /\ w \in work'[c].failed <=> w \in work[c].failed \/ Moved(c, w)
            /\ Passed(c, w)' <=> Passed(c, w) \/ Moved(c, w)
  <2>1. CASE ~again
    <3>1. Advance(b, Pairs(op))  BY <1>2, <2>1
    <3>2. /\ work' \in Seq(Jobs) /\ InBounds'
          /\ \A c \in DOMAIN batches :
                work'[c].failed = IF c = b THEN work[b].failed \cup Pairs(op) ELSE work[c].failed
          /\ \A c \in DOMAIN batches : \A w :
                Passed(c, w)' <=> Passed(c, w) \/ (c = b /\ w \in Pairs(op))
      BY <1>1, <1>2, <1>3, <3>1, GoesOn DEF op
    <3> QED  BY <2>1, <3>2
  <2>2. CASE again
    <3>1. work' = [work EXCEPT ![b].tries = Tries(b)]  BY <1>2, <2>2
    <3>2. /\ work' \in Seq(Jobs) /\ InBounds'
          /\ \A c \in DOMAIN batches : work'[c].failed = work[c].failed
          /\ \A c \in DOMAIN batches : \A w : Passed(c, w)' <=> Passed(c, w)
      BY <1>1, <1>2, <2>2, <3>1, TriesAgain
    <3> QED  BY <2>2, <3>2
  <2> QED  BY <2>1, <2>2
<1> HIDE DEF Moved
<1>5. /\ link' \in [Record -> Target \cup {NoTarget}]
      /\ \A w \in Writes :
            /\ Undisputed(w) /\ link[w[1]] = w[2] => link'[w[1]] = w[2]
            /\ link'[w[1]] = w[2] => link[w[1]] = w[2] \/ w \in Pairs(op)
      /\ \A r \in Record : <<r, link'[r]>> \in Pairs(op) \/ link'[r] = link[r]
  <2>1. CASE link' = Applied(op)  BY <1>3, <2>1, CarriedOut
  <2>2. CASE link' = link
    <3>1. link \in [Record -> Target \cup {NoTarget}]  BY DEF TypeOK
    <3> QED  BY <2>2, <3>1
  <2> QED  BY <1>2, <2>1, <2>2
<1>6. \A w : (Undisputed(w)' <=> Undisputed(w)) /\ (Single(w)' <=> Single(w))
  BY <1>2 DEF Undisputed, Single
<1>7. \A c \in DOMAIN batches : work[c].failed \subseteq Writes  BY <1>1, FailedTyped
<1>8. \A c, w : Moved(c, w) => w \in Pairs(op)  BY DEF Moved
<1>9. LateOnes'
  <2>1. ASSUME NEW o \in late' PROVE FromBatches(o) /\ Pairs(o) \subseteq unanswered'
    BY <1>1, <1>2, <1>3, <2>1 DEF LateOnes
  <2>2. ASSUME NEW w \in unanswered'
        PROVE  \E c \in DOMAIN batches : \E o \in DOMAIN batches[c] : w \in Pairs(batches[c][o])
    <3>1. CASE w \in unanswered  BY <1>1, <3>1 DEF LateOnes
    <3>2. CASE w \in Pairs(op)  BY <1>3, <3>2 DEF FromBatches
    <3> QED  BY <1>2, <2>2, <3>1, <3>2
  <2> QED  BY <1>2, <2>1, <2>2 DEF LateOnes, FromBatches
<1>10. WrittenOrFailed'
  <2>1. ASSUME NEW c \in DOMAIN batches, NEW w \in Writes, Passed(c, w)'
        PROVE  w \in work'[c].failed \/ (Undisputed(w) => link'[w[1]] = w[2])
    <3>1. CASE Passed(c, w)
      <4>1. w \in work[c].failed \/ (Undisputed(w) => link[w[1]] = w[2])
        BY <1>1, <3>1 DEF WrittenOrFailed
      <4> QED  BY <1>4, <1>5, <4>1
    <3>2. CASE Moved(c, w)  BY <1>4, <3>2
    <3> QED  BY <1>4, <2>1, <3>1, <3>2
  <2> QED  BY <1>2, <1>6, <2>1 DEF WrittenOrFailed
<1>11. Explained'
  <2>1. ASSUME NEW r \in Record, NEW t, t = link'[r], t # NoTarget
        PROVE  <<r, t>> \in unanswered' \/ \E c \in DOMAIN batches : Passed(c, <<r, t>>)
    <3>1. CASE <<r, t>> \in Pairs(op)  BY <1>2, <3>1
    <3>2. CASE t = link[r]  BY <1>1, <1>2, <2>1, <3>2 DEF Explained
    <3> QED  BY <1>5, <2>1, <3>1, <3>2
  <2>2. \A c \in DOMAIN batches : \A w :
           Passed(c, w) => \E o \in DOMAIN batches[c] : o < work'[c].at /\ w \in Pairs(batches[c][o])
    BY <1>2, <1>4 DEF Passed
  <2> QED  BY <1>2, <2>1, <2>2 DEF Explained, Passed
<1>12. FailedRight'
  <2>1. ASSUME NEW c \in DOMAIN batches, NEW w \in work'[c].failed
        PROVE  Passed(c, w)' /\ (Single(w) /\ link'[w[1]] = w[2] => w \in unanswered')
    <3>1. CASE w \in work[c].failed
      <4>1. Passed(c, w) /\ (Single(w) /\ link[w[1]] = w[2] => w \in unanswered)
        BY <1>1, <3>1 DEF FailedRight
      <4>2. w \in Writes  BY <1>7, <3>1
      <4> QED  BY <1>2, <1>4, <1>5, <4>1, <4>2
    <3>2. CASE Moved(c, w)  BY <1>2, <1>4, <1>8, <3>2
    <3> QED  BY <1>4, <2>1, <3>1, <3>2
  <2> QED  BY <1>2, <1>6, <2>1 DEF FailedRight
<1>13. late' \subseteq WriteOps /\ unanswered' \subseteq Writes
  <2>1. late \subseteq WriteOps /\ unanswered \subseteq Writes  BY DEF TypeOK
  <2> QED  BY <1>2, <1>3, <2>1
<1> QED  BY <1>4, <1>5, <1>9, <1>10, <1>11, <1>12, <1>13 DEF WriteInv

(* A request given up on that is carried out after all.                    *)
LEMMA LateStep ==
    ASSUME TypeOK, WriteInv, NEW op \in late, LateWrite(op)
    PROVE  WriteInv' /\ link' \in [Record -> Target \cup {NoTarget}] /\ late' \subseteq WriteOps
<1>1. InBounds /\ LateOnes /\ WrittenOrFailed /\ Explained /\ FailedRight  BY DEF WriteInv
<1>2. /\ batches' = batches /\ work' = work /\ unanswered' = unanswered
      /\ link' = Applied(op) /\ late' = late \ {op}
  BY DEF LateWrite, writing
<1>3. FromBatches(op) /\ Pairs(op) \subseteq unanswered  BY <1>1 DEF LateOnes
<1>4. /\ op \in WriteOps /\ link' \in [Record -> Target \cup {NoTarget}]
      /\ \A w \in Writes :
            /\ Undisputed(w) /\ link[w[1]] = w[2] => link'[w[1]] = w[2]
            /\ link'[w[1]] = w[2] => link[w[1]] = w[2] \/ w \in Pairs(op)
      /\ \A r \in Record : <<r, link'[r]>> \in Pairs(op) \/ link'[r] = link[r]
  BY <1>2, <1>3, CarriedOut
<1>5. \A w : (Undisputed(w)' <=> Undisputed(w)) /\ (Single(w)' <=> Single(w))
  BY <1>2 DEF Undisputed, Single
<1>6. \A c, w : Passed(c, w)' <=> Passed(c, w)  BY <1>2 DEF Passed
<1>7. InBounds' /\ LateOnes'
  <2>1. InBounds'  BY <1>1, <1>2 DEF InBounds
  <2>2. LateOnes'  BY <1>1, <1>2 DEF LateOnes, FromBatches
  <2> QED  BY <2>1, <2>2
<1>8. WrittenOrFailed'  BY <1>1, <1>2, <1>4, <1>5, <1>6 DEF WrittenOrFailed
<1>9. Explained'
  <2>1. ASSUME NEW r \in Record, NEW t, t = link'[r], t # NoTarget
        PROVE  <<r, t>> \in unanswered \/ \E c \in DOMAIN batches : Passed(c, <<r, t>>)
    <3>1. CASE <<r, t>> \in Pairs(op)  BY <1>3, <3>1
    <3>2. CASE t = link[r]  BY <1>1, <2>1, <3>2 DEF Explained
    <3> QED  BY <1>4, <2>1, <3>1, <3>2
  <2> QED  BY <1>2, <2>1 DEF Explained, Passed
<1>10. FailedRight'
  <2>1. \A c \in DOMAIN batches : work[c].failed \subseteq Writes  BY <1>1, FailedTyped
  <2> QED  BY <1>1, <1>2, <1>3, <1>4, <1>5, <1>6, <2>1 DEF FailedRight
<1>11. late' \subseteq WriteOps
  <2>1. late \subseteq WriteOps  BY DEF TypeOK
  <2> QED  BY <1>2, <2>1
<1> QED  BY <1>4, <1>7, <1>8, <1>9, <1>10, <1>11 DEF WriteInv

-----------------------------------------------------------------------------
(* Every step keeps the invariant.                                         *)
LEMMA InitRight == Init => RelInv
<1> SUFFICES ASSUME Init PROVE RelInv  OBVIOUS
<1>1. /\ source \in Files /\ pc = "prepare" /\ next = 1
      /\ cache = [t \in Target |-> "unknown"]
      /\ updates = << >> /\ batches = << >> /\ work = << >>
      /\ collected = {} /\ failed = {} /\ failLines = {} /\ success = FALSE
      /\ link = [r \in Record |-> NoTarget] /\ late = {}
      /\ lostLookups = {} /\ unanswered = {}
  BY DEF Init
<1>2. DOMAIN batches = {} /\ DOMAIN work = {} /\ Len(updates) = 0  BY <1>1
<1>3. TypeOK
  <2>1. next \in 1 .. N + 1  BY <1>1, NAssumption
  <2>2. link \in [Record -> Target \cup {NoTarget}]  BY <1>1
  <2>3. cache \in [Target -> {"unknown", "found", "missing"}]  BY <1>1
  <2>4. /\ updates \in Seq([rec : Record, val : Target]) /\ batches \in Seq(Seq(WriteOps))
        /\ work \in Seq([at : Nat \ {0}, tries : 0 .. MaxRetries, failed : SUBSET Writes])
    BY <1>1
  <2> QED  BY <1>1, <2>1, <2>2, <2>3, <2>4 DEF TypeOK
<1>4. Prepared
  <2>1. \A k \in 1 .. 0 : FALSE  OBVIOUS
  <2>2. \A r, t : Giving(updates, Len(updates), r, t) = {}  BY <1>2, <2>1 DEF Giving
  <2>3. \A r, t : {i \in 1 .. next - 1 : Asks(i, r, t)} = {}  BY <1>1, <2>1
  <2>4. \A t \in Target : cache[t] # "missing"  BY <1>1
  <2> QED  BY <1>2, <2>1, <2>2, <2>3, <2>4 DEF Prepared
<1>5. Planned  BY <1>1 DEF Planned
<1>6. WriteInv
  <2>1. InBounds /\ LateOnes  BY <1>1, <1>2 DEF InBounds, LateOnes
  <2>2. WrittenOrFailed /\ FailedRight  BY <1>2 DEF WrittenOrFailed, FailedRight
  <2>3. Explained  BY <1>1 DEF Explained
  <2> QED  BY <2>1, <2>2, <2>3 DEF WriteInv
<1>7. Collected /\ Returned  BY <1>1 DEF Collected, Returned
<1> QED  BY <1>3, <1>4, <1>5, <1>6, <1>7 DEF RelInv

(* Preparing a row.                                                        *)
LEMMA PrepareKeeps ==
    ASSUME RelInv, SkipRow \/ ResolveHere \/ LookUp \/ LoseLookUp
    PROVE  RelInv'
<1>1. TypeOK /\ Prepared /\ Planned /\ WriteInv /\ Collected /\ Returned  BY DEF RelInv
<1> DEFINE u == [rec |-> TheRecord, val |-> TheTarget]
           Took(found) == updates' = IF found THEN Append(updates, u) ELSE updates
<1>2. /\ pc = "prepare" /\ pc' = pc /\ next \in Row /\ next' = next + 1 /\ source' = source
      /\ batches' = batches /\ work' = work /\ collected' = collected /\ failed' = failed
      /\ failLines' = failLines /\ success' = success /\ link' = link /\ late' = late
      /\ unanswered' = unanswered
  BY DEF SkipRow, ResolveHere, LookUp, LoseLookUp, Prepare, writing, ending, server
<1>3. cache \in [Target -> {"unknown", "found", "missing"}] /\ lostLookups \subseteq Target
  BY <1>1 DEF TypeOK
<1>4. \A t \in Target : cache[t] = "missing" => t \notin OnServer \/ t \in lostLookups
  BY <1>1 DEF Prepared
<1>5. Wanted => TheTarget \in Target
  BY <1>1, <1>2, SourceTyped DEF Wanted, TheTarget
<1>6. /\ cache' \in [Target -> {"unknown", "found", "missing"}]
      /\ lostLookups' \subseteq Target /\ lostLookups \subseteq lostLookups'
      /\ \A t \in Target : cache'[t] = "missing" => t \notin OnServer \/ t \in lostLookups'
      /\ \/ Wanted /\ updates' = Append(updates, u)
         \/ updates' = updates /\ (Wanted => TheTarget \notin Known')
  <2>1. CASE SkipRow
    <3>1. ~Wanted /\ Took(FALSE) /\ cache' = cache /\ lostLookups' = lostLookups
      BY <2>1 DEF SkipRow, Prepare
    <3> QED  BY <1>3, <1>4, <3>1
  <2>2. CASE ResolveHere
    <3>1. /\ Wanted /\ (TheTarget \in Imported \/ cache[TheTarget] # "unknown")
          /\ Took(TheTarget \in Imported \/ cache[TheTarget] = "found")
          /\ cache' = cache /\ lostLookups' = lostLookups
      BY <2>2 DEF ResolveHere, Prepare
    <3>2. CASE TheTarget \in Imported \/ cache[TheTarget] = "found"
      BY <1>3, <1>4, <3>1, <3>2
    <3>3. CASE ~(TheTarget \in Imported \/ cache[TheTarget] = "found")
      <4>1. cache[TheTarget] = "missing" /\ TheTarget \notin Imported
        BY <1>3, <1>5, <3>1, <3>3
      <4>2. TheTarget \notin Known'  BY <1>4, <1>5, <3>1, <4>1 DEF Known
      <4> QED  BY <1>3, <1>4, <3>1, <3>3, <4>2
    <3> QED  BY <3>2, <3>3
  <2>3. CASE LookUp
    <3>1. /\ Wanted /\ TheTarget \notin Imported
          /\ Took(TheTarget \in OnServer)
          /\ cache' = [cache EXCEPT ![TheTarget] = Verdict(TheTarget \in OnServer)]
          /\ lostLookups' = lostLookups
      BY <2>3 DEF LookUp, Prepare
    <3>2. CASE TheTarget \in OnServer
      <4>1. cache' = [cache EXCEPT ![TheTarget] = "found"]  BY <3>1, <3>2 DEF Verdict
      <4> QED  BY <1>3, <1>4, <1>5, <3>1, <3>2, <4>1
    <3>3. CASE TheTarget \notin OnServer
      <4>1. cache' = [cache EXCEPT ![TheTarget] = "missing"]  BY <3>1, <3>3 DEF Verdict
      <4>2. TheTarget \notin Known'  BY <3>1, <3>3 DEF Known
      <4> QED  BY <1>3, <1>4, <1>5, <3>1, <3>3, <4>1, <4>2
    <3> QED  BY <3>2, <3>3
  <2>4. CASE LoseLookUp
    <3>1. /\ Wanted /\ TheTarget \notin Imported
          /\ Took(FALSE)
          /\ cache' = [cache EXCEPT ![TheTarget] = "missing"]
          /\ lostLookups' = lostLookups \cup {TheTarget}
      BY <2>4 DEF LoseLookUp, Prepare
    <3>2. TheTarget \notin Known'  BY <3>1 DEF Known
    <3> QED  BY <1>3, <1>4, <1>5, <3>1, <3>2
  <2> QED  BY <2>1, <2>2, <2>3, <2>4
<1>7. Prepared' /\ updates' \in Seq(Updates) /\ next' \in 1 .. N + 1
  BY <1>1, <1>2, <1>6, RowTaken
<1>8. TypeOK'
  BY <1>1, <1>2, <1>6, <1>7 DEF TypeOK, Updates
<1>9. Planned'  BY <1>1, <1>2 DEF Planned
<1>10. WriteInv' /\ Collected'  BY <1>1, <1>2, WritesSame, CollectedSame
<1>11. Returned'  BY <1>1, <1>2 DEF Returned
<1> QED  BY <1>7, <1>8, <1>9, <1>10, <1>11 DEF RelInv

(* Handing out the super-batches.                                          *)
LEMMA BatchKeeps ==
    ASSUME RelInv, Batch
    PROVE  RelInv'
<1>1. TypeOK /\ Prepared /\ Planned /\ WriteInv /\ Collected /\ Returned  BY DEF RelInv
<1> DEFINE job == [at |-> 1, tries |-> 0, failed |-> {}]
           sb == SuperBatches(updates)
<1>2. /\ pc = "prepare" /\ next \notin Row /\ batches' = sb /\ pc' = "write"
      /\ work' = [b \in DOMAIN sb |-> job]
      /\ source' = source /\ next' = next /\ cache' = cache /\ updates' = updates
      /\ lostLookups' = lostLookups /\ collected' = collected /\ failed' = failed
      /\ failLines' = failLines /\ success' = success /\ link' = link /\ late' = late
      /\ unanswered' = unanswered
  BY DEF Batch, reading, ending, server
<1>3. /\ batches = << >> /\ late = {} /\ failed = {} /\ unanswered = {}
      /\ \A r \in Record : link[r] = NoTarget
  BY <1>1, <1>2 DEF Planned
<1>4. collected = {}
  <2>1. collected \subseteq DOMAIN batches /\ DOMAIN batches = {}  BY <1>1, <1>3 DEF TypeOK
  <2> QED  BY <2>1
<1>5. next = N + 1
  <2>1. next \in 1 .. N + 1  BY <1>1 DEF TypeOK
  <2> QED  BY <1>2, <2>1, NAssumption DEF Row
<1>6. sb \in Seq(Seq(WriteOps))
  <2>1. updates \in Seq(Updates)  BY <1>1 DEF TypeOK, Updates
  <2> QED  BY <2>1, SuperBatchesHold
<1>7. job \in Jobs /\ job.at = 1 /\ job.failed = {}  BY BoundAssumption DEF Jobs
<1> HIDE DEF job, sb
<1>8. /\ DOMAIN sb = 1 .. Len(sb) /\ Len(sb) \in Nat
      /\ \A b \in DOMAIN sb : DOMAIN sb[b] = 1 .. Len(sb[b]) /\ Len(sb[b]) \in Nat
  <2>1. \A b \in DOMAIN sb : sb[b] \in Seq(WriteOps)  BY <1>6
  <2> QED  BY <1>6, <2>1
<1>9. /\ work' \in Seq(Jobs) /\ DOMAIN work' = DOMAIN batches'
      /\ \A b \in DOMAIN batches' : work'[b].at = 1 /\ work'[b].failed = {}
  BY <1>2, <1>7, <1>8
<1>10. TypeOK'
  <2>1. collected' \subseteq DOMAIN batches'  BY <1>2, <1>4
  <2>2. pc' \in {"prepare", "write", "drain", "done"}  BY <1>2
  <2> QED  BY <1>1, <1>2, <1>6, <1>9, <2>1, <2>2 DEF TypeOK, Jobs
<1>11. Prepared'
  BY <1>1, <1>2 DEF Prepared, Known, Asks
<1>12. Planned'  BY <1>2, <1>5 DEF Planned, sb
<1>13. \A b \in DOMAIN batches' : \A o \in DOMAIN batches'[b] : ~(o < work'[b].at)
  <2>1. \A b \in DOMAIN batches' : \A o \in DOMAIN batches'[b] : o \in 1 .. Len(sb[b])
    BY <1>2, <1>8
  <2> QED  BY <1>2, <1>8, <1>9, <2>1
<1>14. WriteInv'
  <2>1. InBounds'  BY <1>2, <1>8, <1>9 DEF InBounds
  <2>2. LateOnes'  BY <1>2, <1>3 DEF LateOnes
  <2>3. WrittenOrFailed'  BY <1>13 DEF WrittenOrFailed, Passed
  <2>4. Explained'  BY <1>2, <1>3 DEF Explained
  <2>5. FailedRight'  BY <1>9 DEF FailedRight
  <2> QED  BY <2>1, <2>2, <2>3, <2>4, <2>5 DEF WriteInv
<1>15. Collected'  BY <1>2, <1>3, <1>4 DEF Collected
<1>16. Returned'  BY <1>1, <1>2 DEF Returned
<1> QED  BY <1>10, <1>11, <1>12, <1>14, <1>15, <1>16 DEF RelInv

LEMMA PreparedSame ==
    ASSUME Prepared, source' = source, next' = next, cache' = cache, updates' = updates,
           lostLookups' = lostLookups
    PROVE  Prepared'
  BY DEF Prepared, Known, Asks

(* Work of the workers.                                                    *)
LEMMA OthersKept ==
    ASSUME TypeOK, InBounds, NEW b \in DOMAIN batches, Worker(b)
    PROVE  \A c \in DOMAIN batches : /\ c # b => work'[c] = work[c]
                                     /\ work[c].failed \subseteq work'[c].failed
<1>1. work \in Seq(Jobs) /\ DOMAIN work = DOMAIN batches  BY DEF TypeOK, Jobs, InBounds
<1>2. ASSUME NEW lost, Advance(b, lost)
      PROVE  \A c \in DOMAIN batches : /\ c # b => work'[c] = work[c]
                                       /\ work[c].failed \subseteq work'[c].failed
  BY <1>1, <1>2 DEF Advance
<1>3. ASSUME work' = [work EXCEPT ![b].tries = Tries(b)]
      PROVE  \A c \in DOMAIN batches : /\ c # b => work'[c] = work[c]
                                       /\ work[c].failed \subseteq work'[c].failed
  <2>1. work[b] \in Jobs  BY <1>1
  <2>2. [work[b] EXCEPT !.tries = Tries(b)].failed = work[b].failed  BY <2>1 DEF Jobs
  <2>3. work' = [work EXCEPT ![b] = [work[b] EXCEPT !.tries = Tries(b)]]  BY <1>3
  <2> QED  BY <1>1, <2>2, <2>3
<1>4. (\E lost : Advance(b, lost)) \/ work' = [work EXCEPT ![b].tries = Tries(b)]
  BY DEF Worker, Write, Refuse, TimeOut, BreakOff, NoReply
<1> QED  BY <1>2, <1>3, <1>4

LEMMA WorkerKeeps ==
    ASSUME RelInv, NEW b \in DOMAIN batches, Worker(b)
    PROVE  RelInv'
<1>1. TypeOK /\ Prepared /\ Planned /\ WriteInv /\ Collected /\ Returned /\ InBounds
  BY DEF RelInv, WriteInv
<1>2. /\ Busy(b) /\ pc \in {"write", "drain"} /\ pc' = pc /\ source' = source /\ next' = next
      /\ cache' = cache /\ updates' = updates /\ lostLookups' = lostLookups
      /\ batches' = batches /\ collected' = collected /\ failed' = failed
      /\ failLines' = failLines /\ success' = success
  BY DEF Worker, Write, Refuse, TimeOut, BreakOff, NoReply, Runs, reading, ending
<1>3. /\ WriteInv' /\ work' \in Seq(Jobs) /\ link' \in [Record -> Target \cup {NoTarget}]
      /\ late' \subseteq WriteOps /\ unanswered' \subseteq Writes
  <2>1. /\ link \in [Record -> Target \cup {NoTarget}]
        /\ late \subseteq WriteOps /\ unanswered \subseteq Writes
    BY <1>1 DEF TypeOK
  <2>2. CASE Write(b)
    <3>1. late' = late /\ unanswered' = unanswered  BY <2>2 DEF Write
    <3> QED  BY <1>1, <2>1, <2>2, <3>1, WriteStep
  <2>3. CASE Refuse(b)
    <3>1. late' = late /\ unanswered' = unanswered /\ link' = link  BY <2>3 DEF Refuse, server
    <3> QED  BY <1>1, <2>1, <2>3, <3>1, RefuseStep
  <2>4. CASE TimeOut(b)
    <3>1. (~GivenUp(b)) \in BOOLEAN /\ NoReply(b, ~GivenUp(b))
      BY <2>4 DEF TimeOut, GivenUp
    <3> QED  BY <1>1, <3>1, NoReplyStep
  <2>5. CASE BreakOff(b)  BY <1>1, <2>5, NoReplyStep DEF BreakOff
  <2> QED  BY <2>2, <2>3, <2>4, <2>5 DEF Worker
<1>4. TypeOK'  BY <1>1, <1>2, <1>3 DEF TypeOK, Jobs
<1>5. Prepared'  BY <1>1, <1>2, PreparedSame
<1>6. Planned'  BY <1>1, <1>2 DEF Planned
<1>7. Collected'
  <2>1. \A c \in DOMAIN batches : /\ c # b => work'[c] = work[c]
                                  /\ work[c].failed \subseteq work'[c].failed
    BY <1>1, OthersKept
  <2>2. \A c \in collected : c \in DOMAIN batches /\ c # b
    BY <1>1, <1>2 DEF TypeOK, Collected
  <2> QED  BY <1>1, <1>2, <2>1, <2>2 DEF Collected, Busy
<1>8. Returned'  BY <1>1, <1>2 DEF Returned
<1> QED  BY <1>3, <1>4, <1>5, <1>6, <1>7, <1>8 DEF RelInv

LEMMA LateKeeps ==
    ASSUME RelInv, NEW op \in late, LateWrite(op)
    PROVE  RelInv'
<1>1. TypeOK /\ Prepared /\ Planned /\ WriteInv /\ Collected /\ Returned  BY DEF RelInv
<1>2. /\ pc' = pc /\ source' = source /\ next' = next
      /\ cache' = cache /\ updates' = updates /\ lostLookups' = lostLookups
      /\ batches' = batches /\ work' = work /\ collected' = collected /\ failed' = failed
      /\ failLines' = failLines /\ success' = success /\ unanswered' = unanswered
  BY DEF LateWrite, reading, writing, ending
<1>3. WriteInv' /\ link' \in [Record -> Target \cup {NoTarget}] /\ late' \subseteq WriteOps
  BY <1>1, LateStep
<1>4. TypeOK'  BY <1>1, <1>2, <1>3 DEF TypeOK
<1>5. Prepared'  BY <1>1, <1>2, PreparedSame
<1>6. Planned'
  <2>1. pc # "prepare"  BY <1>1 DEF Planned
  <2> QED  BY <1>1, <1>2, <2>1 DEF Planned
<1>7. Collected'  BY <1>1, <1>2, CollectedSame
<1>8. Returned'  BY <1>1, <1>2 DEF Returned, Lines, Line
<1> QED  BY <1>3, <1>4, <1>5, <1>6, <1>7, <1>8 DEF RelInv

(* The main thread reads a result, or is interrupted.                      *)
LEMMA CollectKeeps ==
    ASSUME RelInv, NEW b \in DOMAIN batches, Collect(b)
    PROVE  RelInv'
<1>1. TypeOK /\ Prepared /\ Planned /\ WriteInv /\ Collected /\ Returned /\ InBounds
  BY DEF RelInv, WriteInv
<1>2. /\ pc = "write" /\ pc' = pc /\ ~Busy(b) /\ source' = source /\ next' = next
      /\ cache' = cache /\ updates' = updates /\ lostLookups' = lostLookups
      /\ batches' = batches /\ work' = work
      /\ collected' = collected \cup {b} /\ failed' = failed \cup work[b].failed
      /\ failLines' = failLines /\ success' = success /\ link' = link /\ late' = late
      /\ unanswered' = unanswered
  BY DEF Collect, reading, ending, server
<1>3. WriteInv'  BY <1>1, <1>2, WritesSame
<1>4. TypeOK'
  <2>1. work[b].failed \subseteq Writes  BY <1>1, FailedTyped
  <2>2. failed' \subseteq Writes /\ collected' \subseteq DOMAIN batches'
    BY <1>1, <1>2, <2>1 DEF TypeOK
  <2> QED  BY <1>1, <1>2, <2>2 DEF TypeOK
<1>5. Prepared'  BY <1>1, <1>2, PreparedSame
<1>6. Planned'  BY <1>1, <1>2 DEF Planned
<1>7. Collected'  BY <1>1, <1>2 DEF Collected, Busy
<1>8. Returned'  BY <1>1, <1>2 DEF Returned
<1> QED  BY <1>3, <1>4, <1>5, <1>6, <1>7, <1>8 DEF RelInv

LEMMA AbortKeeps ==
    ASSUME RelInv, Abort
    PROVE  RelInv'
<1>1. TypeOK /\ Prepared /\ Planned /\ WriteInv /\ Collected /\ Returned  BY DEF RelInv
<1>2. /\ pc = "write" /\ pc' = "drain" /\ source' = source /\ next' = next
      /\ cache' = cache /\ updates' = updates /\ lostLookups' = lostLookups
      /\ batches' = batches /\ work' = work /\ collected' = collected /\ failed' = failed
      /\ failLines' = failLines /\ success' = success /\ link' = link /\ late' = late
      /\ unanswered' = unanswered
  BY DEF Abort, reading, writing, ending, server
<1>3. WriteInv' /\ Collected'  BY <1>1, <1>2, WritesSame, CollectedSame
<1>4. TypeOK'  BY <1>1, <1>2 DEF TypeOK
<1>5. Prepared'  BY <1>1, <1>2, PreparedSame
<1>6. Planned'  BY <1>1, <1>2 DEF Planned
<1>7. Returned'  BY <1>1, <1>2 DEF Returned
<1> QED  BY <1>3, <1>4, <1>5, <1>6, <1>7 DEF RelInv

(* The row put on file for a record is the last of its rows.               *)
LEMMA LineIs ==
    ASSUME TypeOK, NEW i \in Row
    PROVE  /\ Line(source.rec[i]) \in Row
           /\ source.rec[Line(source.rec[i])] = source.rec[i]
<1> DEFINE r == source.rec[i]
           S == {j \in Row : source.rec[j] = r}
<1>1. S \in SUBSET (0 .. N) /\ i \in S /\ N \in Nat  BY NAssumption DEF Row
<1>2. PICK j \in S : \A k \in S : k <= j  BY <1>1, GreatestExists
<1>3. j \in Row /\ source.rec[j] = r /\ \A k \in Row : source.rec[k] = r => k <= j
  BY <1>2
<1> QED  BY <1>3 DEF Line

(* What has failed, some row asked for.                                    *)
LEMMA FailedAsked ==
    ASSUME RelInv, NEW w \in failed
    PROVE  w \in Writes /\ \E i \in Row : Asks(i, w[1], w[2])
<1>1. TypeOK /\ Prepared /\ Planned /\ WriteInv /\ Collected /\ InBounds /\ FailedRight
  BY DEF RelInv, WriteInv
<1>2. PICK b \in DOMAIN batches : w \in work[b].failed  BY <1>1 DEF Collected
<1>3. Passed(b, w)  BY <1>1, <1>2 DEF FailedRight
<1>4. PICK o \in DOMAIN batches[b] : w \in Pairs(batches[b][o])  BY <1>3 DEF Passed
<1>5. w \in Writes  BY <1>1, <1>2, FailedTyped
<1> QED  BY <1>1, <1>4, <1>5, OpsAsked

LEMMA EndKeeps ==
    ASSUME RelInv, Finish \/ FinishAborted
    PROVE  RelInv'
<1>1. TypeOK /\ Prepared /\ Planned /\ WriteInv /\ Collected /\ Returned  BY DEF RelInv
<1>2. /\ pc \in {"write", "drain"} /\ pc' = "done" /\ source' = source /\ next' = next
      /\ cache' = cache /\ updates' = updates /\ lostLookups' = lostLookups
      /\ batches' = batches /\ work' = work /\ collected' = collected /\ failed' = failed
      /\ failLines' = Lines /\ link' = link /\ late' = late /\ unanswered' = unanswered
      /\ success' \in BOOLEAN
  BY DEF Finish, FinishAborted, End, Succeeded, reading, writing, server
<1>3. success' => collected = DOMAIN batches /\ failed = {}
  <2>1. CASE Finish  BY <2>1 DEF Finish, End, Succeeded
  <2>2. CASE FinishAborted  BY <2>2 DEF FinishAborted, End, Succeeded
  <2> QED  BY <2>1, <2>2
<1>4. WriteInv' /\ Collected'  BY <1>1, <1>2, WritesSame, CollectedSame
<1>5. Lines \subseteq Writes \X Row
  <2>1. ASSUME NEW w \in failed PROVE <<w, Line(w[1])>> \in Writes \X Row
    <3>1. PICK i \in Row : Asks(i, w[1], w[2])  BY FailedAsked
    <3>2. Line(w[1]) \in Row  BY <1>1, <3>1, LineIs DEF Asks
    <3> QED  BY <3>2, FailedAsked
  <2> QED  BY <2>1 DEF Lines
<1>6. TypeOK'
  <2>1. failLines' \subseteq Writes \X Row  BY <1>2, <1>5
  <2> QED  BY <1>1, <1>2, <2>1 DEF TypeOK
<1>7. Prepared'  BY <1>1, <1>2, PreparedSame
<1>8. Planned'  BY <1>1, <1>2 DEF Planned
<1>9. Returned'
  <2>1. Lines' = Lines  BY <1>2 DEF Lines, Line
  <2> QED  BY <1>2, <1>3, <2>1 DEF Returned
<1> QED  BY <1>4, <1>6, <1>7, <1>8, <1>9 DEF RelInv

LEMMA StillKeeps ==
    ASSUME RelInv, UNCHANGED vars
    PROVE  RelInv'
<1>1. TypeOK /\ Prepared /\ Planned /\ WriteInv /\ Collected /\ Returned  BY DEF RelInv
<1>2. /\ pc' = pc /\ source' = source /\ next' = next
      /\ cache' = cache /\ updates' = updates /\ lostLookups' = lostLookups
      /\ batches' = batches /\ work' = work /\ collected' = collected /\ failed' = failed
      /\ failLines' = failLines /\ success' = success /\ link' = link /\ late' = late
      /\ unanswered' = unanswered
  BY DEF vars, reading, writing, ending, server
<1>3. WriteInv' /\ Collected'  BY <1>1, <1>2, WritesSame, CollectedSame
<1>4. TypeOK'  BY <1>1, <1>2 DEF TypeOK
<1>5. Prepared'  BY <1>1, <1>2, PreparedSame
<1>6. Planned'  BY <1>1, <1>2 DEF Planned
<1>7. Returned'  BY <1>1, <1>2 DEF Returned, Lines, Line
<1> QED  BY <1>3, <1>4, <1>5, <1>6, <1>7 DEF RelInv

(* The invariant holds throughout a pass.                                  *)
THEOREM WritesAreExplained == Spec => []RelInv
<1>1. Init => RelInv  BY InitRight
<1>2. RelInv /\ [Next]_vars => RelInv'
  <2> SUFFICES ASSUME RelInv, [Next]_vars PROVE RelInv'  OBVIOUS
  <2>1. CASE SkipRow \/ ResolveHere \/ LookUp \/ LoseLookUp  BY <2>1, PrepareKeeps
  <2>2. CASE Batch  BY <2>2, BatchKeeps
  <2>3. CASE \E b \in DOMAIN batches : Collect(b)  BY <2>3, CollectKeeps
  <2>4. CASE Finish \/ FinishAborted  BY <2>4, EndKeeps
  <2>5. CASE \E b \in DOMAIN batches : Worker(b)  BY <2>5, WorkerKeeps
  <2>6. CASE Abort  BY <2>6, AbortKeeps
  <2>7. CASE \E op \in late : LateWrite(op)  BY <2>7, LateKeeps
  <2>8. CASE Return \/ UNCHANGED vars  BY <2>8, StillKeeps DEF Return
  <2> QED  BY <2>1, <2>2, <2>3, <2>4, <2>5, <2>6, <2>7, <2>8 DEF Next, Main
<1> QED  BY <1>1, <1>2, PTL DEF Spec

-----------------------------------------------------------------------------
(***************************************************************************)
(* What the invariant gives.                                               *)
(***************************************************************************)
LEMMA PairsPlaced ==
    ASSUME TypeOK, NEW b \in DOMAIN batches, NEW o \in DOMAIN batches[b], NEW r, NEW t
    PROVE  <<r, t>> \in Pairs(batches[b][o]) <=> \E k : <<b, o, k>> \in Places(r, t)
<1> DEFINE op == batches[b][o]
           K == {k \in DOMAIN op.recs : op.recs[k] = r /\ op.val = t}
<1>1. batches \in Seq(Seq(WriteOps)) /\ op \in WriteOps
  BY OpsTyped DEF TypeOK
<1>2. \A k : <<b, o, k>> \in Places(r, t) <=> k \in K
  <2>1. Places(r, t) = HeldIn(batches, r, t)  BY <1>1, PlacesHeld
  <2>2. /\ b \in 1 .. Len(batches) /\ o \in 1 .. Len(batches[b]) /\ o \in Nat
        /\ DOMAIN op.recs = 1 .. Len(op.recs)
    BY <1>1, OpsTyped DEF WriteOps
  <2>3. \A k : k \in 1 .. Len(op.recs) => k \in Nat  BY <1>1 DEF WriteOps
  <2>4. \A k : <<b, o, k>> \in HeldIn(batches, r, t)
                  <=> k \in Nat /\ <<o, k>> \in Held(batches[b], r, t)
    BY <2>2 DEF HeldIn
  <2>5. \A k : <<o, k>> \in Held(batches[b], r, t)
                  <=> k \in Nat /\ k \in 1 .. Len(op.recs) /\ op.recs[k] = r /\ op.val = t
    BY <2>2 DEF Held
  <2> QED  BY <2>1, <2>2, <2>3, <2>4, <2>5
<1>3. <<r, t>> \in Pairs(op) <=> \E k : k \in K
  <2>1. <<r, t>> \in Pairs(op) <=> r \in ToSet(op.recs) /\ t = op.val
    <3>1. ASSUME <<r, t>> \in Pairs(op) PROVE r \in ToSet(op.recs) /\ t = op.val
      <4>1. PICK q \in ToSet(op.recs) : <<r, t>> = <<q, op.val>>  BY <3>1 DEF Pairs
      <4> QED  BY <4>1
    <3>2. ASSUME r \in ToSet(op.recs), t = op.val PROVE <<r, t>> \in Pairs(op)
      BY <3>2 DEF Pairs
    <3> QED  BY <3>1, <3>2
  <2> QED  BY <2>1 DEF ToSet
<1> QED  BY <1>2, <1>3

(* A row whose target is known has its operation.                          *)
LEMMA RowHasOperation ==
    ASSUME RelInv, pc # "prepare", NEW i \in Row, source.rec[i] # NoRecord,
           source.target[i] \in Known
    PROVE  /\ <<source.rec[i], source.target[i]>> \in Writes
           /\ \E b \in DOMAIN batches : \E o \in DOMAIN batches[b] :
                 <<source.rec[i], source.target[i]>> \in Pairs(batches[b][o])
<1> DEFINE r == source.rec[i]
           t == source.target[i]
           rows == {j \in Row : Asks(j, r, t)}
<1>1. TypeOK /\ Prepared /\ Planned  BY DEF RelInv
<1>2. r \in Record /\ t \in Known /\ t \in Target
  BY <1>1, SourceTyped, TargetAssumption DEF Known
<1>3. i \in rows  BY DEF Asks
<1>4. IsFiniteSet(rows)
  <2>1. IsFiniteSet(Row)  BY NAssumption, FS_Interval DEF Row
  <2> QED  BY <2>1, FS_Subset
<1> HIDE DEF r, t
<1>5. Cardinality(Places(r, t)) = Cardinality(rows)  BY <1>1, <1>2, RowsPlaced
<1>6. Cardinality(rows) # 0  BY <1>3, <1>4, FS_EmptySet
<1>7. Places(r, t) # {}
  <2>1. Cardinality({}) = 0  BY FS_EmptySet
  <2> QED  BY <1>5, <1>6, <2>1
<1>8. PICK p \in Places(r, t) : TRUE  BY <1>7
<1>9. batches \in Seq(Seq(WriteOps))  BY <1>1 DEF TypeOK
<1>10. p = <<p[1], p[2], p[3]>> /\ p[1] \in DOMAIN batches /\ p[2] \in DOMAIN batches[p[1]]
  <2>1. p \in HeldIn(batches, r, t)  BY <1>8, <1>9, PlacesHeld
  <2>2. p = <<p[1], p[2], p[3]>> /\ p[1] \in 1 .. Len(batches) /\ p[2] \in 1 .. Len(batches[p[1]])
    BY <2>1 DEF HeldIn
  <2> QED  BY <1>1, <2>2, OpsTyped
<1>11. <<r, t>> \in Pairs(batches[p[1]][p[2]])  BY <1>1, <1>8, <1>10, PairsPlaced
<1>12. <<r, t>> \in Writes  BY <1>2 DEF Writes
<1> QED  BY <1>10, <1>11, <1>12 DEF r, t

(* When every result has been read, the row's operation has been passed,   *)
(* and its failure, if it failed, is known.                                *)
LEMMA RowPassed ==
    ASSUME RelInv, pc # "prepare", collected = DOMAIN batches, NEW i \in Row,
           source.rec[i] # NoRecord, source.target[i] \in Known
    PROVE  LET w == <<source.rec[i], source.target[i]>>
           IN  w \in failed \/ (Undisputed(w) => link[source.rec[i]] = source.target[i])
<1> DEFINE w == <<source.rec[i], source.target[i]>>
<1>1. TypeOK /\ InBounds /\ WrittenOrFailed /\ Collected  BY DEF RelInv, WriteInv
<1>2. w \in Writes /\ \E b \in DOMAIN batches : \E o \in DOMAIN batches[b] : w \in Pairs(batches[b][o])
  BY RowHasOperation
<1>3. w[1] = source.rec[i] /\ w[2] = source.target[i]  OBVIOUS
<1> HIDE DEF w
<1>4. PICK b \in DOMAIN batches : \E o \in DOMAIN batches[b] : w \in Pairs(batches[b][o])
  BY <1>2
<1>5. PICK o \in DOMAIN batches[b] : w \in Pairs(batches[b][o])  BY <1>4
<1>6. ~Busy(b) /\ work[b].failed \subseteq failed  BY <1>1, <1>4 DEF Collected
<1>7. o < work[b].at
  <2>1. o \in 1 .. Len(batches[b]) /\ Len(batches[b]) \in Nat  BY <1>1, <1>5, OpsTyped
  <2>2. work[b] \in Jobs
    <3>1. work \in Seq(Jobs) /\ DOMAIN work = DOMAIN batches
      BY <1>1 DEF TypeOK, Jobs, InBounds
    <3> QED  BY <3>1
  <2>3. work[b].at \in Nat  BY <2>2 DEF Jobs
  <2> QED  BY <1>6, <2>1, <2>3 DEF Busy
<1>8. Passed(b, w)  BY <1>5, <1>7 DEF Passed
<1>9. w \in work[b].failed \/ (Undisputed(w) => link[w[1]] = w[2])
  BY <1>1, <1>2, <1>8 DEF WrittenOrFailed
<1> QED  BY <1>3, <1>6, <1>9 DEF w

(* A value nobody else's row contradicts is not disputed.                  *)
LEMMA NotDisputed ==
    ASSUME RelInv, NEW r \in Record, NEW t,
           \A j \in Row : source.rec[j] = r => source.target[j] \in {t, NoTarget}
    PROVE  Undisputed(<<r, t>>)
<1>1. TypeOK /\ Prepared /\ Planned  BY DEF RelInv
<1>2. ASSUME NEW b \in DOMAIN batches, NEW o \in DOMAIN batches[b], r \in ToSet(batches[b][o].recs)
      PROVE  batches[b][o].val = t
  <2> DEFINE op == batches[b][o]
             v == <<r, op.val>>
  <2>1. op \in WriteOps  BY <1>1, OpsTyped
  <2>2. op.val \in Target /\ v \in Pairs(op)  BY <1>2, <2>1, PairsOf
  <2>3. v[1] = r /\ v[2] = op.val  OBVIOUS
  <2> HIDE DEF v
  <2>4. PICK j \in Row : Asks(j, v[1], v[2])  BY <1>1, <2>2, OpsAsked
  <2>5. source.rec[j] = r /\ source.target[j] = op.val  BY <2>3, <2>4 DEF Asks
  <2> QED  BY <2>2, <2>5, NameAssumption
<1>3. <<r, t>>[1] = r /\ <<r, t>>[2] = t  OBVIOUS
<1> QED  BY <1>2, <1>3 DEF Undisputed

(* The one row of a record has one operation.                              *)
LEMMA SoleIsSingle ==
    ASSUME RelInv, pc # "prepare", NEW i \in Row, source.rec[i] # NoRecord,
           source.target[i] \in Known, Sole(i)
    PROVE  Single(<<source.rec[i], source.target[i]>>)
<1> DEFINE r == source.rec[i]
           t == source.target[i]
<1>1. TypeOK /\ Prepared /\ Planned  BY DEF RelInv
<1>2. r \in Record /\ t \in Known  BY <1>1, SourceTyped
<1>3. {j \in Row : Asks(j, r, t)} = {i}  BY DEF Asks, Sole
<1> HIDE DEF r, t
<1>4. IsFiniteSet(Places(r, t)) /\ Cardinality(Places(r, t)) = 1
  <2>1. Cardinality({i}) = 1  BY FS_Singleton
  <2> QED  BY <1>1, <1>2, <1>3, <2>1, RowsPlaced
<1>5. PICK x : Places(r, t) = {x}  BY <1>4, FS_Singleton
<1>6. ASSUME NEW b \in DOMAIN batches, NEW o \in DOMAIN batches[b],
             NEW c \in DOMAIN batches, NEW p \in DOMAIN batches[c],
             <<r, t>> \in Pairs(batches[b][o]), <<r, t>> \in Pairs(batches[c][p])
      PROVE  b = c /\ o = p
  <2>1. PICK k : <<b, o, k>> \in Places(r, t)  BY <1>1, <1>6, PairsPlaced
  <2>2. PICK l : <<c, p, l>> \in Places(r, t)  BY <1>1, <1>6, PairsPlaced
  <2>3. <<b, o, k>> = <<c, p, l>>  BY <1>5, <2>1, <2>2
  <2> QED  BY <2>3
<1>7. Single(<<r, t>>)  BY <1>6 DEF Single
<1> QED  BY <1>7 DEF r, t
-----------------------------------------------------------------------------
(* Whatever the file, the sizes and the timeouts, no record is given a     *)
(* relation that none of its rows asks for.                                *)
THEOREM LinksWereAsked == Spec => []OnlyAskedLinks
<1>1. RelInv => OnlyAskedLinks
  <2> SUFFICES ASSUME RelInv, NEW r \in Record, link[r] # NoTarget
               PROVE  \E i \in Row : Asks(i, r, link[r])
    BY DEF OnlyAskedLinks
  <2> DEFINE w == <<r, link[r]>>
  <2>1. TypeOK /\ Prepared /\ Planned /\ LateOnes /\ Explained  BY DEF RelInv, WriteInv
  <2>2. w \in unanswered \/ \E b \in DOMAIN batches : Passed(b, w)  BY <2>1 DEF Explained
  <2>3. w[1] = r /\ w[2] = link[r]  OBVIOUS
  <2> HIDE DEF w
  <2>4. \E b \in DOMAIN batches : \E o \in DOMAIN batches[b] : w \in Pairs(batches[b][o])
    BY <2>1, <2>2 DEF LateOnes, Passed
  <2>5. \E i \in Row : Asks(i, w[1], w[2])  BY <2>1, <2>4, OpsAsked
  <2> QED  BY <2>3, <2>5
<1> QED  BY <1>1, WritesAreExplained, PTL

(* Every update is in one place of one super-batch, and no super-batch of  *)
(* several operations is over a limit.                                     *)
THEOREM PackingIsRight == Spec => []PackedRight
<1>1. RelInv => PackedRight
  <2> SUFFICES ASSUME RelInv PROVE PackedRight  OBVIOUS
  <2>1. TypeOK /\ Prepared /\ Planned  BY DEF RelInv
  <2>2. EachUpdateInOneBatch
    <3>1. pc = "write" => pc # "prepare"  OBVIOUS
    <3> QED  BY <2>1, <3>1, RowsPlaced DEF EachUpdateInOneBatch
  <2>3. BatchesWithinLimits
    <3>1. CASE pc = "prepare"
      <4>1. DOMAIN batches = {}  BY <2>1, <3>1 DEF Planned
      <4> QED  BY <4>1 DEF BatchesWithinLimits
    <3>2. CASE pc # "prepare"
      <4>1. \A b \in DOMAIN batches : Fits(batches[b])  BY <2>1, <3>2, RowsPlaced, OpsTyped
      <4> QED  BY <4>1 DEF BatchesWithinLimits, Fits
    <3> QED  BY <3>1, <3>2
  <2> QED  BY <2>1, <2>2, <2>3 DEF PackedRight
<1> QED  BY <1>1, WritesAreExplained, PTL

(* A pass that reports success has written every relation it could         *)
(* resolve, and a request carried out late does not undo it.               *)
THEOREM SuccessesAreTrue == Spec => []SuccessIsTrue
<1>1. RelInv => SuccessIsTrue
  <2> SUFFICES ASSUME RelInv, success, NEW i \in Row, source.rec[i] # NoRecord,
                      source.target[i] \in Known, Agreed(i)
               PROVE  link[source.rec[i]] = source.target[i]
    BY DEF SuccessIsTrue
  <2>1. TypeOK /\ pc # "prepare" /\ collected = DOMAIN batches /\ failed = {}
    BY DEF RelInv, Returned
  <2>2. source.rec[i] \in Record  BY <2>1, SourceTyped
  <2>3. Undisputed(<<source.rec[i], source.target[i]>>)
    BY <2>2, NotDisputed DEF Agreed
  <2>4. LET w == <<source.rec[i], source.target[i]>>
        IN  w \in failed \/ (Undisputed(w) => link[source.rec[i]] = source.target[i])
    BY <2>1, RowPassed
  <2> QED  BY <2>1, <2>3, <2>4
<1> QED  BY <1>1, WritesAreExplained, PTL

(* A pass that was not aborted has written the relation of the one row of  *)
(* a record, or lists it as failed with that row on file; what it lists is *)
(* written only if a call for it had no reply.                             *)
THEOREM ReportsAreComplete == Spec => []CompleteReport
<1>1. RelInv => CompleteReport
  <2> SUFFICES ASSUME RelInv, pc = "done", collected = DOMAIN batches, NEW i \in Row,
                      source.rec[i] # NoRecord, source.target[i] \in Known, Sole(i)
               PROVE  LET w == <<source.rec[i], source.target[i]>>
                      IN  /\ w \notin failed => link[w[1]] = w[2]
                          /\ w \in failed => <<w, i>> \in failLines
                          /\ w \in failed /\ link[w[1]] = w[2] => w \in unanswered
    BY DEF CompleteReport
  <2> DEFINE r == source.rec[i]
             t == source.target[i]
             w == <<r, t>>
  <2>1. TypeOK /\ pc # "prepare" /\ failLines = Lines /\ Collected /\ FailedRight
    BY DEF RelInv, Returned, WriteInv
  <2>2. r \in Record  BY <2>1, SourceTyped
  <2>3. w[1] = r /\ w[2] = t  OBVIOUS
  <2>4. w \notin failed => link[r] = t
    <3>1. Undisputed(w)  BY <2>2, NotDisputed DEF Sole
    <3>2. w \in failed \/ (Undisputed(w) => link[r] = t)  BY <2>1, RowPassed
    <3> QED  BY <3>1, <3>2
  <2>5. w \in failed => <<w, i>> \in failLines
    <3>1. Line(r) = i  BY <2>1, LineIs DEF Sole
    <3> QED  BY <2>1, <2>3, <3>1 DEF Lines
  <2>6. Single(w)  BY <2>1, SoleIsSingle
  <2> HIDE DEF w
  <2>7. w \in failed /\ link[w[1]] = w[2] => w \in unanswered
    BY <2>1, <2>6 DEF Collected, FailedRight
  <2> QED  BY <2>3, <2>4, <2>5, <2>7 DEF w
<1> QED  BY <1>1, WritesAreExplained, PTL
=============================================================================
