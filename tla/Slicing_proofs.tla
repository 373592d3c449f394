--------------------------- MODULE Slicing_proofs ---------------------------
(***************************************************************************)
(* What batch(data, n) does, for any data and any size, and the facts      *)
(* about numbers it rests on.                                              *)
(***************************************************************************)
EXTENDS Slicing, Sequences, FiniteSetTheorems, TLAPS

(* A function on 1 .. n with values in a set is a sequence over it.        *)
LEMMA SequenceOf ==
    ASSUME NEW R, NEW n \in Nat, NEW s, DOMAIN s = 1 .. n, s = [i \in 1 .. n |-> s[i]],
           \A i \in 1 .. n : s[i] \in R
    PROVE  s \in Seq(R)
OBVIOUS

LEMMA LeastExists ==
    ASSUME NEW S \in SUBSET Nat, S # {}
    PROVE  \E x \in S : \A y \in S : x <= y
<1>1. PICK x \in S : \A y \in S : <<y, x>> \notin OpToRel(<, Nat)
  BY NatLessThanWellFounded, WFMin
<1>2. \A y \in S : ~(y < x)  BY <1>1 DEF OpToRel
<1> QED  BY <1>2

LEMMA GreatestExists ==
    ASSUME NEW n \in Nat, NEW S \in SUBSET (0 .. n), S # {}
    PROVE  \E x \in S : \A y \in S : y <= x
<1> DEFINE T == {k \in Nat : \E y \in S : k = n - y}
<1>1. ASSUME NEW y \in S PROVE n - y \in T
  <2>1. y \in 0 .. n  OBVIOUS
  <2>2. n - y \in Nat  BY <2>1
  <2> QED  BY <2>2
<1>2. T # {} /\ T \in SUBSET Nat  BY <1>1
<1>3. PICK k \in T : \A j \in T : k <= j  BY <1>2, LeastExists
<1>4. PICK x \in S : k = n - x  BY <1>3
<1>5. ASSUME NEW y \in S PROVE y <= x
  <2>1. x \in 0 .. n /\ y \in 0 .. n  OBVIOUS
  <2>2. n - x <= n - y  BY <1>1, <1>3, <1>4
  <2> QED  BY <2>1, <2>2
<1> QED  BY <1>5

LEMMA SliceOf ==
    ASSUME NEW n \in Nat \ {0}, NEW p \in Nat \ {0}
    PROVE  LET i == (p + n - 1) \div n IN
           i \in Nat \ {0} /\ (i - 1) * n < p /\ p <= i * n
OBVIOUS

LEMMA SlicesGrow ==
    ASSUME NEW n \in Nat \ {0}, NEW p \in Nat, NEW q \in Nat, p <= q
    PROVE  p \div n <= q \div n
OBVIOUS

LEMMA SlicesInOrder ==
    ASSUME NEW n \in Nat \ {0}, NEW i \in Nat, NEW j \in Nat, i < j
    PROVE  i * n <= (j - 1) * n
OBVIOUS

LEMMA Positions ==
    ASSUME NEW S \in SUBSET Nat, IsFiniteSet(S), NEW r \in S
    PROVE  /\ Cardinality(S) \in Nat
           /\ Pos(S, r) \in Nat \ {0} /\ Pos(S, r) <= Cardinality(S)
<1> DEFINE Q == {q \in S : q <= r}
<1>2. IsFiniteSet(Q) /\ Cardinality(Q) <= Cardinality(S)
  <2>1. Q \in SUBSET S  OBVIOUS
  <2> QED  BY <2>1, FS_Subset
<1>3. Cardinality(S) \in Nat /\ Cardinality(Q) \in Nat
  BY <1>2, FS_CardinalityType
<1>4. Q # {}  OBVIOUS
<1>5. Cardinality(Q) # 0  BY <1>2, <1>4, FS_EmptySet
<1> QED  BY <1>2, <1>3, <1>5 DEF Pos

(***************************************************************************)
(* batch(data, n) hands every item on, and none of them twice.             *)
(***************************************************************************)
THEOREM SlicesPartition ==
    ASSUME NEW S \in SUBSET Nat, IsFiniteSet(S), NEW n \in Nat \ {0}
    PROVE  /\ SliceCount(S, n) \in Nat
           /\ \A i \in Int : Slice(S, n, i) \subseteq S
           /\ \A r \in S : \E i \in 1 .. SliceCount(S, n) : r \in Slice(S, n, i)
           /\ \A i, j \in 1 .. SliceCount(S, n) :
                 i # j => Slice(S, n, i) \cap Slice(S, n, j) = {}
<1> DEFINE m == SliceCount(S, n)
<1>1. Cardinality(S) \in Nat  BY FS_CardinalityType
<1>2. m \in Nat
  <2>1. Cardinality(S) + n - 1 \in Nat  BY <1>1
  <2> QED  BY <2>1 DEF SliceCount
<1> HIDE DEF m
<1>3. ASSUME NEW r \in S PROVE \E i \in 1 .. m : r \in Slice(S, n, i)
  <2> DEFINE p == Pos(S, r)
             i == (p + n - 1) \div n
  <2>1. p \in Nat \ {0} /\ p <= Cardinality(S)  BY Positions
  <2> HIDE DEF p
  <2>2. i \in Nat \ {0} /\ (i - 1) * n < p /\ p <= i * n  BY <2>1, SliceOf
  <2>3. i <= m
    <3>1. /\ p + n - 1 \in Nat /\ Cardinality(S) + n - 1 \in Nat
          /\ p + n - 1 <= Cardinality(S) + n - 1
      BY <1>1, <2>1
    <3> QED  BY <3>1, SlicesGrow DEF m, SliceCount
  <2> HIDE DEF i
  <2>4. r \in Slice(S, n, i)  BY <2>2 DEF Slice, p
  <2> QED  BY <1>2, <2>2, <2>3, <2>4
<1>4. ASSUME NEW i \in 1 .. m, NEW j \in 1 .. m, i < j
      PROVE  Slice(S, n, i) \cap Slice(S, n, j) = {}
  <2>1. i \in Nat /\ j \in Nat  BY <1>2
  <2>2. i * n <= (j - 1) * n  BY <2>1, <1>4, SlicesInOrder
  <2>3. ASSUME NEW r \in Slice(S, n, i) \cap Slice(S, n, j) PROVE FALSE
    <3>1. r \in S /\ Pos(S, r) <= i * n /\ (j - 1) * n < Pos(S, r)
      BY <2>3 DEF Slice
    <3>2. Pos(S, r) \in Nat  BY <3>1, Positions
    <3>3. i * n \in Int /\ (j - 1) * n \in Int  BY <2>1
    <3> QED  BY <2>2, <3>1, <3>2, <3>3
  <2> QED  BY <2>3
<1>5. \A i, j \in 1 .. m : i # j => Slice(S, n, i) \cap Slice(S, n, j) = {}
  <2>1. \A i, j \in 1 .. m : i # j => i < j \/ j < i  BY <1>2
  <2> QED  BY <1>4, <2>1
<1>6. \A i \in Int : Slice(S, n, i) \subseteq S  BY DEF Slice
<1> QED  BY <1>2, <1>3, <1>5, <1>6 DEF m

(***************************************************************************)
(* ... in slices of one to n items.                                        *)
(***************************************************************************)
LEMMA PositionsGrow ==
    ASSUME NEW S \in SUBSET Nat, IsFiniteSet(S), NEW r \in S, NEW q \in S, r < q
    PROVE  Pos(S, r) < Pos(S, q)
<1> DEFINE R == {x \in S : x <= r}
           Q == {x \in S : x <= q}
<1>1. R \subseteq Q /\ q \in Q /\ q \notin R
  <2>1. r \in Nat /\ q \in Nat /\ \A x \in S : x \in Nat  OBVIOUS
  <2>2. \A x \in S : x <= r => x <= q  BY <2>1
  <2>3. q <= q /\ ~(q <= r)  BY <2>1
  <2> QED  BY <2>2, <2>3
<1>2. IsFiniteSet(Q)
  <2>1. Q \in SUBSET S  OBVIOUS
  <2> QED  BY <2>1, FS_Subset
<1> HIDE DEF R, Q
<1>3. IsFiniteSet(R) /\ Cardinality(R) <= Cardinality(Q)
                     /\ Cardinality(R) # Cardinality(Q)
  BY <1>1, <1>2, FS_Subset
<1>4. Cardinality(R) \in Nat /\ Cardinality(Q) \in Nat
  BY <1>2, <1>3, FS_CardinalityType
<1> QED  BY <1>3, <1>4 DEF Pos, R, Q

LEMMA PositionsDiffer ==
    ASSUME NEW S \in SUBSET Nat, IsFiniteSet(S), NEW r \in S, NEW q \in S, r # q
    PROVE  Pos(S, r) # Pos(S, q)
<1>1. r < q \/ q < r  OBVIOUS
<1>2. Pos(S, r) \in Nat /\ Pos(S, q) \in Nat  BY Positions
<1> QED  BY <1>1, <1>2, PositionsGrow

LEMMA PositionsTaken ==
    ASSUME NEW S \in SUBSET Nat, IsFiniteSet(S), NEW k \in 1 .. Cardinality(S)
    PROVE  \E r \in S : Pos(S, r) = k
<1> DEFINE c == Cardinality(S)
           f == [r \in S |-> Pos(S, r)]
<1>1. c \in Nat  BY FS_CardinalityType
<1>2. IsFiniteSet(1 .. c) /\ Cardinality(1 .. c) = c
  BY <1>1, FS_Interval
<1>3. f \in [S -> 1 .. c]
  <2>1. \A r \in S : Pos(S, r) \in 1 .. c  BY <1>1, Positions
  <2> QED  BY <2>1
<1>4. \A r, q \in S : f[r] = f[q] => r = q  BY PositionsDiffer
<1>5. f \in Injection(S, 1 .. c)  BY <1>3, <1>4, Zenon DEF Injection, IsInjective
<1>6. f \in Surjection(S, 1 .. c)  BY <1>2, <1>5, FS_Injection
<1>7. \E r \in S : f[r] = k  BY <1>6 DEF Surjection
<1> QED  BY <1>7

(* The items at some places of a sequence are a sequence, with one from    *)
(* each place.                                                             *)
LEMMA ItemsKept ==
    ASSUME NEW R, NEW s \in Seq(R), NEW I \in SUBSET (1 .. Len(s))
    PROVE  /\ ItemsAt(s, I) \in Seq(R)
           /\ Len(ItemsAt(s, I)) = Cardinality(I)
           /\ \A n \in 1 .. Cardinality(I) :
                 \E i \in I : Pos(I, i) = n /\ ItemsAt(s, I)[n] = s[i]
<1>1. I \in SUBSET Nat /\ IsFiniteSet(I) /\ Cardinality(I) \in Nat
  <2>1. Len(s) \in Nat  OBVIOUS
  <2>2. IsFiniteSet(1 .. Len(s))  BY <2>1, FS_Interval
  <2>3. I \in SUBSET Nat  BY <2>1
  <2>4. IsFiniteSet(I)  BY <2>2, FS_Subset
  <2>5. Cardinality(I) \in Nat  BY <2>4, FS_CardinalityType
  <2> QED  BY <2>3, <2>4, <2>5
<1>2. ItemsAt(s, I) = [n \in 1 .. Cardinality(I) |-> s[CHOOSE i \in I : Pos(I, i) = n]]
  BY DEF ItemsAt
<1>3. ASSUME NEW n \in 1 .. Cardinality(I)
      PROVE  \E i \in I : Pos(I, i) = n /\ ItemsAt(s, I)[n] = s[i]
  <2>1. \E i \in I : Pos(I, i) = n  BY <1>1, PositionsTaken
  <2>2. PICK i : i = CHOOSE j \in I : Pos(I, j) = n  OBVIOUS
  <2>3. i \in I /\ Pos(I, i) = n  BY <2>1, <2>2
  <2>4. ItemsAt(s, I)[n] = s[i]  BY <1>2, <2>2
  <2> QED  BY <2>3, <2>4
<1>4. \A n \in 1 .. Cardinality(I) : ItemsAt(s, I)[n] \in R
  <2>1. \A i \in 1 .. Len(s) : s[i] \in R  OBVIOUS
  <2> QED  BY <1>3, <2>1
<1>5. DOMAIN ItemsAt(s, I) = 1 .. Cardinality(I)
      /\ ItemsAt(s, I) = [n \in 1 .. Cardinality(I) |-> ItemsAt(s, I)[n]]
  BY <1>2, Zenon
<1>6. ItemsAt(s, I) \in Seq(R)  BY <1>1, <1>4, <1>5, SequenceOf
<1>7. Len(ItemsAt(s, I)) = Cardinality(I)
  <2>1. Len(ItemsAt(s, I)) \in Nat /\ DOMAIN ItemsAt(s, I) = 1 .. Len(ItemsAt(s, I))
    BY <1>6
  <2>2. 1 .. Len(ItemsAt(s, I)) = 1 .. Cardinality(I)  BY <1>5, <2>1
  <2> QED  BY <1>1, <2>1, <2>2
<1> QED  BY <1>3, <1>6, <1>7

LEMMA SlicesReach ==
    ASSUME NEW n \in Nat \ {0}, NEW c \in Nat, NEW i \in 1 .. (c + n - 1) \div n
    PROVE  (i - 1) * n + 1 \in 1 .. c
<1> DEFINE m == (c + n - 1) \div n
<1>1. c + n - 1 \in Nat  OBVIOUS
<1>2. m \in Nat /\ m * n <= c + n - 1  BY <1>1
<1> HIDE DEF m
<1>3. i \in Nat \ {0} /\ i <= m  BY <1>2 DEF m
<1>4. i * n <= m * n  BY <1>2, <1>3
<1>5. (i - 1) * n = i * n - n /\ (i - 1) * n \in Nat /\ i * n \in Nat /\ m * n \in Nat
  BY <1>2, <1>3
<1> QED  BY <1>2, <1>4, <1>5

THEOREM SlicesBounded ==
    ASSUME NEW S \in SUBSET Nat, IsFiniteSet(S), NEW n \in Nat \ {0},
           NEW i \in 1 .. SliceCount(S, n)
    PROVE  Slice(S, n, i) # {} /\ Cardinality(Slice(S, n, i)) \in 1 .. n
<1> DEFINE c == Cardinality(S)
           P == Slice(S, n, i)
           k == (i - 1) * n + 1
           T == k .. i * n
           f == [r \in P |-> Pos(S, r)]
<1>1. c \in Nat  BY FS_CardinalityType
<1>2. k \in 1 .. c  BY <1>1, SlicesReach DEF SliceCount
<1>3. i \in Nat \ {0} /\ i * n \in Nat /\ (i - 1) * n \in Nat /\ i * n = k + n - 1
  <2>1. SliceCount(S, n) \in Nat  BY SlicesPartition
  <2>2. i \in Nat \ {0}  BY <2>1
  <2> QED  BY <2>2
<1>4. P # {}
  <2>1. PICK r \in S : Pos(S, r) = k  BY <1>2, PositionsTaken
  <2> QED  BY <1>3, <2>1 DEF Slice
<1>5. IsFiniteSet(P) /\ Cardinality(P) \in Nat /\ Cardinality(P) # 0
  <2>1. P \in SUBSET S  BY DEF Slice
  <2>2. IsFiniteSet(P)  BY <2>1, FS_Subset
  <2> QED  BY <1>4, <2>2, FS_CardinalityType, FS_EmptySet
<1>6. IsFiniteSet(T) /\ Cardinality(T) = n
  <2>1. k \in Int /\ i * n \in Int /\ k <= i * n /\ i * n - k + 1 = n  BY <1>3
  <2>2. ASSUME NEW a \in Int, NEW b \in Int, a <= b
        PROVE  IsFiniteSet(a .. b) /\ Cardinality(a .. b) = b - a + 1
    BY <2>2, FS_Interval
  <2> HIDE DEF k
  <2> QED  BY <2>1, <2>2
<1>7. f \in [P -> T]
  <2>1. \A r \in P : Pos(S, r) \in T
    <3>1. \A r \in P : r \in S /\ (i - 1) * n < Pos(S, r) /\ Pos(S, r) <= i * n
      BY DEF Slice
    <3>2. \A r \in P : Pos(S, r) \in Nat  BY <3>1, Positions
    <3> QED  BY <1>3, <3>1, <3>2
  <2> QED  BY <2>1
<1>8. ~ \E r, q \in P : r # q /\ f[r] = f[q]
  <2>1. P \subseteq S  BY DEF Slice
  <2> QED  BY <2>1, PositionsDiffer
<1> HIDE DEF P, T, f
<1>9. ~ (Cardinality(T) < Cardinality(P))
  BY <1>5, <1>6, <1>7, <1>8, FS_PigeonHole
<1> QED  BY <1>4, <1>5, <1>6, <1>9 DEF P
=============================================================================
