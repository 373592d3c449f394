------------------------------- MODULE Slicing -------------------------------
(***************************************************************************)
(* batch(data, n) of lib/internal/tools.py: consecutive slices of n items. *)
(* A set of numbers stands for its members in increasing order.            *)
(***************************************************************************)
EXTENDS Integers, FiniteSets

Pos(S, r) == Cardinality({q \in S : q <= r})

SliceOverlapping(S, n, i) ==
    {r \in S : (i - 1) * n < Pos(S, r) /\ Pos(S, r) <= i * n + 1}
Slice(S, n, i) == {r \in S : (i - 1) * n < Pos(S, r) /\ Pos(S, r) <= i * n}

(* The items of a sequence at some places, in their order.                 *)
ItemsAt(s, I) == [n \in 1 .. Cardinality(I) |-> s[CHOOSE i \in I : Pos(I, i) = n]]

SliceCount(S, n) == (Cardinality(S) + n - 1) \div n
=============================================================================
