----------------------------- MODULE Subsequences -----------------------------
(***************************************************************************)
(* The elements that filter, and deletions in a loop, leave of an array or a   *)
(* Map, in their order.                                                       *)
(***************************************************************************)
EXTENDS Naturals, FiniteSets, Sequences

\* How many of a set of indices come no later than one of them, and the n-th of the set.
Rank(I, i) == Cardinality({j \in I : j <= i})
Nth(I, n) == CHOOSE i \in I : Rank(I, i) = n

\* The elements of a sequence at the indices of a set.
Picked(s, I) == [n \in 1 .. Cardinality(I) |-> s[Nth(I, n)]]

\* The elements of a sequence that are not in a set.
Without(s, S) == Picked(s, {i \in DOMAIN s : s[i] \notin S})

===============================================================================
