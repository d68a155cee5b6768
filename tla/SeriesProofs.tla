----------------------------- MODULE SeriesProofs -----------------------------
(***************************************************************************)
(* Lemmas about series of events and of numbers.  What Subsequences picks of a  *)
(* series keeps its order, and nothing else comes in between.  A sum is the same *)
(* in whatever order it is taken, and a series that rises has a positive slope. *)
(***************************************************************************)
EXTENDS Subsequences, Integers, FiniteSetTheorems, SequenceTheorems, WellFoundedInduction, TLAPS

-----------------------------------------------------------------------------
(* The n-th of a set of indices.                                             *)

\* The numbers up to another.
LEMMA UpTo ==
    ASSUME NEW m \in Nat
    PROVE  IsFiniteSet(1 .. m) /\ Cardinality(1 .. m) = m
  BY FS_Interval

\* The indices up to one of them are finitely many.
LEMMA RankType ==
    ASSUME NEW m \in Nat, NEW I \in SUBSET (1 .. m), NEW i \in I
    PROVE  /\ IsFiniteSet(I) /\ IsFiniteSet({j \in I : j <= i})
           /\ Rank(I, i) \in 1 .. Cardinality(I)
           /\ Cardinality(I) \in 0 .. m
  <1> DEFINE J == {j \in I : j <= i}
  <1>1. IsFiniteSet(1 .. m) /\ Cardinality(1 .. m) = m
    BY UpTo
  <1>2. IsFiniteSet(I) /\ Cardinality(I) <= m /\ Cardinality(I) \in Nat
    BY <1>1, FS_Subset, FS_CardinalityType
  <1>3. J \in SUBSET I
    OBVIOUS
  <1>4. IsFiniteSet(J) /\ Cardinality(J) <= Cardinality(I) /\ Cardinality(J) \in Nat
    BY <1>2, <1>3, FS_Subset, FS_CardinalityType
  <1>5. J # {}
    OBVIOUS
  <1>6. Cardinality(J) # 0
    BY <1>4, <1>5, FS_EmptySet
  <1> QED
    BY <1>2, <1>4, <1>6 DEF Rank

\* A later index has a higher rank.
LEMMA RankGrows ==
    ASSUME NEW m \in Nat, NEW I \in SUBSET (1 .. m), NEW i \in I, NEW k \in I, i < k
    PROVE  Rank(I, i) < Rank(I, k)
  <1> DEFINE J == {j \in I : j <= i}
             K == {j \in I : j <= k}
  <1>1. i \in 1 .. m /\ k \in 1 .. m
    OBVIOUS
  <1>2. J \in SUBSET K /\ k \in K /\ k \notin J
    <2>1. \A j \in I : j \in Nat
      OBVIOUS
    <2>2. \A j \in I : j <= i => j <= k
      BY <1>1, <2>1
    <2>3. k <= k /\ ~(k <= i)
      BY <1>1
    <2> QED
      BY <2>2, <2>3
  <1>3. IsFiniteSet(K) /\ IsFiniteSet(J)
    BY RankType
  <1>4. Cardinality(J) <= Cardinality(K) /\ Cardinality(J) # Cardinality(K)
    BY <1>2, <1>3, FS_Subset
  <1>5. Cardinality(J) \in Nat /\ Cardinality(K) \in Nat
    BY <1>3, FS_CardinalityType
  <1> QED
    BY <1>4, <1>5 DEF Rank

\* The ranks of a set of indices are the numbers up to its size.
LEMMA RankOnto ==
    ASSUME NEW m \in Nat, NEW I \in SUBSET (1 .. m), NEW n \in 1 .. Cardinality(I)
    PROVE  \E i \in I : Rank(I, i) = n
  <1> DEFINE N == 1 .. Cardinality(I)
             rank == [i \in I |-> Rank(I, i)]
  <1>1. IsFiniteSet(1 .. m)
    BY UpTo
  <1>2. IsFiniteSet(I) /\ Cardinality(I) \in Nat
    BY <1>1, FS_Subset, FS_CardinalityType
  <1>3. rank \in [I -> N]
    BY RankType
  <1>4. \A i, k \in I : rank[i] = rank[k] => i = k
    <2> SUFFICES ASSUME NEW i \in I, NEW k \in I, i # k
                 PROVE  Rank(I, i) # Rank(I, k)
      OBVIOUS
    <2>1. i < k \/ k < i
      OBVIOUS
    <2>2. Rank(I, i) \in Nat /\ Rank(I, k) \in Nat
      <3>1. Rank(I, i) \in 1 .. Cardinality(I) /\ Rank(I, k) \in 1 .. Cardinality(I)
        BY RankType
      <3> QED
        BY <1>2, <3>1
    <2>3. ASSUME i < k PROVE Rank(I, i) < Rank(I, k)
      BY <2>3, RankGrows
    <2>4. ASSUME k < i PROVE Rank(I, k) < Rank(I, i)
      BY <2>4, RankGrows
    <2> QED
      BY <2>1, <2>2, <2>3, <2>4
  <1>5. rank \in Injection(I, N)
    BY <1>3, <1>4 DEF Injection, IsInjective
  <1>6. IsFiniteSet(N) /\ Cardinality(N) = Cardinality(I)
    BY <1>2, UpTo
  <1>7. rank \in Surjection(I, N)
    BY <1>5, <1>6, FS_Injection
  <1> QED
    BY <1>7 DEF Surjection

\* The n-th index is one of them, a later one comes later, and each has its turn.
LEMMA NthType ==
    ASSUME NEW m \in Nat, NEW I \in SUBSET (1 .. m), NEW n \in 1 .. Cardinality(I)
    PROVE  Nth(I, n) \in I /\ Rank(I, Nth(I, n)) = n
  BY RankOnto DEF Nth

LEMMA NthGrows ==
    ASSUME NEW m \in Nat, NEW I \in SUBSET (1 .. m),
           NEW n \in 1 .. Cardinality(I), NEW k \in 1 .. Cardinality(I), n < k
    PROVE  Nth(I, n) < Nth(I, k)
  <1>1. Nth(I, n) \in I /\ Rank(I, Nth(I, n)) = n /\ Nth(I, k) \in I /\ Rank(I, Nth(I, k)) = k
    BY NthType
  <1>2. Nth(I, n) \in 1 .. m /\ Nth(I, k) \in 1 .. m
    BY <1>1
  <1>3. Nth(I, n) # Nth(I, k)
    BY <1>1
  <1>4. ~(Nth(I, k) < Nth(I, n))
    <2> SUFFICES ASSUME Nth(I, k) < Nth(I, n) PROVE FALSE
      OBVIOUS
    <2>1. Rank(I, Nth(I, k)) < Rank(I, Nth(I, n))
      BY <1>1, RankGrows
    <2> QED
      BY <1>1, <2>1
  <1> QED
    BY <1>2, <1>3, <1>4

LEMMA NthOnto ==
    ASSUME NEW m \in Nat, NEW I \in SUBSET (1 .. m), NEW i \in I
    PROVE  Rank(I, i) \in 1 .. Cardinality(I) /\ Nth(I, Rank(I, i)) = i
  <1> DEFINE n == Rank(I, i)
  <1>1. n \in 1 .. Cardinality(I)
    BY RankType
  <1>2. Nth(I, n) \in I /\ Rank(I, Nth(I, n)) = n
    BY <1>1, NthType
  <1> HIDE DEF n
  <1>3. i \in 1 .. m /\ Nth(I, n) \in 1 .. m /\ n \in Nat
    <2>1. Cardinality(I) \in 0 .. m
      BY RankType
    <2>2. n \in Nat
      BY <1>1, <2>1
    <2>3. i \in 1 .. m /\ Nth(I, n) \in 1 .. m
      BY <1>2
    <2> QED
      BY <2>2, <2>3
  <1>4. ~(Nth(I, n) < i) /\ ~(i < Nth(I, n))
    <2>1. ASSUME Nth(I, n) < i PROVE FALSE
      <3>1. Rank(I, Nth(I, n)) < Rank(I, i)
        BY <1>2, <2>1, RankGrows DEF n
      <3> QED
        BY <1>2, <1>3, <3>1 DEF n
    <2>2. ASSUME i < Nth(I, n) PROVE FALSE
      <3>1. Rank(I, i) < Rank(I, Nth(I, n))
        BY <1>2, <2>2, RankGrows
      <3> QED
        BY <1>2, <1>3, <3>1 DEF n
    <2> QED
      BY <2>1, <2>2
  <1> QED
    BY <1>1, <1>3, <1>4 DEF n

\* A greater index added to a set comes last of it.
LEMMA NthAdded ==
    ASSUME NEW m \in Nat \ {0}, NEW I \in SUBSET (1 .. (m - 1))
    PROVE  LET J == I \cup {m} IN
           /\ Cardinality(I) \in Nat /\ Cardinality(J) = Cardinality(I) + 1
           /\ \A n \in 1 .. Cardinality(I) : Nth(J, n) = Nth(I, n)
           /\ Nth(J, Cardinality(I) + 1) = m
  <1> DEFINE J == I \cup {m}
             c == Cardinality(I)
  <1>1. m - 1 \in Nat /\ m \in Nat /\ I \in SUBSET (1 .. m) /\ J \in SUBSET (1 .. m) /\ m \notin I
    OBVIOUS
  <1>2. IsFiniteSet(I)
    <2>1. IsFiniteSet(1 .. m)
      BY <1>1, UpTo
    <2> QED
      BY <1>1, <2>1, FS_Subset
  <1>3. c \in Nat /\ Cardinality(J) = c + 1
    BY <1>1, <1>2, FS_AddElement, FS_CardinalityType
  <1>4. ASSUME NEW n \in 1 .. c PROVE Nth(J, n) = Nth(I, n)
    <2> DEFINE i == Nth(I, n)
    <2>1. i \in I /\ Rank(I, i) = n
      BY <1>1, NthType
    <2> HIDE DEF i
    <2>2. {j \in J : j <= i} = {j \in I : j <= i}
      BY <1>1, <2>1
    <2>3. Rank(J, i) = n /\ i \in J
      BY <2>1, <2>2 DEF Rank
    <2>4. Nth(J, Rank(J, i)) = i
      BY <1>1, <2>3, NthOnto
    <2> QED
      BY <2>3, <2>4 DEF i
  <1>5. Nth(J, c + 1) = m
    <2>1. {j \in J : j <= m} = J
      <3>1. \A j \in J : j \in 1 .. m
        BY <1>1
      <3>2. \A j \in 1 .. m : j <= m
        BY <1>1
      <3> HIDE DEF J
      <3> QED
        BY <3>1, <3>2
    <2>2. Rank(J, m) = c + 1
      BY <1>3, <2>1 DEF Rank
    <2>3. m \in J
      OBVIOUS
    <2>4. Nth(J, Rank(J, m)) = m
      BY <1>1, <2>3, NthOnto
    <2> QED
      BY <2>2, <2>4
  <1> QED
    BY <1>3, <1>4, <1>5

-----------------------------------------------------------------------------
(* What is picked of a sequence.                                             *)

\* What is picked are elements of the sequence, at most as many, in their order.
LEMMA PickedFacts ==
    ASSUME NEW T, NEW s \in Seq(T), NEW I \in SUBSET DOMAIN s
    PROVE  /\ Picked(s, I) \in Seq(T)
           /\ Len(Picked(s, I)) = Cardinality(I) /\ Cardinality(I) \in 0 .. Len(s)
           /\ DOMAIN Picked(s, I) = 1 .. Cardinality(I)
           /\ \A n \in 1 .. Cardinality(I) : Nth(I, n) \in I /\ Picked(s, I)[n] = s[Nth(I, n)]
           /\ \A n, k \in 1 .. Cardinality(I) : n < k => Nth(I, n) < Nth(I, k)
           /\ \A i \in I : \E n \in 1 .. Cardinality(I) : Nth(I, n) = i
  <1>1. DOMAIN s = 1 .. Len(s) /\ Len(s) \in Nat
    OBVIOUS
  <1>2. I \in SUBSET (1 .. Len(s))
    BY <1>1
  <1>3. IsFiniteSet(1 .. Len(s)) /\ Cardinality(1 .. Len(s)) = Len(s)
    BY <1>1, UpTo
  <1>4. Cardinality(I) \in 0 .. Len(s)
    BY <1>1, <1>2, <1>3, FS_Subset, FS_CardinalityType
  <1>5. \A n \in 1 .. Cardinality(I) : Nth(I, n) \in I
    BY <1>1, <1>2, NthType
  <1>6. \A n, k \in 1 .. Cardinality(I) : n < k => Nth(I, n) < Nth(I, k)
    BY <1>1, <1>2, NthGrows
  <1>7. \A i \in I : \E n \in 1 .. Cardinality(I) : Nth(I, n) = i
    BY <1>1, <1>2, NthOnto
  <1>8. \A n \in 1 .. Cardinality(I) : s[Nth(I, n)] \in T
    BY <1>1, <1>2, <1>5
  <1>9. Picked(s, I) \in [1 .. Cardinality(I) -> T]
    BY <1>8 DEF Picked
  <1>10. Cardinality(I) \in Nat
    BY <1>1, <1>4
  <1>11. Picked(s, I) \in Seq(T) /\ Len(Picked(s, I)) = Cardinality(I)
    BY <1>9, <1>10
  <1> QED
    BY <1>4, <1>5, <1>6, <1>7, <1>9, <1>11 DEF Picked

\* Without the elements of a set, a sequence without repetitions has none, and has
\* all others.
LEMMA WithoutFacts ==
    ASSUME NEW T, NEW s \in Seq(T), NEW S
    PROVE  /\ Without(s, S) \in Seq(T) /\ Len(Without(s, S)) \in 0 .. Len(s)
           /\ {Without(s, S)[n] : n \in DOMAIN Without(s, S)} = {s[i] : i \in DOMAIN s} \ S
           /\ (\A i, j \in DOMAIN s : s[i] = s[j] => i = j) =>
                 \A n, k \in DOMAIN Without(s, S) : Without(s, S)[n] = Without(s, S)[k] => n = k
  <1> DEFINE I == {i \in DOMAIN s : s[i] \notin S}
  <1>1. I \in SUBSET DOMAIN s
    OBVIOUS
  <1>2. Without(s, S) = Picked(s, I)
    BY DEF Without
  <1> DEFINE p == Picked(s, I)
             c == Cardinality(I)
  <1>3. /\ p \in Seq(T) /\ Len(p) = c /\ c \in 0 .. Len(s) /\ DOMAIN p = 1 .. c
        /\ \A n \in 1 .. c : Nth(I, n) \in I /\ p[n] = s[Nth(I, n)]
        /\ \A n, k \in 1 .. c : n < k => Nth(I, n) < Nth(I, k)
        /\ \A i \in I : \E n \in 1 .. c : Nth(I, n) = i
    <2> HIDE DEF I
    <2> QED
      BY <1>1, PickedFacts
  <1>4. \A i \in DOMAIN s : i \in I <=> s[i] \notin S
    OBVIOUS
  <1>5. \A i \in I : i \in DOMAIN s /\ i \in Nat
    BY LenProperties
  <1> HIDE DEF I, p, c
  <1>6. {p[n] : n \in DOMAIN p} = {s[i] : i \in DOMAIN s} \ S
    <2>1. ASSUME NEW n \in DOMAIN p PROVE p[n] \in {s[i] : i \in DOMAIN s} \ S
      BY <1>3, <1>4, <1>5
    <2>2. ASSUME NEW i \in DOMAIN s, s[i] \notin S PROVE \E n \in DOMAIN p : p[n] = s[i]
      BY <1>3, <1>4, <2>2
    <2> QED
      BY <2>1, <2>2
  <1>7. ASSUME \A i, j \in DOMAIN s : s[i] = s[j] => i = j
        PROVE  \A n, k \in DOMAIN p : p[n] = p[k] => n = k
    <2> SUFFICES ASSUME NEW n \in 1 .. c, NEW k \in 1 .. c, p[n] = p[k], n # k
                 PROVE  FALSE
      BY <1>3
    <2>1. Nth(I, n) \in I /\ Nth(I, k) \in I /\ Nth(I, n) = Nth(I, k)
      BY <1>3, <1>5, <1>7
    <2>2. Nth(I, n) \in Nat /\ n \in Nat /\ k \in Nat
      BY <1>3, <1>5
    <2>3. n < k \/ k < n
      BY <2>2
    <2> QED
      BY <1>3, <2>1, <2>2, <2>3
  <1> QED
    BY <1>2, <1>3, <1>6, <1>7 DEF p

\* An element taken from a sequence without repetitions leaves it one shorter.
LEMMA WithoutOne ==
    ASSUME NEW T, NEW s \in Seq(T), \A i, j \in DOMAIN s : s[i] = s[j] => i = j,
           NEW x, \E i \in DOMAIN s : s[i] = x
    PROVE  Len(Without(s, {x})) = Len(s) - 1
  <1> DEFINE I == {i \in DOMAIN s : s[i] \notin {x}}
  <1>1. PICK a \in DOMAIN s : s[a] = x
    OBVIOUS
  <1>2. I = DOMAIN s \ {a}
    BY <1>1
  <1>3. DOMAIN s = 1 .. Len(s) /\ Len(s) \in Nat
    OBVIOUS
  <1>4. IsFiniteSet(DOMAIN s) /\ Cardinality(DOMAIN s) = Len(s)
    BY <1>3, UpTo
  <1>5. Cardinality(I) = Len(s) - 1
    BY <1>1, <1>2, <1>4, FS_RemoveElement
  <1>6. I \in SUBSET DOMAIN s
    OBVIOUS
  <1>7. Len(Picked(s, I)) = Cardinality(I)
    BY <1>6, PickedFacts
  <1> QED
    BY <1>5, <1>7 DEF Without

\* The indices from one of them on: the subsequence is the end of the sequence.
LEMMA PickedEnd ==
    ASSUME NEW T, NEW s \in Seq(T), NEW I \in SUBSET DOMAIN s,
           \A i \in I : \A j \in DOMAIN s : i < j => j \in I
    PROVE  /\ \A n \in 1 .. Cardinality(I) :
                 n + 1 \in 1 .. Cardinality(I) => Nth(I, n + 1) = Nth(I, n) + 1
           /\ I # {} => Cardinality(I) \in 1 .. Len(s) /\ Nth(I, Cardinality(I)) = Len(s)
  <1> DEFINE c == Cardinality(I)
  <1>1. /\ DOMAIN s = 1 .. Len(s) /\ Len(s) \in Nat
        /\ \A i \in I : i \in Nat /\ i >= 1 /\ i <= Len(s)
    OBVIOUS
  <1>2. /\ c \in Nat /\ c <= Len(s)
        /\ \A n \in 1 .. c : Nth(I, n) \in I
        /\ \A n, k \in 1 .. c : n < k => Nth(I, n) < Nth(I, k)
        /\ \A i \in I : \E n \in 1 .. c : Nth(I, n) = i
    <2>1. c \in 0 .. Len(s)
      BY PickedFacts, Zenon
    <2>2. \A n \in 1 .. c : Nth(I, n) \in I
      BY PickedFacts, Zenon
    <2>3. \A n, k \in 1 .. c : n < k => Nth(I, n) < Nth(I, k)
      BY PickedFacts, Zenon
    <2>4. ASSUME NEW i \in I PROVE \E n \in 1 .. c : Nth(I, n) = i
      <3>1. I \in SUBSET (1 .. Len(s))
        BY <1>1
      <3>2. Rank(I, i) \in 1 .. c /\ Nth(I, Rank(I, i)) = i
        BY <1>1, <3>1, NthOnto
      <3> QED
        BY <3>2
    <2>5. c \in Nat /\ c <= Len(s)
      BY <1>1, <2>1
    <2> QED
      BY <2>2, <2>3, <2>4, <2>5
  <1> HIDE DEF c
  <1>3. ASSUME NEW n \in 1 .. c, n + 1 \in 1 .. c PROVE Nth(I, n + 1) = Nth(I, n) + 1
    <2>1. /\ n \in Nat /\ Nth(I, n) \in I /\ Nth(I, n + 1) \in I
          /\ Nth(I, n) < Nth(I, n + 1)
      BY <1>2, <1>3
    <2>2. /\ Nth(I, n) \in Nat /\ Nth(I, n + 1) \in Nat
          /\ Nth(I, n) + 1 \in DOMAIN s /\ Nth(I, n) < Nth(I, n) + 1
      BY <1>1, <2>1
    <2>3. Nth(I, n) + 1 \in I
      BY <2>1, <2>2
    <2>4. PICK m \in 1 .. c : Nth(I, m) = Nth(I, n) + 1
      BY <1>2, <2>3
    <2>5. m \in Nat /\ ~(m < n) /\ m # n
      BY <1>2, <2>2, <2>4
    <2>6. ~(n + 1 < m)
      BY <1>2, <1>3, <2>2, <2>4
    <2>7. m = n + 1
      BY <2>1, <2>5, <2>6
    <2> QED
      BY <2>4, <2>7
  <1>4. ASSUME I # {} PROVE c \in 1 .. Len(s) /\ Nth(I, c) = Len(s)
    <2>1. PICK i \in I : TRUE
      BY <1>4
    <2>2. Len(s) \in I
      BY <1>1, <2>1
    <2>3. PICK m \in 1 .. c : Nth(I, m) = Len(s)
      BY <1>2, <2>2
    <2>4. m \in Nat /\ m >= 1 /\ m <= c /\ c \in 1 .. c
      BY <1>2, <2>3
    <2>5. Nth(I, c) \in I
      BY <1>2, <2>4
    <2>6. ~(m < c)
      BY <1>1, <1>2, <2>3, <2>4, <2>5
    <2> QED
      BY <1>2, <2>3, <2>4, <2>6
  <1> QED
    BY <1>3, <1>4 DEF c

-----------------------------------------------------------------------------
(* The least of a set of numbers.                                            *)

\* The order of the numbers is well-founded.
NatLess == {pair \in Nat \X Nat : pair[1] < pair[2]}

LEMMA NatLessWellFounded == IsWellFoundedOn(NatLess, Nat)
  BY NatLessThanWellFounded DEF OpToRel, NatLess

\* A set of numbers has a least one.
LEMMA LeastExists ==
    ASSUME NEW S \in SUBSET Nat, S # {}
    PROVE  \E x \in S : \A y \in S : x <= y
  <1>1. PICK x \in S : \A y \in S : ~(<<y, x>> \in NatLess)
    BY WFMin, NatLessWellFounded
  <1>2. \A u, v \in Nat : v < u => <<v, u>> \in NatLess
    BY DEF NatLess
  <1>3. ASSUME NEW y \in S PROVE x <= y
    <2>1. x \in Nat /\ y \in Nat /\ ~(y < x)
      BY <1>1, <1>2
    <2> QED
      BY <2>1
  <1> QED
    BY <1>3

\* What holds of 0, and of a number when it holds of the one before it.
Inductive(P, n) == 0 \in P /\ \A m \in 1 .. n : m - 1 \in P => m \in P

LEMMA Upward ==
    ASSUME NEW n \in Nat, NEW P, Inductive(P, n)
    PROVE  \A m \in 0 .. n : m \in P
  <1> DEFINE Bad == {m \in 0 .. n : m \notin P}
  <1> SUFFICES ASSUME Bad # {} PROVE FALSE
    OBVIOUS
  <1>1. Bad \in SUBSET Nat
    OBVIOUS
  <1>2. PICK m \in Bad : \A y \in Bad : m <= y
    BY <1>1, LeastExists
  <1>3. m # 0 /\ m \in 0 .. n /\ m \notin P
    BY <1>2 DEF Inductive
  <1>4. m \in 1 .. n /\ m - 1 \in 0 .. n /\ ~(m <= m - 1)
    BY <1>3
  <1>5. m - 1 \in P
    BY <1>2, <1>4
  <1> QED
    BY <1>3, <1>4, <1>5 DEF Inductive

-----------------------------------------------------------------------------
(* Sums.  SumFunction adds the values of a function in an order CHOOSE picks;  *)
(* Sum is what it expands to, and the lemmas say that the order is immaterial. *)

Sum(f, S) ==
    LET iter[s \in SUBSET S] ==
            IF s = {} THEN 0 ELSE LET x == CHOOSE x \in s : TRUE IN f[x] + iter[s \ {x}]
    IN  iter[S]

Chosen(s) == CHOOSE x \in s : TRUE

\* The values of f on S are whole numbers.
Whole(f, S) == \A x \in S : f[x] \in Int

\* A set within another.
Part(T, S) == T \in SUBSET S

\* The values added up so far, for all subsets of S that are in T.
Added(g, f, T) ==
    g = [s \in T |-> IF s = {} THEN 0 ELSE f[Chosen(s)] + g[s \ {Chosen(s)}]]

\* The subsets of a finite set of at most n elements.
Small(S, n) == {s \in SUBSET S : Cardinality(s) <= n}

LEMMA SmallLess ==
    ASSUME NEW S, IsFiniteSet(S), NEW n \in Nat, NEW s \in Small(S, n + 1), s # {}
    PROVE  Chosen(s) \in s /\ s \ {Chosen(s)} \in Small(S, n)
  <1>1. Chosen(s) \in s
    BY DEF Chosen
  <1>2. s \in SUBSET S /\ Cardinality(s) <= n + 1
    BY DEF Small
  <1>3. IsFiniteSet(s) /\ Cardinality(s) \in Nat
    BY <1>2, FS_Subset, FS_CardinalityType
  <1>4. Cardinality(s \ {Chosen(s)}) = Cardinality(s) - 1
    BY <1>1, <1>3, FS_RemoveElement
  <1> QED
    BY <1>1, <1>2, <1>3, <1>4 DEF Small

\* There is a function that adds up.
LEMMA AddedExists ==
    ASSUME NEW S, IsFiniteSet(S), NEW f
    PROVE  \E g : Added(g, f, SUBSET S)
  <1> DEFINE Bad == {n \in Nat : ~ \E g : Added(g, f, Small(S, n))}
  <1>1. \E g : Added(g, f, Small(S, 0))
    <2> DEFINE g == [s \in Small(S, 0) |-> 0]
    <2>1. \A s \in Small(S, 0) : s = {}
      <3> SUFFICES ASSUME NEW s \in Small(S, 0) PROVE s = {}
        OBVIOUS
      <3>1. IsFiniteSet(s) /\ Cardinality(s) \in Nat /\ Cardinality(s) <= 0
        BY FS_Subset, FS_CardinalityType DEF Small
      <3> QED
        BY <3>1, FS_EmptySet
    <2>2. g = [s \in Small(S, 0) |->
                  IF s = {} THEN 0 ELSE f[Chosen(s)] + g[s \ {Chosen(s)}]]
      BY <2>1
    <2> QED
      BY <2>2 DEF Added
  <1>2. ASSUME NEW n \in Nat, \E g : Added(g, f, Small(S, n))
        PROVE  \E h : Added(h, f, Small(S, n + 1))
    <2>1. PICK g : Added(g, f, Small(S, n))
      BY <1>2
    <2> DEFINE Value(s) == IF s = {} THEN 0 ELSE f[Chosen(s)] + g[s \ {Chosen(s)}]
               h == [s \in Small(S, n + 1) |-> Value(s)]
    <2>2. \A s \in Small(S, n) : g[s] = Value(s)
      BY <2>1 DEF Added
    <2>3. \A s \in Small(S, n) : s \in Small(S, n + 1)
      <3> SUFFICES ASSUME NEW s \in Small(S, n) PROVE s \in Small(S, n + 1)
        OBVIOUS
      <3>1. IsFiniteSet(s) /\ Cardinality(s) \in Nat /\ Cardinality(s) <= n
        BY FS_Subset, FS_CardinalityType DEF Small
      <3> QED
        BY <3>1 DEF Small
    <2>4. \A s \in Small(S, n) : h[s] = g[s]
      BY <2>2, <2>3
    <2>5. \A s \in Small(S, n + 1) : s # {} => h[s \ {Chosen(s)}] = g[s \ {Chosen(s)}]
      BY <2>4, SmallLess
    <2>6. h = [s \in Small(S, n + 1) |->
                  IF s = {} THEN 0 ELSE f[Chosen(s)] + h[s \ {Chosen(s)}]]
      <3> HIDE DEF h
      <3>1. h = [s \in Small(S, n + 1) |-> Value(s)]
        BY DEF h
      <3>2. \A s \in Small(S, n + 1) :
               Value(s) = IF s = {} THEN 0 ELSE f[Chosen(s)] + h[s \ {Chosen(s)}]
        BY <2>5
      <3> HIDE DEF Value
      <3> QED
        BY <3>1, <3>2
    <2> HIDE DEF h
    <2> QED
      BY <2>6 DEF Added
  <1>3. \A n \in Nat : \E g : Added(g, f, Small(S, n))
    <2> SUFFICES ASSUME Bad # {} PROVE FALSE
      OBVIOUS
    <2>1. PICK m \in Bad : \A y \in Bad : m <= y
      BY LeastExists
    <2>2. m \in Nat /\ m # 0
      BY <1>1, <2>1
    <2>3. m - 1 \in Nat /\ m - 1 \notin Bad /\ (m - 1) + 1 = m
      BY <2>1, <2>2
    <2> QED
      BY <1>2, <2>1, <2>3
  <1>4. Cardinality(S) \in Nat
    BY FS_CardinalityType
  <1>5. Small(S, Cardinality(S)) = SUBSET S
    <2>1. \A s \in SUBSET S : Cardinality(s) <= Cardinality(S)
      BY FS_Subset
    <2> QED
      BY <2>1 DEF Small
  <1> QED
    BY <1>3, <1>4, <1>5

\* Functions that add up agree, and have the whole numbers for values.
LEMMA AddedAgree ==
    ASSUME NEW S, IsFiniteSet(S), NEW f, Whole(f, S),
           NEW T, Part(T, S), NEW g, NEW h,
           Added(g, f, SUBSET S), Added(h, f, SUBSET T), NEW t, Part(t, T)
    PROVE  g[t] = h[t] /\ g[t] \in Int
  <1> USE DEF Part
  <1> DEFINE Bad == {n \in Nat : \E s \in Small(T, n) : ~(g[s] = h[s] /\ g[s] \in Int)}
  <1>0. IsFiniteSet(T)
    BY FS_Subset
  <1>1. ASSUME NEW n \in Nat, \A s \in Small(T, n) : g[s] = h[s] /\ g[s] \in Int,
               NEW s \in Small(T, n + 1)
        PROVE  g[s] = h[s] /\ g[s] \in Int
    <2>1. s \in SUBSET T /\ s \in SUBSET S
      BY DEF Small
    <2>2. g[s] = (IF s = {} THEN 0 ELSE f[Chosen(s)] + g[s \ {Chosen(s)}])
      BY <2>1 DEF Added
    <2>3. h[s] = (IF s = {} THEN 0 ELSE f[Chosen(s)] + h[s \ {Chosen(s)}])
      BY <2>1 DEF Added
    <2>4. CASE s = {}
      BY <2>2, <2>3, <2>4
    <2>5. CASE s # {}
      <3>1. Chosen(s) \in S /\ s \ {Chosen(s)} \in Small(T, n)
        BY <1>0, <2>1, <2>5, SmallLess
      <3> QED
        BY <1>1, <2>2, <2>3, <2>5, <3>1 DEF Whole
    <2> QED
      BY <2>4, <2>5
  <1>2. \A s \in Small(T, 0) : g[s] = h[s] /\ g[s] \in Int
    <2> SUFFICES ASSUME NEW s \in Small(T, 0) PROVE g[s] = h[s] /\ g[s] \in Int
      OBVIOUS
    <2>1. s \in SUBSET T /\ s \in SUBSET S
      BY DEF Small
    <2>2. IsFiniteSet(s) /\ Cardinality(s) \in Nat /\ Cardinality(s) <= 0
      BY <1>0, FS_Subset, FS_CardinalityType DEF Small
    <2>3. s = {}
      BY <2>2, FS_EmptySet
    <2> QED
      BY <2>1, <2>3 DEF Added
  <1>3. \A n \in Nat : n \notin Bad
    <2> SUFFICES ASSUME Bad # {} PROVE FALSE
      OBVIOUS
    <2>1. PICK m \in Bad : \A y \in Bad : m <= y
      BY LeastExists
    <2>2. m \in Nat /\ m # 0
      BY <1>2, <2>1
    <2>3. m - 1 \in Nat /\ m - 1 \notin Bad /\ (m - 1) + 1 = m
      BY <2>1, <2>2
    <2> QED
      BY <1>1, <2>1, <2>3
  <1>4. Cardinality(T) \in Nat /\ \A s \in SUBSET T : Cardinality(s) <= Cardinality(T)
    BY <1>0, FS_CardinalityType, FS_Subset
  <1> QED
    BY <1>3, <1>4 DEF Small

\* What is added up does not depend on the order.
LEMMA AddedAnyOrder ==
    ASSUME NEW S, IsFiniteSet(S), NEW f, Whole(f, S),
           NEW g, Added(g, f, SUBSET S), NEW t \in SUBSET S, NEW y \in t
    PROVE  g[t] = f[y] + g[t \ {y}]
  <1> DEFINE Bad == {n \in Nat : \E s \in Small(S, n) : \E x \in s : g[s] # f[x] + g[s \ {x}]}
  <1>0. \A s \in SUBSET S : g[s] \in Int
    BY AddedAgree DEF Part
  <1>1. ASSUME NEW n \in Nat, \A s \in Small(S, n) : \A x \in s : g[s] = f[x] + g[s \ {x}],
               NEW s \in Small(S, n + 1), NEW x \in s
        PROVE  g[s] = f[x] + g[s \ {x}]
    <2> DEFINE c == Chosen(s)
    <2>1. s \in SUBSET S /\ x \in S
      BY DEF Small
    <2>2. c \in s /\ c \in S /\ s \ {c} \in Small(S, n)
      BY <2>1, SmallLess
    <2>3. g[s] = f[c] + g[s \ {c}]
      BY <2>1 DEF Added
    <2> HIDE DEF c
    <2>4. CASE x = c
      BY <2>3, <2>4
    <2>5. CASE x # c
      <3>1. g[s \ {c}] = f[x] + g[(s \ {c}) \ {x}]
        BY <1>1, <2>2, <2>5
      <3>2. s \ {x} \in Small(S, n)
        <4>1. IsFiniteSet(s) /\ Cardinality(s) \in Nat /\ Cardinality(s) <= n + 1
          BY FS_Subset, FS_CardinalityType DEF Small
        <4>2. Cardinality(s \ {x}) = Cardinality(s) - 1
          BY <4>1, FS_RemoveElement
        <4> QED
          BY <2>1, <4>1, <4>2 DEF Small
      <3>3. g[s \ {x}] = f[c] + g[(s \ {x}) \ {c}]
        BY <1>1, <2>2, <2>5, <3>2
      <3>4. (s \ {x}) \ {c} = (s \ {c}) \ {x}
        OBVIOUS
      <3>5. f[x] \in Int /\ f[c] \in Int /\ g[(s \ {c}) \ {x}] \in Int
        BY <1>0, <2>1, <2>2 DEF Whole
      <3>6. g[s \ {x}] = f[c] + g[(s \ {c}) \ {x}]
        BY <3>3, <3>4
      <3> QED
        BY <2>3, <3>1, <3>5, <3>6
    <2> QED
      BY <2>4, <2>5
  <1>2. \A s \in Small(S, 0) : s = {}
    <2> SUFFICES ASSUME NEW s \in Small(S, 0) PROVE s = {}
      OBVIOUS
    <2>1. IsFiniteSet(s) /\ Cardinality(s) \in Nat /\ Cardinality(s) <= 0
      BY FS_Subset, FS_CardinalityType DEF Small
    <2> QED
      BY <2>1, FS_EmptySet
  <1>3. \A n \in Nat : n \notin Bad
    <2> SUFFICES ASSUME Bad # {} PROVE FALSE
      OBVIOUS
    <2>1. PICK m \in Bad : \A k \in Bad : m <= k
      BY LeastExists
    <2>2. m \in Nat /\ m # 0
      BY <1>2, <2>1
    <2>3. m - 1 \in Nat /\ m - 1 \notin Bad /\ (m - 1) + 1 = m
      BY <2>1, <2>2
    <2>4. \A s \in Small(S, m - 1) : \A x \in s : g[s] = f[x] + g[s \ {x}]
      BY <2>3
    <2>5. \A s \in Small(S, (m - 1) + 1) : \A x \in s : g[s] = f[x] + g[s \ {x}]
      BY <1>1, <2>3, <2>4
    <2> QED
      BY <2>1, <2>3, <2>5
  <1>4. Cardinality(S) \in Nat /\ \A s \in SUBSET S : Cardinality(s) <= Cardinality(S)
    BY FS_CardinalityType, FS_Subset
  <1> QED
    BY <1>3, <1>4 DEF Small

\* A sum is its type, nothing of nothing, and may be taken apart at any element.
LEMMA SumFacts ==
    ASSUME NEW S, IsFiniteSet(S), NEW f, Whole(f, S)
    PROVE  /\ Sum(f, S) \in Int
           /\ S = {} => Sum(f, S) = 0
           /\ \A x \in S : Sum(f, S) = f[x] + Sum(f, S \ {x})
  <1> DEFINE Up(T) == CHOOSE g : Added(g, f, SUBSET T)
  <1>1. \A T : Sum(f, T) = Up(T)[T]
    BY DEF Sum, Added, Chosen
  <1>2. \A T \in SUBSET S : Added(Up(T), f, SUBSET T)
    BY AddedExists, FS_Subset
  <1> HIDE DEF Up
  <1>3. \A T \in SUBSET S : Sum(f, T) = Up(S)[T] /\ Sum(f, T) \in Int
    <2> SUFFICES ASSUME NEW T \in SUBSET S PROVE Sum(f, T) = Up(S)[T] /\ Sum(f, T) \in Int
      OBVIOUS
    <2>1. \A s \in SUBSET T : Up(S)[s] = Up(T)[s] /\ Up(S)[s] \in Int
      <3> DEFINE u == Up(S)
                 v == Up(T)
      <3>1. Added(u, f, SUBSET S) /\ Added(v, f, SUBSET T)
        BY <1>2
      <3> HIDE DEF u, v
      <3>2. ASSUME NEW s \in SUBSET T PROVE u[s] = v[s] /\ u[s] \in Int
        <4>1. Part(T, S) /\ Part(s, T)
          BY DEF Part
        <4> QED
          BY <3>1, <4>1, AddedAgree
      <3> QED
        BY <3>2 DEF u, v
    <2> QED
      BY <1>1, <2>1
  <1>4. \A x \in S : Up(S)[S] = f[x] + Up(S)[S \ {x}]
    <2> DEFINE u == Up(S)
    <2>1. Added(u, f, SUBSET S) /\ S \in SUBSET S
      BY <1>2
    <2> HIDE DEF u
    <2>2. ASSUME NEW x \in S PROVE u[S] = f[x] + u[S \ {x}]
      BY <2>1, AddedAnyOrder
    <2> QED
      BY <2>1, <2>2 DEF u
  <1>5. S = {} => Up(S)[S] = 0
    BY <1>2 DEF Added
  <1> QED
    BY <1>3, <1>4, <1>5

\* A sum over the numbers up to one, from the sum up to the number before it.
LEMMA SumUpTo ==
    ASSUME NEW n \in Nat, NEW f, Whole(f, 1 .. n), NEW m \in 0 .. n
    PROVE  /\ Sum(f, 1 .. m) \in Int
           /\ m = 0 => Sum(f, 1 .. m) = 0
           /\ m > 0 => Sum(f, 1 .. m) = Sum(f, 1 .. (m - 1)) + f[m] /\ f[m] \in Int
  <1>1. IsFiniteSet(1 .. m)
    BY UpTo
  <1>2. Whole(f, 1 .. m)
    BY DEF Whole
  <1>3. /\ Sum(f, 1 .. m) \in Int
        /\ 1 .. m = {} => Sum(f, 1 .. m) = 0
        /\ \A x \in 1 .. m : Sum(f, 1 .. m) = f[x] + Sum(f, (1 .. m) \ {x})
    BY <1>1, <1>2, SumFacts
  <1>4. ASSUME m > 0 PROVE Sum(f, 1 .. m) = Sum(f, 1 .. (m - 1)) + f[m] /\ f[m] \in Int
    <2>1. m \in 1 .. m /\ (1 .. m) \ {m} = 1 .. (m - 1) /\ f[m] \in Int
      BY <1>2, <1>4 DEF Whole
    <2>2. IsFiniteSet(1 .. (m - 1)) /\ Whole(f, 1 .. (m - 1))
      <3>1. m - 1 \in Nat
        BY <1>4
      <3> QED
        BY <1>2, <3>1, UpTo DEF Whole
    <2>3. Sum(f, 1 .. (m - 1)) \in Int
      BY <2>2, SumFacts
    <2> QED
      BY <1>3, <2>1, <2>3
  <1> QED
    BY <1>3, <1>4

\* What starts at nought and never falls is not negative; and so on.
LEMMA Telescope ==
    ASSUME NEW n \in Nat, NEW w, Whole(w, 0 .. n), w[0] = 0
    PROVE  /\ (\A m \in 1 .. n : w[m] >= w[m - 1]) => w[n] >= 0
           /\ (\A m \in 1 .. n : w[m] <= w[m - 1]) => w[n] <= 0
           /\ (\A m \in 1 .. n : w[m] > w[m - 1]) /\ n > 0 => w[n] > 0
           /\ (\A m \in 1 .. n : w[m] = w[m - 1]) => w[n] = 0
  <1> DEFINE Rises == \A m \in 1 .. n : w[m] >= w[m - 1]
             Falls == \A m \in 1 .. n : w[m] <= w[m - 1]
             Climbs == \A m \in 1 .. n : w[m] > w[m - 1]
             Right(m) == /\ Rises => w[m] >= 0
                         /\ Falls => w[m] <= 0
                         /\ Climbs /\ m > 0 => w[m] > 0
             Bad == {m \in 0 .. n : ~Right(m)}
  <1>1. \A m \in 0 .. n : w[m] \in Int
    BY DEF Whole
  <1>2. ASSUME NEW m \in 1 .. n, Right(m - 1) PROVE Right(m)
    <2>1. w[m] \in Int /\ w[m - 1] \in Int /\ m - 1 \in 0 .. n
      BY <1>1
    <2>2. CASE m = 1
      BY <1>2, <2>1, <2>2
    <2>3. CASE m > 1
      BY <1>2, <2>1, <2>3
    <2> QED
      BY <2>2, <2>3
  <1>3. Right(0)
    OBVIOUS
  <1> HIDE DEF Right
  <1>4. \A m \in 0 .. n : Right(m)
    <2> SUFFICES ASSUME Bad # {} PROVE FALSE
      OBVIOUS
    <2>1. Bad \in SUBSET Nat
      OBVIOUS
    <2>2. PICK m \in Bad : \A y \in Bad : m <= y
      BY <2>1, LeastExists
    <2>3. m \in 1 .. n /\ m - 1 \in 0 .. n /\ m - 1 \notin Bad
      BY <1>3, <2>2
    <2> QED
      BY <1>2, <2>2, <2>3
  <1>5. Right(n) /\ w[n] \in Int
    BY <1>1, <1>4
  <1>6. (\A m \in 1 .. n : w[m] = w[m - 1]) => Rises /\ Falls
    <2>1. \A m \in 1 .. n : w[m - 1] \in Int
      BY <1>1
    <2> QED
      BY <1>1, <2>1
  <1> QED
    BY <1>5, <1>6 DEF Right

-----------------------------------------------------------------------------
(* Covariance.                                                               *)

LEMMA SpreadAlgebra ==
    ASSUME NEW m \in Int, NEW a \in Int, NEW b \in Int, NEW c \in Int, NEW u \in Int, NEW v \in Int
    PROVE  (m + 1) * (a + u * v) - (b + u) * (c + v)
              = (m * a - b * c) + (a + m * (u * v) - u * c - v * b)
  OBVIOUS

LEMMA CrossAlgebra ==
    ASSUME NEW l \in Int, NEW a \in Int, NEW b \in Int, NEW c \in Int,
           NEW u \in Int, NEW v \in Int, NEW p \in Int, NEW q \in Int
    PROVE  (a + u * v) + (l + 1) * (p * q) - p * (c + v) - q * (b + u)
              = (a + l * (p * q) - p * c - q * b) + (p - u) * (q - v)
  OBVIOUS

Products(x, y, n) == [i \in 1 .. n |-> x[i] * y[i]]

\* m * m times the covariance of the first m of n points, and what the next point adds to it
\* for the first l points.
Spread(x, y, n, m) ==
    m * Sum(Products(x, y, n), 1 .. m) - Sum(x, 1 .. m) * Sum(y, 1 .. m)
Cross(x, y, n, k, l) ==
    Sum(Products(x, y, n), 1 .. l) + l * (x[k] * y[k]) - x[k] * Sum(y, 1 .. l)
        - y[k] * Sum(x, 1 .. l)

LEMMA SpreadSteps ==
    ASSUME NEW n \in Nat, NEW x, NEW y, Whole(x, 1 .. n), Whole(y, 1 .. n), NEW m \in 0 .. n
    PROVE  /\ Spread(x, y, n, m) \in Int
           /\ m = 0 => Spread(x, y, n, m) = 0
           /\ m > 0 => Spread(x, y, n, m) = Spread(x, y, n, m - 1) + Cross(x, y, n, m, m - 1)
  <1> DEFINE z == Products(x, y, n)
  <1>1. Whole(z, 1 .. n) /\ \A i \in 1 .. n : z[i] = x[i] * y[i] /\ x[i] \in Int /\ y[i] \in Int
    BY DEF Products, Whole
  <1> HIDE DEF z
  <1>2. /\ Sum(x, 1 .. m) \in Int /\ Sum(y, 1 .. m) \in Int /\ Sum(z, 1 .. m) \in Int
        /\ m = 0 => Sum(x, 1 .. m) = 0 /\ Sum(y, 1 .. m) = 0 /\ Sum(z, 1 .. m) = 0
    BY <1>1, SumUpTo
  <1>3. Spread(x, y, n, m) = m * Sum(z, 1 .. m) - Sum(x, 1 .. m) * Sum(y, 1 .. m)
    BY DEF Spread, z
  <1>4. Spread(x, y, n, m) \in Int /\ (m = 0 => Spread(x, y, n, m) = 0)
    BY <1>2, <1>3
  <1>5. ASSUME m > 0
        PROVE  Spread(x, y, n, m) = Spread(x, y, n, m - 1) + Cross(x, y, n, m, m - 1)
    <2> DEFINE a == Sum(z, 1 .. (m - 1))
               b == Sum(x, 1 .. (m - 1))
               c == Sum(y, 1 .. (m - 1))
               u == x[m]
               v == y[m]
    <2>1. m - 1 \in 0 .. n /\ m \in 1 .. n /\ (m - 1) + 1 = m
      BY <1>5
    <2>2. a \in Int /\ b \in Int /\ c \in Int
      BY <1>1, <2>1, SumUpTo
    <2>3. u \in Int /\ v \in Int /\ z[m] = u * v
      BY <1>1, <2>1
    <2>4. Sum(z, 1 .. m) = a + u * v /\ Sum(x, 1 .. m) = b + u /\ Sum(y, 1 .. m) = c + v
      BY <1>1, <1>5, <2>3, SumUpTo
    <2>5. /\ Spread(x, y, n, m - 1) = (m - 1) * a - b * c
          /\ Cross(x, y, n, m, m - 1) = a + (m - 1) * (u * v) - u * c - v * b
      BY DEF Spread, Cross, z
    <2>6. Spread(x, y, n, m) = m * (a + u * v) - (b + u) * (c + v)
      BY <1>3, <2>4
    <2> HIDE DEF a, b, c, u, v
    <2>7. ((m - 1) + 1) * (a + u * v) - (b + u) * (c + v)
              = ((m - 1) * a - b * c) + (a + (m - 1) * (u * v) - u * c - v * b)
      BY <2>1, <2>2, <2>3, SpreadAlgebra
    <2> QED
      BY <2>1, <2>5, <2>6, <2>7
  <1> QED
    BY <1>4, <1>5

LEMMA CrossSteps ==
    ASSUME NEW n \in Nat, NEW x, NEW y, Whole(x, 1 .. n), Whole(y, 1 .. n),
           NEW k \in 1 .. n, NEW l \in 0 .. n
    PROVE  /\ Cross(x, y, n, k, l) \in Int
           /\ l = 0 => Cross(x, y, n, k, l) = 0
           /\ l > 0 => Cross(x, y, n, k, l)
                          = Cross(x, y, n, k, l - 1) + (x[k] - x[l]) * (y[k] - y[l])
  <1> DEFINE z == Products(x, y, n)
             p == x[k]
             q == y[k]
  <1>1. /\ Whole(z, 1 .. n)
        /\ \A i \in 1 .. n : z[i] = x[i] * y[i] /\ x[i] \in Int /\ y[i] \in Int
    BY DEF Products, Whole
  <1>2. p \in Int /\ q \in Int
    BY <1>1
  <1> HIDE DEF z
  <1>3. /\ Sum(x, 1 .. l) \in Int /\ Sum(y, 1 .. l) \in Int /\ Sum(z, 1 .. l) \in Int
        /\ l = 0 => Sum(x, 1 .. l) = 0 /\ Sum(y, 1 .. l) = 0 /\ Sum(z, 1 .. l) = 0
    BY <1>1, SumUpTo
  <1>4. Cross(x, y, n, k, l)
           = Sum(z, 1 .. l) + l * (p * q) - p * Sum(y, 1 .. l) - q * Sum(x, 1 .. l)
    BY DEF Cross, z
  <1>5. Cross(x, y, n, k, l) \in Int /\ (l = 0 => Cross(x, y, n, k, l) = 0)
    BY <1>2, <1>3, <1>4
  <1>6. ASSUME l > 0
        PROVE  Cross(x, y, n, k, l) = Cross(x, y, n, k, l - 1) + (p - x[l]) * (q - y[l])
    <2> DEFINE a == Sum(z, 1 .. (l - 1))
               b == Sum(x, 1 .. (l - 1))
               c == Sum(y, 1 .. (l - 1))
               u == x[l]
               v == y[l]
    <2>1. l - 1 \in 0 .. n /\ l \in 1 .. n /\ (l - 1) + 1 = l
      BY <1>6
    <2>2. a \in Int /\ b \in Int /\ c \in Int
      BY <1>1, <2>1, SumUpTo
    <2>3. u \in Int /\ v \in Int /\ z[l] = u * v
      BY <1>1, <2>1
    <2>4. Sum(z, 1 .. l) = a + u * v /\ Sum(x, 1 .. l) = b + u /\ Sum(y, 1 .. l) = c + v
      BY <1>1, <1>6, <2>3, SumUpTo
    <2>5. Cross(x, y, n, k, l - 1) = a + (l - 1) * (p * q) - p * c - q * b
      BY DEF Cross, z
    <2>6. Cross(x, y, n, k, l) = (a + u * v) + l * (p * q) - p * (c + v) - q * (b + u)
      BY <1>4, <2>4
    <2> HIDE DEF a, b, c, u, v, p, q
    <2>7. (a + u * v) + ((l - 1) + 1) * (p * q) - p * (c + v) - q * (b + u)
              = (a + (l - 1) * (p * q) - p * c - q * b) + (p - u) * (q - v)
      BY <1>2, <2>1, <2>2, <2>3, CrossAlgebra
    <2>8. Cross(x, y, n, k, l) = Cross(x, y, n, k, l - 1) + (p - u) * (q - v)
      BY <2>1, <2>5, <2>6, <2>7
    <2> QED
      BY <2>8 DEF u, v
  <1> QED
    BY <1>5, <1>6

\* What point k is off the line of slope t / e through point i, times how far they are apart.
Apart(x, y, e, t, i, k) ==
    e * ((x[k] - x[i]) * (y[k] - y[i])) - t * ((x[k] - x[i]) * (x[k] - x[i]))

\* No point is below the line of that slope through a point before it; and so on.
NoneBelow(x, y, e, t, n) ==
    \A k \in 1 .. n : \A i \in 1 .. (k - 1) : Apart(x, y, e, t, i, k) >= 0
NoneAbove(x, y, e, t, n) ==
    \A k \in 1 .. n : \A i \in 1 .. (k - 1) : Apart(x, y, e, t, i, k) <= 0
AllAbove(x, y, e, t, n) ==
    \A k \in 1 .. n : \A i \in 1 .. (k - 1) : Apart(x, y, e, t, i, k) > 0

\* The line through n points is no less steep than t / e when no point is below the line of
\* that slope through each before it; and so on.
LEMMA Covariance ==
    ASSUME NEW n \in Nat, NEW x, NEW y, Whole(x, 1 .. n), Whole(y, 1 .. n),
           NEW e \in Int, NEW t \in Int
    PROVE  /\ Spread(x, y, n, n) \in Int /\ Spread(x, x, n, n) \in Int
           /\ NoneBelow(x, y, e, t, n) => e * Spread(x, y, n, n) >= t * Spread(x, x, n, n)
           /\ NoneAbove(x, y, e, t, n) => e * Spread(x, y, n, n) <= t * Spread(x, x, n, n)
           /\ AllAbove(x, y, e, t, n) /\ n > 1
                 => e * Spread(x, y, n, n) > t * Spread(x, x, n, n)
  <1> DEFINE W(m) == e * Spread(x, y, n, m) - t * Spread(x, x, n, m)
             G(k, l) == e * Cross(x, y, n, k, l) - t * Cross(x, x, n, k, l)
             w == [m \in 0 .. n |-> W(m)]
             g(k) == [l \in 0 .. (k - 1) |-> G(k, l)]
             D(i, k) == Apart(x, y, e, t, i, k)
  <1>0. \A a, b, c, d \in Int : e * (a + b) - t * (c + d) = (e * a - t * c) + (e * b - t * d)
    OBVIOUS
  <1>1. ASSUME NEW m \in 0 .. n
        PROVE  W(m) \in Int /\ (m = 0 => W(m) = 0) /\ (m > 0 => W(m) = W(m - 1) + G(m, m - 1))
    <2> DEFINE c == Cross(x, y, n, m, m - 1)
               d == Cross(x, x, n, m, m - 1)
               p == Spread(x, y, n, m)
               q == Spread(x, x, n, m)
               r == Spread(x, y, n, m - 1)
               s == Spread(x, x, n, m - 1)
    <2>1. /\ p \in Int /\ q \in Int /\ (m = 0 => p = 0 /\ q = 0)
          /\ m > 0 => p = r + c /\ q = s + d
      BY SpreadSteps
    <2>2. m > 0 => r \in Int /\ s \in Int
      <3> SUFFICES ASSUME m > 0 PROVE r \in Int /\ s \in Int
        OBVIOUS
      <3>1. m - 1 \in 0 .. n
        OBVIOUS
      <3> QED
        BY <3>1, SpreadSteps
    <2>3. m > 0 => c \in Int /\ d \in Int
      <3> SUFFICES ASSUME m > 0 PROVE c \in Int /\ d \in Int
        OBVIOUS
      <3>1. m \in 1 .. n /\ m - 1 \in 0 .. n
        OBVIOUS
      <3> QED
        BY <3>1, CrossSteps
    <2>4. W(m) = e * p - t * q /\ W(m - 1) = e * r - t * s /\ G(m, m - 1) = e * c - t * d
      OBVIOUS
    <2> HIDE DEF W, G, c, d, p, q, r, s
    <2>5. e * p - t * q \in Int /\ (m = 0 => e * p - t * q = 0)
      BY <2>1
    <2>6. ASSUME m > 0 PROVE e * p - t * q = (e * r - t * s) + (e * c - t * d)
      <3>1. p = r + c /\ q = s + d
        BY <2>1, <2>6
      <3>2. r \in Int /\ c \in Int /\ s \in Int /\ d \in Int
        BY <2>2, <2>3, <2>6
      <3>3. e * (r + c) - t * (s + d) = (e * r - t * s) + (e * c - t * d)
        BY <1>0, <3>2
      <3> QED
        BY <3>1, <3>3
    <2> QED
      BY <2>4, <2>5, <2>6
  <1>2. ASSUME NEW k \in 1 .. n, NEW l \in 0 .. (k - 1)
        PROVE  /\ G(k, l) \in Int /\ (l = 0 => G(k, l) = 0)
               /\ l > 0 => G(k, l) = G(k, l - 1) + D(l, k) /\ D(l, k) \in Int
    <2> DEFINE c == Cross(x, y, n, k, l)
               d == Cross(x, x, n, k, l)
               r == Cross(x, y, n, k, l - 1)
               s == Cross(x, x, n, k, l - 1)
               u == x[k] - x[l]
               v == y[k] - y[l]
    <2>0. l \in 0 .. n
      OBVIOUS
    <2>1. ASSUME NEW z, Whole(z, 1 .. n)
          PROVE  /\ Cross(x, z, n, k, l) \in Int /\ (l = 0 => Cross(x, z, n, k, l) = 0)
                 /\ l > 0 => Cross(x, z, n, k, l)
                                = Cross(x, z, n, k, l - 1) + (x[k] - x[l]) * (z[k] - z[l])
      BY <2>0, <2>1, CrossSteps
    <2>2. /\ c \in Int /\ (l = 0 => c = 0)
          /\ l > 0 => c = r + (x[k] - x[l]) * (y[k] - y[l])
      BY <2>1, Zenon
    <2>3. /\ d \in Int /\ (l = 0 => d = 0)
          /\ l > 0 => d = s + (x[k] - x[l]) * (x[k] - x[l])
      BY <2>1, Zenon
    <2>4. l > 0 => r \in Int /\ s \in Int
      <3> SUFFICES ASSUME l > 0 PROVE r \in Int /\ s \in Int
        OBVIOUS
      <3>1. l - 1 \in 0 .. n
        OBVIOUS
      <3> QED
        BY <3>1, CrossSteps
    <2>5. l > 0 => u \in Int /\ v \in Int
      BY DEF Whole
    <2>6. /\ G(k, l) = e * c - t * d /\ G(k, l - 1) = e * r - t * s
          /\ D(l, k) = e * (u * v) - t * (u * u)
      BY DEF Apart
    <2>7. l > 0 => c = r + u * v /\ d = s + u * u
      BY <2>2, <2>3
    <2> HIDE DEF G, D, c, d, r, s, u, v
    <2>8. e * c - t * d \in Int /\ (l = 0 => e * c - t * d = 0)
      BY <2>2, <2>3
    <2>9. ASSUME l > 0
          PROVE  /\ e * c - t * d = (e * r - t * s) + (e * (u * v) - t * (u * u))
                 /\ e * (u * v) - t * (u * u) \in Int
      <3> DEFINE o == u * u
                 f == u * v
      <3>1. o \in Int /\ f \in Int
        BY <2>5, <2>9
      <3>2. c = r + f /\ d = s + o
        BY <2>7, <2>9
      <3> HIDE DEF o, f
      <3>3. e * c - t * d = (e * r - t * s) + (e * f - t * o) /\ e * f - t * o \in Int
        BY <1>0, <2>4, <2>9, <3>1, <3>2
      <3> QED
        BY <3>3 DEF o, f
    <2> QED
      BY <2>6, <2>8, <2>9
  <1> HIDE DEF W, G, D
  <1>3. ASSUME NEW k \in 1 .. n
        PROVE  /\ G(k, k - 1) \in Int
               /\ (\A i \in 1 .. (k - 1) : D(i, k) >= 0) => G(k, k - 1) >= 0
               /\ (\A i \in 1 .. (k - 1) : D(i, k) <= 0) => G(k, k - 1) <= 0
               /\ (\A i \in 1 .. (k - 1) : D(i, k) > 0) /\ k > 1 => G(k, k - 1) > 0
    <2> DEFINE h == g(k)
    <2>1. k - 1 \in Nat /\ k - 1 \in 0 .. (k - 1)
      OBVIOUS
    <2>2. Whole(h, 0 .. (k - 1)) /\ h[0] = 0
      BY <1>2, <2>1 DEF Whole
    <2>3. \A l \in 1 .. (k - 1) : /\ h[l] = h[l - 1] + D(l, k) /\ D(l, k) \in Int
                                  /\ h[l - 1] \in Int
      <3> SUFFICES ASSUME NEW l \in 1 .. (k - 1)
                   PROVE  /\ h[l] = h[l - 1] + D(l, k) /\ D(l, k) \in Int
                          /\ h[l - 1] \in Int
        OBVIOUS
      <3>1. l \in 0 .. (k - 1) /\ l - 1 \in 0 .. (k - 1) /\ l > 0
        OBVIOUS
      <3> QED
        BY <1>2, <3>1
    <2>4. h[k - 1] = G(k, k - 1)
      BY <2>1
    <2> HIDE DEF h
    <2>5. /\ (\A m \in 1 .. (k - 1) : h[m] >= h[m - 1]) => h[k - 1] >= 0
          /\ (\A m \in 1 .. (k - 1) : h[m] <= h[m - 1]) => h[k - 1] <= 0
          /\ (\A m \in 1 .. (k - 1) : h[m] > h[m - 1]) /\ k - 1 > 0 => h[k - 1] > 0
      BY <2>1, <2>2, Telescope
    <2>6. h[k - 1] \in Int
      BY <2>1, <2>2 DEF Whole
    <2>7. ASSUME \A i \in 1 .. (k - 1) : D(i, k) >= 0 PROVE h[k - 1] >= 0
      BY <2>3, <2>5, <2>7
    <2>8. ASSUME \A i \in 1 .. (k - 1) : D(i, k) <= 0 PROVE h[k - 1] <= 0
      BY <2>3, <2>5, <2>8
    <2>9. ASSUME \A i \in 1 .. (k - 1) : D(i, k) > 0, k > 1 PROVE h[k - 1] > 0
      BY <2>1, <2>3, <2>5, <2>9
    <2> QED
      BY <2>4, <2>6, <2>7, <2>8, <2>9
  <1>4. Whole(w, 0 .. n) /\ w[0] = 0 /\ w[n] = W(n)
    BY <1>1 DEF Whole
  <1>5. \A m \in 1 .. n : w[m] = w[m - 1] + G(m, m - 1) /\ w[m - 1] \in Int
    <2> SUFFICES ASSUME NEW m \in 1 .. n
                 PROVE  w[m] = w[m - 1] + G(m, m - 1) /\ w[m - 1] \in Int
      OBVIOUS
    <2>1. m \in 0 .. n /\ m - 1 \in 0 .. n /\ m > 0
      OBVIOUS
    <2> QED
      BY <1>1, <2>1
  <1> HIDE DEF w
  <1>6. /\ (\A m \in 1 .. n : w[m] >= w[m - 1]) => w[n] >= 0
        /\ (\A m \in 1 .. n : w[m] <= w[m - 1]) => w[n] <= 0
    BY <1>4, Telescope
  <1>7. W(n) \in Int
    BY <1>1
  <1>8. ASSUME \A k \in 1 .. n : \A i \in 1 .. (k - 1) : D(i, k) >= 0
        PROVE  W(n) >= 0
    <2>1. \A k \in 1 .. n : G(k, k - 1) >= 0 /\ G(k, k - 1) \in Int
      BY <1>3, <1>8
    <2>2. \A m \in 1 .. n : w[m] >= w[m - 1]
      BY <1>5, <2>1
    <2> QED
      BY <1>4, <1>6, <2>2
  <1>9. ASSUME \A k \in 1 .. n : \A i \in 1 .. (k - 1) : D(i, k) <= 0
        PROVE  W(n) <= 0
    <2>1. \A k \in 1 .. n : G(k, k - 1) <= 0 /\ G(k, k - 1) \in Int
      BY <1>3, <1>9
    <2>2. \A m \in 1 .. n : w[m] <= w[m - 1]
      BY <1>5, <2>1
    <2> QED
      BY <1>4, <1>6, <2>2
  <1>10. ASSUME \A k \in 1 .. n : \A i \in 1 .. (k - 1) : D(i, k) > 0, n > 1
         PROVE  W(n) > 0
    <2>1. n - 1 \in Nat /\ n - 1 \in 0 .. n /\ n \in 1 .. n
      BY <1>10
    <2>2. \A k \in 1 .. n : G(k, k - 1) >= 0
      <3> SUFFICES ASSUME NEW k \in 1 .. n PROVE G(k, k - 1) >= 0
        OBVIOUS
      <3>1. \A i \in 1 .. (k - 1) : D(i, k) >= 0
        <4> SUFFICES ASSUME NEW i \in 1 .. (k - 1) PROVE D(i, k) >= 0
          OBVIOUS
        <4>1. i \in 0 .. (k - 1) /\ i > 0
          OBVIOUS
        <4>2. D(i, k) \in Int
          BY <1>2, <4>1
        <4> QED
          BY <1>10, <4>2
      <3> QED
        BY <1>3, <3>1
    <2>3. Whole(w, 0 .. (n - 1))
      BY <1>4 DEF Whole
    <2>4. \A m \in 1 .. (n - 1) : w[m] >= w[m - 1]
      BY <1>3, <1>5, <2>2
    <2>5. w[n - 1] >= 0
      BY <1>4, <2>1, <2>3, <2>4, Telescope
    <2>6. G(n, n - 1) > 0 /\ G(n, n - 1) \in Int
      BY <1>3, <1>10, <2>1
    <2>7. w[n] = w[n - 1] + G(n, n - 1) /\ w[n - 1] \in Int
      BY <1>5, <2>1
    <2> QED
      BY <1>4, <2>5, <2>6, <2>7
  <1>11. n \in 0 .. n
    OBVIOUS
  <1>12. Spread(x, y, n, n) \in Int /\ Spread(x, x, n, n) \in Int
    BY <1>11, SpreadSteps
  <1>13. /\ NoneBelow(x, y, e, t, n) => W(n) >= 0
         /\ NoneAbove(x, y, e, t, n) => W(n) <= 0
         /\ AllAbove(x, y, e, t, n) /\ n > 1 => W(n) > 0
    BY <1>8, <1>9, <1>10 DEF D, NoneBelow, NoneAbove, AllAbove
  <1>14. \A a, b \in Int : /\ a - b >= 0 => a >= b
                           /\ a - b <= 0 => a <= b
                           /\ a - b > 0 => a > b
    OBVIOUS
  <1>15. e * Spread(x, y, n, n) \in Int /\ t * Spread(x, x, n, n) \in Int
    BY <1>12
  <1> QED
    BY <1>12, <1>13, <1>14, <1>15 DEF W

-----------------------------------------------------------------------------
(* Folds over a sequence from the left, which are defined by recursion over the *)
(* sets of its indices: the value of the first ones is made from that of one    *)
(* less.                                                                     *)

Latest(t) == CHOOSE x \in t : \A y \in t : x >= y

Unfolded(g, F, b, T) ==
    g = [t \in T |-> IF t = {} THEN b ELSE F[<<g[t \ {Latest(t)}], Latest(t)>>]]

LEMMA SmallWithout ==
    ASSUME NEW S, IsFiniteSet(S), NEW n \in Nat, NEW s \in Small(S, n + 1), NEW x \in s
    PROVE  s \ {x} \in Small(S, n)
  <1>1. s \in SUBSET S /\ Cardinality(s) <= n + 1
    BY DEF Small
  <1>2. IsFiniteSet(s) /\ Cardinality(s) \in Nat
    BY <1>1, FS_Subset, FS_CardinalityType
  <1>3. Cardinality(s \ {x}) = Cardinality(s) - 1
    BY <1>2, FS_RemoveElement
  <1> QED
    BY <1>1, <1>2, <1>3 DEF Small

LEMMA SmallEmpty ==
    ASSUME NEW S, IsFiniteSet(S), NEW s \in Small(S, 0)
    PROVE  s = {}
  <1>1. IsFiniteSet(s) /\ Cardinality(s) \in Nat /\ Cardinality(s) <= 0
    BY FS_Subset, FS_CardinalityType DEF Small
  <1> QED
    BY <1>1, FS_EmptySet

\* The indices of a sequence have a last one.
LEMMA LatestIs ==
    ASSUME NEW n \in Nat, NEW t \in SUBSET (1 .. n), t # {}
    PROVE  Latest(t) \in t
  <1> DEFINE T == {n - x : x \in t}
  <1>0. \A x \in t : x \in Int /\ n - x \in Nat
    OBVIOUS
  <1>1. T \in SUBSET Nat /\ T # {}
    BY <1>0
  <1>2. PICK m \in T : \A k \in T : m <= k
    BY <1>1, LeastExists
  <1>3. PICK x \in t : m = n - x
    BY <1>2
  <1>4. \A k \in t : n - k \in T
    OBVIOUS
  <1> HIDE DEF T
  <1>5. \A k \in t : x >= k
    <2> SUFFICES ASSUME NEW k \in t PROVE x >= k
      OBVIOUS
    <2>1. n - x <= n - k /\ x \in Int /\ k \in Int
      BY <1>2, <1>3, <1>4
    <2> QED
      BY <2>1
  <1> QED
    BY <1>5 DEF Latest

LEMMA LatestOf ==
    ASSUME NEW n \in Nat, NEW m \in 1 .. n
    PROVE  /\ 1 .. m \in SUBSET (1 .. n) /\ 1 .. m # {}
           /\ Latest(1 .. m) = m
           /\ (1 .. m) \ {Latest(1 .. m)} = 1 .. (m - 1)
  <1>1. 1 .. m \in SUBSET (1 .. n) /\ m \in 1 .. m
    OBVIOUS
  <1>2. Latest(1 .. m) = m
    <2>1. \A x \in 1 .. m : (\A y \in 1 .. m : x >= y) => x = m
      OBVIOUS
    <2>2. \A y \in 1 .. m : m >= y
      OBVIOUS
    <2> QED
      BY <1>1, <2>1, <2>2 DEF Latest
  <1> QED
    BY <1>1, <1>2

\* What a step keeps to a set of values, it can be repeated with.
LEMMA FoldExists ==
    ASSUME NEW n \in Nat, NEW V, NEW b \in V, NEW F \in [V \X (1 .. n) -> V]
    PROVE  \E g : Unfolded(g, F, b, SUBSET (1 .. n)) /\ g \in [SUBSET (1 .. n) -> V]
  <1> DEFINE S == 1 .. n
             Made(g, m) == Unfolded(g, F, b, Small(S, m)) /\ g \in [Small(S, m) -> V]
             Bad == {m \in Nat : ~ \E g : Made(g, m)}
  <1>0. IsFiniteSet(S) /\ Cardinality(S) = n
    BY UpTo
  <1>00. \A t \in SUBSET S : t # {} => Latest(t) \in t
    BY LatestIs
  <1>000. F \in [V \X S -> V]
    OBVIOUS
  <1> HIDE DEF S
  <1>1. \E g : Made(g, 0)
    <2> DEFINE g == [t \in Small(S, 0) |-> b]
    <2>1. \A t \in Small(S, 0) : t = {}
      BY <1>0, SmallEmpty
    <2>2. g = [t \in Small(S, 0) |-> IF t = {} THEN b ELSE F[<<g[t \ {Latest(t)}], Latest(t)>>]]
      BY <2>1
    <2> QED
      BY <2>2 DEF Unfolded
  <1>2. ASSUME NEW m \in Nat, NEW g, Made(g, m)
        PROVE  \E h : Made(h, m + 1)
    <2> DEFINE Value(t) == IF t = {} THEN b ELSE F[<<g[t \ {Latest(t)}], Latest(t)>>]
               h == [t \in Small(S, m + 1) |-> Value(t)]
    <2>2. \A t \in Small(S, m) : g[t] = Value(t) /\ g[t] \in V
      BY <1>2 DEF Unfolded
    <2>3. \A t \in Small(S, m) : t \in Small(S, m + 1)
      <3> SUFFICES ASSUME NEW t \in Small(S, m) PROVE t \in Small(S, m + 1)
        OBVIOUS
      <3>1. IsFiniteSet(t) /\ Cardinality(t) \in Nat /\ Cardinality(t) <= m
        BY <1>0, FS_Subset, FS_CardinalityType DEF Small
      <3> QED
        BY <3>1 DEF Small
    <2>4. \A t \in Small(S, m) : h[t] = g[t]
      BY <2>2, <2>3
    <2>5. \A t \in Small(S, m + 1) : t # {} =>
             /\ Latest(t) \in S /\ t \ {Latest(t)} \in Small(S, m)
             /\ h[t \ {Latest(t)}] = g[t \ {Latest(t)}] /\ g[t \ {Latest(t)}] \in V
      <3> SUFFICES ASSUME NEW t \in Small(S, m + 1), t # {}
                   PROVE  /\ Latest(t) \in S /\ t \ {Latest(t)} \in Small(S, m)
                          /\ h[t \ {Latest(t)}] = g[t \ {Latest(t)}] /\ g[t \ {Latest(t)}] \in V
        OBVIOUS
      <3>1. Latest(t) \in t /\ Latest(t) \in S
        BY <1>00 DEF Small
      <3>2. t \ {Latest(t)} \in Small(S, m)
        BY <1>0, <3>1, SmallWithout
      <3> HIDE DEF h, Value
      <3> QED
        BY <2>2, <2>4, <3>1, <3>2
    <2>6. \A t \in Small(S, m + 1) : Value(t) \in V
      BY <1>000, <2>5
    <2>7. h = [t \in Small(S, m + 1) |-> IF t = {} THEN b
                                         ELSE F[<<h[t \ {Latest(t)}], Latest(t)>>]]
      <3> HIDE DEF h
      <3>1. h = [t \in Small(S, m + 1) |-> Value(t)]
        BY DEF h
      <3>2. \A t \in Small(S, m + 1) :
               Value(t) = IF t = {} THEN b ELSE F[<<h[t \ {Latest(t)}], Latest(t)>>]
        BY <2>5
      <3> HIDE DEF Value
      <3> QED
        BY <3>1, <3>2
    <2>8. h \in [Small(S, m + 1) -> V]
      <3> HIDE DEF Value
      <3> QED
        BY <2>6
    <2> HIDE DEF h
    <2> QED
      BY <2>7, <2>8 DEF Unfolded
  <1>3. \A m \in Nat : \E g : Made(g, m)
    <2> SUFFICES ASSUME Bad # {} PROVE FALSE
      OBVIOUS
    <2>1. PICK m \in Bad : \A y \in Bad : m <= y
      BY LeastExists
    <2>2. m \in Nat /\ m # 0
      BY <1>1, <2>1
    <2>3. m - 1 \in Nat /\ m - 1 \notin Bad /\ (m - 1) + 1 = m
      BY <2>1, <2>2
    <2> HIDE DEF Made
    <2> QED
      BY <1>2, <2>1, <2>3
  <1>4. Small(S, n) = SUBSET S
    <2>1. \A t \in SUBSET S : Cardinality(t) <= n
      BY <1>0, FS_Subset
    <2> QED
      BY <2>1 DEF Small
  <1> QED
    BY <1>3, <1>4 DEF S

===============================================================================
