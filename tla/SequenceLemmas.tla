---------------------------- MODULE SequenceLemmas ----------------------------
(***************************************************************************)
(* Facts about sequences, places and sorting that the proofs of several    *)
(* components rest on.  Places are the numbers 1 .. n.                     *)
(***************************************************************************)
EXTENDS Integers, Sequences, SequencesExt, SequenceTheorems, FiniteSetTheorems, TLAPS

-----------------------------------------------------------------------------
(* Sequences.                                                              *)

\* What Append does to the length and to the elements.
LEMMA AppendFacts ==
  ASSUME NEW S, NEW s \in Seq(S), NEW e \in S
  PROVE  /\ Append(s, e) \in Seq(S)
         /\ Len(Append(s, e)) = Len(s) + 1 /\ Len(s) \in Nat
         /\ DOMAIN s = 1 .. Len(s) /\ DOMAIN Append(s, e) = 1 .. Len(s) + 1
         /\ \A n \in 1 .. Len(s) : Append(s, e)[n] = s[n]
         /\ Append(s, e)[Len(s) + 1] = e
  OBVIOUS

\* Two sequences end to end: the first is a prefix, the second comes behind it.
LEMMA ConcatFacts ==
  ASSUME NEW S, NEW s \in Seq(S), NEW t \in Seq(S)
  PROVE  /\ s \o t \in Seq(S) /\ Len(s \o t) = Len(s) + Len(t)
         /\ Len(s) \in Nat /\ Len(t) \in Nat
         /\ \A n \in 1 .. Len(s) : (s \o t)[n] = s[n]
         /\ \A n \in 1 .. Len(t) : (s \o t)[Len(s) + n] = t[n]
  OBVIOUS

\* Reverse counts the places from the other end.
LEMMA ReverseFacts ==
  ASSUME NEW S, NEW s \in Seq(S)
  PROVE  /\ Reverse(s) \in Seq(S) /\ Len(Reverse(s)) = Len(s)
         /\ \A n \in 1 .. Len(s) : Reverse(s)[n] = s[Len(s) - n + 1]
  <1>1. Len(s) \in Nat /\ \A n \in 1 .. Len(s) : s[n] \in S
    OBVIOUS
  <1>2. Reverse(s) = [n \in 1 .. Len(s) |-> s[Len(s) - n + 1]]
    BY DEF Reverse
  <1>3. \A n \in 1 .. Len(s) : Len(s) - n + 1 \in 1 .. Len(s)
    BY <1>1
  <1>4. Reverse(s) \in [1 .. Len(s) -> S]
    BY <1>1, <1>2, <1>3
  <1> QED
    BY <1>1, <1>2, <1>4

\* A sequence without its last element, and that element.
LEMMA FrontFacts ==
  ASSUME NEW S, NEW s \in Seq(S), s # <<>>
  PROVE  /\ Front(s) \in Seq(S) /\ Len(Front(s)) = Len(s) - 1 /\ Len(s) \in Nat \ {0}
         /\ \A n \in 1 .. Len(s) - 1 : Front(s)[n] = s[n]
         /\ Last(s) = s[Len(s)] /\ Last(s) \in S
  <1>1. Len(s) \in Nat \ {0}
    OBVIOUS
  <1>2. Front(s) = SubSeq(s, 1, Len(s) - 1) /\ Last(s) = s[Len(s)]
    BY DEF Front, Last
  <1> DEFINE k == Len(s) - 1
             u == SubSeq(s, 1, k)
  <1>3. k \in Nat /\ 1 \in Int /\ k \in Int /\ \A n \in 1 .. k : s[n] \in S
    BY <1>1
  <1> HIDE DEF k
  <1>4. /\ u \in Seq(S) /\ Len(u) = IF 1 <= k THEN k - 1 + 1 ELSE 0
        /\ \A n \in 1 .. k - 1 + 1 : u[n] = s[1 + n - 1]
    BY <1>3, SubSeqProperties
  <1> HIDE DEF u
  <1>5. Len(u) = k /\ \A n \in 1 .. k : n \in 1 .. k - 1 + 1 /\ 1 + n - 1 = n
    BY <1>3, <1>4
  <1>6. \A n \in 1 .. k : u[n] = s[n]
    BY <1>4, <1>5
  <1> QED
    BY <1>1, <1>2, <1>4, <1>5, <1>6 DEF u, k

-----------------------------------------------------------------------------
(* Places.                                                                 *)
\* Of the places of a sequence that have something in common there is a last one.
LEMMA LastPlace ==
  ASSUME NEW n \in Nat, NEW S \in SUBSET (1 .. n), S # {}
  PROVE  \E x \in S : \A y \in S : y <= x
  <1> DEFINE From(x) == {k \in S : x <= k}
             F == {From(x) : x \in S}
  <1>1. IsFiniteSet(S)
    <2>1. IsFiniteSet(1 .. n)
      BY FS_Interval
    <2> QED
      BY <2>1, FS_Subset
  <1>2. F \subseteq FiniteSubsetsOf(S) /\ F # {}
    <2>1. \A x \in S : From(x) \in SUBSET S
      OBVIOUS
    <2>2. \A x \in S : IsFiniteSet(From(x))
      <3> HIDE DEF From
      <3> QED
        BY <1>1, <2>1, FS_Subset
    <2> HIDE DEF From
    <2> QED
      BY <2>1, <2>2 DEF FiniteSubsetsOf
  <1>3. IsWellFoundedOn(StrictSubsetOrdering(S), FiniteSubsetsOf(S))
    BY FS_StrictSubsetOrderingWellFounded
  <1>4. \E t \in F : \A u \in F : ~(<<u, t>> \in StrictSubsetOrdering(S))
    <2> HIDE DEF F
    <2> QED
      BY <1>2, <1>3, WFMin
  <1>5. PICK x \in S : \A y \in S : ~(<<From(y), From(x)>> \in StrictSubsetOrdering(S))
    BY <1>4
  <1>6. ASSUME NEW y \in S PROVE y <= x
    <2>1. CASE x < y
      <3>1. From(y) \subseteq From(x) /\ x \in From(x) /\ x \notin From(y)
        <4>1. \A k \in S : k \in Int
          OBVIOUS
        <4>2. \A k \in S : y <= k => x <= k
          BY <2>1, <4>1
        <4>3. x <= x /\ ~(y <= x)
          BY <2>1, <4>1
        <4> QED
          BY <4>2, <4>3
      <3>2. <<From(y), From(x)>> \in StrictSubsetOrdering(S)
        BY <3>1 DEF StrictSubsetOrdering
      <3> QED
        BY <1>5, <3>2
    <2> QED
      BY <2>1
  <1> QED
    BY <1>6

\* The last of some places, which there is if there are any.
LastOf(S) == CHOOSE q \in S : \A h \in S : h <= q

\* LastOf finds it.
LEMMA LastOfPlaces ==
  ASSUME NEW n \in Nat, NEW S \in SUBSET (1 .. n), S # {}
  PROVE  LastOf(S) \in S /\ \A h \in S : h <= LastOf(S)
  BY LastPlace DEF LastOf

-----------------------------------------------------------------------------
(* Sorting.                                                                *)

\* In a strict total order of n places - `ahead` gives the places that come
\* before each - the number of places ahead ranks them: no two have the same
\* rank, and every rank from 0 to n - 1 is taken.
LEMMA Ranking ==
  ASSUME NEW n \in Nat, NEW ahead \in [1 .. n -> SUBSET (1 .. n)],
         \A x \in 1 .. n : x \notin ahead[x],
         \A x, y \in 1 .. n : x # y => x \in ahead[y] \/ y \in ahead[x],
         \A x, y \in 1 .. n : y \in ahead[x] => ahead[y] \subseteq ahead[x]
  PROVE  /\ \A x \in 1 .. n : Cardinality(ahead[x]) \in 0 .. n - 1
         /\ \A x, y \in 1 .. n :
              x \in ahead[y] <=> Cardinality(ahead[x]) < Cardinality(ahead[y])
         /\ \A k \in 0 .. n - 1 : \E x \in 1 .. n : Cardinality(ahead[x]) = k
  <1> DEFINE rank == [x \in 1 .. n |-> Cardinality(ahead[x])]
  <1>1. IsFiniteSet(1 .. n) /\ Cardinality(1 .. n) = n
    BY FS_Interval
  <1>2. \A x \in 1 .. n : IsFiniteSet(ahead[x]) /\ Cardinality(ahead[x]) \in Nat
    BY <1>1, FS_Subset, FS_CardinalityType
  <1>3. ASSUME NEW x \in 1 .. n, NEW y \in 1 .. n, x \in ahead[y]
        PROVE  Cardinality(ahead[x]) < Cardinality(ahead[y])
    <2>1. ahead[x] \in SUBSET ahead[y] /\ ahead[x] # ahead[y]
      BY <1>3
    <2>2. /\ Cardinality(ahead[x]) <= Cardinality(ahead[y])
          /\ Cardinality(ahead[y]) = Cardinality(ahead[x]) => ahead[y] = ahead[x]
      BY <1>2, <2>1, FS_Subset
    <2> QED
      BY <1>2, <2>1, <2>2
  <1>4. \A x, y \in 1 .. n :
          x \in ahead[y] <=> Cardinality(ahead[x]) < Cardinality(ahead[y])
    BY <1>2, <1>3
  <1>5. \A x \in 1 .. n : Cardinality(ahead[x]) \in 0 .. n - 1
    <2> SUFFICES ASSUME NEW x \in 1 .. n PROVE Cardinality(ahead[x]) \in 0 .. n - 1
      OBVIOUS
    <2>1. ahead[x] \in SUBSET (1 .. n) /\ ahead[x] # 1 .. n
      OBVIOUS
    <2>2. Cardinality(ahead[x]) <= n /\ Cardinality(ahead[x]) # n
      BY <1>1, <2>1, FS_Subset
    <2> QED
      BY <1>2, <2>2
  <1>6. rank \in Injection(1 .. n, 0 .. n - 1)
    <2>1. rank \in [1 .. n -> 0 .. n - 1]
      BY <1>5
    <2>2. ASSUME NEW x \in 1 .. n, NEW y \in 1 .. n, rank[x] = rank[y] PROVE x = y
      BY <1>2, <1>3, <2>2
    <2> QED
      BY <2>1, <2>2 DEF Injection, IsInjective
  <1>7. IsFiniteSet(0 .. n - 1) /\ Cardinality(0 .. n - 1) = n
    <2>1. 0 \in Int /\ n - 1 \in Int
      OBVIOUS
    <2>2. /\ IsFiniteSet(0 .. n - 1)
          /\ Cardinality(0 .. n - 1) = IF 0 > n - 1 THEN 0 ELSE (n - 1) - 0 + 1
      BY <2>1, FS_Interval
    <2> QED
      BY <2>2
  <1>8. rank \in Surjection(1 .. n, 0 .. n - 1)
    BY <1>1, <1>6, <1>7, FS_Injection
  <1>9. \A k \in 0 .. n - 1 : \E x \in 1 .. n : Cardinality(ahead[x]) = k
    BY <1>8 DEF Surjection
  <1> QED
    BY <1>4, <1>5, <1>9

-----------------------------------------------------------------------------
(* Blocks of c places.                                                     *)

\* Where the block of x starts, and that the next place is in it or starts one.
LEMMA BlockBounds ==
  ASSUME NEW c \in Nat \ {0}, NEW x \in Nat
  PROVE  /\ c * (x \div c) \in Nat /\ c * (x \div c) <= x /\ x < c * (x \div c) + c
         /\ x \div c \in Nat
  OBVIOUS

\* The r-th number of block q is of block q.
LEMMA BlockUnique ==
  ASSUME NEW c \in Nat \ {0}, NEW q \in Nat, NEW r \in Nat, r < c
  PROVE  (c * q + r) \div c = q
  OBVIOUS

\* The next number is in the same block while there is room in it, and starts
\* the next one otherwise.
LEMMA BlockNext ==
  ASSUME NEW c \in Nat \ {0}, NEW x \in Nat
  PROVE  c * ((x + 1) \div c) =
           IF x + 1 < c * (x \div c) + c THEN c * (x \div c) ELSE x + 1
  <1> DEFINE q == x \div c
             r == x - c * q
  <1>1. q \in Nat /\ c * q \in Nat /\ r \in Nat /\ r < c
    BY BlockBounds
  <1>2. CASE r + 1 < c
    <2>1. x + 1 = c * q + (r + 1)
      BY <1>1
    <2>2. (c * q + (r + 1)) \div c = q
      BY <1>1, <1>2, BlockUnique
    <2> QED
      BY <1>1, <1>2, <2>1, <2>2
  <1>3. CASE ~(r + 1 < c)
    <2>1. r + 1 = c
      BY <1>1, <1>3
    <2>2. c * (q + 1) = c * q + c
      BY <1>1
    <2>3. x + 1 = c * (q + 1) + 0
      BY <1>1, <2>1, <2>2
    <2>4. (c * (q + 1) + 0) \div c = q + 1
      BY <1>1, BlockUnique
    <2>5. (x + 1) \div c = q + 1
      BY <2>3, <2>4
    <2>6. c * ((x + 1) \div c) = x + 1
      BY <2>3, <2>5
    <2>7. ~(x + 1 < c * q + c)
      BY <1>1, <2>1
    <2> QED
      BY <2>6, <2>7
  <1> QED
    BY <1>2, <1>3
=============================================================================
