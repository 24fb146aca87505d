---------------------------- MODULE RowOrderProofs ----------------------------
(***************************************************************************)
(* Proofs about RowOrder, for streams of any length, any timestamps and    *)
(* keys and any cap: the rows come out in canonical order, all of them     *)
(* before the end or the error of the stream, and the buffer is bounded.   *)
(***************************************************************************)
EXTENDS RowOrder, SequenceLemmas

-----------------------------------------------------------------------------
(* Runs and blocks of the arrivals a under the cap c: RunStart, BlockStart, *)
(* Capped, Anchor and Precedes as operators of the arrivals, so that the   *)
(* arrivals before and after a step can be compared.                       *)

\* s starts the run that i is in.
StartsRun(a, i, s) ==
  /\ \A j \in s .. i : a[j].time = a[i].time
  /\ s > 1 => a[s - 1].time # a[i].time

RunOf(a, i) == CHOOSE s \in 1 .. i : StartsRun(a, i, s)

BlockOf(a, c, i) == RunOf(a, i) + c * ((i - RunOf(a, i)) \div c)

FullBlock(a, c, i) ==
  BlockOf(a, c, i) + c - 1 <= Len(a)
    /\ RunOf(a, BlockOf(a, c, i) + c - 1) = RunOf(a, i)

AnchorsOf(a, c, i) == {j \in BlockOf(a, c, i) .. i : a[j].key # NoKey}

AnchorKeyOf(a, c, i) ==
  IF AnchorsOf(a, c, i) = {} THEN NoKey ELSE a[LastOf(AnchorsOf(a, c, i))].key

Canonical(a, c, i, j) ==
  IF BlockOf(a, c, i) # BlockOf(a, c, j) \/ FullBlock(a, c, i) THEN i < j
  ELSE \/ AnchorKeyOf(a, c, i) < AnchorKeyOf(a, c, j)
       \/ AnchorKeyOf(a, c, i) = AnchorKeyOf(a, c, j) /\ i < j

\* The block of i will not grow: it is full, or its run has ended.
Closed(a, c, i) ==
  \/ BlockOf(a, c, i) + c - 1 <= Len(a)
  \/ \E j \in i .. Len(a) : a[j].time # a[i].time /\ j <= BlockOf(a, c, i) + c - 1

\* What a record and a stream of them are made of.
LEMMA RecordFacts ==
  ASSUME NEW a \in Seq(Record)
  PROVE  /\ Len(a) \in Nat /\ DOMAIN a = 1 .. Len(a)
         /\ \A i \in 1 .. Len(a) :
              a[i] \in Record /\ a[i].id \in Nat /\ a[i].key \in Nat
  <1>1. ASSUME NEW m \in Record PROVE m.id \in Nat /\ m.key \in Nat
    <2>1. m.id \in Nat \ {0} /\ m.key \in Keys \union {NoKey}
      BY DEF Record
    <2>2. Keys \union {NoKey} \subseteq Nat
      BY ConstantsAssumption DEF NoKey
    <2> QED
      BY <2>1, <2>2
  <1>2. Len(a) \in Nat /\ DOMAIN a = 1 .. Len(a) /\ \A i \in 1 .. Len(a) : a[i] \in Record
    OBVIOUS
  <1> QED
    BY <1>1, <1>2

\* Every record is in a run, and the run has a first record.
LEMMA RunExists ==
  ASSUME NEW a \in Seq(Record), NEW i \in 1 .. Len(a)
  PROVE  RunOf(a, i) \in 1 .. i /\ StartsRun(a, i, RunOf(a, i))
  <1> DEFINE S == {s \in 1 .. i : s > 1 => a[s - 1].time # a[i].time}
  <1>1. i \in Nat /\ i >= 1 /\ S \in SUBSET (1 .. i) /\ 1 \in S
    OBVIOUS
  <1>2. PICK x \in S : \A y \in S : y <= x
    <2> HIDE DEF S
    <2> QED
      BY <1>1, LastPlace
  <1>3. x \in 1 .. i /\ (x > 1 => a[x - 1].time # a[i].time)
    BY <1>2
  <1>4. ASSUME NEW j \in x .. i PROVE a[j].time = a[i].time
    <2>1. CASE j = i
      BY <2>1
    <2>2. CASE j # i
      <3>1. j + 1 \in 1 .. i /\ ~(j + 1 <= x) /\ j + 1 - 1 = j /\ j + 1 > 1
        BY <1>3, <2>2
      <3>2. j + 1 \notin S
        BY <1>2, <3>1
      <3>3. a[j + 1 - 1].time = a[i].time
        BY <3>1, <3>2
      <3> QED
        BY <3>1, <3>3
    <2> QED
      BY <2>1, <2>2
  <1>5. StartsRun(a, i, x)
    BY <1>3, <1>4 DEF StartsRun
  <1> QED
    BY <1>3, <1>5 DEF RunOf

\* A run has one first record only.
LEMMA RunUnique ==
  ASSUME NEW a \in Seq(Record), NEW i \in 1 .. Len(a), NEW s \in 1 .. i,
         StartsRun(a, i, s)
  PROVE  RunOf(a, i) = s
  <1> DEFINE r == RunOf(a, i)
  <1>1. r \in 1 .. i /\ StartsRun(a, i, r)
    BY RunExists
  <1> HIDE DEF r
  <1>2. ASSUME NEW x \in 1 .. i, NEW y \in 1 .. i, x < y,
               StartsRun(a, i, x), StartsRun(a, i, y)
        PROVE  FALSE
    <2>1. y - 1 \in x .. i /\ y > 1
      BY <1>2
    <2>2. a[y - 1].time = a[i].time
      BY <1>2, <2>1 DEF StartsRun
    <2>3. a[y - 1].time # a[i].time
      BY <1>2, <2>1 DEF StartsRun
    <2> QED
      BY <2>2, <2>3
  <1>3. ~(r < s) /\ ~(s < r)
    BY <1>1, <1>2
  <1>4. r = s
    BY <1>1, <1>3
  <1> QED
    BY <1>4 DEF r

\* All records of a run, up to i, have its time and its first record.
LEMMA RunShared ==
  ASSUME NEW a \in Seq(Record), NEW i \in 1 .. Len(a), NEW j \in RunOf(a, i) .. i
  PROVE  RunOf(a, j) = RunOf(a, i) /\ a[j].time = a[i].time /\ j \in 1 .. Len(a)
  <1> DEFINE r == RunOf(a, i)
  <1>1. r \in 1 .. i /\ StartsRun(a, i, r)
    BY RunExists
  <1>2. j \in r .. i
    OBVIOUS
  <1> HIDE DEF r
  <1>3. j \in 1 .. Len(a) /\ r \in 1 .. j /\ Len(a) \in Nat
    BY <1>1, <1>2, RecordFacts
  <1>4. a[j].time = a[i].time
    BY <1>1, <1>2 DEF StartsRun
  <1>5. \A k \in r .. j : k \in r .. i
    BY <1>1, <1>2
  <1>6. StartsRun(a, j, r)
    BY <1>1, <1>4, <1>5 DEF StartsRun
  <1> QED
    BY <1>3, <1>4, <1>6, RunUnique DEF r

\* A record is in the run of the one before it exactly if it has its time.
LEMMA RunNext ==
  ASSUME NEW a \in Seq(Record), NEW i \in 1 .. Len(a), i + 1 <= Len(a)
  PROVE  RunOf(a, i + 1) = IF a[i + 1].time = a[i].time THEN RunOf(a, i) ELSE i + 1
  <1> DEFINE k == i + 1
  <1>1. k \in 1 .. Len(a) /\ k - 1 = i /\ k > 1 /\ k > i
    BY RecordFacts
  <1>2. RunOf(a, i) \in 1 .. i /\ StartsRun(a, i, RunOf(a, i))
    BY RunExists
  <1>3. ASSUME a[k].time = a[i].time PROVE RunOf(a, k) = RunOf(a, i)
    <2>1. \A j \in RunOf(a, i) .. k : j \in RunOf(a, i) .. i \/ j = k
      BY <1>1, <1>2
    <2>2. StartsRun(a, k, RunOf(a, i)) /\ RunOf(a, i) \in 1 .. k
      <3> HIDE DEF k
      <3>1. RunOf(a, i) \in 1 .. k
        BY <1>1, <1>2
      <3>2. StartsRun(a, k, RunOf(a, i))
        BY <1>2, <1>3, <2>1 DEF StartsRun
      <3> QED
        BY <3>1, <3>2
    <2> QED
      BY <1>1, <2>2, RunUnique
  <1>4. ASSUME a[k].time # a[i].time PROVE RunOf(a, k) = k
    <2>1. \A j \in k .. k : j = k
      BY <1>1
    <2>2. StartsRun(a, k, k) /\ k \in 1 .. k
      <3> HIDE DEF k
      <3>1. k \in 1 .. k
        BY <1>1
      <3>2. StartsRun(a, k, k)
        BY <1>1, <1>4, <2>1 DEF StartsRun
      <3> QED
        BY <3>1, <3>2
    <2> QED
      BY <1>1, <2>2, RunUnique
  <1> QED
    BY <1>3, <1>4

\* b continues a.
Continues(b, a) == Len(a) <= Len(b) /\ \A i \in 1 .. Len(a) : b[i] = a[i]

\* Records to come do not change the run of one that came.
LEMMA RunFixed ==
  ASSUME NEW a \in Seq(Record), NEW b \in Seq(Record), Continues(b, a),
         NEW i \in 1 .. Len(a)
  PROVE  RunOf(b, i) = RunOf(a, i) /\ i \in 1 .. Len(b)
  <1>1. RunOf(a, i) \in 1 .. i /\ StartsRun(a, i, RunOf(a, i))
    BY RunExists
  <1>2. i \in 1 .. Len(b) /\ Len(a) \in Nat
    BY RecordFacts DEF Continues
  <1>3. StartsRun(b, i, RunOf(a, i))
    <2>1. \A j \in 1 .. i : j \in 1 .. Len(a)
      BY <1>2
    <2>2. \A j \in 1 .. i : b[j] = a[j]
      BY <2>1 DEF Continues
    <2>3. \A j \in RunOf(a, i) .. i : j \in 1 .. i
      BY <1>1
    <2>4. RunOf(a, i) > 1 => RunOf(a, i) - 1 \in 1 .. i
      BY <1>1
    <2>5. i \in 1 .. i
      OBVIOUS
    <2> QED
      BY <1>1, <2>2, <2>3, <2>4, <2>5 DEF StartsRun
  <1> QED
    BY <1>1, <1>2, <1>3, RunUnique

\* The block of a record starts in its run, less than a block before it.
LEMMA BlockPlace ==
  ASSUME NEW a \in Seq(Record), NEW c \in Nat \ {0}, NEW i \in 1 .. Len(a)
  PROVE  /\ BlockOf(a, c, i) \in RunOf(a, i) .. i /\ i < BlockOf(a, c, i) + c
         /\ BlockOf(a, c, i) \in 1 .. i /\ RunOf(a, i) \in 1 .. i
  <1>1. RunOf(a, i) \in 1 .. i /\ i \in Nat
    BY RunExists, RecordFacts
  <1> DEFINE x == i - RunOf(a, i)
  <1>2. x \in Nat
    BY <1>1
  <1> HIDE DEF x
  <1>3. c * (x \div c) \in Nat /\ c * (x \div c) <= x /\ x < c * (x \div c) + c
    BY <1>2, BlockBounds
  <1>4. BlockOf(a, c, i) = RunOf(a, i) + c * (x \div c) /\ x = i - RunOf(a, i)
    BY DEF BlockOf, x
  <1> DEFINE y == c * (x \div c)
             b == BlockOf(a, c, i)
             s == RunOf(a, i)
  <1>5. /\ s \in 1 .. i /\ i \in Nat /\ y \in Nat /\ y <= x /\ x < y + c
        /\ b = s + y /\ x = i - s
    BY <1>1, <1>3, <1>4
  <1> HIDE DEF y, b, s
  <1>6. b \in s .. i /\ i < b + c /\ b \in 1 .. i
    BY <1>5
  <1> QED
    BY <1>5, <1>6 DEF b, s

\* The records of one run that lie within a block of i are of that block.
LEMMA BlockShared ==
  ASSUME NEW a \in Seq(Record), NEW c \in Nat \ {0}, NEW i \in 1 .. Len(a),
         NEW j \in 1 .. Len(a), RunOf(a, j) = RunOf(a, i),
         BlockOf(a, c, i) <= j, j < BlockOf(a, c, i) + c
  PROVE  BlockOf(a, c, j) = BlockOf(a, c, i)
  <1> DEFINE r == RunOf(a, i)
             q == (i - r) \div c
             d == j - BlockOf(a, c, i)
  <1>1. r \in 1 .. i /\ i \in Nat /\ j \in Nat /\ BlockOf(a, c, i) \in 1 .. i
    BY BlockPlace, RecordFacts
  <1>2. q \in Nat
    <2>1. i - r \in Nat
      BY <1>1
    <2> HIDE DEF r
    <2> QED
      BY <2>1, BlockBounds
  <1>3. BlockOf(a, c, i) = r + c * q
    BY DEF BlockOf
  <1>4. d \in Nat /\ d < c
    BY <1>1
  <1>5. BlockOf(a, c, j) = r + c * ((j - r) \div c)
    BY DEF BlockOf
  <1> HIDE DEF r, q
  <1>6. j - r = c * q + d
    BY <1>1, <1>2, <1>3
  <1>7. (c * q + d) \div c = q
    <2> HIDE DEF d
    <2> QED
      BY <1>2, <1>4, BlockUnique
  <1>8. (j - r) \div c = q
    BY <1>6, <1>7
  <1> QED
    BY <1>3, <1>5, <1>8

\* The records from the start of the block of i to i are of that block.
LEMMA BlockBehind ==
  ASSUME NEW a \in Seq(Record), NEW c \in Nat \ {0}, NEW i \in 1 .. Len(a),
         NEW j \in BlockOf(a, c, i) .. i
  PROVE  /\ BlockOf(a, c, j) = BlockOf(a, c, i) /\ RunOf(a, j) = RunOf(a, i)
         /\ a[j].time = a[i].time
  <1> DEFINE B == BlockOf(a, c, i)
  <1>0. i \in Nat
    BY RecordFacts
  <1>1. B \in RunOf(a, i) .. i /\ i < B + c /\ RunOf(a, i) \in 1 .. i
    BY BlockPlace
  <1>2. j \in B .. i
    OBVIOUS
  <1>3. j \in RunOf(a, i) .. i /\ B <= j /\ j < B + c
    <2> HIDE DEF B
    <2> QED
      BY <1>0, <1>1, <1>2
  <1>4. RunOf(a, j) = RunOf(a, i) /\ a[j].time = a[i].time /\ j \in 1 .. Len(a)
    BY <1>3, RunShared
  <1> QED
    BY <1>3, <1>4, BlockShared

\* The next record is in the block of i if it is of its time and there is room.
LEMMA NextBlock ==
  ASSUME NEW a \in Seq(Record), NEW c \in Nat \ {0}, NEW i \in 1 .. Len(a),
         i + 1 <= Len(a)
  PROVE  BlockOf(a, c, i + 1) =
           IF a[i + 1].time = a[i].time /\ i + 1 < BlockOf(a, c, i) + c
           THEN BlockOf(a, c, i) ELSE i + 1
  <1> DEFINE r == RunOf(a, i)
             k == i + 1
             x == i - r
  <1>1. r \in 1 .. i /\ i \in Nat /\ k \in 1 .. Len(a)
    BY BlockPlace, RecordFacts
  <1>2. RunOf(a, k) = IF a[k].time = a[i].time THEN r ELSE k
    BY RunNext
  <1>3. x \in Nat /\ k - r = x + 1
    BY <1>1
  <1>4. c * ((x + 1) \div c) = IF x + 1 < c * (x \div c) + c THEN c * (x \div c) ELSE x + 1
    <2> HIDE DEF x
    <2> QED
      BY <1>3, BlockNext
  <1>5. BlockOf(a, c, i) = r + c * (x \div c)
    BY DEF BlockOf
  <1>6. BlockOf(a, c, k) = RunOf(a, k) + c * ((k - RunOf(a, k)) \div c)
    BY DEF BlockOf
  <1>7. c * (x \div c) \in Nat
    <2> HIDE DEF x
    <2> QED
      BY <1>3, BlockBounds
  <1>8. CASE a[k].time = a[i].time
    <2>1. BlockOf(a, c, k) = r + c * ((x + 1) \div c)
      <3>1. RunOf(a, k) = r
        BY <1>2, <1>8
      <3> QED
        BY <1>3, <1>6, <3>1
    <2> DEFINE y == c * (x \div c)
               z == c * ((x + 1) \div c)
    <2>2. /\ BlockOf(a, c, k) = r + z /\ BlockOf(a, c, i) = r + y /\ y \in Nat
          /\ z = IF x + 1 < y + c THEN y ELSE x + 1
      BY <1>4, <1>5, <1>7, <2>1
    <2> HIDE DEF y, z
    <2>3. x + 1 < y + c <=> k < r + y + c
      BY <1>1, <2>2
    <2>4. r + (x + 1) = k
      BY <1>1
    <2> QED
      BY <1>8, <2>2, <2>3, <2>4
  <1>9. CASE a[k].time # a[i].time
    <2>1. RunOf(a, k) = k
      BY <1>2, <1>9
    <2>2. 0 \div c = 0 /\ c * 0 = 0 /\ k - k = 0 /\ k + 0 = k
      <3>1. (c * 0 + 0) \div c = 0
        BY BlockUnique
      <3> QED
        BY <1>1, <3>1
    <2>3. BlockOf(a, c, k) = k
      <3> HIDE DEF k
      <3> QED
        BY <1>6, <2>1, <2>2
    <2> QED
      BY <1>9, <2>3
  <1> QED
    BY <1>8, <1>9

\* Records to come do not change the block of one that came.
LEMMA BlockFixed ==
  ASSUME NEW a \in Seq(Record), NEW b \in Seq(Record), Continues(b, a),
         NEW c \in Nat \ {0}, NEW i \in 1 .. Len(a)
  PROVE  BlockOf(b, c, i) = BlockOf(a, c, i)
  <1>1. RunOf(b, i) = RunOf(a, i)
    BY RunFixed
  <1> QED
    BY <1>1 DEF BlockOf

\* Nor do they change the key its chunk is sorted by.
LEMMA AnchorFixed ==
  ASSUME NEW a \in Seq(Record), NEW b \in Seq(Record), Continues(b, a),
         NEW c \in Nat \ {0}, NEW i \in 1 .. Len(a)
  PROVE  AnchorKeyOf(b, c, i) = AnchorKeyOf(a, c, i)
  <1>1. BlockOf(b, c, i) = BlockOf(a, c, i) /\ BlockOf(a, c, i) \in 1 .. i
    BY BlockFixed, BlockPlace
  <1>2. i \in Nat /\ Len(a) \in Nat
    BY RecordFacts
  <1>3. \A j \in BlockOf(a, c, i) .. i : j \in 1 .. i /\ j \in 1 .. Len(a)
    BY <1>1, <1>2
  <1>4. AnchorsOf(b, c, i) = AnchorsOf(a, c, i)
    BY <1>1, <1>3 DEF AnchorsOf, Continues
  <1>5. AnchorsOf(a, c, i) \in SUBSET (1 .. i)
    BY <1>3 DEF AnchorsOf
  <1>6. CASE AnchorsOf(a, c, i) = {}
    BY <1>4, <1>6 DEF AnchorKeyOf
  <1>7. CASE AnchorsOf(a, c, i) # {}
    <2>1. LastOf(AnchorsOf(a, c, i)) \in AnchorsOf(a, c, i)
      BY <1>2, <1>5, <1>7, LastOfPlaces
    <2>2. LastOf(AnchorsOf(a, c, i)) \in 1 .. Len(a)
      BY <1>3, <2>1 DEF AnchorsOf
    <2> QED
      BY <1>4, <1>7, <2>2 DEF AnchorKeyOf, Continues
  <1> QED
    BY <1>6, <1>7

\* Once a block is closed, its being full is settled.
LEMMA FullFixed ==
  ASSUME NEW a \in Seq(Record), NEW b \in Seq(Record), Continues(b, a),
         NEW c \in Nat \ {0}, NEW i \in 1 .. Len(a), Closed(a, c, i)
  PROVE  FullBlock(b, c, i) = FullBlock(a, c, i)
  <1> DEFINE last == BlockOf(a, c, i) + c - 1
  <1>1. /\ BlockOf(a, c, i) \in 1 .. i /\ i <= last /\ last \in Nat
        /\ RunOf(a, i) \in 1 .. i /\ i \in Nat /\ Len(a) \in Nat /\ Len(b) \in Nat
    <2>1. i \in Nat /\ Len(a) \in Nat /\ Len(b) \in Nat
      BY RecordFacts
    <2>2. BlockOf(a, c, i) \in 1 .. i /\ i < BlockOf(a, c, i) + c /\ RunOf(a, i) \in 1 .. i
      BY BlockPlace
    <2> QED
      BY <2>1, <2>2
  <1>2. BlockOf(b, c, i) = BlockOf(a, c, i) /\ RunOf(b, i) = RunOf(a, i)
    BY BlockFixed, RunFixed
  <1>3. /\ FullBlock(a, c, i) <=> last <= Len(a) /\ RunOf(a, last) = RunOf(a, i)
        /\ FullBlock(b, c, i) <=> last <= Len(b) /\ RunOf(b, last) = RunOf(a, i)
    BY <1>2 DEF FullBlock
  <1>4. \/ last <= Len(a)
        \/ \E j \in i .. Len(a) : a[j].time # a[i].time /\ j <= last
    BY DEF Closed
  <1> HIDE DEF last
  <1>5. CASE last <= Len(a)
    <2>1. last \in 1 .. Len(a) /\ last <= Len(b)
      BY <1>1, <1>5 DEF Continues
    <2>2. RunOf(b, last) = RunOf(a, last)
      BY <2>1, RunFixed
    <2> QED
      BY <1>3, <1>5, <2>1, <2>2 DEF FullBlock
  <1>6. CASE ~(last <= Len(a))
    <2>1. PICK j \in i .. Len(a) : a[j].time # a[i].time /\ j <= last
      BY <1>4, <1>6
    <2>2. ASSUME last <= Len(b), RunOf(b, last) = RunOf(a, i) PROVE FALSE
      <3>1. last \in 1 .. Len(b) /\ j \in RunOf(a, i) .. last /\ i \in RunOf(a, i) .. last
        BY <1>1, <2>1, <2>2
      <3>2. b[j].time = b[last].time /\ b[i].time = b[last].time
        BY <2>2, <3>1, RunShared
      <3>3. j \in 1 .. Len(a)
        BY <1>1
      <3> QED
        BY <2>1, <3>2, <3>3 DEF Continues
    <2>3. ~FullBlock(a, c, i) /\ ~FullBlock(b, c, i)
      BY <1>3, <1>6, <2>2
    <2> QED
      BY <2>3 DEF FullBlock
  <1> QED
    BY <1>5, <1>6

\* The place of a record of a closed block among those that came is settled.
LEMMA CanonicalFixed ==
  ASSUME NEW a \in Seq(Record), NEW b \in Seq(Record), Continues(b, a),
         NEW c \in Nat \ {0}, NEW i \in 1 .. Len(a), NEW j \in 1 .. Len(a),
         Closed(a, c, i)
  PROVE  Canonical(b, c, i, j) = Canonical(a, c, i, j)
  <1>1. BlockOf(b, c, i) = BlockOf(a, c, i) /\ BlockOf(b, c, j) = BlockOf(a, c, j)
    BY BlockFixed
  <1>2. /\ AnchorKeyOf(b, c, i) = AnchorKeyOf(a, c, i)
        /\ AnchorKeyOf(b, c, j) = AnchorKeyOf(a, c, j)
    BY AnchorFixed
  <1>3. FullBlock(b, c, i) = FullBlock(a, c, i)
    BY FullFixed
  <1> QED
    BY <1>1, <1>2, <1>3 DEF Canonical

\* A closed block stays closed.
LEMMA ClosedFixed ==
  ASSUME NEW a \in Seq(Record), NEW b \in Seq(Record), Continues(b, a),
         NEW c \in Nat \ {0}, NEW i \in 1 .. Len(a), Closed(a, c, i)
  PROVE  Closed(b, c, i)
  <1>1. BlockOf(b, c, i) = BlockOf(a, c, i) /\ BlockOf(a, c, i) \in 1 .. i
    BY BlockFixed, BlockPlace
  <1>2. i \in Nat /\ Len(a) \in Nat /\ Len(b) \in Nat /\ Len(a) <= Len(b)
    BY RecordFacts DEF Continues
  <1>3. CASE BlockOf(a, c, i) + c - 1 <= Len(a)
    <2>1. BlockOf(b, c, i) + c - 1 <= Len(b)
      BY <1>1, <1>2, <1>3
    <2> QED
      BY <2>1 DEF Closed
  <1>4. CASE \E j \in i .. Len(a) :
               a[j].time # a[i].time /\ j <= BlockOf(a, c, i) + c - 1
    <2>1. PICK j \in i .. Len(a) :
                 a[j].time # a[i].time /\ j <= BlockOf(a, c, i) + c - 1
      BY <1>4
    <2>2. j \in 1 .. Len(a) /\ j \in i .. Len(b)
      BY <1>2
    <2>3. b[j] = a[j] /\ b[i] = a[i]
      BY <2>2 DEF Continues
    <2> QED
      BY <1>1, <2>1, <2>2, <2>3 DEF Closed
  <1> QED
    BY <1>3, <1>4 DEF Closed

-----------------------------------------------------------------------------
(* What sort_run computes.                                                 *)

\* The key the chunk of place n is sorted by.
KeyAt(run, n) == ChunkKey(run, ChunkOf(run, n))

\* The chunk of a place is that of the last keyed record up to it.
LEMMA ChunkFacts ==
  ASSUME NEW run \in Seq(Record), NEW n \in 1 .. Len(run)
  PROVE  /\ ChunkOf(run, n) \in 0 .. n
         /\ ChunkOf(run, n) # 0 => run[ChunkOf(run, n)].key # NoKey
         /\ \A h \in 1 .. n : run[h].key # NoKey => h <= ChunkOf(run, n)
         /\ KeyAt(run, n) \in Nat
  <1> DEFINE S == {h \in 1 .. n : run[h].key # NoKey}
  <1>1. n \in Nat /\ S \in SUBSET (1 .. n) /\ Len(run) \in Nat
    BY RecordFacts
  <1>2. ChunkOf(run, n) = IF S = {} THEN 0 ELSE LastOf(S)
    BY DEF ChunkOf, LastOf
  <1>3. S # {} => LastOf(S) \in S /\ \A h \in S : h <= LastOf(S)
    <2> HIDE DEF S
    <2> QED
      BY <1>1, LastOfPlaces
  <1>4. CASE S = {}
    <2>1. ChunkOf(run, n) = 0 /\ \A h \in 1 .. n : run[h].key = NoKey
      BY <1>2, <1>4
    <2>2. KeyAt(run, n) = NoKey
      BY <2>1 DEF KeyAt, ChunkKey
    <2> QED
      BY <1>1, <2>1, <2>2 DEF NoKey
  <1>5. CASE S # {}
    <2>1. ChunkOf(run, n) \in S /\ \A h \in S : h <= ChunkOf(run, n)
      BY <1>2, <1>3, <1>5
    <2>2. /\ ChunkOf(run, n) \in 1 .. n /\ run[ChunkOf(run, n)].key # NoKey
          /\ \A h \in 1 .. n : run[h].key # NoKey => h <= ChunkOf(run, n)
      BY <2>1
    <2>3. ChunkOf(run, n) \in 1 .. Len(run) /\ ChunkOf(run, n) # 0 /\ ChunkOf(run, n) \in 0 .. n
      BY <1>1, <2>2
    <2>4. KeyAt(run, n) = run[ChunkOf(run, n)].key
      BY <2>3 DEF KeyAt, ChunkKey
    <2>5. KeyAt(run, n) \in Nat
      BY <2>3, <2>4, RecordFacts
    <2> QED
      BY <2>2, <2>3, <2>5
  <1> QED
    BY <1>4, <1>5

\* Chunks are in the order of their places.
LEMMA ChunkOrder ==
  ASSUME NEW run \in Seq(Record), NEW n \in 1 .. Len(run), NEW m \in 1 .. Len(run),
         n <= m
  PROVE  ChunkOf(run, n) <= ChunkOf(run, m)
  <1>1. /\ ChunkOf(run, n) \in 0 .. n
        /\ ChunkOf(run, n) # 0 => run[ChunkOf(run, n)].key # NoKey
    BY ChunkFacts
  <1>2. /\ ChunkOf(run, m) \in 0 .. m
        /\ \A h \in 1 .. m : run[h].key # NoKey => h <= ChunkOf(run, m)
    BY ChunkFacts
  <1>3. n \in Nat /\ m \in Nat
    BY RecordFacts
  <1>4. CASE ChunkOf(run, n) = 0
    BY <1>2, <1>3, <1>4
  <1>5. CASE ChunkOf(run, n) # 0
    <2>1. ChunkOf(run, n) \in 1 .. m
      BY <1>1, <1>3, <1>5
    <2> QED
      BY <1>1, <1>2, <1>5, <2>1
  <1> QED
    BY <1>4, <1>5

\* A record with a Command Word starts a chunk, one without is in the chunk of
\* the record before it.
LEMMA ChunkStep ==
  ASSUME NEW run \in Seq(Record), NEW n \in 1 .. Len(run)
  PROVE  /\ run[n].key # NoKey => ChunkOf(run, n) = n
         /\ run[n].key = NoKey /\ n > 1 => ChunkOf(run, n) = ChunkOf(run, n - 1)
  <1>1. n \in Nat /\ n \in 1 .. n /\ Len(run) \in Nat
    BY RecordFacts
  <1>2. /\ ChunkOf(run, n) \in 0 .. n
        /\ ChunkOf(run, n) # 0 => run[ChunkOf(run, n)].key # NoKey
        /\ \A h \in 1 .. n : run[h].key # NoKey => h <= ChunkOf(run, n)
    BY ChunkFacts
  <1>3. run[n].key # NoKey => ChunkOf(run, n) = n
    BY <1>1, <1>2
  <1>4. ASSUME run[n].key = NoKey, n > 1 PROVE ChunkOf(run, n) = ChunkOf(run, n - 1)
    <2>1. n - 1 \in 1 .. Len(run) /\ n - 1 <= n
      BY <1>1, <1>4
    <2>2. ChunkOf(run, n - 1) <= ChunkOf(run, n)
      BY <2>1, ChunkOrder
    <2>3. /\ ChunkOf(run, n - 1) \in 0 .. n - 1
          /\ \A h \in 1 .. n - 1 : run[h].key # NoKey => h <= ChunkOf(run, n - 1)
      BY <2>1, ChunkFacts
    <2>4. ChunkOf(run, n) # n
      BY <1>1, <1>2, <1>4
    <2>5. ChunkOf(run, n) # 0 => ChunkOf(run, n) \in 1 .. n - 1
      BY <1>1, <1>2, <2>4
    <2>6. ChunkOf(run, n) <= ChunkOf(run, n - 1)
      BY <1>2, <2>3, <2>5
    <2> QED
      BY <1>1, <1>2, <2>2, <2>3, <2>6
  <1> QED
    BY <1>3, <1>4

\* sort_run orders by the key of the chunk, then by arrival.
LEMMA PlaceOrder ==
  ASSUME NEW run \in Seq(Record), NEW n \in 1 .. Len(run), NEW m \in 1 .. Len(run)
  PROVE  PlaceBefore(run, n, m) <=>
           \/ KeyAt(run, n) < KeyAt(run, m)
           \/ KeyAt(run, n) = KeyAt(run, m) /\ n < m
  <1>1. n \in Nat /\ m \in Nat
    BY RecordFacts
  <1>2. ChunkOf(run, n) \in Nat /\ ChunkOf(run, m) \in Nat
    <2>1. ChunkOf(run, n) \in 0 .. n /\ ChunkOf(run, m) \in 0 .. m
      BY ChunkFacts
    <2> QED
      BY <2>1
  <1>3. n <= m => ChunkOf(run, n) <= ChunkOf(run, m)
    BY ChunkOrder
  <1>4. m <= n => ChunkOf(run, m) <= ChunkOf(run, n)
    BY ChunkOrder
  <1>5. ChunkOf(run, n) = ChunkOf(run, m) => KeyAt(run, n) = KeyAt(run, m)
    BY DEF KeyAt
  <1>6. /\ ChunkOf(run, n) < ChunkOf(run, m) => n < m
        /\ n < m => ChunkOf(run, n) <= ChunkOf(run, m)
    BY <1>1, <1>2, <1>3, <1>4
  <1>7. PlaceBefore(run, n, m) <=>
          \/ KeyAt(run, n) < KeyAt(run, m)
          \/ KeyAt(run, n) = KeyAt(run, m) /\ ChunkOf(run, n) < ChunkOf(run, m)
          \/ ChunkOf(run, n) = ChunkOf(run, m) /\ n < m
    BY DEF PlaceBefore, ChunkBefore, KeyAt
  <1> QED
    BY <1>1, <1>2, <1>5, <1>6, <1>7

\* The places of a run have the ranks 0 .. Len(run) - 1 in sort_run's order.
LEMMA PlacesAreRanked ==
  ASSUME NEW run \in Seq(Record)
  PROVE  /\ \A n \in 1 .. Len(run) : Cardinality(Ahead(run, n)) \in 0 .. Len(run) - 1
         /\ \A n, m \in 1 .. Len(run) :
              PlaceBefore(run, n, m)
                <=> Cardinality(Ahead(run, n)) < Cardinality(Ahead(run, m))
         /\ \A k \in 0 .. Len(run) - 1 :
              \E n \in 1 .. Len(run) : Cardinality(Ahead(run, n)) = k
  <1> DEFINE L == Len(run)
             ahead == [n \in 1 .. L |-> Ahead(run, n)]
  <1>1. L \in Nat /\ DOMAIN run = 1 .. L
    BY RecordFacts
  <1>2. \A n, m \in 1 .. L : m \in Ahead(run, n) <=> PlaceBefore(run, m, n)
    BY <1>1 DEF Ahead
  <1>3. \A n \in 1 .. L : Ahead(run, n) \in SUBSET (1 .. L) /\ ahead[n] = Ahead(run, n)
    BY <1>1 DEF Ahead
  <1>4. \A n \in 1 .. L : KeyAt(run, n) \in Nat /\ n \in Nat
    BY <1>1, ChunkFacts
  <1>5. \A n, m \in 1 .. L :
          m \in Ahead(run, n) <=>
            \/ KeyAt(run, m) < KeyAt(run, n)
            \/ (KeyAt(run, m) = KeyAt(run, n) /\ m < n)
    BY <1>2, PlaceOrder
  <1>6. ahead \in [1 .. L -> SUBSET (1 .. L)]
    BY <1>3
  <1>7. \A x \in 1 .. L : x \notin ahead[x]
    BY <1>3, <1>4, <1>5
  <1>8. \A x, y \in 1 .. L : x # y => x \in ahead[y] \/ y \in ahead[x]
    <2> SUFFICES ASSUME NEW x \in 1 .. L, NEW y \in 1 .. L, x # y
                 PROVE  x \in Ahead(run, y) \/ y \in Ahead(run, x)
      BY <1>3
    <2>1. KeyAt(run, x) \in Nat /\ KeyAt(run, y) \in Nat /\ x \in Nat /\ y \in Nat
      BY <1>4
    <2> QED
      BY <1>5, <2>1
  <1>9. \A x, y \in 1 .. L : y \in ahead[x] => ahead[y] \subseteq ahead[x]
    <2> SUFFICES ASSUME NEW x \in 1 .. L, NEW y \in 1 .. L, y \in Ahead(run, x),
                        NEW z \in Ahead(run, y)
                 PROVE  z \in Ahead(run, x)
      BY <1>3
    <2>1. z \in 1 .. L
      BY <1>3
    <2>2. /\ KeyAt(run, x) \in Nat /\ KeyAt(run, y) \in Nat /\ KeyAt(run, z) \in Nat
          /\ x \in Nat /\ y \in Nat /\ z \in Nat
      BY <1>4, <2>1
    <2> HIDE DEF L, ahead
    <2>3. KeyAt(run, y) < KeyAt(run, x) \/ (KeyAt(run, y) = KeyAt(run, x) /\ y < x)
      BY <1>5
    <2>4. KeyAt(run, z) < KeyAt(run, y) \/ (KeyAt(run, z) = KeyAt(run, y) /\ z < y)
      BY <1>5, <2>1
    <2>5. KeyAt(run, z) < KeyAt(run, x) \/ (KeyAt(run, z) = KeyAt(run, x) /\ z < x)
      BY <2>2, <2>3, <2>4
    <2> QED
      BY <1>5, <2>1, <2>5
  <1>10. /\ \A x \in 1 .. L : Cardinality(ahead[x]) \in 0 .. L - 1
         /\ \A x, y \in 1 .. L :
              x \in ahead[y] <=> Cardinality(ahead[x]) < Cardinality(ahead[y])
         /\ \A k \in 0 .. L - 1 : \E x \in 1 .. L : Cardinality(ahead[x]) = k
    <2> HIDE DEF ahead, L
    <2> QED
      BY <1>1, <1>6, <1>7, <1>8, <1>9, Ranking
  <1> QED
    BY <1>2, <1>3, <1>10

\* A pinned record is next in rank to the record before it.
LEMMA PinIsNext ==
  ASSUME NEW run \in Seq(Record), NEW n \in 2 .. Len(run), run[n].key = NoKey
  PROVE  Cardinality(Ahead(run, n)) = Cardinality(Ahead(run, n - 1)) + 1
  <1> DEFINE m == n - 1
  <1>1. n \in 1 .. Len(run) /\ m \in 1 .. Len(run) /\ m \in Nat /\ n \in Nat /\ n = m + 1
        /\ Len(run) \in Nat /\ DOMAIN run = 1 .. Len(run)
    BY RecordFacts
  <1>2. ChunkOf(run, n) = ChunkOf(run, m)
    BY <1>1, ChunkStep
  <1> HIDE DEF m
  <1>3. KeyAt(run, n) = KeyAt(run, m)
    BY <1>2 DEF KeyAt
  <1>4. ASSUME NEW x \in 1 .. Len(run)
        PROVE  PlaceBefore(run, x, n) <=> x = m \/ PlaceBefore(run, x, m)
    <2>1. PlaceBefore(run, x, n) <=>
            \/ KeyAt(run, x) < KeyAt(run, n)
            \/ (KeyAt(run, x) = KeyAt(run, n) /\ x < n)
      BY <1>1, PlaceOrder
    <2>2. PlaceBefore(run, x, m) <=>
            \/ KeyAt(run, x) < KeyAt(run, m)
            \/ (KeyAt(run, x) = KeyAt(run, m) /\ x < m)
      BY <1>1, PlaceOrder
    <2>3. x \in Nat
      BY <1>1
    <2> QED
      BY <1>1, <1>3, <2>1, <2>2, <2>3
  <1>5. Ahead(run, n) = Ahead(run, m) \union {m}
    BY <1>1, <1>4 DEF Ahead
  <1>6. m \notin Ahead(run, m)
    <2>1. ~PlaceBefore(run, m, m)
      <3>1. KeyAt(run, m) \in Nat
        BY <1>1, ChunkFacts
      <3> QED
        BY <1>1, <3>1, PlaceOrder
    <2> QED
      BY <2>1 DEF Ahead
  <1>7. IsFiniteSet(Ahead(run, m))
    <2>1. IsFiniteSet(1 .. Len(run))
      BY <1>1, FS_Interval
    <2>2. Ahead(run, m) \in SUBSET (1 .. Len(run))
      BY <1>1 DEF Ahead
    <2> QED
      BY <2>1, <2>2, FS_Subset
  <1>8. Cardinality(Ahead(run, m) \union {m}) = Cardinality(Ahead(run, m)) + 1
    BY <1>6, <1>7, FS_AddElement
  <1> QED
    BY <1>5, <1>8 DEF m

\* sort_run gives the records of the run, each at its rank, and leaves the
\* pinned ones behind the records they follow.
LEMMA SortFacts ==
  ASSUME NEW run \in Seq(Record)
  PROVE  /\ SortRun(run) \in Seq(Record) /\ Len(SortRun(run)) = Len(run)
         /\ \E from \in [1 .. Len(run) -> 1 .. Len(run)] :
              /\ \A r \in 1 .. Len(run) : SortRun(run)[r] = run[from[r]]
              /\ \A n \in 1 .. Len(run) : \E r \in 1 .. Len(run) : from[r] = n
              /\ \A r, s \in 1 .. Len(run) :
                   r < s => PlaceBefore(run, from[r], from[s])
              /\ \A r \in 1 .. Len(run) :
                   run[from[r]].key = NoKey /\ from[r] > 1 =>
                     r > 1 /\ from[r - 1] = from[r] - 1
  <1> DEFINE L == Len(run)
             At(r) == CHOOSE n \in 1 .. L : Cardinality(Ahead(run, n)) = r - 1
             from == [r \in 1 .. L |-> At(r)]
  <1>1. L \in Nat /\ DOMAIN run = 1 .. L /\ \A n \in 1 .. L : run[n] \in Record
    BY RecordFacts
  <1>2. /\ \A n \in 1 .. L : Cardinality(Ahead(run, n)) \in 0 .. L - 1
        /\ \A n, m \in 1 .. L :
             PlaceBefore(run, n, m) <=> Cardinality(Ahead(run, n)) < Cardinality(Ahead(run, m))
        /\ \A k \in 0 .. L - 1 : \E n \in 1 .. L : Cardinality(Ahead(run, n)) = k
    BY PlacesAreRanked
  <1>3. ASSUME NEW r \in 1 .. L
        PROVE  At(r) \in 1 .. L /\ Cardinality(Ahead(run, At(r))) = r - 1
    <2>1. r - 1 \in 0 .. L - 1
      BY <1>1
    <2>2. \E n \in 1 .. L : Cardinality(Ahead(run, n)) = r - 1
      BY <1>2, <2>1
    <2> QED
      BY <2>2
  <1>4. /\ from \in [1 .. L -> 1 .. L]
        /\ \A r \in 1 .. L : Cardinality(Ahead(run, from[r])) = r - 1
    <2> HIDE DEF At
    <2> QED
      BY <1>3
  <1>5. SortRun(run) = [r \in 1 .. L |-> run[from[r]]]
    BY <1>1 DEF SortRun
  <1> HIDE DEF from, At, L
  <1>6. SortRun(run) \in [1 .. L -> Record]
    BY <1>1, <1>4, <1>5
  <1>7. SortRun(run) \in Seq(Record) /\ Len(SortRun(run)) = L
    BY <1>1, <1>6
  <1>8. \A n, m \in 1 .. L :
          Cardinality(Ahead(run, n)) = Cardinality(Ahead(run, m)) => n = m
    <2> SUFFICES ASSUME NEW n \in 1 .. L, NEW m \in 1 .. L,
                        Cardinality(Ahead(run, n)) = Cardinality(Ahead(run, m))
                 PROVE  n = m
      OBVIOUS
    <2>1. ~PlaceBefore(run, n, m) /\ ~PlaceBefore(run, m, n)
      BY <1>2
    <2>2. KeyAt(run, n) \in Nat /\ KeyAt(run, m) \in Nat /\ n \in Nat /\ m \in Nat
      BY <1>1, ChunkFacts DEF L
    <2>3. ~(KeyAt(run, n) < KeyAt(run, m)) /\ ~(KeyAt(run, n) = KeyAt(run, m) /\ n < m)
      BY <2>1, PlaceOrder DEF L
    <2>4. ~(KeyAt(run, m) < KeyAt(run, n)) /\ ~(KeyAt(run, m) = KeyAt(run, n) /\ m < n)
      BY <2>1, PlaceOrder DEF L
    <2> QED
      BY <2>2, <2>3, <2>4
  <1>9. ASSUME NEW n \in 1 .. L PROVE \E r \in 1 .. L : from[r] = n
    <2>1. PICK k \in 0 .. L - 1 : Cardinality(Ahead(run, n)) = k
      BY <1>2
    <2>2. k + 1 \in 1 .. L /\ k + 1 - 1 = k
      BY <1>1
    <2>3. Cardinality(Ahead(run, from[k + 1])) = k /\ from[k + 1] \in 1 .. L
      BY <1>4, <2>2
    <2> QED
      BY <1>8, <2>1, <2>2, <2>3
  <1>10. ASSUME NEW r \in 1 .. L, NEW s \in 1 .. L, r < s
         PROVE  PlaceBefore(run, from[r], from[s])
    <2>1. from[r] \in 1 .. L /\ from[s] \in 1 .. L /\ r - 1 < s - 1
      BY <1>1, <1>4, <1>10
    <2> QED
      BY <1>2, <1>4, <2>1
  <1>11. ASSUME NEW r \in 1 .. L, run[from[r]].key = NoKey, from[r] > 1
         PROVE  r > 1 /\ from[r - 1] = from[r] - 1
    <2> DEFINE n == from[r]
    <2>0. n \in 1 .. L /\ n > 1
      BY <1>4, <1>11
    <2>1. n \in 2 .. L /\ n - 1 \in 1 .. L
      <3> HIDE DEF n
      <3> QED
        BY <1>1, <2>0
    <2>2. Cardinality(Ahead(run, n)) = r - 1
      BY <1>4
    <2> HIDE DEF n
    <2>3. Cardinality(Ahead(run, n)) = Cardinality(Ahead(run, n - 1)) + 1
      BY <1>11, <2>1, PinIsNext DEF n, L
    <2>4. Cardinality(Ahead(run, n - 1)) \in 0 .. L - 1
      BY <1>2, <2>1
    <2>5. r > 1 /\ r - 1 \in 1 .. L /\ Cardinality(Ahead(run, n - 1)) = r - 1 - 1
      BY <1>1, <2>2, <2>3, <2>4
    <2>6. Cardinality(Ahead(run, from[r - 1])) = r - 1 - 1 /\ from[r - 1] \in 1 .. L
      BY <1>4, <2>5
    <2> QED
      BY <1>8, <2>1, <2>5, <2>6 DEF n
  <1>12. \A r \in 1 .. L : SortRun(run)[r] = run[from[r]]
    BY <1>5
  <1>13. from \in [1 .. L -> 1 .. L]
    BY <1>4
  <1> QED
    BY <1>7, <1>9, <1>10, <1>11, <1>12, <1>13 DEF L

-----------------------------------------------------------------------------
(* The inductive invariant.                                                *)

\* The rows handed on and the ones queued, in the order they come out.
Rows == emitted \o Reverse(out)

\* The rows R are the first records of a, in canonical order, each pin behind
\* its predecessor.
RowInv(R, a, c) ==
  /\ \A p \in 1 .. Len(R) : R[p].id \in 1 .. Len(R) /\ R[p] = a[R[p].id]
  /\ \A i \in 1 .. Len(R) : \E p \in 1 .. Len(R) : R[p].id = i
  /\ \A p, q \in 1 .. Len(R) : p < q => Canonical(a, c, R[p].id, R[q].id)
  /\ \A p \in 1 .. Len(R) :
       R[p].key = NoKey /\ R[p].id > BlockOf(a, c, R[p].id) =>
         p > 1 /\ R[p - 1].id = R[p].id - 1

Open == result = "open" /\ ~pending /\ ~done

\* The run being accumulated is the block behind the rows.
BufferInv ==
  /\ Len(Rows) + Len(buf) = Len(arrived)
  /\ \A n \in 1 .. Len(buf) :
       /\ buf[n] = arrived[Len(Rows) + n]
       /\ BlockOf(arrived, cap, Len(Rows) + n) = Len(Rows) + 1

\* While records may still arrive, the rows are of blocks that are closed.
ClosedInv ==
  IF Open
  THEN /\ \A i \in 1 .. Len(Rows) : Closed(arrived, cap, i)
       /\ Len(buf) = 0 /\ Len(Rows) > 0 =>
            BlockOf(arrived, cap, Len(Rows)) + cap = Len(Rows) + 1
  ELSE Len(buf) = 0

OrdInv ==
  /\ \A i \in 1 .. Len(arrived) : arrived[i].id = i
  /\ BufferInv /\ BufferBounded /\ ClosedInv
  /\ RowInv(Rows, arrived, cap)
  /\ result # "open" => Len(out) = 0

-----------------------------------------------------------------------------
(* Rows in canonical order.                                                *)

\* Records to come leave rows of closed blocks in canonical order.
LEMMA RowsFixed ==
  ASSUME NEW a \in Seq(Record), NEW b \in Seq(Record), Continues(b, a),
         NEW c \in Nat \ {0}, NEW R \in Seq(Record), Len(R) <= Len(a),
         RowInv(R, a, c), \A i \in 1 .. Len(R) : Closed(a, c, i)
  PROVE  RowInv(R, b, c) /\ \A i \in 1 .. Len(R) : Closed(b, c, i)
  <1>1. \A i \in 1 .. Len(R) : i \in 1 .. Len(a)
    BY RecordFacts
  <1>2. \A p \in 1 .. Len(R) : R[p].id \in 1 .. Len(R) /\ R[p].id \in 1 .. Len(a)
    BY <1>1 DEF RowInv
  <1>3. \A i \in 1 .. Len(R) : Closed(b, c, i)
    BY <1>1, ClosedFixed
  <1>4. \A p \in 1 .. Len(R) : R[p] = b[R[p].id]
    BY <1>2 DEF RowInv, Continues
  <1>5. \A p, q \in 1 .. Len(R) :
          Canonical(b, c, R[p].id, R[q].id) = Canonical(a, c, R[p].id, R[q].id)
    <2>1. \A i, j \in 1 .. Len(R) : Canonical(b, c, i, j) = Canonical(a, c, i, j)
      BY <1>1, CanonicalFixed
    <2> QED
      BY <1>2, <2>1
  <1>6. \A p \in 1 .. Len(R) : BlockOf(b, c, R[p].id) = BlockOf(a, c, R[p].id)
    BY <1>2, BlockFixed
  <1> QED
    BY <1>2, <1>3, <1>4, <1>5, <1>6 DEF RowInv

\* The rows S are the records lo + 1 .. lo + Len(S) of a, which are a block or
\* the part of one that came, in canonical order.
BlockRows(S, a, c, lo) ==
  /\ lo + Len(S) <= Len(a)
  /\ \A i \in lo + 1 .. lo + Len(S) : BlockOf(a, c, i) = lo + 1
  /\ \A p \in 1 .. Len(S) : S[p].id \in lo + 1 .. lo + Len(S) /\ S[p] = a[S[p].id]
  /\ \A i \in lo + 1 .. lo + Len(S) : \E p \in 1 .. Len(S) : S[p].id = i
  /\ \A p, q \in 1 .. Len(S) : p < q => Canonical(a, c, S[p].id, S[q].id)
  /\ \A p \in 1 .. Len(S) :
       S[p].key = NoKey /\ S[p].id > lo + 1 => p > 1 /\ S[p - 1].id = S[p].id - 1

\* Rows in canonical order and the next block behind them are rows in
\* canonical order.
LEMMA BlockAppended ==
  ASSUME NEW a \in Seq(Record), NEW c \in Nat \ {0}, NEW R \in Seq(Record),
         NEW S \in Seq(Record), RowInv(R, a, c), BlockRows(S, a, c, Len(R))
  PROVE  RowInv(R \o S, a, c)
  <1> DEFINE T == R \o S
             F == Len(R)
             L == Len(S)
  <1>1. /\ T \in Seq(Record) /\ Len(T) = F + L /\ F \in Nat /\ L \in Nat
        /\ \A n \in 1 .. F : T[n] = R[n]
        /\ \A n \in 1 .. L : T[F + n] = S[n]
    BY ConcatFacts
  <1>2. /\ \A p \in 1 .. F : R[p].id \in 1 .. F /\ R[p] = a[R[p].id]
        /\ \A i \in 1 .. F : \E p \in 1 .. F : R[p].id = i
        /\ \A p, q \in 1 .. F : p < q => Canonical(a, c, R[p].id, R[q].id)
        /\ \A p \in 1 .. F :
             R[p].key = NoKey /\ R[p].id > BlockOf(a, c, R[p].id) =>
               p > 1 /\ R[p - 1].id = R[p].id - 1
    BY DEF RowInv
  <1>3. /\ F + L <= Len(a) /\ \A i \in F + 1 .. F + L : BlockOf(a, c, i) = F + 1
        /\ \A p \in 1 .. L : S[p].id \in F + 1 .. F + L /\ S[p] = a[S[p].id]
        /\ \A i \in F + 1 .. F + L : \E p \in 1 .. L : S[p].id = i
        /\ \A p, q \in 1 .. L : p < q => Canonical(a, c, S[p].id, S[q].id)
        /\ \A p \in 1 .. L :
             S[p].key = NoKey /\ S[p].id > F + 1 => p > 1 /\ S[p - 1].id = S[p].id - 1
    BY DEF BlockRows
  <1>4. Len(a) \in Nat
    BY RecordFacts
  <1> HIDE DEF T, F, L
  <1>5. ASSUME NEW p \in 1 .. F + L
        PROVE  p \in 1 .. F \/ \E n \in 1 .. L : p = F + n
    <2>1. p \in 1 .. F \/ (p - F \in 1 .. L /\ p = F + (p - F))
      BY <1>1
    <2> QED
      BY <2>1
  <1>6. \A p \in 1 .. F : T[p].id \in 1 .. F + L /\ T[p] = a[T[p].id]
    <2> SUFFICES ASSUME NEW p \in 1 .. F
                 PROVE  T[p].id \in 1 .. F + L /\ T[p] = a[T[p].id]
      OBVIOUS
    <2>1. T[p] = R[p] /\ R[p].id \in 1 .. F /\ R[p] = a[R[p].id]
      BY <1>1, <1>2
    <2>2. R[p].id \in 1 .. F + L
      BY <1>1, <2>1
    <2> QED
      BY <2>1, <2>2
  <1>7. \A n \in 1 .. L : T[F + n].id \in 1 .. F + L /\ T[F + n] = a[T[F + n].id]
    <2> SUFFICES ASSUME NEW n \in 1 .. L
                 PROVE  T[F + n].id \in 1 .. F + L /\ T[F + n] = a[T[F + n].id]
      OBVIOUS
    <2>1. T[F + n] = S[n] /\ S[n].id \in F + 1 .. F + L /\ S[n] = a[S[n].id]
      BY <1>1, <1>3
    <2>2. S[n].id \in 1 .. F + L
      BY <1>1, <2>1
    <2> QED
      BY <2>1, <2>2
  <1>8. \A p \in 1 .. F + L : T[p].id \in 1 .. F + L /\ T[p] = a[T[p].id]
    BY <1>5, <1>6, <1>7
  <1>9. ASSUME NEW i \in 1 .. F + L PROVE \E p \in 1 .. F + L : T[p].id = i
    <2>1. CASE i \in 1 .. F
      <3>1. PICK p \in 1 .. F : R[p].id = i
        BY <1>2, <2>1
      <3>2. p \in 1 .. F + L /\ T[p].id = i
        BY <1>1, <3>1
      <3> QED
        BY <3>2
    <2>2. CASE i \notin 1 .. F
      <3>1. i \in F + 1 .. F + L
        BY <1>1, <2>2
      <3>2. PICK n \in 1 .. L : S[n].id = i
        BY <1>3, <3>1
      <3>3. F + n \in 1 .. F + L /\ T[F + n].id = i
        BY <1>1, <3>2
      <3> QED
        BY <3>3
    <2> QED
      BY <2>1, <2>2
  <1>10. ASSUME NEW p \in 1 .. F + L, NEW q \in 1 .. F + L, p < q
         PROVE  Canonical(a, c, T[p].id, T[q].id)
    <2>1. CASE p \in 1 .. F /\ q \in 1 .. F
      BY <1>1, <1>2, <1>10, <2>1
    <2>2. CASE p \in 1 .. F /\ q \notin 1 .. F
      <3>1. PICK n \in 1 .. L : q = F + n
        BY <1>5, <2>2
      <3> DEFINE i == R[p].id
                 j == S[n].id
      <3>2. T[p] = R[p] /\ T[q] = S[n]
        BY <1>1, <2>2, <3>1
      <3>3. i \in 1 .. F /\ j \in F + 1 .. F + L
        BY <1>2, <1>3, <2>2
      <3> HIDE DEF i, j
      <3>4. i \in 1 .. Len(a) /\ i < j /\ BlockOf(a, c, j) = F + 1
        BY <1>1, <1>3, <1>4, <3>3
      <3>5. BlockOf(a, c, i) \in 1 .. i
        BY <3>4, BlockPlace
      <3>6. BlockOf(a, c, i) # BlockOf(a, c, j)
        BY <1>1, <3>3, <3>4, <3>5
      <3>7. Canonical(a, c, i, j)
        BY <3>4, <3>6 DEF Canonical
      <3> QED
        BY <3>2, <3>7 DEF i, j
    <2>3. CASE p \notin 1 .. F
      <3>1. PICK n \in 1 .. L : p = F + n
        BY <1>5, <2>3
      <3>2. q \notin 1 .. F
        BY <1>1, <1>10, <2>3
      <3>3. PICK m \in 1 .. L : q = F + m
        BY <1>5, <3>2
      <3>4. n < m
        BY <1>1, <1>10, <3>1, <3>3
      <3>5. T[p] = S[n] /\ T[q] = S[m]
        BY <1>1, <3>1, <3>3
      <3> QED
        BY <1>3, <3>4, <3>5
    <2> QED
      BY <2>1, <2>2, <2>3
  <1>11. ASSUME NEW p \in 1 .. F + L, T[p].key = NoKey, T[p].id > BlockOf(a, c, T[p].id)
         PROVE  p > 1 /\ T[p - 1].id = T[p].id - 1
    <2>1. CASE p \in 1 .. F
      <3>1. p > 1 /\ R[p - 1].id = R[p].id - 1
        BY <1>1, <1>2, <1>11, <2>1
      <3>2. p - 1 \in 1 .. F
        BY <1>1, <2>1, <3>1
      <3> QED
        BY <1>1, <2>1, <3>1, <3>2
    <2>2. CASE p \notin 1 .. F
      <3>1. PICK n \in 1 .. L : p = F + n
        BY <1>5, <2>2
      <3>2. T[p] = S[n] /\ S[n].id \in F + 1 .. F + L
        BY <1>1, <1>3, <3>1
      <3>3. S[n].key = NoKey /\ S[n].id > F + 1
        BY <1>3, <1>11, <3>2
      <3>4. n > 1 /\ S[n - 1].id = S[n].id - 1
        BY <1>3, <3>3
      <3>5. n - 1 \in 1 .. L /\ p - 1 = F + (n - 1) /\ p > 1
        BY <1>1, <3>1, <3>4
      <3>6. T[p - 1] = S[n - 1]
        BY <1>1, <3>5
      <3> QED
        BY <3>2, <3>4, <3>5, <3>6
    <2> QED
      BY <2>1, <2>2
  <1>12. RowInv(T, a, c)
    BY <1>1, <1>8, <1>9, <1>10, <1>11 DEF RowInv
  <1> QED
    BY <1>12 DEF T


\* The records of run are the ones of a behind place lo, and of one block.
HoldsBlock(run, a, c, lo) ==
  /\ lo + Len(run) <= Len(a)
  /\ \A n \in 1 .. Len(run) :
       run[n] = a[lo + n] /\ run[n].id = lo + n /\ BlockOf(a, c, lo + n) = lo + 1

\* A full block goes out as it came.
LEMMA CappedRows ==
  ASSUME NEW a \in Seq(Record), NEW c \in Nat \ {0}, NEW lo \in Nat,
         NEW run \in Seq(Record), HoldsBlock(run, a, c, lo),
         \A n \in 1 .. Len(run) : FullBlock(a, c, lo + n)
  PROVE  BlockRows(run, a, c, lo)
  <1> DEFINE L == Len(run)
  <1>1. L \in Nat
    BY RecordFacts
  <1>2. /\ lo + L <= Len(a)
        /\ \A n \in 1 .. L : run[n] = a[lo + n] /\ run[n].id = lo + n
                               /\ BlockOf(a, c, lo + n) = lo + 1 /\ FullBlock(a, c, lo + n)
    BY DEF HoldsBlock
  <1> HIDE DEF L
  <1>3. \A n \in 1 .. L : lo + n \in lo + 1 .. lo + L
    BY <1>1
  <1>4. ASSUME NEW i \in lo + 1 .. lo + L PROVE \E n \in 1 .. L : i = lo + n
    <2>1. i - lo \in 1 .. L /\ i = lo + (i - lo)
      BY <1>1
    <2> QED
      BY <2>1
  <1>5. \A i \in lo + 1 .. lo + L : BlockOf(a, c, i) = lo + 1
    BY <1>2, <1>4
  <1>6. \A i \in lo + 1 .. lo + L : \E n \in 1 .. L : run[n].id = i
    BY <1>2, <1>4
  <1>7. ASSUME NEW p \in 1 .. L, NEW q \in 1 .. L, p < q
        PROVE  Canonical(a, c, run[p].id, run[q].id)
    <2>1. run[p].id = lo + p /\ run[q].id = lo + q /\ lo + p < lo + q
      BY <1>1, <1>2, <1>7
    <2>2. FullBlock(a, c, lo + p)
      BY <1>2
    <2>3. Canonical(a, c, lo + p, lo + q)
      BY <2>1, <2>2 DEF Canonical
    <2> QED
      BY <2>1, <2>3
  <1>8. ASSUME NEW p \in 1 .. L, run[p].id > lo + 1
        PROVE  p > 1 /\ run[p - 1].id = run[p].id - 1
    <2>1. run[p].id = lo + p
      BY <1>2
    <2>2. p > 1 /\ p - 1 \in 1 .. L /\ lo + (p - 1) = lo + p - 1
      BY <1>1, <1>8, <2>1
    <2> QED
      BY <1>2, <2>1, <2>2
  <1> QED
    BY <1>2, <1>3, <1>5, <1>6, <1>7, <1>8 DEF BlockRows, L

\* The key sort_run sorts a record by is that of its anchor.
LEMMA KeyIsAnchor ==
  ASSUME NEW a \in Seq(Record), NEW c \in Nat \ {0}, NEW lo \in Nat,
         NEW run \in Seq(Record), HoldsBlock(run, a, c, lo), NEW n \in 1 .. Len(run)
  PROVE  AnchorKeyOf(a, c, lo + n) = KeyAt(run, n)
  <1> DEFINE S == AnchorsOf(a, c, lo + n)
             C == ChunkOf(run, n)
  <1>1. /\ n \in Nat /\ Len(run) \in Nat /\ BlockOf(a, c, lo + n) = lo + 1
        /\ \A h \in 1 .. Len(run) : run[h] = a[lo + h]
    BY RecordFacts DEF HoldsBlock
  <1>2. /\ C \in 0 .. n /\ (C # 0 => run[C].key # NoKey)
        /\ \A h \in 1 .. n : run[h].key # NoKey => h <= C
    BY ChunkFacts
  <1>3. S = {j \in lo + 1 .. lo + n : a[j].key # NoKey}
    BY <1>1 DEF AnchorsOf
  <1>4. KeyAt(run, n) = IF C = 0 THEN NoKey ELSE run[C].key
    BY DEF KeyAt, ChunkKey
  <1>5. AnchorKeyOf(a, c, lo + n) = IF S = {} THEN NoKey ELSE a[LastOf(S)].key
    BY DEF AnchorKeyOf
  <1> HIDE DEF S, C
  <1>6. ASSUME NEW j \in S PROVE j - lo \in 1 .. n /\ j = lo + (j - lo) /\ j - lo <= C
    <2>1. j \in lo + 1 .. lo + n /\ a[j].key # NoKey
      BY <1>3
    <2>2. j - lo \in 1 .. n /\ j = lo + (j - lo) /\ j - lo \in 1 .. Len(run)
      BY <1>1, <2>1
    <2>3. run[j - lo].key # NoKey
      BY <1>1, <2>1, <2>2
    <2> QED
      BY <1>2, <2>2, <2>3
  <1>7. CASE C = 0
    <2>1. S = {}
      BY <1>6, <1>7
    <2> QED
      BY <1>4, <1>5, <1>7, <2>1
  <1>8. CASE C # 0
    <2>1. C \in 1 .. n /\ C \in 1 .. Len(run)
      BY <1>1, <1>2, <1>8
    <2>2. lo + C \in lo + 1 .. lo + n /\ a[lo + C].key = run[C].key /\ a[lo + C].key # NoKey
      BY <1>1, <1>2, <1>8, <2>1
    <2>3. lo + C \in S
      BY <1>3, <2>2
    <2>4. S \in SUBSET (1 .. lo + n) /\ lo + n \in Nat
      BY <1>1, <1>3
    <2>5. LastOf(S) \in S /\ \A h \in S : h <= LastOf(S)
      BY <2>3, <2>4, LastOfPlaces
    <2>6. LastOf(S) - lo <= C /\ lo + C <= LastOf(S) /\ LastOf(S) \in 1 .. lo + n
      BY <1>6, <2>3, <2>4, <2>5
    <2>7. LastOf(S) = lo + C
      <3> DEFINE q == LastOf(S)
      <3>1. q - lo <= C /\ lo + C <= q /\ q \in Nat
        BY <2>4, <2>6
      <3> HIDE DEF q
      <3>2. q = lo + C
        BY <1>1, <2>1, <3>1
      <3> QED
        BY <3>2 DEF q
    <2> QED
      BY <1>4, <1>5, <1>8, <2>2, <2>3, <2>7
  <1> QED
    BY <1>7, <1>8

\* A block that is not full goes out sorted.
LEMMA SortedRows ==
  ASSUME NEW a \in Seq(Record), NEW c \in Nat \ {0}, NEW lo \in Nat,
         NEW run \in Seq(Record), HoldsBlock(run, a, c, lo),
         \A n \in 1 .. Len(run) : ~FullBlock(a, c, lo + n)
  PROVE  BlockRows(SortRun(run), a, c, lo)
  <1> DEFINE L == Len(run)
             S == SortRun(run)
  <1>1. L \in Nat
    BY RecordFacts
  <1>2. /\ lo + L <= Len(a)
        /\ \A n \in 1 .. L : run[n] = a[lo + n] /\ run[n].id = lo + n
                               /\ BlockOf(a, c, lo + n) = lo + 1 /\ ~FullBlock(a, c, lo + n)
    BY DEF HoldsBlock
  <1>3. /\ S \in Seq(Record) /\ Len(S) = L
        /\ \E from \in [1 .. L -> 1 .. L] :
             /\ \A r \in 1 .. L : S[r] = run[from[r]]
             /\ \A n \in 1 .. L : \E r \in 1 .. L : from[r] = n
             /\ \A r, s \in 1 .. L : r < s => PlaceBefore(run, from[r], from[s])
             /\ \A r \in 1 .. L :
                  run[from[r]].key = NoKey /\ from[r] > 1 =>
                    r > 1 /\ from[r - 1] = from[r] - 1
    BY SortFacts
  <1>4. \A n, m \in 1 .. L :
          PlaceBefore(run, n, m) <=>
            \/ KeyAt(run, n) < KeyAt(run, m)
            \/ (KeyAt(run, n) = KeyAt(run, m) /\ n < m)
    BY PlaceOrder
  <1>5. \A n \in 1 .. L : AnchorKeyOf(a, c, lo + n) = KeyAt(run, n)
    BY KeyIsAnchor
  <1> HIDE DEF L, S
  <1>6. PICK from \in [1 .. L -> 1 .. L] :
          /\ \A r \in 1 .. L : S[r] = run[from[r]]
          /\ \A n \in 1 .. L : \E r \in 1 .. L : from[r] = n
          /\ \A r, s \in 1 .. L : r < s => PlaceBefore(run, from[r], from[s])
          /\ \A r \in 1 .. L :
               run[from[r]].key = NoKey /\ from[r] > 1 =>
                 r > 1 /\ from[r - 1] = from[r] - 1
    BY <1>3
  <1>7. ASSUME NEW r \in 1 .. L
        PROVE  from[r] \in 1 .. L /\ S[r].id = lo + from[r] /\ S[r] = a[lo + from[r]]
    BY <1>2, <1>6
  <1>8. ASSUME NEW i \in lo + 1 .. lo + L PROVE \E n \in 1 .. L : i = lo + n
    <2>1. i - lo \in 1 .. L /\ i = lo + (i - lo)
      BY <1>1
    <2> QED
      BY <2>1
  <1>9. \A i \in lo + 1 .. lo + L : BlockOf(a, c, i) = lo + 1
    BY <1>2, <1>8
  <1>10. \A i \in lo + 1 .. lo + L : \E p \in 1 .. L : S[p].id = i
    <2> SUFFICES ASSUME NEW i \in lo + 1 .. lo + L PROVE \E p \in 1 .. L : S[p].id = i
      OBVIOUS
    <2>1. PICK n \in 1 .. L : i = lo + n
      BY <1>8
    <2>2. PICK r \in 1 .. L : from[r] = n
      BY <1>6
    <2> QED
      BY <1>7, <2>1, <2>2
  <1>11. \A r \in 1 .. L : S[r].id \in lo + 1 .. lo + L /\ S[r] = a[S[r].id]
    <2> SUFFICES ASSUME NEW r \in 1 .. L
                 PROVE  S[r].id \in lo + 1 .. lo + L /\ S[r] = a[S[r].id]
      OBVIOUS
    <2>1. lo + from[r] \in lo + 1 .. lo + L
      BY <1>1, <1>7
    <2> QED
      BY <1>7, <2>1
  <1>12. ASSUME NEW r \in 1 .. L, NEW s \in 1 .. L, r < s
         PROVE  Canonical(a, c, S[r].id, S[s].id)
    <2> DEFINE n == from[r]
               m == from[s]
    <2>1. n \in 1 .. L /\ m \in 1 .. L /\ PlaceBefore(run, n, m)
      BY <1>6, <1>7, <1>12
    <2> HIDE DEF n, m
    <2>2. \/ KeyAt(run, n) < KeyAt(run, m)
          \/ (KeyAt(run, n) = KeyAt(run, m) /\ n < m)
      BY <1>4, <2>1
    <2>3. \/ AnchorKeyOf(a, c, lo + n) < AnchorKeyOf(a, c, lo + m)
          \/ (AnchorKeyOf(a, c, lo + n) = AnchorKeyOf(a, c, lo + m) /\ lo + n < lo + m)
      <3>1. n < m => lo + n < lo + m
        BY <1>1, <2>1
      <3> QED
        BY <1>5, <2>1, <2>2, <3>1
    <2>4. /\ BlockOf(a, c, lo + n) = BlockOf(a, c, lo + m) /\ ~FullBlock(a, c, lo + n)
      BY <1>2, <2>1
    <2>5. Canonical(a, c, lo + n, lo + m)
      BY <2>3, <2>4 DEF Canonical
    <2> QED
      BY <1>7, <2>5 DEF n, m
  <1>13. ASSUME NEW r \in 1 .. L, S[r].key = NoKey, S[r].id > lo + 1
         PROVE  r > 1 /\ S[r - 1].id = S[r].id - 1
    <2>1. from[r] \in 1 .. L /\ S[r].id = lo + from[r] /\ S[r] = run[from[r]]
      BY <1>6, <1>7
    <2>2. run[from[r]].key = NoKey /\ from[r] > 1
      <3>1. lo + from[r] > lo + 1
        BY <1>13, <2>1
      <3>2. from[r] > 1
        BY <1>1, <2>1, <3>1
      <3> QED
        BY <1>13, <2>1, <3>2
    <2>3. r > 1 /\ from[r - 1] = from[r] - 1
      BY <1>6, <2>2
    <2>4. r - 1 \in 1 .. L /\ lo + (from[r] - 1) = lo + from[r] - 1
      BY <1>1, <2>1, <2>3
    <2>5. S[r - 1].id = lo + from[r - 1]
      BY <1>7, <2>4
    <2> QED
      BY <2>1, <2>3, <2>4, <2>5
  <1>14. BlockRows(S, a, c, lo)
    BY <1>2, <1>3, <1>9, <1>10, <1>11, <1>12, <1>13 DEF BlockRows
  <1> QED
    BY <1>14 DEF S


-----------------------------------------------------------------------------
(* The emission queue.                                                     *)

\* flush and flush_capped queue records.
LEMMA FlushTypes ==
  ASSUME NEW queue \in Seq(Record), NEW run \in Seq(Record)
  PROVE  /\ Flushed(queue, run) \in Seq(Record) /\ FlushedCapped(queue, run) \in Seq(Record)
  <1>1. SortRun(run) \in Seq(Record)
    BY SortFacts
  <1>2. Reverse(SortRun(run)) \in Seq(Record) /\ Reverse(run) \in Seq(Record)
    BY <1>1, ReverseFacts
  <1> QED
    BY <1>2, ConcatFacts DEF Flushed, FlushedCapped

\* Two reversals undo each other.
LEMMA ReverseTwice ==
  ASSUME NEW s \in Seq(Record)
  PROVE  Reverse(Reverse(s)) = s /\ Len(Reverse(s)) = Len(s)
  <1> DEFINE r == Reverse(s)
             t == Reverse(r)
  <1>1. Len(s) \in Nat /\ s \in [1 .. Len(s) -> Record]
    OBVIOUS
  <1>2. /\ r \in Seq(Record) /\ Len(r) = Len(s)
        /\ \A n \in 1 .. Len(s) : r[n] = s[Len(s) - n + 1]
    BY ReverseFacts
  <1> HIDE DEF r
  <1>3. /\ t \in Seq(Record) /\ Len(t) = Len(s)
        /\ \A n \in 1 .. Len(s) : t[n] = r[Len(s) - n + 1]
    BY <1>2, ReverseFacts
  <1> HIDE DEF t
  <1>4. ASSUME NEW n \in 1 .. Len(s) PROVE t[n] = s[n]
    <2>1. Len(s) - n + 1 \in 1 .. Len(s) /\ Len(s) - (Len(s) - n + 1) + 1 = n
      BY <1>1
    <2> QED
      BY <1>2, <1>3, <2>1
  <1>5. t = s
    BY <1>1, <1>3, <1>4
  <1> QED
    BY <1>2, <1>5 DEF t, r

\* What comes out after the rows E when the queue, empty before, holds a run.
LEMMA FlushRows ==
  ASSUME NEW E \in Seq(Record), NEW run \in Seq(Record)
  PROVE  /\ E \o Reverse(Flushed(<<>>, run)) = E \o SortRun(run)
         /\ E \o Reverse(FlushedCapped(<<>>, run)) = E \o run
         /\ E \o Reverse(<<>>) = E
         /\ Len(Flushed(<<>>, run)) = Len(run)
         /\ Len(FlushedCapped(<<>>, run)) = Len(run)
  <1>1. SortRun(run) \in Seq(Record) /\ Len(SortRun(run)) = Len(run)
    BY SortFacts
  <1>2. Reverse(SortRun(run)) \in Seq(Record) /\ Reverse(run) \in Seq(Record)
    BY <1>1, ReverseFacts
  <1>3. \A s \in Seq(Record) : <<>> \o s = s /\ s \o <<>> = s
    OBVIOUS
  <1>4. Flushed(<<>>, run) = Reverse(SortRun(run)) /\ FlushedCapped(<<>>, run) = Reverse(run)
    BY <1>2, <1>3 DEF Flushed, FlushedCapped
  <1>5. <<>> \in Seq(Record) /\ Len(<<>>) = 0
    OBVIOUS
  <1>6. Reverse(<<>>) \in Seq(Record) /\ Len(Reverse(<<>>)) = 0
    BY <1>5, ReverseFacts
  <1>7. Reverse(<<>>) = <<>>
    <2> HIDE <1>5
    <2> QED
      BY <1>6
  <1>8. E \o Reverse(<<>>) = E
    BY <1>3, <1>7
  <1>9. /\ Reverse(Reverse(SortRun(run))) = SortRun(run)
        /\ Len(Reverse(SortRun(run))) = Len(SortRun(run))
    BY <1>1, ReverseTwice
  <1>10. Reverse(Reverse(run)) = run /\ Len(Reverse(run)) = Len(run)
    BY ReverseTwice
  <1> QED
    BY <1>1, <1>4, <1>8, <1>9, <1>10

\* Popping the queue moves a row over: the order of the rows is unchanged.
LEMMA DrainRows ==
  ASSUME NEW E \in Seq(Record), NEW queue \in Seq(Record), queue # <<>>
  PROVE  /\ Append(E, Last(queue)) \o Reverse(Front(queue)) = E \o Reverse(queue)
         /\ Append(E, Last(queue)) \in Seq(Record) /\ Front(queue) \in Seq(Record)
         /\ Len(Front(queue)) = Len(queue) - 1
  <1> DEFINE F == Front(queue)
             x == Last(queue)
             G == Append(E, x)
             P == Reverse(F)
             Q == Reverse(queue)
             A == G \o P
             B == E \o Q
             n == Len(E)
             k == Len(queue)
  <1>1. /\ F \in Seq(Record) /\ Len(F) = k - 1 /\ k \in Nat \ {0}
        /\ \A i \in 1 .. k - 1 : F[i] = queue[i]
        /\ x = queue[k] /\ x \in Record
    BY FrontFacts
  <1> HIDE DEF F, x
  <1>2. /\ G \in Seq(Record) /\ Len(G) = n + 1 /\ n \in Nat
        /\ \A i \in 1 .. n : G[i] = E[i]
        /\ G[n + 1] = x
    BY <1>1, AppendFacts
  <1>3. /\ P \in Seq(Record) /\ Len(P) = k - 1
        /\ \A i \in 1 .. k - 1 : P[i] = F[k - 1 - i + 1]
    BY <1>1, ReverseFacts
  <1>4. /\ Q \in Seq(Record) /\ Len(Q) = k
        /\ \A i \in 1 .. k : Q[i] = queue[k - i + 1]
    BY ReverseFacts
  <1> HIDE DEF G, P, Q
  <1>5. /\ A \in Seq(Record) /\ Len(A) = n + 1 + (k - 1)
        /\ \A i \in 1 .. n + 1 : A[i] = G[i]
        /\ \A i \in 1 .. k - 1 : A[n + 1 + i] = P[i]
    <2>0. G \in Seq(Record) /\ P \in Seq(Record)
      BY <1>2, <1>3
    <2>1. /\ A \in Seq(Record) /\ Len(A) = Len(G) + Len(P)
          /\ \A i \in 1 .. Len(G) : A[i] = G[i]
          /\ \A i \in 1 .. Len(P) : A[Len(G) + i] = P[i]
      BY <2>0, ConcatFacts
    <2> QED
      BY <1>2, <1>3, <2>1
  <1>6. /\ B \in Seq(Record) /\ Len(B) = n + k
        /\ \A i \in 1 .. n : B[i] = E[i]
        /\ \A i \in 1 .. k : B[n + i] = Q[i]
    <2>0. E \in Seq(Record) /\ Q \in Seq(Record)
      BY <1>4
    <2>1. /\ B \in Seq(Record) /\ Len(B) = Len(E) + Len(Q)
          /\ \A i \in 1 .. Len(E) : B[i] = E[i]
          /\ \A i \in 1 .. Len(Q) : B[Len(E) + i] = Q[i]
      BY <2>0, ConcatFacts
    <2> QED
      BY <1>4, <2>1
  <1> HIDE DEF A, B, n, k
  <1>7. n \in Nat /\ k \in Nat \ {0} /\ Len(A) = Len(B) /\ Len(B) = n + k
    BY <1>1, <1>2, <1>5, <1>6
  <1>8. ASSUME NEW i \in 1 .. n + k PROVE A[i] = B[i]
    <2>1. CASE i \in 1 .. n
      <3>1. i \in 1 .. n + 1
        BY <1>7, <2>1
      <3> QED
        BY <1>2, <1>5, <1>6, <2>1, <3>1
    <2>2. CASE i = n + 1
      <3>1. n + 1 \in 1 .. n + 1 /\ 1 \in 1 .. k /\ k - 1 + 1 = k
        BY <1>7
      <3>2. A[n + 1] = x
        BY <1>2, <1>5, <3>1
      <3>3. B[n + 1] = queue[k]
        BY <1>4, <1>6, <3>1
      <3> QED
        BY <1>1, <2>2, <3>2, <3>3
    <2>3. CASE i \notin 1 .. n /\ i # n + 1
      <3> DEFINE j == i - n - 1
      <3>1. /\ j \in 1 .. k - 1 /\ i = n + 1 + j /\ j + 1 \in 1 .. k /\ i = n + (j + 1)
            /\ k - 1 - j + 1 = k - j /\ k - (j + 1) + 1 = k - j /\ k - j \in 1 .. k - 1
        BY <1>7, <2>3
      <3> HIDE DEF j
      <3>2. A[i] = queue[k - j]
        <4>1. A[n + 1 + j] = P[j]
          BY <1>5, <3>1
        <4>2. P[j] = F[k - j]
          BY <1>3, <3>1
        <4>3. F[k - j] = queue[k - j]
          BY <1>1, <3>1
        <4> QED
          BY <3>1, <4>1, <4>2, <4>3
      <3>3. B[i] = queue[k - j]
        BY <1>4, <1>6, <3>1
      <3> QED
        BY <3>2, <3>3
    <2> QED
      BY <2>1, <2>2, <2>3
  <1>9. A \in [1 .. n + k -> Record] /\ B \in [1 .. n + k -> Record]
    BY <1>5, <1>6, <1>7
  <1>10. A = B
    <2>1. A = [i \in 1 .. n + k |-> A[i]] /\ B = [i \in 1 .. n + k |-> B[i]]
      BY <1>9
    <2>2. [i \in 1 .. n + k |-> A[i]] = [i \in 1 .. n + k |-> B[i]]
      BY <1>8
    <2> QED
      BY <2>1, <2>2
  <1> QED
    BY <1>1, <1>2, <1>10 DEF A, B, P, Q, G, F, x, k


-----------------------------------------------------------------------------
(* Type correctness.                                                       *)

\* The initial state has the right type.
LEMMA InitType == Init => TypeOK
  <1> SUFFICES ASSUME Init PROVE TypeOK
    OBVIOUS
  <1>1. cap \in Nat \ {0}
    <2>1. PICK n \in Caps : cap = Clamp(n)
      BY DEF Init
    <2>2. n \in Nat
      BY ConstantsAssumption
    <2> QED
      BY <2>1, <2>2 DEF Clamp
  <1>2. <<>> \in Seq(Record)
    OBVIOUS
  <1> QED
    BY <1>1, <1>2 DEF Init, TypeOK

\* The record a pull takes.
LEMMA PulledRecord ==
  ASSUME NEW t \in Times, NEW k \in Kinds, NEW key \in Keys \union {NoKey},
         arrived \in Seq(Record)
  PROVE  [id |-> Len(arrived) + 1, time |-> t, kind |-> k, key |-> key] \in Record
  <1>1. Len(arrived) + 1 \in Nat \ {0}
    OBVIOUS
  <1> QED
    BY <1>1 DEF Record

\* A pull keeps the types, whichever way the record is accepted.
LEMMA AcceptType ==
  ASSUME TypeOK, NEW m \in Record, PullOk(m)
  PROVE  TypeOK'
  <1> DEFINE queue == IF StartsNewRun(m) THEN Flushed(out, buf) ELSE out
             run == IF StartsNewRun(m) THEN <<m>> ELSE Append(buf, m)
  <1>1. queue \in Seq(Record) /\ run \in Seq(Record)
    <2>1. Flushed(out, buf) \in Seq(Record)
      BY FlushTypes DEF TypeOK
    <2>2. <<m>> \in Seq(Record) /\ Append(buf, m) \in Seq(Record)
      BY DEF TypeOK
    <2> QED
      BY <2>1, <2>2 DEF TypeOK
  <1>2. IF AtCap(run) THEN out' = FlushedCapped(queue, run) /\ buf' = <<>>
                      ELSE out' = queue /\ buf' = run
    BY DEF PullOk, Accept
  <1>3. arrived' = Append(arrived, m) /\ Append(arrived, m) \in Seq(Record)
    BY DEF PullOk, TypeOK
  <1>4. FlushedCapped(queue, run) \in Seq(Record)
    BY <1>1, FlushTypes
  <1> HIDE DEF queue, run
  <1>5. out' \in Seq(Record) /\ buf' \in Seq(Record)
    <2>1. <<>> \in Seq(Record)
      OBVIOUS
    <2> QED
      BY <1>1, <1>2, <1>4, <2>1
  <1> QED
    BY <1>3, <1>5 DEF PullOk, TypeOK

\* Every step keeps the types.
LEMMA StepType == TypeOK /\ [Next]_vars => TypeOK'
  <1> SUFFICES ASSUME TypeOK, [Next]_vars PROVE TypeOK'
    OBVIOUS
  <1>1. CASE Drain
    <2>1. out # <<>> /\ out \in Seq(Record) /\ emitted \in Seq(Record)
      BY <1>1 DEF Drain, TypeOK
    <2>2. Append(emitted, Last(out)) \in Seq(Record) /\ Front(out) \in Seq(Record)
      BY <2>1, DrainRows
    <2> QED
      BY <1>1, <2>2 DEF Drain, TypeOK
  <1>2. CASE Surface
    BY <1>2 DEF Surface, TypeOK
  <1>3. CASE Finish
    BY <1>3 DEF Finish, TypeOK
  <1>4. Flushed(out, buf) \in Seq(Record)
    BY FlushTypes DEF TypeOK
  <1>5. CASE PullEnd
    BY <1>4, <1>5 DEF PullEnd, TypeOK
  <1>6. CASE PullErr
    BY <1>4, <1>6 DEF PullErr, TypeOK
  <1>7. ASSUME NEW t \in Times, NEW k \in Kinds, NEW key \in Keys \union {NoKey},
               PullOk([id |-> Len(arrived) + 1, time |-> t, kind |-> k, key |-> key])
        PROVE  TypeOK'
    <2>1. [id |-> Len(arrived) + 1, time |-> t, kind |-> k, key |-> key] \in Record
      BY PulledRecord DEF TypeOK
    <2> QED
      BY <1>7, <2>1, AcceptType
  <1>8. CASE UNCHANGED vars
    BY <1>8 DEF vars, TypeOK
  <1> QED
    BY <1>1, <1>2, <1>3, <1>5, <1>6, <1>7, <1>8 DEF Next

\* The adapter's state keeps its type.
THEOREM TypeCorrect == Spec => []TypeOK
  BY InitType, StepType, PTL DEF Spec

-----------------------------------------------------------------------------
(* The invariant is inductive.                                             *)

\* Nothing has arrived, nothing is queued.
LEMMA InitOrder == Init => OrdInv
  <1> SUFFICES ASSUME Init PROVE OrdInv
    OBVIOUS
  <1>1. TypeOK
    BY InitType
  <1>2. arrived = <<>> /\ buf = <<>> /\ out = <<>> /\ emitted = <<>> /\ result = "open"
    BY DEF Init
  <1>3. <<>> \in Seq(Record) /\ Len(<<>>) = 0 /\ 1 .. 0 = {}
    OBVIOUS
  <1>4. Rows = <<>>
    BY <1>2, <1>3, FlushRows DEF Rows
  <1>5. BufferInv /\ ClosedInv
    BY <1>2, <1>3, <1>4 DEF BufferInv, ClosedInv
  <1>6. BufferBounded
    BY <1>1, <1>2, <1>3 DEF BufferBounded, TypeOK
  <1>7. RowInv(Rows, arrived, cap)
    BY <1>3, <1>4 DEF RowInv
  <1> QED
    BY <1>2, <1>3, <1>5, <1>6, <1>7 DEF OrdInv

\* What the invariant says of the run being accumulated, of the rows, and of
\* the queue when the next record is pulled.
LEMMA Accumulated ==
  ASSUME TypeOK, OrdInv
  PROVE  /\ Rows \in Seq(Record) /\ Len(Rows) \in Nat /\ Len(buf) \in Nat
         /\ Len(arrived) \in Nat /\ Len(arrived) = Len(Rows) + Len(buf)
         /\ HoldsBlock(buf, arrived, cap, Len(Rows))
         /\ Len(buf) < cap /\ cap \in Nat \ {0}
         /\ out = <<>> => Rows = emitted
         /\ \A i \in 1 .. Len(arrived) : arrived[i].id = i
         /\ RowInv(Rows, arrived, cap)
  <1>1. /\ arrived \in Seq(Record) /\ buf \in Seq(Record) /\ out \in Seq(Record)
        /\ emitted \in Seq(Record) /\ cap \in Nat \ {0}
    BY DEF TypeOK
  <1>2. Rows \in Seq(Record)
    <2>1. Reverse(out) \in Seq(Record)
      BY <1>1, ReverseFacts
    <2> QED
      BY <1>1, <2>1, ConcatFacts DEF Rows
  <1>3. Len(Rows) \in Nat /\ Len(buf) \in Nat /\ Len(arrived) \in Nat
    BY <1>1, <1>2, RecordFacts
  <1>4. /\ Len(Rows) + Len(buf) = Len(arrived)
        /\ \A n \in 1 .. Len(buf) :
             /\ buf[n] = arrived[Len(Rows) + n]
             /\ BlockOf(arrived, cap, Len(Rows) + n) = Len(Rows) + 1
    BY DEF OrdInv, BufferInv
  <1>5. \A i \in 1 .. Len(arrived) : arrived[i].id = i
    BY DEF OrdInv
  <1>6. \A n \in 1 .. Len(buf) : Len(Rows) + n \in 1 .. Len(arrived)
    BY <1>3, <1>4
  <1>7. HoldsBlock(buf, arrived, cap, Len(Rows))
    <2>1. \A n \in 1 .. Len(buf) : buf[n].id = Len(Rows) + n
      BY <1>4, <1>5, <1>6
    <2>2. Len(Rows) + Len(buf) <= Len(arrived)
      BY <1>3, <1>4
    <2> QED
      BY <1>4, <2>1, <2>2 DEF HoldsBlock
  <1>8. out = <<>> => Rows = emitted
    BY <1>1, FlushRows DEF Rows
  <1> QED
    BY <1>1, <1>2, <1>3, <1>4, <1>5, <1>7, <1>8 DEF OrdInv, BufferBounded


\* A step that leaves the arrivals, the run and the order of the rows alone.
LEMMA RowsKept ==
  ASSUME TypeOK, OrdInv, Rows' = Rows, cap' = cap, arrived' = arrived, buf' = buf,
         Len(out') <= Len(out), Len(out') \in Nat, Len(out) \in Nat,
         Open' => Open, Open => Open',
         result' # "open" => Len(out') = 0
  PROVE  OrdInv'
  <1>1. \A i \in 1 .. Len(arrived') : arrived'[i].id = i
    BY DEF OrdInv
  <1>2. BufferInv'
    BY DEF OrdInv, BufferInv
  <1>3. BufferBounded'
    <2>1. Len(buf) \in Nat /\ cap \in Nat
      BY Accumulated
    <2>2. Len(buf) + Len(out) <= cap /\ Len(buf) < cap
      BY DEF OrdInv, BufferBounded
    <2>3. Len(buf') + Len(out') <= cap' /\ Len(buf') < cap'
      <3>1. Len(buf) + Len(out') <= cap
        BY <2>1, <2>2
      <3> QED
        BY <2>2, <3>1
    <2> QED
      BY <2>3 DEF BufferBounded
  <1>4. ClosedInv'
    <2>1. CASE Open
      BY <2>1 DEF OrdInv, ClosedInv
    <2>2. CASE ~Open
      BY <2>2 DEF OrdInv, ClosedInv
    <2> QED
      BY <2>1, <2>2
  <1>5. RowInv(Rows', arrived', cap')
    BY DEF OrdInv
  <1> QED
    BY <1>1, <1>2, <1>3, <1>4, <1>5 DEF OrdInv

\* Drain hands a row over.
LEMMA DrainOrder ==
  ASSUME TypeOK, OrdInv, Drain
  PROVE  OrdInv'
  <1>1. out # <<>> /\ out \in Seq(Record) /\ emitted \in Seq(Record)
    BY DEF Drain, TypeOK
  <1>2. /\ Append(emitted, Last(out)) \o Reverse(Front(out)) = emitted \o Reverse(out)
        /\ Len(Front(out)) = Len(out) - 1 /\ Front(out) \in Seq(Record)
    BY <1>1, DrainRows
  <1>3. Rows' = Rows
    BY <1>2 DEF Drain, Rows
  <1>4. Len(out) \in Nat /\ Len(Front(out)) \in Nat
    BY <1>1, <1>2, RecordFacts
  <1>5. Len(out') <= Len(out) /\ Len(out') \in Nat
    BY <1>2, <1>4 DEF Drain
  <1>6. result' = "open" /\ cap' = cap /\ arrived' = arrived /\ buf' = buf
        /\ result = "open" /\ pending' = pending /\ done' = done
    BY DEF Drain
  <1>7. Open' <=> Open
    BY <1>6 DEF Open
  <1> QED
    BY <1>3, <1>4, <1>5, <1>6, <1>7, RowsKept

\* The error or the end comes out when nothing is queued.
LEMMA SurfaceOrder ==
  ASSUME TypeOK, OrdInv, Surface \/ Finish
  PROVE  OrdInv'
  <1>1. /\ out = <<>> /\ out' = out /\ emitted' = emitted /\ cap' = cap
        /\ arrived' = arrived /\ buf' = buf /\ result' # "open" /\ (pending \/ done)
    BY DEF Surface, Finish
  <1>2. Rows' = Rows
    BY <1>1 DEF Rows
  <1>3. Len(out) = 0 /\ Len(out') = 0
    BY <1>1
  <1>4. ~Open /\ ~Open'
    BY <1>1 DEF Open
  <1> QED
    BY <1>1, <1>2, <1>3, <1>4, RowsKept

\* The block being accumulated is short of the cap by the records that came.
LEMMA NotFull ==
  ASSUME TypeOK, OrdInv, NEW n \in 1 .. Len(buf)
  PROVE  ~FullBlock(arrived, cap, Len(Rows) + n)
  <1>1. /\ Len(Rows) \in Nat /\ Len(buf) \in Nat /\ Len(arrived) = Len(Rows) + Len(buf)
        /\ Len(buf) < cap /\ cap \in Nat
        /\ HoldsBlock(buf, arrived, cap, Len(Rows))
    BY Accumulated
  <1>2. BlockOf(arrived, cap, Len(Rows) + n) = Len(Rows) + 1
    BY <1>1 DEF HoldsBlock
  <1>3. ~(Len(Rows) + 1 + cap - 1 <= Len(arrived))
    BY <1>1
  <1> QED
    BY <1>2, <1>3 DEF FullBlock

\* The end or an error flushes the run: its block gets no more records.
LEMMA LastFlushOrder ==
  ASSUME TypeOK, OrdInv, PullEnd \/ PullErr
  PROVE  OrdInv'
  <1>1. /\ out = <<>> /\ out' = Flushed(<<>>, buf) /\ buf' = <<>> /\ emitted' = emitted
        /\ cap' = cap /\ arrived' = arrived /\ result' = "open" /\ (pending' \/ done')
    BY DEF PullEnd, PullErr, Pulling
  <1>2. /\ Rows \in Seq(Record) /\ Len(Rows) \in Nat /\ Len(buf) \in Nat
        /\ Len(arrived) = Len(Rows) + Len(buf) /\ cap \in Nat \ {0} /\ Len(buf) < cap
        /\ HoldsBlock(buf, arrived, cap, Len(Rows)) /\ Rows = emitted
        /\ \A i \in 1 .. Len(arrived) : arrived[i].id = i
        /\ RowInv(Rows, arrived, cap)
    BY <1>1, Accumulated
  <1>3. buf \in Seq(Record) /\ arrived \in Seq(Record)
    BY DEF TypeOK
  <1>4. Rows' = Rows \o SortRun(buf) /\ Len(out') = Len(buf)
    <2>1. /\ emitted \o Reverse(Flushed(<<>>, buf)) = emitted \o SortRun(buf)
          /\ Len(Flushed(<<>>, buf)) = Len(buf)
      BY <1>2, <1>3, FlushRows
    <2> QED
      BY <1>1, <1>2, <2>1 DEF Rows
  <1>5. SortRun(buf) \in Seq(Record) /\ Len(SortRun(buf)) = Len(buf)
    BY <1>3, SortFacts
  <1>6. BlockRows(SortRun(buf), arrived, cap, Len(Rows))
    BY <1>2, <1>3, NotFull, SortedRows
  <1>7. RowInv(Rows', arrived', cap')
    <2>1. RowInv(Rows \o SortRun(buf), arrived, cap)
      BY <1>2, <1>3, <1>5, <1>6, BlockAppended
    <2> QED
      BY <1>1, <1>4, <2>1
  <1>8. Len(Rows') = Len(arrived') /\ Len(buf') = 0 /\ Len(arrived') \in Nat
    <2>1. Len(Rows \o SortRun(buf)) = Len(Rows) + Len(buf)
      BY <1>2, <1>5, ConcatFacts
    <2> QED
      BY <1>1, <1>2, <1>4, <2>1
  <1>9. BufferInv'
    <2>1. Len(Rows') + Len(buf') = Len(arrived') /\ 1 .. Len(buf') = {}
      BY <1>8
    <2> QED
      BY <2>1 DEF BufferInv
  <1>10. ClosedInv'
    BY <1>1, <1>8 DEF ClosedInv, Open
  <1>11. BufferBounded'
    <2>1. Len(buf') + Len(out') <= cap' /\ Len(buf') < cap'
      BY <1>1, <1>2, <1>4, <1>8
    <2> QED
      BY <2>1 DEF BufferBounded
  <1>12. (\A i \in 1 .. Len(arrived') : arrived'[i].id = i) /\ result' = "open"
    BY <1>1, <1>2
  <1> QED
    BY <1>7, <1>9, <1>10, <1>11, <1>12 DEF OrdInv


\* What a pull leaves as it was: the rows, and the run it found.
LEMMA Pulled ==
  ASSUME TypeOK, OrdInv, NEW m \in Record, PullOk(m)
  PROVE  /\ arrived' \in Seq(Record) /\ Continues(arrived', arrived)
         /\ Len(arrived') = Len(arrived) + 1 /\ arrived'[Len(arrived) + 1] = m
         /\ \A i \in 1 .. Len(arrived') : arrived'[i].id = i
         /\ out = <<>> /\ Rows = emitted /\ emitted' = emitted
         /\ cap' = cap /\ result' = "open" /\ Open /\ Open'
         /\ RowInv(Rows, arrived', cap)
         /\ \A i \in 1 .. Len(Rows) : Closed(arrived', cap, i)
         /\ HoldsBlock(buf, arrived', cap, Len(Rows))
  <1>1. /\ out = <<>> /\ emitted' = emitted /\ cap' = cap /\ arrived' = Append(arrived, m)
        /\ result = "open" /\ ~pending /\ ~done /\ m.id = Len(arrived) + 1
        /\ result' = result /\ pending' = pending /\ done' = done
    BY DEF PullOk, Pulling
  <1>2. Open /\ Open'
    BY <1>1 DEF Open
  <1>3. /\ Rows \in Seq(Record) /\ Len(Rows) \in Nat /\ Len(buf) \in Nat
        /\ Len(arrived) \in Nat /\ Len(arrived) = Len(Rows) + Len(buf) /\ cap \in Nat \ {0}
        /\ HoldsBlock(buf, arrived, cap, Len(Rows)) /\ Rows = emitted
        /\ \A i \in 1 .. Len(arrived) : arrived[i].id = i
        /\ RowInv(Rows, arrived, cap)
    BY <1>1, Accumulated
  <1>4. arrived \in Seq(Record)
    BY DEF TypeOK
  <1>5. /\ arrived' \in Seq(Record) /\ Len(arrived') = Len(arrived) + 1
        /\ \A n \in 1 .. Len(arrived) : arrived'[n] = arrived[n]
        /\ arrived'[Len(arrived) + 1] = m
    BY <1>1, <1>4, AppendFacts
  <1>6. Continues(arrived', arrived)
    BY <1>3, <1>5 DEF Continues
  <1>7. \A i \in 1 .. Len(arrived') : arrived'[i].id = i
    <2> SUFFICES ASSUME NEW i \in 1 .. Len(arrived') PROVE arrived'[i].id = i
      OBVIOUS
    <2>1. i \in 1 .. Len(arrived) \/ i = Len(arrived) + 1
      BY <1>3, <1>5
    <2> QED
      BY <1>1, <1>3, <1>5, <2>1
  <1>8. \A i \in 1 .. Len(Rows) : Closed(arrived, cap, i)
    BY <1>2 DEF OrdInv, ClosedInv
  <1>9. Len(Rows) <= Len(arrived)
    BY <1>3
  <1>10. RowInv(Rows, arrived', cap) /\ \A i \in 1 .. Len(Rows) : Closed(arrived', cap, i)
    BY <1>3, <1>4, <1>5, <1>6, <1>8, <1>9, RowsFixed
  <1>11. HoldsBlock(buf, arrived', cap, Len(Rows))
    <2>1. \A n \in 1 .. Len(buf) : Len(Rows) + n \in 1 .. Len(arrived)
      BY <1>3
    <2>2. \A i \in 1 .. Len(arrived) : BlockOf(arrived', cap, i) = BlockOf(arrived, cap, i)
      BY <1>3, <1>4, <1>5, <1>6, BlockFixed
    <2>3. Len(Rows) + Len(buf) <= Len(arrived')
      BY <1>3, <1>5
    <2>4. \A n \in 1 .. Len(buf) :
            /\ buf[n] = arrived'[Len(Rows) + n] /\ buf[n].id = Len(Rows) + n
            /\ BlockOf(arrived', cap, Len(Rows) + n) = Len(Rows) + 1
      BY <1>3, <1>5, <2>1, <2>2 DEF HoldsBlock
    <2> QED
      BY <2>3, <2>4 DEF HoldsBlock
  <1> QED
    BY <1>1, <1>2, <1>3, <1>5, <1>6, <1>7, <1>10, <1>11

\* A record that starts a new run ends the block being accumulated: it goes
\* out sorted, and the record starts the next block.
LEMMA NewRunOrder ==
  ASSUME TypeOK, OrdInv, NEW m \in Record, PullOk(m), StartsNewRun(m)
  PROVE  OrdInv'
  <1> DEFINE F == Len(Rows)
             L == Len(buf)
             n == Len(arrived)
             b == arrived'
  <1>1. /\ Rows \in Seq(Record) /\ F \in Nat /\ L \in Nat /\ n \in Nat /\ n = F + L
        /\ cap \in Nat \ {0} /\ L < cap
    BY Accumulated
  <1>2. /\ b \in Seq(Record) /\ Len(b) = n + 1 /\ b[n + 1] = m
        /\ \A i \in 1 .. Len(b) : b[i].id = i
        /\ out = <<>> /\ Rows = emitted /\ emitted' = emitted
        /\ cap' = cap /\ result' = "open" /\ Open'
        /\ RowInv(Rows, b, cap)
        /\ \A i \in 1 .. F : Closed(b, cap, i)
        /\ HoldsBlock(buf, b, cap, F)
    BY Pulled
  <1>3. buf \in Seq(Record) /\ buf # <<>> /\ buf[1].time # m.time
    BY DEF StartsNewRun, TypeOK
  <1>4. L >= 1
    BY <1>1, <1>3
  <1>5. out' = Flushed(<<>>, buf) /\ buf' = <<m>> /\ cap > 1
    <2>1. Len(<<m>>) = 1 /\ ~(1 >= cap)
      BY <1>1, <1>4
    <2>2. ~AtCap(<<m>>)
      BY <2>1 DEF AtCap
    <2> QED
      BY <1>1, <1>2, <1>4, <2>2 DEF PullOk, Accept
  <1> HIDE DEF F, L, n, b
  <1>6. \A k \in 1 .. L : /\ F + k \in 1 .. Len(b) /\ BlockOf(b, cap, F + k) = F + 1
                          /\ b[F + k] = buf[k]
    <2>1. \A k \in 1 .. L : F + k \in 1 .. Len(b)
      BY <1>1, <1>2
    <2> QED
      BY <1>2, <2>1 DEF HoldsBlock, L
  <1>7. \A k \in 1 .. L : b[F + k].time # m.time
    <2> SUFFICES ASSUME NEW k \in 1 .. L PROVE b[F + k].time # m.time
      OBVIOUS
    <2>1. F + 1 \in F + 1 .. F + k /\ 1 \in 1 .. L
      BY <1>1, <1>4
    <2>2. b[F + 1].time = b[F + k].time
      <3>1. F + k \in 1 .. Len(b) /\ F + 1 \in BlockOf(b, cap, F + k) .. F + k
        BY <1>6, <2>1
      <3>2. b \in Seq(Record) /\ cap \in Nat \ {0}
        BY <1>1, <1>2
      <3> QED
        BY <3>1, <3>2, BlockBehind
    <2>3. b[F + 1] = buf[1]
      BY <1>6, <2>1
    <2> QED
      BY <1>3, <2>2, <2>3
  <1>8. n \in 1 .. Len(b) /\ n + 1 \in 1 .. Len(b) /\ n + 1 <= Len(b)
    BY <1>1, <1>2, <1>4
  <1>9. b[n + 1].time # b[n].time
    <2>1. L \in 1 .. L /\ F + L = n
      BY <1>1, <1>4
    <2>2. b[F + L].time # m.time
      BY <1>7, <2>1
    <2> QED
      BY <1>2, <2>1, <2>2
  <1>10. RunOf(b, n + 1) = n + 1 /\ BlockOf(b, cap, n + 1) = n + 1
    BY <1>1, <1>2, <1>8, <1>9, RunNext, NextBlock
  <1>11. \A k \in 1 .. L : ~FullBlock(b, cap, F + k)
    <2> SUFFICES ASSUME NEW k \in 1 .. L, FullBlock(b, cap, F + k) PROVE FALSE
      OBVIOUS
    <2>1. /\ F + 1 + cap - 1 <= Len(b) /\ RunOf(b, F + 1 + cap - 1) = RunOf(b, F + k)
      BY <1>6 DEF FullBlock
    <2>2. F + 1 + cap - 1 = n + 1
      BY <1>1, <1>2, <2>1
    <2>3. RunOf(b, F + k) \in 1 .. F + k
      BY <1>2, <1>6, RunExists
    <2>4. RunOf(b, F + k) = n + 1
      BY <1>10, <2>1, <2>2
    <2> QED
      BY <1>1, <2>3, <2>4
  <1>12. BlockRows(SortRun(buf), b, cap, F)
    BY <1>1, <1>2, <1>3, <1>11, SortedRows DEF L
  <1>13. SortRun(buf) \in Seq(Record) /\ Len(SortRun(buf)) = L
    BY <1>3, SortFacts DEF L
  <1>14. Rows' = Rows \o SortRun(buf) /\ Len(out') = L
    <2>1. /\ emitted \o Reverse(Flushed(<<>>, buf)) = emitted \o SortRun(buf)
          /\ Len(Flushed(<<>>, buf)) = L
      <3>1. emitted \in Seq(Record)
        BY DEF TypeOK
      <3> QED
        BY <1>3, <3>1, FlushRows DEF L
    <2> QED
      BY <1>2, <1>5, <2>1 DEF Rows
  <1>15. RowInv(Rows \o SortRun(buf), b, cap) /\ Len(Rows \o SortRun(buf)) = n
    <2>1. RowInv(Rows \o SortRun(buf), b, cap)
      BY <1>1, <1>2, <1>12, <1>13, BlockAppended DEF F
    <2>2. Len(Rows \o SortRun(buf)) = F + L
      BY <1>1, <1>13, ConcatFacts DEF F
    <2> QED
      BY <1>1, <2>1, <2>2
  <1>16. \A i \in 1 .. n : Closed(b, cap, i)
    <2> SUFFICES ASSUME NEW i \in 1 .. n PROVE Closed(b, cap, i)
      OBVIOUS
    <2>1. CASE i \in 1 .. F
      BY <1>2, <2>1
    <2>2. CASE i \notin 1 .. F
      <3>1. i - F \in 1 .. L /\ F + (i - F) = i
        BY <1>1, <2>2
      <3>2. BlockOf(b, cap, i) = F + 1 /\ b[i].time # m.time
        BY <1>6, <1>7, <3>1
      <3>3. n + 1 \in i .. Len(b) /\ n + 1 <= F + 1 + cap - 1
        BY <1>1, <1>2
      <3> QED
        BY <1>2, <3>2, <3>3 DEF Closed
    <2> QED
      BY <2>1, <2>2
  <1>17. Len(buf') = 1 /\ buf'[1] = m
    BY <1>5
  <1>18. BufferInv'
    <2>1. Len(Rows') = n /\ n + 1 = Len(b)
      BY <1>2, <1>14, <1>15
    <2>2. \A k \in 1 .. 1 : k = 1
      OBVIOUS
    <2>3. /\ Len(Rows') + Len(buf') = Len(arrived')
          /\ \A k \in 1 .. Len(buf') :
               /\ buf'[k] = arrived'[Len(Rows') + k]
               /\ BlockOf(arrived', cap', Len(Rows') + k) = Len(Rows') + 1
      BY <1>2, <1>10, <1>17, <2>1, <2>2 DEF b
    <2> QED
      BY <2>3 DEF BufferInv
  <1>19. ClosedInv'
    <2>1. \A i \in 1 .. Len(Rows') : Closed(arrived', cap', i)
      BY <1>2, <1>14, <1>15, <1>16 DEF b
    <2> QED
      BY <1>2, <1>17, <2>1 DEF ClosedInv
  <1>20. BufferBounded'
    <2>1. Len(buf') + Len(out') <= cap' /\ Len(buf') < cap'
      BY <1>1, <1>2, <1>5, <1>14, <1>17
    <2> QED
      BY <2>1 DEF BufferBounded
  <1>21. RowInv(Rows', arrived', cap')
    BY <1>2, <1>14, <1>15 DEF b
  <1>22. (\A i \in 1 .. Len(arrived') : arrived'[i].id = i) /\ result' = "open"
    BY <1>2 DEF b
  <1> QED
    BY <1>18, <1>19, <1>20, <1>21, <1>22 DEF OrdInv


\* A record of the run being accumulated is of its block; the first record of
\* a run, or behind a full block, starts one.
LEMMA NextInBlock ==
  ASSUME TypeOK, OrdInv, NEW m \in Record, PullOk(m), ~StartsNewRun(m)
  PROVE  BlockOf(arrived', cap, Len(arrived) + 1) = Len(Rows) + 1
  <1> DEFINE F == Len(Rows)
             L == Len(buf)
             n == Len(arrived)
             b == arrived'
  <1>1. /\ F \in Nat /\ L \in Nat /\ n \in Nat /\ n = F + L
        /\ cap \in Nat \ {0} /\ L < cap
    BY Accumulated
  <1>2. /\ b \in Seq(Record) /\ Len(b) = n + 1 /\ b[n + 1] = m
        /\ HoldsBlock(buf, b, cap, F)
    BY Pulled
  <1>3. arrived \in Seq(Record) /\ buf \in Seq(Record) /\ Continues(b, arrived) /\ Open
    BY Pulled DEF TypeOK
  <1>4. L = 0 /\ F > 0 => BlockOf(arrived, cap, F) + cap = F + 1
    BY <1>3 DEF OrdInv, ClosedInv
  <1> HIDE DEF F, n, b
  <1>5. CASE n = 0
    <2>1. 1 \in 1 .. Len(b) /\ F + 1 = 1 /\ n + 1 = 1
      BY <1>1, <1>2, <1>5
    <2>2. BlockOf(b, cap, 1) \in 1 .. 1
      BY <1>1, <1>2, <2>1, BlockPlace
    <2>3. BlockOf(b, cap, 1) = 1
      BY <2>2
    <2> QED
      BY <2>1, <2>3 DEF F, n, b
  <1>6. CASE n # 0
    <2>1. n \in 1 .. Len(b) /\ n + 1 <= Len(b) /\ n \in 1 .. Len(arrived)
      BY <1>1, <1>2, <1>6 DEF n
    <2>2. BlockOf(b, cap, n + 1) =
            IF b[n + 1].time = b[n].time /\ n + 1 < BlockOf(b, cap, n) + cap
            THEN BlockOf(b, cap, n) ELSE n + 1
      BY <1>1, <1>2, <2>1, NextBlock
    <2>3. CASE L = 0
      <3>1. n = F /\ BlockOf(b, cap, n) = BlockOf(arrived, cap, n)
        BY <1>1, <1>2, <1>3, <2>1, <2>3, BlockFixed
      <3>2. BlockOf(b, cap, n) + cap = n + 1
        BY <1>1, <1>4, <1>6, <2>3, <3>1
      <3>3. BlockOf(b, cap, n + 1) = n + 1
        <4>1. ~(n + 1 < BlockOf(b, cap, n) + cap)
          BY <1>1, <3>2
        <4> QED
          BY <2>2, <4>1
      <3> QED
        BY <3>1, <3>3 DEF F, n, b
    <2>4. CASE L # 0
      <3>1. L \in 1 .. L /\ 1 \in 1 .. L /\ F + L = n /\ F + 1 \in F + 1 .. F + L
        BY <1>1, <2>4
      <3>2. /\ BlockOf(b, cap, n) = F + 1 /\ b[F + 1] = buf[1]
        BY <1>2, <3>1 DEF HoldsBlock, L
      <3>3. b[F + 1].time = b[n].time
        <4>1. F + 1 \in BlockOf(b, cap, n) .. n
          BY <3>1, <3>2
        <4> QED
          BY <1>1, <1>2, <2>1, <4>1, BlockBehind
      <3>4. buf[1].time = m.time
        <4>1. buf # <<>>
          BY <2>4
        <4> QED
          BY <1>3, <4>1 DEF StartsNewRun
      <3>5. n + 1 < F + 1 + cap /\ b[n + 1].time = b[n].time
        BY <1>1, <1>2, <3>2, <3>3, <3>4
      <3>6. BlockOf(b, cap, n + 1) = F + 1
        BY <2>2, <3>2, <3>5
      <3> QED
        BY <3>6 DEF F, n, b
    <2> QED
      BY <2>3, <2>4
  <1> QED
    BY <1>5, <1>6

\* The run with the record pulled behind it is the block being accumulated.
LEMMA BlockGrown ==
  ASSUME TypeOK, OrdInv, NEW m \in Record, PullOk(m), ~StartsNewRun(m)
  PROVE  /\ Append(buf, m) \in Seq(Record) /\ Len(Append(buf, m)) = Len(buf) + 1
         /\ HoldsBlock(Append(buf, m), arrived', cap, Len(Rows))
  <1> DEFINE F == Len(Rows)
             L == Len(buf)
             n == Len(arrived)
             b == arrived'
             run == Append(buf, m)
  <1>1. F \in Nat /\ L \in Nat /\ n \in Nat /\ n = F + L
    BY Accumulated
  <1>2. /\ Len(b) = n + 1 /\ b[n + 1] = m /\ HoldsBlock(buf, b, cap, F)
        /\ \A i \in 1 .. Len(b) : b[i].id = i
    BY Pulled
  <1>3. BlockOf(b, cap, n + 1) = F + 1
    BY NextInBlock
  <1>4. /\ run \in Seq(Record) /\ Len(run) = L + 1
        /\ \A k \in 1 .. L : run[k] = buf[k]
        /\ run[L + 1] = m
    <2>1. buf \in Seq(Record)
      BY DEF TypeOK
    <2> QED
      BY <2>1, AppendFacts
  <1>5. \A k \in 1 .. L : /\ buf[k] = b[F + k] /\ buf[k].id = F + k
                          /\ BlockOf(b, cap, F + k) = F + 1
    BY <1>2 DEF HoldsBlock
  <1> HIDE DEF F, L, n, b, run
  <1>6. \A k \in 1 .. L + 1 : k \in 1 .. L \/ k = L + 1
    BY <1>1
  <1>7. F + (L + 1) = n + 1 /\ n + 1 \in 1 .. Len(b)
    BY <1>1, <1>2
  <1>8. \A k \in 1 .. L + 1 : /\ run[k] = b[F + k] /\ run[k].id = F + k
                              /\ BlockOf(b, cap, F + k) = F + 1
    <2> SUFFICES ASSUME NEW k \in 1 .. L + 1
                 PROVE  /\ run[k] = b[F + k] /\ run[k].id = F + k
                        /\ BlockOf(b, cap, F + k) = F + 1
      OBVIOUS
    <2>1. CASE k \in 1 .. L
      BY <1>4, <1>5, <2>1
    <2>2. CASE k = L + 1
      BY <1>2, <1>3, <1>4, <1>7, <2>2
    <2> QED
      BY <1>6, <2>1, <2>2
  <1>9. F + (L + 1) <= Len(b)
    BY <1>1, <1>2
  <1>10. HoldsBlock(run, b, cap, F)
    BY <1>4, <1>8, <1>9 DEF HoldsBlock
  <1> QED
    BY <1>4, <1>10 DEF run, b, F, L


\* A record of the run joins it while there is room for another.
LEMMA SameRunOrder ==
  ASSUME TypeOK, OrdInv, NEW m \in Record, PullOk(m), ~StartsNewRun(m),
         ~AtCap(Append(buf, m))
  PROVE  OrdInv'
  <1> DEFINE F == Len(Rows)
             run == Append(buf, m)
  <1>1. /\ F \in Nat /\ Len(buf) \in Nat /\ Len(arrived) = F + Len(buf) /\ cap \in Nat
    BY Accumulated
  <1>2. /\ Len(arrived') = Len(arrived) + 1
        /\ \A i \in 1 .. Len(arrived') : arrived'[i].id = i
        /\ out = <<>> /\ emitted' = emitted /\ cap' = cap /\ result' = "open" /\ Open'
        /\ RowInv(Rows, arrived', cap)
        /\ \A i \in 1 .. F : Closed(arrived', cap, i)
    BY Pulled
  <1>3. Len(run) = Len(buf) + 1 /\ HoldsBlock(run, arrived', cap, F)
    BY BlockGrown
  <1>4. out' = out /\ buf' = run /\ ~(Len(run) >= cap)
    BY DEF PullOk, Accept, AtCap
  <1>5. Rows' = Rows
    BY <1>2, <1>4 DEF Rows
  <1> HIDE DEF F, run
  <1>6. BufferInv'
    <2>1. F + Len(run) = Len(arrived')
      BY <1>1, <1>2, <1>3
    <2>2. Len(Rows') = F
      BY <1>5 DEF F
    <2>3. \A n \in 1 .. Len(run) : /\ run[n] = arrived'[F + n]
                                   /\ BlockOf(arrived', cap, F + n) = F + 1
      BY <1>3 DEF HoldsBlock
    <2>4. /\ Len(Rows') + Len(buf') = Len(arrived')
          /\ \A n \in 1 .. Len(buf') :
               /\ buf'[n] = arrived'[Len(Rows') + n]
               /\ BlockOf(arrived', cap', Len(Rows') + n) = Len(Rows') + 1
      BY <1>2, <1>4, <2>1, <2>2, <2>3
    <2> QED
      BY <2>4 DEF BufferInv
  <1>7. ClosedInv'
    <2>1. Len(buf') # 0 /\ \A i \in 1 .. Len(Rows') : Closed(arrived', cap', i)
      BY <1>1, <1>2, <1>3, <1>4, <1>5 DEF F
    <2> QED
      BY <1>2, <2>1 DEF ClosedInv
  <1>8. BufferBounded'
    <2>1. Len(out') = 0
      BY <1>2, <1>4
    <2>2. Len(buf') + Len(out') <= cap' /\ Len(buf') < cap'
      BY <1>1, <1>2, <1>3, <1>4, <2>1
    <2> QED
      BY <2>2 DEF BufferBounded
  <1>9. RowInv(Rows', arrived', cap')
    BY <1>2, <1>5
  <1>10. (\A i \in 1 .. Len(arrived') : arrived'[i].id = i) /\ result' = "open"
    BY <1>2
  <1> QED
    BY <1>6, <1>7, <1>8, <1>9, <1>10 DEF OrdInv

\* The record that fills the block sends it out as it came.
LEMMA FullRunOrder ==
  ASSUME TypeOK, OrdInv, NEW m \in Record, PullOk(m), ~StartsNewRun(m),
         AtCap(Append(buf, m))
  PROVE  OrdInv'
  <1> DEFINE F == Len(Rows)
             run == Append(buf, m)
             b == arrived'
  <1>1. /\ F \in Nat /\ Len(buf) \in Nat /\ Len(arrived) = F + Len(buf)
        /\ cap \in Nat \ {0} /\ Len(buf) < cap /\ Rows \in Seq(Record)
    BY Accumulated
  <1>2. /\ b \in Seq(Record) /\ Len(b) = Len(arrived) + 1
        /\ \A i \in 1 .. Len(b) : b[i].id = i
        /\ out = <<>> /\ Rows = emitted /\ emitted' = emitted
        /\ cap' = cap /\ result' = "open" /\ Open'
        /\ RowInv(Rows, b, cap)
        /\ \A i \in 1 .. F : Closed(b, cap, i)
    BY Pulled
  <1>3. /\ run \in Seq(Record) /\ Len(run) = Len(buf) + 1 /\ HoldsBlock(run, b, cap, F)
    BY BlockGrown
  <1>4. out' = FlushedCapped(<<>>, run) /\ buf' = <<>> /\ Len(run) >= cap
    BY <1>2 DEF PullOk, Accept, AtCap
  <1>5. emitted \in Seq(Record)
    BY DEF TypeOK
  <1> HIDE DEF run
  <1>6. Len(run) = cap /\ Len(b) = F + cap
    <2>1. Len(run) = Len(buf) + 1 /\ Len(b) = Len(arrived) + 1
      BY <1>2, <1>3
    <2>2. Len(run) >= cap
      BY <1>4
    <2> HIDE DEF F, b
    <2> QED
      BY <1>1, <2>1, <2>2
  <1>7. Rows' = Rows \o run /\ Len(out') = cap
    <2>1. emitted \o Reverse(FlushedCapped(<<>>, run)) = emitted \o run
          /\ Len(FlushedCapped(<<>>, run)) = Len(run)
      BY <1>3, <1>5, FlushRows
    <2> QED
      BY <1>2, <1>4, <1>6, <2>1 DEF Rows
  <1> HIDE DEF F, b
  <1>8. \A n \in 1 .. cap : F + n \in 1 .. Len(b) /\ BlockOf(b, cap, F + n) = F + 1
    <2>1. \A n \in 1 .. cap : F + n \in 1 .. Len(b)
      BY <1>1, <1>6
    <2> QED
      BY <1>3, <1>6, <2>1 DEF HoldsBlock
  <1>9. \A n \in 1 .. cap : FullBlock(b, cap, F + n)
    <2> SUFFICES ASSUME NEW n \in 1 .. cap PROVE FullBlock(b, cap, F + n)
      OBVIOUS
    <2>1. cap \in 1 .. cap /\ F + 1 + cap - 1 = F + cap /\ F + n \in F + 1 .. F + cap
      BY <1>1
    <2>2. F + cap \in 1 .. Len(b) /\ F + n \in BlockOf(b, cap, F + cap) .. F + cap
      BY <1>8, <2>1
    <2>3. RunOf(b, F + n) = RunOf(b, F + cap)
      BY <1>1, <1>2, <2>2, BlockBehind
    <2>4. BlockOf(b, cap, F + n) + cap - 1 = F + cap /\ F + cap <= Len(b)
      <3>1. BlockOf(b, cap, F + n) = F + 1
        BY <1>8
      <3> QED
        BY <1>1, <1>6, <2>1, <3>1
    <2> QED
      BY <2>3, <2>4 DEF FullBlock
  <1>10. BlockRows(run, b, cap, F)
    BY <1>1, <1>2, <1>3, <1>6, <1>9, CappedRows
  <1>11. RowInv(Rows \o run, b, cap) /\ Len(Rows \o run) = F + cap
    <2>1. RowInv(Rows \o run, b, cap)
      BY <1>1, <1>2, <1>3, <1>10, BlockAppended DEF F
    <2>2. Len(Rows \o run) = F + Len(run)
      BY <1>1, <1>3, ConcatFacts DEF F
    <2> QED
      BY <1>6, <2>1, <2>2
  <1>12. \A i \in 1 .. F + cap : Closed(b, cap, i)
    <2> SUFFICES ASSUME NEW i \in 1 .. F + cap PROVE Closed(b, cap, i)
      OBVIOUS
    <2>1. CASE i \in 1 .. F
      BY <1>2, <2>1 DEF F
    <2>2. CASE i \notin 1 .. F
      <3>1. i - F \in 1 .. cap /\ F + (i - F) = i
        BY <1>1, <2>2
      <3>2. BlockOf(b, cap, i) = F + 1
        BY <1>8, <3>1
      <3>3. BlockOf(b, cap, i) + cap - 1 <= Len(b)
        BY <1>1, <1>6, <3>2
      <3> QED
        BY <3>3 DEF Closed
    <2> QED
      BY <2>1, <2>2
  <1>13. BlockOf(b, cap, F + cap) + cap = F + cap + 1
    <2>1. cap \in 1 .. cap
      BY <1>1
    <2>2. BlockOf(b, cap, F + cap) = F + 1
      BY <1>8, <2>1
    <2> QED
      BY <1>1, <2>2
  <1>14. Len(buf') = 0
    BY <1>4
  <1>15. Len(Rows') = F + cap
    BY <1>7, <1>11
  <1>16. BufferInv'
    <2>1. Len(Rows') + Len(buf') = Len(arrived') /\ 1 .. Len(buf') = {}
      BY <1>1, <1>6, <1>14, <1>15 DEF b
    <2> QED
      BY <2>1 DEF BufferInv
  <1>17. ClosedInv'
    <2>1. /\ \A i \in 1 .. Len(Rows') : Closed(arrived', cap', i)
          /\ BlockOf(arrived', cap', Len(Rows')) + cap' = Len(Rows') + 1
      BY <1>2, <1>12, <1>13, <1>15 DEF b
    <2> QED
      BY <1>2, <2>1 DEF ClosedInv
  <1>18. BufferBounded'
    <2>1. Len(buf') + Len(out') <= cap' /\ Len(buf') < cap'
      BY <1>1, <1>2, <1>7, <1>14
    <2> QED
      BY <2>1 DEF BufferBounded
  <1>19. RowInv(Rows', arrived', cap')
    BY <1>2, <1>7, <1>11 DEF b
  <1>20. (\A i \in 1 .. Len(arrived') : arrived'[i].id = i) /\ result' = "open"
    BY <1>2 DEF b
  <1> QED
    BY <1>16, <1>17, <1>18, <1>19, <1>20 DEF OrdInv

\* Every step keeps the invariant.
LEMMA StepOrder == TypeOK /\ OrdInv /\ [Next]_vars => OrdInv'
  <1> SUFFICES ASSUME TypeOK, OrdInv, [Next]_vars PROVE OrdInv'
    OBVIOUS
  <1>1. CASE Drain
    BY <1>1, DrainOrder
  <1>2. CASE Surface
    BY <1>2, SurfaceOrder
  <1>3. CASE Finish
    BY <1>3, SurfaceOrder
  <1>4. CASE PullEnd
    BY <1>4, LastFlushOrder
  <1>5. CASE PullErr
    BY <1>5, LastFlushOrder
  <1>6. ASSUME NEW t \in Times, NEW k \in Kinds, NEW key \in Keys \union {NoKey},
               PullOk([id |-> Len(arrived) + 1, time |-> t, kind |-> k, key |-> key])
        PROVE  OrdInv'
    <2> DEFINE m == [id |-> Len(arrived) + 1, time |-> t, kind |-> k, key |-> key]
    <2>1. m \in Record
      BY PulledRecord DEF TypeOK
    <2>2. PullOk(m)
      BY <1>6
    <2> HIDE DEF m
    <2> QED
      BY <2>1, <2>2, NewRunOrder, SameRunOrder, FullRunOrder
  <1>7. CASE UNCHANGED vars
    <2>1. /\ out' = out /\ cap' = cap /\ arrived' = arrived /\ buf' = buf
          /\ emitted' = emitted /\ result' = result /\ pending' = pending /\ done' = done
      BY <1>7 DEF vars
    <2>2. Rows' = Rows /\ (Open' <=> Open)
      BY <2>1 DEF Rows, Open
    <2>3. Len(out) \in Nat
      <3>1. out \in Seq(Record)
        BY DEF TypeOK
      <3> QED
        BY <3>1, RecordFacts
    <2>4. Len(out') <= Len(out) /\ Len(out') \in Nat
      BY <2>1, <2>3
    <2>5. result' # "open" => Len(out') = 0
      BY <2>1 DEF OrdInv
    <2> QED
      BY <2>1, <2>2, <2>3, <2>4, <2>5, RowsKept
  <1> QED
    BY <1>1, <1>2, <1>3, <1>4, <1>5, <1>6, <1>7 DEF Next

\* The rows handed on and queued are the first records that came, in canonical
\* order, and the run being accumulated is the block behind them.
THEOREM OrderInvariance == Spec => [](TypeOK /\ OrdInv)
  <1>1. Init => TypeOK /\ OrdInv
    BY InitType, InitOrder
  <1>2. TypeOK /\ OrdInv /\ [Next]_vars => (TypeOK /\ OrdInv)'
    BY StepType, StepOrder
  <1> QED
    BY <1>1, <1>2, PTL DEF Spec


-----------------------------------------------------------------------------
(* The properties.                                                         *)

\* RunOf and BlockOf of the arrivals are the run and the block of the
\* component, and the canonical order is the same.
LEMMA SameOrder ==
  ASSUME TypeOK, NEW i \in 1 .. Len(arrived), NEW j \in 1 .. Len(arrived)
  PROVE  /\ BlockStart(i) = BlockOf(arrived, cap, i)
         /\ AnchorKey(i) = AnchorKeyOf(arrived, cap, i)
         /\ Precedes(i, j) <=> Canonical(arrived, cap, i, j)
  <1>1. arrived \in Seq(Record) /\ cap \in Nat \ {0}
    BY DEF TypeOK
  <1>2. \A k : RunStart(k) = RunOf(arrived, k)
    BY DEF RunStart, RunOf, StartsRun
  <1>3. \A k : BlockStart(k) = BlockOf(arrived, cap, k)
    BY <1>2 DEF BlockStart, BlockOf
  <1>4. Capped(i) <=> FullBlock(arrived, cap, i)
    BY <1>2, <1>3 DEF Capped, FullBlock
  <1>5. ASSUME NEW k \in 1 .. Len(arrived)
        PROVE  AnchorKey(k) = AnchorKeyOf(arrived, cap, k)
    <2> DEFINE S == AnchorsOf(arrived, cap, k)
    <2>1. S = {h \in BlockStart(k) .. k : arrived[h].key # NoKey}
      BY <1>3 DEF AnchorsOf
    <2>2. Anchor(k) = IF S = {} THEN 0 ELSE LastOf(S)
      BY <2>1 DEF Anchor, LastOf
    <2>3. k \in Nat /\ BlockOf(arrived, cap, k) \in 1 .. k
      <3>1. k \in Nat
        BY <1>1, RecordFacts
      <3>2. BlockOf(arrived, cap, k) \in 1 .. k
        BY <1>1, BlockPlace
      <3> QED
        BY <3>1, <3>2
    <2>4. S \in SUBSET (1 .. k)
      BY <2>3 DEF AnchorsOf
    <2>5. AnchorKeyOf(arrived, cap, k) = IF S = {} THEN NoKey ELSE arrived[LastOf(S)].key
      BY DEF AnchorKeyOf
    <2> HIDE DEF S
    <2>6. S # {} => LastOf(S) # 0
      <3>1. S # {} => LastOf(S) \in S
        BY <2>3, <2>4, LastOfPlaces
      <3>2. \A h \in S : h \in 1 .. k
        BY <2>4
      <3>3. 0 \notin 1 .. k
        BY <2>3
      <3> QED
        BY <3>1, <3>2, <3>3
    <2> QED
      BY <2>2, <2>5, <2>6 DEF AnchorKey
  <1> QED
    BY <1>3, <1>4, <1>5 DEF Precedes, Canonical

\* The rows emitted are a prefix of the rows.
LEMMA EmittedRows ==
  ASSUME TypeOK, OrdInv
  PROVE  /\ DOMAIN emitted = 1 .. Len(emitted) /\ Len(emitted) \in Nat
         /\ \A p \in 1 .. Len(emitted) :
              /\ p \in 1 .. Len(Rows) /\ emitted[p] = Rows[p]
              /\ emitted[p].id \in 1 .. Len(arrived)
              /\ emitted[p] = arrived[emitted[p].id]
  <1>1. /\ Len(Rows) \in Nat /\ Len(buf) \in Nat /\ Len(arrived) = Len(Rows) + Len(buf)
        /\ RowInv(Rows, arrived, cap)
    BY Accumulated
  <1>2. emitted \in Seq(Record) /\ Reverse(out) \in Seq(Record)
    BY ReverseFacts DEF TypeOK
  <1>3. /\ Len(Rows) = Len(emitted) + Len(Reverse(out))
        /\ Len(emitted) \in Nat /\ Len(Reverse(out)) \in Nat
        /\ \A p \in 1 .. Len(emitted) : Rows[p] = emitted[p]
    BY <1>2, ConcatFacts DEF Rows
  <1>4. \A p \in 1 .. Len(Rows) : Rows[p].id \in 1 .. Len(Rows) /\ Rows[p] = arrived[Rows[p].id]
    BY <1>1 DEF RowInv
  <1>5. \A p \in 1 .. Len(emitted) : p \in 1 .. Len(Rows)
    BY <1>3
  <1>6. \A i \in 1 .. Len(Rows) : i \in 1 .. Len(arrived)
    BY <1>1
  <1> QED
    BY <1>2, <1>3, <1>4, <1>5, <1>6

\* L2-WRT-022: the run and the queue together never hold more records than the
\* cap, whatever the input holds.
THEOREM BufferStaysBounded == Spec => []BufferBounded
  <1>1. OrdInv => BufferBounded
    BY DEF OrdInv
  <1> QED
    BY <1>1, OrderInvariance, PTL

\* The invariant puts the rows in canonical order.
LEMMA OrderOfRows == TypeOK /\ OrdInv => CanonicalOrder
  <1> SUFFICES ASSUME TypeOK, OrdInv, NEW p \in DOMAIN emitted, NEW q \in DOMAIN emitted,
                      p < q
               PROVE  Precedes(emitted[p].id, emitted[q].id)
    BY DEF CanonicalOrder
  <1>1. /\ p \in 1 .. Len(Rows) /\ q \in 1 .. Len(Rows)
        /\ emitted[p] = Rows[p] /\ emitted[q] = Rows[q]
        /\ emitted[p].id \in 1 .. Len(arrived) /\ emitted[q].id \in 1 .. Len(arrived)
    BY EmittedRows
  <1>2. RowInv(Rows, arrived, cap)
    BY DEF OrdInv
  <1>3. Canonical(arrived, cap, emitted[p].id, emitted[q].id)
    BY <1>1, <1>2 DEF RowInv
  <1> QED
    BY <1>1, <1>3, SameOrder

\* L1-OUT-003: the rows come out in canonical order, whatever the timestamps
\* do and wherever runs, caps, errors and the end of the stream fall.
THEOREM RowsAreCanonical == Spec => []CanonicalOrder
  BY OrderOfRows, OrderInvariance, PTL

\* The invariant has every record among the rows once the queue and the run
\* are empty.
LEMMA ResultOfRows == TypeOK /\ OrdInv => RowsBeforeResult
  <1> SUFFICES ASSUME TypeOK, OrdInv, result # "open"
               PROVE  Len(emitted) = Len(arrived) /\ ToSet(emitted) = ToSet(arrived)
    BY DEF RowsBeforeResult
  <1>1. /\ Len(Rows) \in Nat /\ Len(buf) \in Nat /\ Len(arrived) = Len(Rows) + Len(buf)
        /\ (out = <<>> => Rows = emitted) /\ RowInv(Rows, arrived, cap)
    BY Accumulated
  <1>2. arrived \in Seq(Record) /\ emitted \in Seq(Record) /\ out \in Seq(Record)
    BY DEF TypeOK
  <1>3. Len(out) = 0 /\ Len(buf) = 0
    BY DEF OrdInv, ClosedInv, Open
  <1>4. out = <<>>
    BY <1>2, <1>3
  <1>5. Rows = emitted /\ Len(emitted) = Len(arrived)
    BY <1>1, <1>3, <1>4
  <1>6. /\ \A p \in 1 .. Len(emitted) :
             emitted[p].id \in 1 .. Len(arrived) /\ emitted[p] = arrived[emitted[p].id]
        /\ \A i \in 1 .. Len(arrived) : \E p \in 1 .. Len(emitted) : emitted[p].id = i
    BY <1>1, <1>5 DEF RowInv
  <1>7. DOMAIN emitted = 1 .. Len(emitted) /\ DOMAIN arrived = 1 .. Len(arrived)
    BY <1>2, RecordFacts
  <1>8. /\ ToSet(emitted) = {emitted[p] : p \in 1 .. Len(emitted)}
        /\ ToSet(arrived) = {arrived[i] : i \in 1 .. Len(arrived)}
    BY <1>7 DEF ToSet
  <1>9. \A i \in 1 .. Len(arrived) : \E p \in 1 .. Len(emitted) : arrived[i] = emitted[p]
    BY <1>6
  <1>10. \A p \in 1 .. Len(emitted) : \E i \in 1 .. Len(arrived) : emitted[p] = arrived[i]
    BY <1>6
  <1>11. ToSet(emitted) = ToSet(arrived)
    BY <1>8, <1>9, <1>10
  <1> QED
    BY <1>5, <1>11

\* L2-WRT-021: the end or the error of the stream comes out after every row
\* that arrived before it: a .partial holds all that was decoded.
THEOREM ResultIsLast == Spec => []RowsBeforeResult
  BY ResultOfRows, OrderInvariance, PTL

\* In canonical order the records of one key are in order of arrival: each
\* anchors itself.
LEMMA OrderOfKeys == TypeOK /\ OrdInv => KeyOrderKept
  <1> SUFFICES ASSUME TypeOK, OrdInv, NEW p \in DOMAIN emitted, NEW q \in DOMAIN emitted,
                      p < q, emitted[p].key = emitted[q].key, emitted[p].key # NoKey
               PROVE  emitted[p].id < emitted[q].id
    BY DEF KeyOrderKept
  <1> DEFINE i == emitted[p].id
             j == emitted[q].id
  <1>1. /\ i \in 1 .. Len(arrived) /\ j \in 1 .. Len(arrived)
        /\ emitted[p] = arrived[i] /\ emitted[q] = arrived[j]
        /\ p \in 1 .. Len(Rows) /\ q \in 1 .. Len(Rows)
        /\ emitted[p] = Rows[p] /\ emitted[q] = Rows[q]
    BY EmittedRows
  <1>2. Canonical(arrived, cap, i, j)
    BY <1>1 DEF OrdInv, RowInv
  <1>3. arrived \in Seq(Record) /\ cap \in Nat \ {0}
    BY DEF TypeOK
  <1>4. arrived[i].key = arrived[j].key /\ arrived[i].key # NoKey
    BY <1>1
  <1> HIDE DEF i, j
  <1>5. ASSUME NEW k \in 1 .. Len(arrived), arrived[k].key # NoKey
        PROVE  AnchorKeyOf(arrived, cap, k) = arrived[k].key
    <2> DEFINE S == AnchorsOf(arrived, cap, k)
    <2>1. k \in Nat /\ BlockOf(arrived, cap, k) \in 1 .. k
      <3>1. BlockOf(arrived, cap, k) \in 1 .. k
        BY <1>3, BlockPlace
      <3>2. Len(arrived) \in Nat
        BY <1>3, RecordFacts
      <3> QED
        BY <3>1, <3>2
    <2>2. S \in SUBSET (1 .. k) /\ k \in S
      BY <1>5, <2>1 DEF AnchorsOf
    <2> HIDE DEF S
    <2>3. LastOf(S) \in S /\ \A h \in S : h <= LastOf(S)
      BY <2>1, <2>2, LastOfPlaces
    <2>4. LastOf(S) \in 1 .. k /\ k <= LastOf(S)
      BY <2>2, <2>3
    <2>5. LastOf(S) = k
      <3> DEFINE last == LastOf(S)
      <3>1. last \in 1 .. k /\ k <= last
        BY <2>4
      <3> HIDE DEF last
      <3>2. last = k
        BY <2>1, <3>1
      <3> QED
        BY <3>2 DEF last
    <2> QED
      BY <2>2, <2>5 DEF AnchorKeyOf, S
  <1>6. AnchorKeyOf(arrived, cap, i) = AnchorKeyOf(arrived, cap, j)
    BY <1>1, <1>4, <1>5
  <1>7. AnchorKeyOf(arrived, cap, i) \in Nat
    BY <1>1, <1>3, <1>4, <1>5, RecordFacts
  <1>8. i < j
    BY <1>2, <1>6, <1>7 DEF Canonical
  <1> QED
    BY <1>8 DEF i, j

\* DELTA, computed upstream per RT/MSG, still reads as a gap between
\* consecutive rows of one key: those rows are never swapped.
THEOREM KeysStayInOrder == Spec => []KeyOrderKept
  BY OrderOfKeys, OrderInvariance, PTL

\* The invariant has each pin behind its predecessor among the rows.
LEMMA PinsOfRows == TypeOK /\ OrdInv => PinsTravel
  <1> SUFFICES ASSUME TypeOK, OrdInv, NEW p \in DOMAIN emitted,
                      emitted[p].key = NoKey, emitted[p].id > BlockStart(emitted[p].id)
               PROVE  p > 1 /\ emitted[p - 1].id = emitted[p].id - 1
    BY DEF PinsTravel
  <1>1. /\ p \in 1 .. Len(emitted) /\ Len(emitted) \in Nat
        /\ p \in 1 .. Len(Rows) /\ emitted[p] = Rows[p]
        /\ emitted[p].id \in 1 .. Len(arrived)
    BY EmittedRows
  <1>2. BlockStart(emitted[p].id) = BlockOf(arrived, cap, emitted[p].id)
    BY <1>1, SameOrder
  <1>3. p > 1 /\ Rows[p - 1].id = Rows[p].id - 1
    <2>1. RowInv(Rows, arrived, cap)
      BY DEF OrdInv
    <2>2. Rows[p].key = NoKey /\ Rows[p].id > BlockOf(arrived, cap, Rows[p].id)
      BY <1>1, <1>2
    <2> QED
      BY <1>1, <2>1, <2>2 DEF RowInv
  <1>4. p - 1 \in 1 .. Len(emitted)
    BY <1>1, <1>3
  <1>5. emitted[p - 1] = Rows[p - 1]
    BY <1>4, EmittedRows
  <1> QED
    BY <1>1, <1>3, <1>5

\* L2-WRT-021: a record without a Command Word comes out right behind the
\* record it followed, if both are of one run and of one block of it.
THEOREM PinnedRowsTravel == Spec => []PinsTravel
  BY PinsOfRows, OrderInvariance, PTL

=============================================================================
