---------------------------- MODULE ReaderProofs ----------------------------
(***************************************************************************)
(* Proofs of the safety properties of Reader, for every recording, every   *)
(* set of options and every constant that ConstantsAssumption allows.      *)
(*                                                                         *)
(* ReaderInv strengthens the properties by what the walk knows of itself.  *)
(* Its step comes from three lemmas, one per shape of step after the       *)
(* opening: the walk passes a record, resumes further on, or ends.         *)
(***************************************************************************)
EXTENDS Reader, TLAPS, FiniteSetTheorems, WellFoundedInduction

-----------------------------------------------------------------------------
(* The inductive invariant.                                                *)

\* Nothing happens before the opening, and with no record there is no walk.
Fresh ==
  result = "unopened" => offset = 0 /\ ~prevError /\ losses = 0 /\ ~pending /\ seen = <<>>
NothingToWalk == result = "open" /\ FirstRecords = {} => pending

\* The entries are records of the file, in order, before the offset.
EntriesStand ==
  \A i \in DOMAIN seen :
    seen[i].len > 0 /\ seen[i].kind = At(seen[i].at).kind /\ From(i) <= offset
InOrder == \A i, j \in DOMAIN seen : i < j => From(i) <= seen[j].at
NotBehind ==
  Walking => /\ Min(FirstRecords) <= offset
             /\ \A i \in DOMAIN seen : Min(FirstRecords) <= seen[i].at

\* prev_was_error: the walk stands where an errored record ends.
FlagHonest ==
  prevError <=> /\ seen # <<>>
                /\ seen[Len(seen)].kind = "err" /\ offset = From(Len(seen))

\* Where the walk has just resumed, a record stands.
Standing == Walking /\ offset # From(Len(seen)) => ValidAlone(offset, format)

ReaderInv ==
  /\ TypeOK /\ Fresh /\ NothingToWalk
  /\ EntriesStand /\ InOrder /\ NotBehind /\ FlagHonest /\ Standing
  /\ NoValidRecordLost /\ ContinuationHonest /\ LossesCounted
  /\ StrictSurfaces /\ CleanEndNearEof

-----------------------------------------------------------------------------
(* What the operators return.                                              *)

\* What the header scan finds depends on the file and the options only.
LEMMA FileFixes ==
  ASSUME file' = file, opts' = opts
  PROVE  FirstRecords' = FirstRecords
BY DEF FirstRecords, ScanEnd, Valid, ValidAlone, Plausible, Fits, TimeInRange, At, Readable

\* Of some places there is a first one, and Min is it.
LEMMA MinIsLeast ==
  ASSUME NEW S \in SUBSET Nat, S # {}
  PROVE  Min(S) \in S /\ \A y \in S : Min(S) <= y
<1>1. \E x \in S : \A y \in S : ~(<<y, x>> \in OpToRel(<, Nat))
  BY WFMin, NatLessThanWellFounded
<1>2. PICK x \in S : \A y \in S : <<y, x>> \notin OpToRel(<, Nat)
  BY <1>1, Zenon
<1>3. ASSUME NEW y \in S PROVE x <= y
  <2>1. x \in Nat /\ y \in Nat
    OBVIOUS
  <2>2. ~(y < x)
    BY <1>2, <2>1, Zenon DEF OpToRel
  <2> QED BY <2>1, <2>2
<1> DEFINE Least(z) == z \in S /\ \A y \in S : z <= y
<1>4. Min(S) = CHOOSE z : Least(z)
  BY Zenon DEF Min
<1>5. Least(x)
  BY <1>3
<1> QED BY <1>4, <1>5, Zenon

\* Looking ahead one record looks at the record alone.
LEMMA DepthOne ==
  ASSUME NEW p, NEW h
  PROVE  Valid(p, h, 1, TRUE) <=> ValidAlone(p, h)
BY DEF Valid, Followed

\* A scan ends at a place.
LEMMA ScanEndType ==
  ASSUME TypeOK, ConstantsAssumption, NEW p \in Nat
  PROVE  ScanEnd(p) \in Nat
<1>1. {Len(file), p + ScanWindow} \in SUBSET Nat
  BY DEF TypeOK, ConstantsAssumption
<1>2. Min({Len(file), p + ScanWindow}) \in {Len(file), p + ScanWindow}
  BY <1>1, MinIsLeast
<1> QED BY <1>1, <1>2 DEF ScanEnd

\* A record found by the header scan, and where the walk resumes.
LEMMA FirstRecord ==
  ASSUME TypeOK, ConstantsAssumption, FirstRecords # {}
  PROVE  /\ Min(FirstRecords) \in FirstRecords
         /\ Min(FirstRecords) \in 0 .. Len(file)
<1>0. ScanEnd(0) \in Nat
  BY ScanEndType
<1>1. FirstRecords \in SUBSET Nat
  <2>1. FirstRecords \subseteq 0 .. ScanEnd(0) - 1
    BY Zenon DEF FirstRecords
  <2> QED BY <1>0, <2>1
<1>2. Min(FirstRecords) \in FirstRecords
  BY <1>1, MinIsLeast
<1>3. \A p \in FirstRecords : p \in Nat /\ p < Len(file)
  BY <1>1 DEF FirstRecords, Valid, ValidAlone, Plausible, Readable
<1>4. Len(file) \in Nat
  BY DEF TypeOK
<1> QED BY <1>2, <1>3, <1>4

\* Where a scan resumes there is a valid record, further on in the file.
LEMMA Resumption ==
  ASSUME TypeOK, ConstantsAssumption, Resumptions # {}
  PROVE  /\ Min(Resumptions) \in offset + 1 .. Len(file)
         /\ ValidAlone(Min(Resumptions), format)
<1>0. offset \in Nat /\ ScanEnd(offset) \in Nat
  <2>1. offset \in Nat
    BY DEF TypeOK
  <2> QED BY <2>1, ScanEndType
<1>1. /\ Resumptions \in SUBSET (offset + 1 .. ScanEnd(offset) - 1)
      /\ Resumptions \in SUBSET Nat
  <2>1. Resumptions \subseteq offset + 1 .. ScanEnd(offset) - 1
    BY Zenon DEF Resumptions
  <2> QED BY <1>0, <2>1
<1>2. Min(Resumptions) \in Resumptions
  BY <1>1, MinIsLeast
<1>3. \A p \in Resumptions : p \in Nat /\ p > offset /\ ValidAlone(p, format)
  <2>1. \A p \in Resumptions : ValidAlone(p, format)
    BY Zenon DEF Resumptions, Valid
  <2> QED BY <1>0, <1>1, <2>1
<1>4. \A p \in Resumptions : p < Len(file)
  BY <1>3 DEF ValidAlone, Plausible, Readable
<1>5. Len(file) \in Nat /\ offset \in Nat
  BY DEF TypeOK
<1> QED BY <1>2, <1>3, <1>4, <1>5

\* Where the walk looks there is a word; a record there stays in the file.
LEMMA WordHere ==
  ASSUME TypeOK, ConstantsAssumption, Looking
  PROVE  /\ offset \in Nat /\ offset < Len(file) /\ Len(file) \in Nat
         /\ At(offset) \in Word
<1>1. MinWords["std"] \in Nat \ {0}
  BY DEF ConstantsAssumption, Formats
<1>2. offset \in Nat /\ Len(file) \in Nat /\ file \in Seq(Word)
  BY DEF TypeOK
<1>3. offset < Len(file)
  BY <1>1, <1>2 DEF Looking, TooShort
<1> QED BY <1>2, <1>3 DEF At

\* The record the walk is at is valid, and lies within the file.
LEMMA RecordStands ==
  ASSUME TypeOK, ConstantsAssumption, RecordHere
  PROVE  /\ ValidAlone(offset, format)
         /\ At(offset).kind \in {"msg", "err", "spur"}
         /\ At(offset).len \in Nat \ {0}
         /\ offset + At(offset).len <= Len(file)
<1>1. ValidAlone(offset, format)
  BY DepthOne DEF RecordHere
<1>2. At(offset) \in Word
  BY WordHere DEF RecordHere
<1>3. MinFor(format) \in Nat \ {0}
  BY DEF ConstantsAssumption, Formats, MinFor
<1> QED BY <1>1, <1>2, <1>3 DEF ValidAlone, Plausible, PlausibleWord, Fits, Word

\* And where no record is found, none is valid.
LEMMA NoneStands ==
  ASSUME NoRecordHere
  PROVE  ~ValidAlone(offset, format)
BY DepthOne DEF NoRecordHere, RecordHere

-----------------------------------------------------------------------------
(* The walk passes a record.                                               *)

\* Passing a record, as a row or skipped, keeps the invariant.
LEMMA PassStep ==
  ASSUME ConstantsAssumption, ReaderInv, RecordHere,
         NEW as \in {"row", "skipped"}, NEW cont \in BOOLEAN,
         Pass(Entry(as, cont)),
         At(offset).kind = "spur" => (cont <=> prevError),
         prevError' = (At(offset).kind = "err"),
         opts.strict => as = "row" /\ ~Broken(At(offset))
  PROVE  ReaderInv'
<1>0. TypeOK /\ result = "open"
  BY DEF ReaderInv, RecordHere, Looking
<1>n. PICK n \in Nat : n = Len(seen)
  BY <1>0 DEF TypeOK
<1>1. /\ UNCHANGED <<opts, file, format, losses, pending, result>>
      /\ FirstRecords' = FirstRecords /\ (Walking' <=> Walking)
      /\ \A p : At(p)' = At(p) /\ (ValidAlone(p, format)' <=> ValidAlone(p, format))
  <2>1. UNCHANGED <<opts, file, format, losses, pending, result>>
    BY DEF Pass
  <2>2. FirstRecords' = FirstRecords
    BY <2>1, FileFixes
  <2> QED BY <2>1, <2>2 DEF Walking, At, ValidAlone, Plausible, Readable, Fits, TimeInRange
<1>2. /\ offset \in Nat /\ offset' \in Nat /\ offset < offset' /\ offset' <= Len(file)
      /\ At(offset).len \in Nat \ {0} /\ offset' = offset + At(offset).len
      /\ At(offset).kind \in {"msg", "err", "spur"} /\ ValidAlone(offset, format)
  BY <1>0, RecordStands, WordHere DEF RecordHere, Pass, NextBoundary
<1>3. /\ n \in Nat /\ DOMAIN seen = 1 .. n /\ DOMAIN seen' = 1 .. n + 1
      /\ \A i \in 1 .. n : seen'[i] = seen[i] /\ seen[i] \in SeenEntry
      /\ seen'[n + 1] = Entry(as, cont)
      /\ seen' \in Seq(SeenEntry) /\ Len(seen') = n + 1
  <2>1. seen \in Seq(SeenEntry) /\ Len(seen) = n /\ seen' = Append(seen, Entry(as, cont))
    BY <1>0, <1>n DEF TypeOK, Pass
  <2>2. Entry(as, cont) \in SeenEntry
    BY <1>2 DEF Entry, SeenEntry
  <2> DEFINE e == Entry(as, cont)
  <2>3. e \in SeenEntry /\ seen' = Append(seen, e)
    BY <2>1, <2>2
  <2> HIDE DEF e
  <2>4. /\ Len(seen') = n + 1 /\ seen' \in Seq(SeenEntry)
        /\ \A i \in 1 .. n : seen'[i] = seen[i] /\ seen[i] \in SeenEntry
        /\ seen'[n + 1] = e
    BY <2>1, <2>3
  <2>5. n \in Nat /\ DOMAIN seen = 1 .. n /\ DOMAIN seen' = 1 .. n + 1
    BY <2>1, <2>4
  <2> QED BY <2>4, <2>5 DEF e
<1>t. seen' \in Seq(SeenEntry) /\ Len(seen') = n + 1
  BY <1>3
<1>d. /\ n \in Nat /\ DOMAIN seen = 1 .. n /\ DOMAIN seen' = 1 .. n + 1
      /\ \A i \in 1 .. n : seen'[i] = seen[i] /\ seen[i] \in SeenEntry
  BY <1>3
<1>e. \A i \in 1 .. n + 1 : i \in 1 .. n \/ i = n + 1
  OBVIOUS
<1>4. /\ seen'[n + 1].at = offset /\ seen'[n + 1].len = At(offset).len
      /\ seen'[n + 1].kind = At(offset).kind /\ seen'[n + 1].as = as
      /\ seen'[n + 1].cont = cont
  BY <1>3 DEF Entry
<1>5. /\ \A i \in 0 .. n : From(i)' = From(i)
      /\ From(n + 1)' = offset'
  <2>1. From(0)' = From(0)
    BY <1>1 DEF From
  <2>2. ASSUME NEW i \in 1 .. n PROVE From(i)' = From(i)
    <3>1. seen'[i] = seen[i]
      BY <1>d
    <3> QED BY <3>1 DEF From
  <2>3. From(n + 1)' = offset'
    <3>1. n + 1 # 0
      BY <1>d
    <3> QED BY <1>2, <1>4, <3>1 DEF From
  <2>4. \A i \in 0 .. n : i = 0 \/ i \in 1 .. n
    BY <1>d
  <2> QED BY <2>1, <2>2, <2>3, <2>4
<1>6. /\ \A i \in 0 .. n : Resumed(i)' = Resumed(i)
      /\ Resumed(n + 1)' = offset' /\ Resumed(n) = offset
  <2>1. ASSUME NEW i \in 0 .. n PROVE Resumed(i)' = Resumed(i)
    <3>1. i # n + 1 /\ (i # n => i + 1 \in 1 .. n)
      OBVIOUS
    <3>2. CASE i = n
      BY <1>n, <1>t, <1>4, <3>1, <3>2 DEF Resumed
    <3>3. CASE i # n
      BY <1>n, <1>t, <1>d, <3>1, <3>3 DEF Resumed
    <3> QED BY <3>2, <3>3
  <2> QED BY <2>1, <1>n, <1>t DEF Resumed
<1>7. \A i \in 1 .. n : From(i) \in Nat /\ From(i) <= offset /\ seen[i].at \in Nat /\ seen[i].at < From(i)
  BY <1>d DEF ReaderInv, EntriesStand, From, SeenEntry
<1>10. TypeOK'
  BY <1>0, <1>1, <1>2, <1>t DEF TypeOK
<1>11. Fresh' /\ NothingToWalk'
  BY <1>0, <1>1 DEF ReaderInv, Fresh, NothingToWalk
<1>12. EntriesStand'
  <2>1. ASSUME NEW i \in 1 .. n
        PROVE  seen'[i].len > 0 /\ seen'[i].kind = At(seen[i].at)'.kind /\ From(i)' <= offset'
    <3>1. seen[i].len > 0 /\ seen[i].kind = At(seen[i].at).kind
      BY <1>d DEF ReaderInv, EntriesStand
    <3>2. seen'[i] = seen[i] /\ At(seen[i].at)' = At(seen[i].at)
      BY <1>1, <1>d
    <3>3. From(i)' <= offset'
      BY <1>2, <1>5, <1>7
    <3> QED BY <3>1, <3>2, <3>3
  <2>2. /\ seen'[n + 1].len > 0 /\ seen'[n + 1].kind = At(seen[n + 1].at)'.kind
        /\ From(n + 1)' <= offset'
    BY <1>1, <1>2, <1>4, <1>5
  <2> QED BY <1>d, <2>1, <2>2, <1>e DEF EntriesStand
<1>13. InOrder'
  <2>1. ASSUME NEW i \in 1 .. n + 1, NEW j \in 1 .. n + 1, i < j
        PROVE  From(i)' <= seen'[j].at
    <3>1. i \in 1 .. n
      BY <2>1
    <3>2. CASE j \in 1 .. n
      BY <1>d, <1>5, <2>1, <3>1, <3>2 DEF ReaderInv, InOrder
    <3>3. CASE j = n + 1
      BY <1>4, <1>5, <1>7, <3>1, <3>3
    <3> QED BY <1>e, <3>2, <3>3
  <2> QED BY <1>d, <2>1 DEF InOrder
<1>14. NotBehind'
  <2>1. SUFFICES ASSUME Walking'
                 PROVE  /\ Min(FirstRecords) <= offset'
                        /\ \A i \in 1 .. n + 1 : Min(FirstRecords) <= seen'[i].at
    BY <1>1, <1>d DEF NotBehind
  <2>2. Min(FirstRecords) \in Nat
    BY <1>0, <1>1, <2>1, FirstRecord DEF Walking
  <2>3. Min(FirstRecords) <= offset /\ \A i \in 1 .. n : Min(FirstRecords) <= seen[i].at
    BY <1>1, <1>d, <2>1 DEF ReaderInv, NotBehind
  <2>4. Min(FirstRecords) <= offset'
    BY <1>2, <2>2, <2>3
  <2>5. \A i \in 1 .. n : Min(FirstRecords) <= seen'[i].at
    BY <1>d, <2>3
  <2>6. Min(FirstRecords) <= seen'[n + 1].at
    BY <1>4, <2>3
  <2> QED BY <1>e, <2>4, <2>5, <2>6
<1>15. FlagHonest'
  <2>1. seen' # <<>>
    BY <1>t
  <2>2. seen'[Len(seen')].kind = At(offset).kind /\ offset' = From(Len(seen))'
    BY <1>t, <1>4, <1>5
  <2> QED BY <2>1, <2>2 DEF FlagHonest
<1>16. Standing'
  BY <1>t, <1>5 DEF Standing
<1>17. NoValidRecordLost'
  BY <1>1, <1>d, <1>n, <1>t, <1>5, <1>6 DEF ReaderInv, NoValidRecordLost
<1>18. ContinuationHonest'
  <2>1. SUFFICES ASSUME NEW i \in 1 .. n + 1, seen'[i].kind = "spur"
                 PROVE  seen'[i].cont <=>
                          \E j \in 1 .. n + 1 : seen'[j].kind = "err" /\ From(j)' = seen'[i].at
    BY <1>d DEF ContinuationHonest
  <2>2. CASE i \in 1 .. n
    <3>1. From(n + 1)' # seen'[i].at
      BY <1>2, <1>d, <1>5, <1>7, <2>2
    <3> QED BY <1>d, <1>5, <2>1, <2>2, <3>1 DEF ReaderInv, ContinuationHonest
  <2>3. CASE i = n + 1
    <3>1. seen'[i].at = offset /\ At(offset).kind = "spur" /\ (seen'[i].cont <=> prevError)
      BY <1>4, <2>1, <2>3
    <3>2. ASSUME NEW j \in 1 .. n, j < n PROVE From(j) < offset
      <4>1. n \in 1 .. n
        BY <3>2
      <4>2. From(j) <= seen[n].at
        BY <1>d, <3>2, <4>1 DEF ReaderInv, InOrder
      <4> QED BY <1>2, <1>7, <4>1, <4>2
    <3>3. (\E j \in 1 .. n + 1 : seen'[j].kind = "err" /\ From(j)' = offset)
            <=> n > 0 /\ seen[n].kind = "err" /\ From(n) = offset
      BY <1>2, <1>d, <1>4, <1>5, <3>1, <3>2
    <3>4. prevError <=> n > 0 /\ seen[n].kind = "err" /\ From(n) = offset
      BY <1>0, <1>d, <1>n DEF ReaderInv, FlagHonest, TypeOK
    <3> QED BY <3>1, <3>3, <3>4
  <2> QED BY <2>2, <2>3
<1>19. LossesCounted'
  <2>1. Breaks' = Breaks
    BY <1>d, <1>n, <1>t, <1>5, <1>6 DEF Breaks
  <2>2. ~EndedLost /\ ~EndedLost'
    BY <1>0, <1>1 DEF EndedLost, Ends
  <2> QED BY <1>1, <2>1, <2>2 DEF ReaderInv, LossesCounted
<1>20. StrictSurfaces'
  <2>1. SUFFICES ASSUME opts.strict, Walking
                 PROVE  /\ Breaks' = {}
                        /\ \A i \in 1 .. n + 1 :
                             seen'[i].as = "row" /\ ~Broken(At(seen'[i].at))
    BY <1>0, <1>1, <1>d DEF StrictSurfaces
  <2>2. Breaks' = {}
    BY <1>d, <1>n, <1>t, <1>5, <1>6, <2>1 DEF Breaks, ReaderInv, StrictSurfaces
  <2>3. ASSUME NEW i \in 1 .. n PROVE seen'[i].as = "row" /\ ~Broken(At(seen'[i].at))
    BY <1>d, <2>1 DEF ReaderInv, StrictSurfaces
  <2>4. seen'[n + 1].as = "row" /\ ~Broken(At(seen'[n + 1].at))
    BY <1>4, <2>1
  <2> QED BY <1>e, <2>2, <2>3, <2>4
<1>21. CleanEndNearEof'
  BY <1>0, <1>1 DEF CleanEndNearEof
<1> QED
  BY <1>10, <1>11, <1>12, <1>13, <1>14, <1>15, <1>16, <1>17, <1>18, <1>19, <1>20, <1>21
  DEF ReaderInv

-----------------------------------------------------------------------------
(* The walk resumes further on.                                            *)

\* Resuming at a record further on keeps the invariant.
LEMMA RecoverStep ==
  ASSUME ConstantsAssumption, ReaderInv, Recover
  PROVE  ReaderInv'
<1>0. TypeOK /\ result = "open" /\ NoRecordHere /\ ~opts.strict
  BY DEF ReaderInv, Recover, NoRecordHere, Looking
<1>n. PICK n \in Nat : n = Len(seen)
  BY <1>0 DEF TypeOK
<1>1. /\ UNCHANGED <<opts, file, format, pending, result, seen>>
      /\ FirstRecords' = FirstRecords /\ (Walking' <=> Walking)
  <2>1. UNCHANGED <<opts, file, format, pending, result, seen>>
    BY DEF Recover
  <2>2. FirstRecords' = FirstRecords
    BY <2>1, FileFixes
  <2> QED BY <2>1, <2>2 DEF Walking
<1>2. /\ offset \in Nat /\ offset' \in Nat /\ offset < offset' /\ offset' <= Len(file)
      /\ Len(file) \in Nat /\ ValidAlone(offset', format)
      /\ losses' = losses + 1 /\ losses \in Nat /\ prevError' = FALSE
  <2>1. offset \in Nat /\ Len(file) \in Nat /\ losses \in Nat
    BY <1>0 DEF TypeOK
  <2> QED BY <1>0, <2>1, Resumption DEF Recover
<1>3. /\ DOMAIN seen = 1 .. n
      /\ \A i \in 1 .. n : seen[i] \in SeenEntry
  BY <1>0, <1>n DEF TypeOK
<1>4. \A i : From(i)' = From(i)
  BY <1>1 DEF From
<1>5. /\ \A i \in 0 .. n : i # n => Resumed(i)' = Resumed(i)
      /\ Resumed(n)' = offset' /\ Resumed(n) = offset
  BY <1>1, <1>n DEF Resumed
<1>6. Walking => From(n) = offset
  <2>1. ~ValidAlone(offset, format)
    BY <1>0, NoneStands
  <2> QED BY <1>n, <2>1 DEF ReaderInv, Standing
<1>7. /\ \A i \in 1 .. n : From(i) \in Nat /\ From(i) <= offset
      /\ Walking => Min(FirstRecords) \in Nat /\ Min(FirstRecords) <= offset
  <2>1. \A i \in 1 .. n : From(i) \in Nat /\ From(i) <= offset
    BY <1>3 DEF ReaderInv, EntriesStand, From, SeenEntry
  <2>2. ASSUME Walking PROVE Min(FirstRecords) \in Nat /\ Min(FirstRecords) <= offset
    BY <1>0, <2>2, FirstRecord DEF Walking, ReaderInv, NotBehind
  <2> QED BY <2>1, <2>2
<1>8. n > 0 => n \in 1 .. n
  OBVIOUS
<1>10. TypeOK'
  <2>1. offset' \in 0 .. Len(file) /\ losses' \in Nat
    BY <1>2
  <2>2. prevError' \in BOOLEAN
    BY <1>2, Zenon
  <2> QED BY <1>0, <1>1, <2>1, <2>2 DEF TypeOK
<1>11. Fresh' /\ NothingToWalk'
  BY <1>0, <1>1 DEF ReaderInv, Fresh, NothingToWalk
<1>12. EntriesStand'
  BY <1>1, <1>2, <1>3, <1>4, <1>7 DEF ReaderInv, EntriesStand, At
<1>13. InOrder'
  BY <1>1, <1>4 DEF ReaderInv, InOrder
<1>14. NotBehind'
  BY <1>1, <1>2, <1>7 DEF ReaderInv, NotBehind
<1>15. FlagHonest'
  <2>1. n > 0 => offset' # From(n)'
    BY <1>2, <1>4, <1>7, <1>8
  <2>2. seen # <<>> => n > 0
    BY <1>0, <1>n DEF TypeOK
  <2> QED BY <1>1, <1>2, <1>n, <2>1, <2>2 DEF FlagHonest
<1>16. Standing'
  BY <1>1, <1>2 DEF Standing, ValidAlone, Plausible, Readable, Fits, TimeInRange, At
<1>17. NoValidRecordLost'
  <2>1. ASSUME Walking, NEW i \in 0 .. n, ValidAlone(From(i), format)
        PROVE  Resumed(i)' = From(i)
    <3>1. Resumed(i) = From(i)
      BY <1>n, <2>1 DEF ReaderInv, NoValidRecordLost
    <3>2. i # n
      BY <1>0, <1>5, <2>1, <3>1, NoneStands
    <3> QED BY <1>5, <3>1, <3>2
  <2>2. ASSUME NEW i \in 0 .. n
        PROVE  ValidAlone(From(i), format)' <=> ValidAlone(From(i), format)
    <3>1. From(i)' = From(i)
      BY <1>4
    <3>2. \A p : ValidAlone(p, format)' <=> ValidAlone(p, format)
      BY <1>1 DEF ValidAlone, Plausible, Readable, Fits, TimeInRange, At
    <3> QED BY <3>1, <3>2
  <2> QED BY <1>1, <1>4, <1>n, <2>1, <2>2 DEF NoValidRecordLost
<1>18. ContinuationHonest'
  BY <1>1, <1>4 DEF ReaderInv, ContinuationHonest
<1>19. LossesCounted'
  <2>0. ~EndedLost'
    BY <1>0, <1>1 DEF EndedLost, Ends
  <2>1. SUFFICES ASSUME Walking
                 PROVE  losses' = Cardinality(Breaks)' /\ Cardinality(Breaks)' \in Nat
    BY <1>1, <2>0 DEF LossesCounted
  <2>2. Breaks' = Breaks \union {n} /\ n \notin Breaks
    BY <1>1, <1>2, <1>4, <1>5, <1>6, <1>n, <2>1 DEF Breaks
  <2>3. IsFiniteSet(Breaks)
    <3>1. IsFiniteSet(0 .. n)
      BY FS_Interval
    <3>2. Breaks \subseteq 0 .. n
      BY <1>n DEF Breaks
    <3> QED BY <3>1, <3>2, FS_Subset
  <2>4. /\ Cardinality(Breaks)' = Cardinality(Breaks) + 1
        /\ Cardinality(Breaks) \in Nat
    BY <2>2, <2>3, FS_AddElement, FS_CardinalityType
  <2>5. losses = Cardinality(Breaks)
    <3>1. ~EndedLost
      BY <1>0 DEF EndedLost, Ends
    <3> QED BY <2>1, <2>4, <3>1 DEF ReaderInv, LossesCounted
  <2> QED BY <1>2, <2>4, <2>5
<1>20. StrictSurfaces' /\ CleanEndNearEof'
  BY <1>0, <1>1 DEF StrictSurfaces, CleanEndNearEof
<1> QED
  BY <1>10, <1>11, <1>12, <1>13, <1>14, <1>15, <1>16, <1>17, <1>18, <1>19, <1>20
  DEF ReaderInv

-----------------------------------------------------------------------------
(* The walk ends: of what the invariant says only the count of losses and  *)
(* the conditions for the end can change.                                  *)

\* Ending the walk keeps the invariant, if the losses counted and the end given
\* are the ones the file has.
LEMMA EndStep ==
  ASSUME ConstantsAssumption, ReaderInv, result = "open",
         UNCHANGED <<opts, file, format, offset, prevError, seen>>,
         result' \in Ends, pending' \in BOOLEAN, losses' \in Nat,
         Walking' => losses' = losses + (IF EndedLost' THEN 1 ELSE 0),
         opts.strict /\ Walking' /\ result' = "end" => TooShort \/ At(offset).kind = "null",
         Walking' /\ result' = "end" =>
           Len(file) - offset < ScanWindow \/ At(offset).kind = "null"
  PROVE  ReaderInv'
<1>0. TypeOK
  BY DEF ReaderInv
<1>1. /\ FirstRecords' = FirstRecords /\ (Walking' => Walking)
      /\ result' # "unopened" /\ result' # "open"
  <2>1. FirstRecords' = FirstRecords
    BY FileFixes
  <2> QED BY <2>1 DEF Walking, Ends
<1>2. /\ \A i : From(i)' = From(i)
      /\ \A i : Resumed(i)' = Resumed(i)
      /\ \A p : At(p)' = At(p)
      /\ TooShort' <=> TooShort
  BY <1>1 DEF From, Resumed, At, TooShort
<1>3. \A p : ValidAlone(p, format)' <=> ValidAlone(p, format)
  BY DEF ValidAlone, Plausible, Readable, Fits, TimeInRange, At
<1>4. Breaks' = Breaks
  BY <1>2 DEF Breaks
<1>10. TypeOK' /\ Fresh' /\ NothingToWalk'
  BY <1>0, <1>1 DEF TypeOK, Fresh, NothingToWalk
<1>11. EntriesStand'
  BY <1>2 DEF ReaderInv, EntriesStand, At
<1>12. InOrder' /\ NotBehind'
  BY <1>1, <1>2 DEF ReaderInv, InOrder, NotBehind
<1>13. FlagHonest'
  BY <1>2 DEF ReaderInv, FlagHonest, From
<1>14. Standing'
  <2>1. From(Len(seen))' = From(Len(seen))
    BY <1>2
  <2> QED BY <1>1, <1>3, <2>1 DEF ReaderInv, Standing
<1>15. NoValidRecordLost'
  <2>1. \A i \in 0 .. Len(seen) : ValidAlone(From(i), format)' <=> ValidAlone(From(i), format)
    BY <1>2, <1>3
  <2> QED BY <1>1, <1>2, <2>1 DEF ReaderInv, NoValidRecordLost
<1>16. ContinuationHonest'
  BY <1>2 DEF ReaderInv, ContinuationHonest
<1>17. LossesCounted'
  <2>1. SUFFICES ASSUME Walking'
                 PROVE  losses' = Cardinality(Breaks)' + (IF EndedLost' THEN 1 ELSE 0)
    BY DEF LossesCounted
  <2>2. Cardinality(Breaks) \in Nat
    <3>1. Breaks \subseteq 0 .. Len(seen) /\ IsFiniteSet(0 .. Len(seen))
      BY FS_Interval, <1>0 DEF Breaks, TypeOK
    <3> QED BY <3>1, FS_Subset, FS_CardinalityType
  <2>3. losses = Cardinality(Breaks)
    <3>1. ~EndedLost
      BY DEF EndedLost, Ends
    <3> QED BY <1>1, <2>1, <2>2, <3>1 DEF ReaderInv, LossesCounted
  <2> QED BY <1>4, <2>1, <2>2, <2>3
<1>18. StrictSurfaces'
  <2>1. SUFFICES ASSUME opts.strict, Walking'
                 PROVE  /\ Breaks' = {}
                        /\ \A i \in DOMAIN seen :
                             seen[i].as = "row" /\ ~Broken(At(seen[i].at))
                        /\ result' = "end" => TooShort \/ At(offset).kind = "null"
    BY <1>2 DEF StrictSurfaces, At
  <2> QED BY <1>1, <1>4, <2>1 DEF ReaderInv, StrictSurfaces
<1>19. CleanEndNearEof'
  BY <1>2 DEF CleanEndNearEof
<1> QED
  BY <1>10, <1>11, <1>12, <1>13, <1>14, <1>15, <1>16, <1>17, <1>18, <1>19
  DEF ReaderInv

-----------------------------------------------------------------------------
(* The opening.                                                            *)

\* Nothing is walked yet: there is nothing to walk, or the walk stands at the
\* first record.
NothingWalked ==
  /\ TypeOK
  /\ seen = <<>> /\ ~prevError /\ losses = 0
  /\ result = "unopened" => offset = 0 /\ ~pending
  /\ NothingToWalk
  /\ Walking => result = "open" /\ offset = Min(FirstRecords)

\* The invariant holds before the walk.
LEMMA Unwalked == NothingWalked => ReaderInv
<1>0. SUFFICES ASSUME NothingWalked PROVE ReaderInv
  OBVIOUS
<1>1. Len(seen) = 0 /\ DOMAIN seen = {}
  BY <1>0 DEF NothingWalked
<1>2. Walking => /\ From(0) = offset /\ Resumed(0) = offset /\ offset \in Nat
                 /\ \A i \in 0 .. Len(seen) : Resumed(i) = From(i)
  <2>1. offset \in Nat
    BY <1>0 DEF NothingWalked, TypeOK
  <2> QED BY <1>0, <1>1, <2>1 DEF NothingWalked, From, Resumed
<1>3. Fresh
  BY <1>0 DEF NothingWalked, Fresh
<1>4. EntriesStand /\ InOrder /\ ContinuationHonest
  BY <1>1 DEF EntriesStand, InOrder, ContinuationHonest
<1>5. FlagHonest
  BY <1>0 DEF NothingWalked, FlagHonest
<1>6. NotBehind /\ Standing /\ NoValidRecordLost
  BY <1>0, <1>1, <1>2 DEF NothingWalked, NotBehind, Standing, NoValidRecordLost
<1>7. LossesCounted
  <2>1. SUFFICES ASSUME Walking
                 PROVE  losses = Cardinality(Breaks) + (IF EndedLost THEN 1 ELSE 0)
    BY DEF LossesCounted
  <2>2. Breaks = {} /\ ~EndedLost /\ losses = 0
    BY <1>0, <1>2, <2>1 DEF NothingWalked, Breaks, EndedLost, Ends
  <2>3. Cardinality(Breaks) = 0
    BY <2>2, FS_EmptySet
  <2> QED BY <2>2, <2>3
<1>8. StrictSurfaces
  BY <1>0, <1>1, <1>2 DEF NothingWalked, StrictSurfaces, Breaks
<1>9. CleanEndNearEof
  BY <1>0 DEF NothingWalked, CleanEndNearEof
<1> QED BY <1>0, <1>3, <1>4, <1>5, <1>6, <1>7, <1>8, <1>9 DEF NothingWalked, ReaderInv

\* Opening the file, or failing to, keeps the invariant.
LEMMA OpenStep ==
  ASSUME ConstantsAssumption, ReaderInv,
         OpenAtRecord \/ OpenEmpty \/ OpenTruncated \/ OpenUnusable
  PROVE  ReaderInv'
<1>1. /\ UNCHANGED <<opts, file, prevError, losses, seen>>
      /\ result = "unopened" /\ seen = <<>> /\ ~prevError /\ losses = 0
  BY DEF ReaderInv, Fresh, Opening, OpenAtRecord, OpenEmpty, OpenTruncated, OpenUnusable
<1>2. FirstRecords' = FirstRecords /\ TypeOK
  BY <1>1, FileFixes DEF ReaderInv
<1>3. TypeOK'
  <2>1. Len(file) \in Nat /\ opts.hint \in Formats \union {"auto"}
    BY <1>2 DEF TypeOK, ConstantsAssumption, OptionRecords
  <2>2. CASE OpenAtRecord
    <3>1. offset' \in 0 .. Len(file) /\ format' \in Formats /\ result' = "open"
      BY <1>2, <2>1, <2>2, FirstRecord DEF OpenAtRecord
    <3>2. pending' \in BOOLEAN
      BY <2>2, Zenon DEF OpenAtRecord, Homogeneous
    <3> QED BY <1>1, <1>2, <3>1, <3>2 DEF TypeOK
  <2>3. CASE OpenEmpty
    BY <1>1, <1>2, <2>1, <2>3 DEF TypeOK, OpenEmpty, Ends
  <2>4. CASE OpenTruncated
    BY <1>1, <1>2, <2>1, <2>4 DEF TypeOK, OpenTruncated, Ends
  <2>5. CASE OpenUnusable
    BY <1>1, <1>2, <2>1, <2>5 DEF TypeOK, OpenUnusable
  <2> QED BY <2>2, <2>3, <2>4, <2>5
<1>4. NothingToWalk' /\ (Walking' => result' = "open" /\ offset' = Min(FirstRecords'))
  <2>1. CASE OpenAtRecord
    BY <1>2, <2>1 DEF OpenAtRecord, NothingToWalk, Walking
  <2>2. CASE OpenEmpty \/ OpenTruncated \/ OpenUnusable
    BY <1>2, <2>2 DEF OpenEmpty, OpenTruncated, OpenUnusable, NothingToWalk, Walking
  <2> QED BY <2>1, <2>2
<1>5. result' # "unopened"
  BY DEF OpenAtRecord, OpenEmpty, OpenTruncated, OpenUnusable
<1>6. NothingWalked'
  BY <1>1, <1>3, <1>4, <1>5 DEF NothingWalked
<1> QED BY <1>6, Unwalked, PTL

-----------------------------------------------------------------------------
(* The theorems.                                                           *)

\* The reader keeps the invariant.
THEOREM Invariance == Spec => []ReaderInv
<1>1. Init => ReaderInv
  <2>1. SUFFICES ASSUME Init PROVE NothingWalked
    BY Unwalked
  <2>2. TypeOK
    <3>1. file \in Seq(Word) /\ offset \in 0 .. Len(file)
      BY <2>1, ConstantsAssumption DEF Init
    <3>2. prevError \in BOOLEAN /\ pending \in BOOLEAN
      BY <2>1, Zenon DEF Init
    <3>3. seen \in Seq(SeenEntry)
      BY <2>1 DEF Init
    <3> QED BY <2>1, <3>1, <3>2, <3>3 DEF Init, TypeOK, Formats
  <2> QED BY <2>1, <2>2 DEF Init, NothingWalked, NothingToWalk, Walking
<1>2. ReaderInv /\ [Next]_vars => ReaderInv'
  <2> SUFFICES ASSUME ReaderInv, [Next]_vars PROVE ReaderInv'
    OBVIOUS
  <2> USE ConstantsAssumption
  <2>0. TypeOK
    BY DEF ReaderInv
  <2>1. CASE OpenAtRecord \/ OpenEmpty \/ OpenTruncated \/ OpenUnusable
    BY <2>1, OpenStep
  <2>2. CASE SurfacePending
    <3>1. /\ result = "open" /\ result' = "unusable" /\ pending' = FALSE
          /\ UNCHANGED <<opts, file, format, offset, prevError, losses, seen>>
      BY <2>2 DEF SurfacePending
    <3>2. result' \in Ends /\ pending' \in BOOLEAN /\ losses' \in Nat /\ ~Walking'
      BY <2>0, <3>1, Zenon DEF Ends, TypeOK, Walking
    <3> QED BY <3>1, <3>2, EndStep
  <2>3. CASE EndShort
    <3>1. /\ result = "open" /\ result' = "end" /\ TooShort
          /\ UNCHANGED <<opts, file, format, offset, prevError, losses, pending, seen>>
      BY <2>3 DEF EndShort
    <3>2. result' \in Ends /\ pending' \in BOOLEAN /\ losses' \in Nat
      BY <2>0, <3>1 DEF Ends, TypeOK
    <3>3. ~EndedLost'
      BY <3>1 DEF EndedLost, TooShort
    <3>4. Len(file) - offset < ScanWindow
      BY <2>0, <3>1 DEF TypeOK, TooShort, ConstantsAssumption, Formats
    <3>5. losses' = losses + 0
      BY <2>0, <3>1 DEF TypeOK
    <3> QED BY <3>1, <3>2, <3>3, <3>4, <3>5, EndStep
  <2>4. CASE EndTerminator
    <3>1. /\ result = "open" /\ result' = "end" /\ At(offset).kind = "null"
          /\ UNCHANGED <<opts, file, format, offset, prevError, losses, pending, seen>>
      BY <2>4 DEF EndTerminator, Looking
    <3>2. result' \in Ends /\ pending' \in BOOLEAN /\ losses' \in Nat
      BY <2>0, <3>1 DEF Ends, TypeOK
    <3>3. ~EndedLost'
      BY <3>1 DEF EndedLost, At
    <3>5. losses' = losses + 0
      BY <2>0, <3>1 DEF TypeOK
    <3> QED BY <3>1, <3>2, <3>3, <3>5, EndStep
  <2>5. CASE LoseStrict \/ EndTruncated \/ LoseForGood
    <3>1. /\ NoRecordHere /\ losses' = losses + 1
          /\ result' \in {"record", "end", "loss"}
          /\ result' = "end" => ~opts.strict /\ NearEnd
          /\ UNCHANGED <<opts, file, format, offset, prevError, pending, seen>>
      BY <2>5 DEF LoseStrict, EndTruncated, LoseForGood
    <3>2. result = "open" /\ ~TooShort /\ At(offset).kind # "null"
      BY <3>1 DEF NoRecordHere, Looking
    <3>3. result' \in Ends /\ pending' \in BOOLEAN /\ losses' \in Nat
      BY <2>0, <3>1 DEF Ends, TypeOK
    <3>4. EndedLost'
      BY <3>1, <3>2, <3>3, NoneStands
      DEF EndedLost, TooShort, At, ValidAlone, Plausible, Readable, Fits, TimeInRange
    <3> QED BY <3>1, <3>2, <3>3, <3>4, EndStep DEF NearEnd
  <2>6. CASE Recover
    BY <2>6, RecoverStep
  <2>7. CASE YieldSpurious
    <3>1. /\ RecordHere /\ At(offset).kind = "spur"
          /\ Pass(Entry("row", prevError)) /\ prevError' = FALSE
      BY <2>7 DEF YieldSpurious
    <3>2. prevError' = (At(offset).kind = "err") /\ ~Broken(At(offset))
      BY <3>1 DEF Broken
    <3> QED BY <2>0, <3>1, <3>2, PassStep DEF TypeOK
  <2>8. CASE YieldErrored
    <3>1. /\ RecordHere /\ At(offset).kind = "err"
          /\ Pass(Entry("row", FALSE)) /\ prevError' = TRUE
          /\ opts.strict => At(offset).fate # "code"
      BY <2>8 DEF YieldErrored
    <3>2. prevError' = (At(offset).kind = "err")
      BY <3>1
    <3>3. opts.strict => ~Broken(At(offset))
      BY <3>1 DEF Broken
    <3> QED BY <3>1, <3>2, <3>3, PassStep
  <2>9. CASE YieldMessage
    <3>1. /\ RecordHere /\ At(offset).kind = "msg" /\ At(offset).fate # "shape"
          /\ Pass(Entry("row", FALSE)) /\ prevError' = FALSE
      BY <2>9 DEF YieldMessage
    <3>2. prevError' = (At(offset).kind = "err") /\ ~Broken(At(offset))
      BY <3>1 DEF Broken
    <3> QED BY <3>1, <3>2, PassStep
  <2>10. CASE SkipRecord
    <3>1. /\ RecordHere /\ At(offset).kind = "msg" /\ ~opts.strict
          /\ Pass(Entry("skipped", FALSE)) /\ prevError' = FALSE
      BY <2>10 DEF SkipRecord
    <3>2. prevError' = (At(offset).kind = "err")
      BY <3>1
    <3> QED BY <3>1, <3>2, PassStep
  <2>11. CASE RejectRecord
    <3>1. /\ RecordHere /\ result' = "record"
          /\ UNCHANGED <<opts, file, format, offset, prevError, losses, pending, seen>>
      BY <2>11 DEF RejectRecord
    <3>2. result' \in Ends /\ pending' \in BOOLEAN /\ losses' \in Nat
      BY <2>0, <3>1 DEF Ends, TypeOK
    <3>3. ~EndedLost'
      BY <2>0, <3>1, RecordStands
      DEF EndedLost, ValidAlone, Plausible, Readable, Fits, TimeInRange, At
    <3>4. result = "open"
      BY <3>1 DEF RecordHere, Looking
    <3>5. losses' = losses + 0
      BY <2>0, <3>1 DEF TypeOK
    <3> QED BY <3>1, <3>2, <3>3, <3>4, <3>5, EndStep
  <2>12. CASE UNCHANGED vars
    <3>1. UNCHANGED <<opts, file, format, offset, prevError, losses, pending, result, seen>>
      BY <2>12 DEF vars
    <3>2. FirstRecords' = FirstRecords
      BY <3>1, FileFixes
    <3>3. /\ TypeOK' /\ Fresh' /\ NothingToWalk' /\ (Walking' <=> Walking)
          /\ \A i : From(i)' = From(i) /\ Resumed(i)' = Resumed(i)
          /\ \A p : ValidAlone(p, format)' <=> ValidAlone(p, format)
      BY <3>1, <3>2
      DEF ReaderInv, TypeOK, Fresh, NothingToWalk, Walking, From, Resumed,
          ValidAlone, Plausible, Readable, Fits, TimeInRange, At
    <3>4. EntriesStand' /\ InOrder' /\ NotBehind' /\ FlagHonest' /\ ContinuationHonest'
      BY <3>1, <3>2, <3>3
      DEF ReaderInv, EntriesStand, InOrder, NotBehind, FlagHonest, ContinuationHonest, At
    <3>5. Standing' /\ NoValidRecordLost'
      <4>1. \A i \in Nat : ValidAlone(From(i), format)' <=> ValidAlone(From(i), format)
        BY <3>3
      <4>2. Len(seen) \in Nat
        BY <2>0 DEF TypeOK
      <4> QED BY <3>1, <3>3, <4>1, <4>2 DEF ReaderInv, Standing, NoValidRecordLost
    <3>6. Breaks' = Breaks
      BY <3>1, <3>3 DEF Breaks
    <3>7. EndedLost' <=> EndedLost
      BY <3>1, <3>3 DEF EndedLost, TooShort, At, ValidAlone, Plausible, Readable, Fits, TimeInRange
    <3>8. LossesCounted' /\ StrictSurfaces' /\ CleanEndNearEof'
      BY <3>1, <3>3, <3>6, <3>7
      DEF ReaderInv, LossesCounted, StrictSurfaces, CleanEndNearEof, TooShort, At
    <3> QED BY <3>3, <3>4, <3>5, <3>8 DEF ReaderInv
  <2> QED
    BY <2>1, <2>2, <2>3, <2>4, <2>5, <2>6, <2>7, <2>8, <2>9, <2>10, <2>11, <2>12
    DEF Next
<1> QED BY <1>1, <1>2, PTL DEF Spec

\* Every variable keeps its type; the offset never leaves the file.
THEOREM TypeCorrect == Spec => []TypeOK
<1>1. ReaderInv => TypeOK
  BY DEF ReaderInv
<1> QED BY Invariance, <1>1, PTL

\* Rows come out in file order and disjoint, however often the walk resumed.
THEOREM RowsAreDisjoint == Spec => []RowsDisjoint
<1>1. ReaderInv => RowsDisjoint
  <2>1. SUFFICES ASSUME ReaderInv, Walking, NEW i \in 0 .. Len(seen)
                 PROVE  From(i) <= Resumed(i)
    BY DEF RowsDisjoint
  <2>2. Len(seen) \in Nat /\ DOMAIN seen = 1 .. Len(seen)
    BY <2>1 DEF ReaderInv, TypeOK
  <2>3. CASE i = Len(seen)
    BY <2>1, <2>2, <2>3 DEF ReaderInv, NotBehind, EntriesStand, From, Resumed
  <2>4. CASE i # Len(seen)
    <3>1. i + 1 \in 1 .. Len(seen) /\ i < i + 1 /\ (i # 0 => i \in 1 .. Len(seen))
      <4>1. i \in 0 .. Len(seen) /\ Len(seen) \in Nat /\ i # Len(seen)
        BY <2>1, <2>2, <2>4
      <4> QED BY <4>1
    <3>2. CASE i = 0
      BY <2>1, <2>2, <3>1, <3>2 DEF ReaderInv, NotBehind, From, Resumed
    <3>3. CASE i # 0
      BY <2>1, <2>2, <2>4, <3>1, <3>3 DEF ReaderInv, InOrder, Resumed
    <3> QED BY <3>2, <3>3
  <2> QED BY <2>3, <2>4
<1> QED BY Invariance, <1>1, PTL

\* A valid record where the record before it ends is never lost.
THEOREM ValidRecordsAreKept == Spec => []NoValidRecordLost
<1>1. ReaderInv => NoValidRecordLost
  BY DEF ReaderInv
<1> QED BY Invariance, <1>1, PTL

\* A SPURIOUS_DATA row continues exactly the errored record that ends there.
THEOREM ContinuationsAreHonest == Spec => []ContinuationHonest
<1>1. ReaderInv => ContinuationHonest
  BY DEF ReaderInv
<1> QED BY Invariance, <1>1, PTL

\* sync_losses is the number of places where the walk lost its way.
THEOREM LossesAreCounted == Spec => []LossesCounted
<1>1. ReaderInv => LossesCounted
  BY DEF ReaderInv
<1> QED BY Invariance, <1>1, PTL

\* Strict mode leaves nothing out.
THEOREM StrictModeSurfaces == Spec => []StrictSurfaces
<1>1. ReaderInv => StrictSurfaces
  BY DEF ReaderInv
<1> QED BY Invariance, <1>1, PTL

\* A walk ends cleanly only at a terminator or near the end of the file.
THEOREM CleanEnds == Spec => []CleanEndNearEof
<1>1. ReaderInv => CleanEndNearEof
  BY DEF ReaderInv
<1> QED BY Invariance, <1>1, PTL
=============================================================================
