----------------------------- MODULE MergeProofs -----------------------------
(***************************************************************************)
(* Proofs about Merge, for any number of inputs, any clocks, any options   *)
(* and any ending of every input: type correctness, the way of every       *)
(* record from its reader through the heap to the rows, the order the rows *)
(* come out in, the copy that is collapsed and the one that is not, the    *)
(* bound on the survivors, and the rows DELTA is measured from.            *)
(***************************************************************************)
EXTENDS Merge, SequenceLemmas

-----------------------------------------------------------------------------
(* The four kinds of step.                                                 *)

\* Steps that leave the records where they are.
QuietStep ==
  \/ PrimeIncompatible \/ PrimeEmpty
  \/ \E e \in LeadingErrors : PrimeFails(e) \/ PrimeDropped(e)
  \/ SurfaceError \/ Exhausted

\* A quiet step moves no record: at most it primes one more input, with none.
LEMMA QuietKeeps ==
  ASSUME QuietStep
  PROVE  /\ UNCHANGED <<opts, heap, prevUs, survivors, lastUs, pulled, emitted, collapsed>>
         /\ primed' = primed \/ (Priming /\ primed' = primed + 1)
  BY DEF QuietStep, PrimeIncompatible, PrimeEmpty, PrimeFails, PrimeDropped, SurfaceError, Exhausted

\* A record arrives, or one leaves the heap and another arrives, or none does.
LEMMA StepKinds ==
  ASSUME Next
  PROVE  /\ opts' = opts
         /\ \/ QuietStep
            \/ \E us \in Times, c \in Contents : PrimeRecord(us, c)
            \/ \E top \in heap, us \in Times, c \in Contents : PopThenRecord(top, us, c)
            \/ \E top \in heap : PopThenStop(top)
  <1>1. CASE QuietStep
    BY <1>1, QuietKeeps
  <1>2. ASSUME NEW us \in Times, NEW c \in Contents, PrimeRecord(us, c) PROVE opts' = opts
    BY <1>2 DEF PrimeRecord
  <1>3. ASSUME NEW top \in heap, NEW us \in Times, NEW c \in Contents, PopThenRecord(top, us, c)
        PROVE  opts' = opts
    BY <1>3 DEF PopThenRecord, Pop
  <1>4. ASSUME NEW top \in heap, PopThenStop(top) PROVE opts' = opts
    BY <1>4 DEF PopThenStop, Pop
  <1> QED
    BY <1>1, <1>2, <1>3, <1>4 DEF Next, QuietStep

-----------------------------------------------------------------------------
(* Type correctness.                                                       *)

\* A gap between two timestamps is a number, if there is one.
LEMMA GapType ==
  ASSUME NEW us \in Times, NEW last \in Option(Times)
  PROVE  GapSince(last, us) \in SUBSET Nat
  <1>1. Times \subseteq Nat /\ last \subseteq Times
    BY ConstantsAssumption DEF ConstantsAssumption, Option, None, Some
  <1>2. \A p \in {q \in last : us >= q} : us - p \in Nat
    BY <1>1
  <1> QED
    BY <1>2 DEF GapSince, Some

\* The DELTA tracker gives a gap and remembers a timestamp.
LEMMA TrackerTypes ==
  ASSUME NEW last \in [DeltaKeys -> Option(Times)], NEW m, m.us \in Times
  PROVE  /\ Gap(last, m) \in SUBSET Nat
         /\ Observed(last, m) \in [DeltaKeys -> Option(Times)]
  <1>1. Gap(last, m) \in SUBSET Nat
    BY GapType DEF Gap, None
  <1>2. Some(m.us) \in Option(Times)
    BY DEF Option
  <1> QED
    BY <1>1, <1>2 DEF Observed

\* The record an input yields, and where it came from.
LEMMA MessageType ==
  ASSUME TypeOK, NEW i \in Inputs, NEW us \in Times, NEW c \in Contents
  PROVE  /\ Message(i, us, c) \in Row
         /\ Message(i, us, c).us = us /\ Message(i, us, c).input = i
         /\ Message(i, us, c).seq = Len(pulled[i]) /\ Message(i, us, c).content = c
  <1>1. lastUs[i] \in [DeltaKeys -> Option(Times)] /\ Len(pulled[i]) \in Nat
    BY ConstantsAssumption DEF TypeOK, Inputs, ConstantsAssumption
  <1>2. Gap(lastUs[i], [us |-> us, content |-> c]) \in SUBSET Nat
    BY <1>1, TrackerTypes
  <1> QED
    BY <1>1, <1>2 DEF Message, Row

\* Pushing a record keeps the types of what the inputs yielded.
LEMMA PushType ==
  ASSUME TypeOK, NEW i \in Inputs, NEW m \in Row, Push(i, m)
  PROVE  pulled' \in [Inputs -> Seq(Row)] /\ prevUs' \in [Inputs -> Option(Times)]
  <1>1. pulled[i] \in Seq(Row) /\ pulled \in [Inputs -> Seq(Row)]
        /\ prevUs \in [Inputs -> Option(Times)]
    BY DEF TypeOK
  <1>2. Append(pulled[i], m) \in Seq(Row)
    BY <1>1, AppendFacts
  <1>3. m.us \in Times
    BY DEF Row
  <1>4. Some(m.us) \in Option(Times)
    BY <1>3 DEF Option
  <1> QED
    BY <1>1, <1>2, <1>4 DEF Push

\* A step that moves no record keeps the types.
LEMMA QuietType ==
  ASSUME TypeOK, QuietStep
  PROVE  TypeOK'
  <1>0. primed' \in 0 .. N
    BY QuietKeeps, ConstantsAssumption DEF TypeOK, Priming, ConstantsAssumption
  <1>1. ASSUME NEW e \in LeadingErrors, PrimeFails(e) \/ PrimeDropped(e)
        PROVE  TypeOK'
    <2>1. e \in Errors /\ Some(e) \in Option(Errors) /\ Some("loss") \in Option({"loss"})
      BY DEF LeadingErrors, MidFileErrors, Errors, Option
    <2> QED
      BY <1>0, <1>1, <2>1 DEF PrimeFails, PrimeDropped, TypeOK
  <1>2. CASE PrimeIncompatible \/ PrimeEmpty
    BY <1>0, <1>2 DEF PrimeIncompatible, PrimeEmpty, TypeOK
  <1>3. CASE SurfaceError \/ Exhausted
    <2>1. None \in Option(Errors \union {"backward"}) /\ None \in Option({"loss"})
      BY DEF Option
    <2>2. failure \subseteq Errors \union {"backward"}
      BY DEF TypeOK, Option, None, Some
    <2> QED
      BY <1>0, <1>3, <2>1, <2>2 DEF SurfaceError, Exhausted, TypeOK, Errors
  <1> QED
    BY <1>1, <1>2, <1>3 DEF QuietStep

\* What Pop does to the rows and the survivors.
LEMMA PopType ==
  ASSUME TypeOK, NEW top \in heap, Pop(top)
  PROVE  /\ survivors' \subseteq [us : Times, input : Inputs, content : Contents, arrival : Nat]
         /\ emitted' \in Seq(Row)
         /\ collapsed' \in Seq([row : Row, after : Nat])
         /\ opts' \in Configs /\ primed' \in 0 .. N
         /\ UNCHANGED result
         /\ MergeTracker(top) \in [DeltaKeys -> Option(Times)]
  <1>a. emitted \in Seq(Row) /\ collapsed \in Seq([row : Row, after : Nat])
        /\ lastUs \in [0 .. N -> [DeltaKeys -> Option(Times)]] /\ top \in Row
    BY DEF TypeOK
  <1>b. Len(emitted) \in Nat /\ 0 \in 0 .. N
    BY <1>a, ConstantsAssumption, AppendFacts DEF ConstantsAssumption
  <1>0. TypeOK /\ top \in Row /\ Len(emitted) \in Nat /\ lastUs[0] \in [DeltaKeys -> Option(Times)]
    BY <1>a, <1>b
  <1>1. CASE Suppress(top)
    <2>1. collapsed' \in Seq([row : Row, after : Nat])
      BY <1>0, <1>1 DEF Suppress, TypeOK
    <2> QED
      BY <1>0, <1>1, <2>1, TrackerTypes
      DEF Suppress, InWindow, Pop, TypeOK, MergeTracker, Row
  <1>2. CASE Emit(top)
    <2>1. Gap(lastUs[0], top) \in SUBSET Nat
      BY <1>0, TrackerTypes DEF Row
    <2>a. [top EXCEPT !.delta = Gap(lastUs[0], top)] \in Row
      BY <1>0, <2>1 DEF Row
    <2>2. emitted' \in Seq(Row)
      <3> DEFINE row == IF opts.globalDelta
                        THEN [top EXCEPT !.delta = Gap(lastUs[0], top)] ELSE top
      <3>1. row \in Row /\ emitted' = Append(emitted, row)
        BY <1>0, <1>2, <2>a DEF Emit
      <3> HIDE DEF row
      <3> QED
        BY <1>a, <3>1, AppendFacts
    <2>3. survivors' \subseteq [us : Times, input : Inputs, content : Contents, arrival : Nat]
      BY <1>0, <1>2 DEF Emit, Remember, InWindow, TypeOK, Row
    <2> QED
      BY <1>0, <1>2, <2>2, <2>3, TrackerTypes DEF Emit, Pop, TypeOK, MergeTracker, Row
  <1> QED
    BY <1>1, <1>2 DEF Pop

\* Every step keeps the types.
LEMMA StepType ==
  ASSUME TypeOK, Next
  PROVE  TypeOK'
  <1>a. Inputs \subseteq 0 .. N
    BY ConstantsAssumption DEF Inputs, ConstantsAssumption
  <1>b. \A m \in heap : m \in Row
    BY DEF TypeOK
  <1>0. TypeOK /\ \A m \in heap : m \in Row /\ m.input \in Inputs /\ m.input \in 0 .. N
    BY <1>a, <1>b DEF Row
  <1>1. ASSUME NEW us \in Times, NEW c \in Contents, PrimeRecord(us, c) PROVE TypeOK'
    <2> DEFINE i == primed + 1
               m == Message(i, us, c)
    <2>1. i \in Inputs /\ i \in 0 .. N
      BY <1>1, ConstantsAssumption DEF PrimeRecord, Priming, TypeOK, Inputs, ConstantsAssumption
    <2>2. m \in Row /\ m.us \in Times
      BY <2>1, MessageType DEF Row
    <2>3. Push(i, m) /\ heap' = heap \union {m} /\ primed' = i
          /\ lastUs' = [lastUs EXCEPT ![i] = Observed(@, m)]
          /\ UNCHANGED <<opts, failure, terminal, survivors, result, broken, emitted, collapsed>>
      BY <1>1 DEF PrimeRecord
    <2> HIDE DEF m, i
    <2>4. lastUs[i] \in [DeltaKeys -> Option(Times)]
      BY <2>1 DEF TypeOK
    <2>5. Observed(lastUs[i], m) \in [DeltaKeys -> Option(Times)]
      BY <2>2, <2>4, TrackerTypes
    <2> QED
      BY <2>1, <2>2, <2>3, <2>5, PushType DEF TypeOK
  <1>2. ASSUME NEW top \in heap, NEW us \in Times, NEW c \in Contents, PopThenRecord(top, us, c)
        PROVE  TypeOK'
    <2> DEFINE i == top.input
               m == Message(i, us, c)
               next == [us |-> us, content |-> c]
    <2>1. m \in Row
      BY <1>0, MessageType
    <2>2. /\ Pop(top) /\ Push(i, m)
          /\ heap' = (heap \ {top}) \union {m}
          /\ failure' = Some("backward") \/ failure' = failure
          /\ UNCHANGED <<terminal, broken>>
          /\ lastUs' = [lastUs EXCEPT ![0] = MergeTracker(top), ![i] = Observed(@, next)]
      BY <1>2 DEF PopThenRecord, AdvanceRecord
    <2>3. failure' \in Option(Errors \union {"backward"})
      BY <2>2 DEF TypeOK, Option
    <2>4. lastUs' \in [0 .. N -> [DeltaKeys -> Option(Times)]]
      <3>1. Observed(lastUs[i], next) \in [DeltaKeys -> Option(Times)]
        BY <1>0, TrackerTypes DEF TypeOK
      <3>2. i # 0
        BY <1>0 DEF Inputs
      <3>3. MergeTracker(top) \in [DeltaKeys -> Option(Times)]
        BY <2>2, PopType
      <3> HIDE DEF next, i
      <3> QED
        BY <2>2, <3>1, <3>2, <3>3 DEF TypeOK
    <2>5. pulled' \in [Inputs -> Seq(Row)] /\ prevUs' \in [Inputs -> Option(Times)]
      BY <1>0, <2>1, <2>2, PushType
    <2> HIDE DEF m, i, next
    <2> QED
      BY <2>1, <2>2, <2>3, <2>4, <2>5, PopType DEF TypeOK
  <1>3. ASSUME NEW top \in heap, PopThenStop(top) PROVE TypeOK'
    <2>1. lastUs' \in [0 .. N -> [DeltaKeys -> Option(Times)]]
      BY <1>3, PopType DEF PopThenStop, TypeOK
    <2>2. Some("loss") \in Option(Errors) /\ Some("record") \in Option(Errors)
          /\ Some("loss") \in Option({"loss"})
          /\ Some("loss") \in Option(Errors \union {"backward"})
          /\ Some("record") \in Option(Errors \union {"backward"})
      BY DEF Option, Errors
    <2>3. /\ heap' \subseteq heap /\ UNCHANGED <<prevUs, pulled>>
          /\ failure' \in Option(Errors \union {"backward"})
          /\ terminal' \in Option({"loss"}) /\ broken' \in [Inputs -> Option(Errors)]
      BY <1>3, <2>2
      DEF PopThenStop, AdvanceLoss, AdvanceError, AdvanceEnd, TypeOK
    <2>4. Pop(top)
      BY <1>3 DEF PopThenStop
    <2> QED
      BY <2>1, <2>3, <2>4, PopType DEF TypeOK
  <1> QED
    BY <1>1, <1>2, <1>3, StepKinds, QuietType

\* The initial state has the right type.
LEMMA InitType == Init => TypeOK
  <1>1. \A S : None \in Option(S)
    BY DEF Option
  <1> QED
    BY <1>1, ConstantsAssumption
    DEF Init, TypeOK, ConstantsAssumption

\* Every variable keeps its type: DELTA is never negative.
THEOREM TypeCorrect == Spec => []TypeOK
  <1>1. TypeOK /\ [Next]_vars => TypeOK'
    <2>1. TypeOK /\ UNCHANGED vars => TypeOK'
      BY DEF TypeOK, vars
    <2> QED
      BY <2>1, StepType
  <1> QED
    BY <1>1, InitType, PTL DEF Spec


-----------------------------------------------------------------------------
(* The inductive invariant of a record's way to the rows.                  *)

SameRow(a, b) == a.us = b.us /\ a.input = b.input /\ a.seq = b.seq /\ a.content = b.content

\* What the inputs have yielded: each one's records are numbered in order,
\* prev_us is the time of the last, and an unprimed input has yielded none.
PulledInv ==
  /\ \A i \in Inputs : \A n \in 1 .. Len(pulled[i]) :
       pulled[i][n].input = i /\ pulled[i][n].seq = n - 1
  /\ \A i \in Inputs : i > primed => pulled[i] = <<>>
  /\ primed < N => emitted = <<>> /\ collapsed = <<>>
  /\ \A i \in Inputs :
       prevUs[i] = IF Len(pulled[i]) = 0 THEN None ELSE Some(pulled[i][Len(pulled[i])].us)

\* The heap holds the record each input yielded last, or nothing of it.
HeapInv ==
  \A m \in heap :
    /\ m.input <= primed /\ m.seq + 1 = Len(pulled[m.input])
    /\ m = pulled[m.input][m.seq + 1]

\* A row, like a suppressed record, is one that its input yielded; it is
\* behind the one that waits in the heap.
KnownInv ==
  /\ \A p \in 1 .. Len(emitted) :
       /\ emitted[p].seq < Len(pulled[emitted[p].input])
       /\ SameRow(emitted[p], pulled[emitted[p].input][emitted[p].seq + 1])
       /\ \A m \in heap : m.input = emitted[p].input => emitted[p].seq < m.seq
  /\ \A p \in 1 .. Len(collapsed) :
       /\ collapsed[p].row.seq < Len(pulled[collapsed[p].row.input])
       /\ \A m \in heap :
            m.input = collapsed[p].row.input => collapsed[p].row.seq < m.seq

\* No record settles twice ...
OnceInv ==
  /\ \A p, q \in 1 .. Len(emitted) :
       p < q /\ emitted[p].input = emitted[q].input => emitted[p].seq < emitted[q].seq
  /\ \A p, q \in 1 .. Len(collapsed) :
       p < q /\ collapsed[p].row.input = collapsed[q].row.input
         => collapsed[p].row.seq < collapsed[q].row.seq
  /\ \A p \in 1 .. Len(emitted), q \in 1 .. Len(collapsed) :
       emitted[p].input = collapsed[q].row.input => emitted[p].seq # collapsed[q].row.seq

\* ... and none is forgotten.
Settled(i, n) ==
  \/ \E p \in 1 .. Len(emitted) : emitted[p].input = i /\ emitted[p].seq = n
  \/ \E p \in 1 .. Len(collapsed) : collapsed[p].row.input = i /\ collapsed[p].row.seq = n
  \/ \E m \in heap : m.input = i /\ m.seq = n

SettledInv == \A i \in Inputs : \A n \in 0 .. Len(pulled[i]) - 1 : Settled(i, n)

FlowInv == PulledInv /\ HeapInv /\ KnownInv /\ OnceInv /\ SettledInv


-----------------------------------------------------------------------------
(* What arrives, and what leaves the heap.                                 *)

\* Input i yields m.
Yields(i, m) ==
  /\ m \in Row /\ m.input = i /\ m.seq = Len(pulled[i])
  /\ m.delta = Gap(lastUs[i], m)
  /\ Push(i, m)

\* A record yielded is numbered after the ones before it.
LEMMA MessageYields ==
  ASSUME TypeOK, NEW i \in Inputs, NEW us \in Times, NEW c \in Contents,
         Push(i, Message(i, us, c))
  PROVE  Yields(i, Message(i, us, c))
  <1>1. Message(i, us, c).delta = Gap(lastUs[i], Message(i, us, c))
    BY DEF Message, Gap
  <1> QED
    BY <1>1, MessageType DEF Yields

\* Priming an input that has a record pushes that record and nothing else.
LEMMA PrimeYields ==
  ASSUME TypeOK, NEW us \in Times, NEW c \in Contents, PrimeRecord(us, c)
  PROVE  /\ primed + 1 \in Inputs /\ primed' = primed + 1
         /\ \E m \in Row : /\ Yields(primed + 1, m) /\ heap' = heap \union {m}
                           /\ lastUs' = [lastUs EXCEPT ![primed + 1] = Observed(@, m)]
         /\ UNCHANGED <<opts, failure, terminal, survivors, result, broken, emitted, collapsed>>
         /\ result = "open" /\ primed < N
  <1>1. primed + 1 \in Inputs
    BY ConstantsAssumption DEF PrimeRecord, Priming, TypeOK, Inputs, ConstantsAssumption
  <1>2. Yields(primed + 1, Message(primed + 1, us, c))
    BY <1>1, MessageYields DEF PrimeRecord
  <1> QED
    BY <1>1, <1>2 DEF PrimeRecord, Yields, Priming

\* The tracker of an input sees the time and the content of the record.
LEMMA PopYields ==
  ASSUME TypeOK, NEW top \in heap, NEW us \in Times, NEW c \in Contents,
         PopThenRecord(top, us, c)
  PROVE  /\ top \in Row /\ top.input \in Inputs /\ Pop(top)
         /\ \E m \in Row :
              /\ Yields(top.input, m) /\ heap' = (heap \ {top}) \union {m}
              /\ lastUs' = [lastUs EXCEPT ![0] = MergeTracker(top),
                                          ![top.input] = Observed(@, m)]
              /\ failure' = IF (\E prev \in prevUs[top.input] : m.us < prev) /\ opts.strict
                            THEN Some("backward") ELSE failure
         /\ UNCHANGED <<terminal, broken>>
  <1>1. top \in Row /\ top.input \in Inputs
    BY DEF TypeOK, Row
  <1>2. Yields(top.input, Message(top.input, us, c))
    BY <1>1, MessageYields DEF PopThenRecord, AdvanceRecord
  <1>3. Message(top.input, us, c).us = us /\ Message(top.input, us, c).content = c
    BY DEF Message
  <1>4. \A last : Observed(last, [us |-> us, content |-> c]) = Observed(last, Message(top.input, us, c))
    BY <1>3 DEF Observed
  <1>5. lastUs' = [lastUs EXCEPT ![0] = MergeTracker(top),
                                 ![top.input] = Observed(@, Message(top.input, us, c))]
    BY <1>4 DEF PopThenRecord
  <1> DEFINE m == Message(top.input, us, c)
  <1>6. /\ heap' = (heap \ {top}) \union {m}
        /\ failure' = IF (\E prev \in prevUs[top.input] : us < prev) /\ opts.strict
                      THEN Some("backward") ELSE failure
        /\ UNCHANGED <<terminal, broken>>
    BY DEF PopThenRecord, AdvanceRecord
  <1>7. Pop(top)
    BY DEF PopThenRecord
  <1>8. m \in Row
    BY <1>2 DEF Yields
  <1> HIDE DEF m
  <1> QED
    BY <1>1, <1>2, <1>3, <1>5, <1>6, <1>7, <1>8 DEF m

\* An input only adds to what it has yielded.
Grows ==
  \A j \in Inputs :
    /\ Len(pulled[j]) \in Nat /\ Len(pulled'[j]) \in Nat /\ Len(pulled[j]) <= Len(pulled'[j])
    /\ \A n \in 1 .. Len(pulled[j]) : pulled'[j][n] = pulled[j][n]

\* A record an input yields comes behind those it yielded before.
LEMMA YieldFacts ==
  ASSUME TypeOK, NEW i \in Inputs, NEW m \in Row, Yields(i, m)
  PROVE  /\ Grows
         /\ \A j \in Inputs : j # i => pulled'[j] = pulled[j] /\ prevUs'[j] = prevUs[j]
         /\ pulled'[i] = Append(pulled[i], m)
         /\ Len(pulled'[i]) = Len(pulled[i]) + 1 /\ pulled'[i][Len(pulled[i]) + 1] = m
         /\ prevUs'[i] = Some(m.us)
  <1>1. \A j \in Inputs : pulled[j] \in Seq(Row)
    BY DEF TypeOK
  <1>2. /\ \A j \in Inputs : j # i => pulled'[j] = pulled[j] /\ prevUs'[j] = prevUs[j]
        /\ pulled'[i] = Append(pulled[i], m) /\ prevUs'[i] = Some(m.us)
    BY DEF Yields, Push, TypeOK
  <1>3. \A j \in Inputs : Len(pulled[j]) \in Nat
    BY <1>1, AppendFacts
  <1>4. /\ Len(pulled'[i]) = Len(pulled[i]) + 1 /\ pulled'[i][Len(pulled[i]) + 1] = m
        /\ \A n \in 1 .. Len(pulled[i]) : pulled'[i][n] = pulled[i][n]
    BY <1>1, <1>2, AppendFacts
  <1> QED
    BY <1>2, <1>3, <1>4 DEF Grows

\* The popped record is suppressed, or becomes a row: itself, but for its DELTA.
Suppressed(top) ==
  /\ emitted' = emitted /\ Len(collapsed') = Len(collapsed) + 1
  /\ \A p \in 1 .. Len(collapsed) : collapsed'[p] = collapsed[p]
  /\ collapsed'[Len(collapsed) + 1] = [row |-> top, after |-> Len(emitted)]

Emitted(top) ==
  /\ collapsed' = collapsed /\ Len(emitted') = Len(emitted) + 1
  /\ \A p \in 1 .. Len(emitted) : emitted'[p] = emitted[p]
  /\ SameRow(emitted'[Len(emitted) + 1], top)
  /\ emitted'[Len(emitted) + 1].delta =
       IF opts.globalDelta THEN Gap(lastUs[0], top) ELSE top.delta

\* A popped record is suppressed or emitted.
LEMMA SettleFacts ==
  ASSUME TypeOK, NEW top \in heap, Pop(top)
  PROVE  (Suppress(top) /\ Suppressed(top)) \/ (Emit(top) /\ Emitted(top))
  <1>1. emitted \in Seq(Row) /\ collapsed \in Seq([row : Row, after : Nat])
        /\ lastUs \in [0 .. N -> [DeltaKeys -> Option(Times)]] /\ top \in Row
    BY DEF TypeOK
  <1>2. Len(emitted) \in Nat /\ 0 \in 0 .. N
    BY <1>1, AppendFacts, ConstantsAssumption DEF ConstantsAssumption
  <1>3. CASE Suppress(top)
    <2>1. [row |-> top, after |-> Len(emitted)] \in [row : Row, after : Nat]
      BY <1>1, <1>2
    <2> DEFINE d == [row |-> top, after |-> Len(emitted)]
    <2>2. collapsed' = Append(collapsed, d) /\ emitted' = emitted /\ d \in [row : Row, after : Nat]
      BY <1>3, <2>1 DEF Suppress
    <2> HIDE DEF d
    <2>3. /\ Len(collapsed') = Len(collapsed) + 1
          /\ \A p \in 1 .. Len(collapsed) : collapsed'[p] = collapsed[p]
          /\ collapsed'[Len(collapsed) + 1] = d
      BY <1>1, <2>2, AppendFacts
    <2> QED
      BY <1>3, <2>2, <2>3 DEF d, Suppressed
  <1>4. CASE Emit(top)
    <2> DEFINE row == IF opts.globalDelta
                      THEN [top EXCEPT !.delta = Gap(lastUs[0], top)] ELSE top
    <2>1. Gap(lastUs[0], top) \in SUBSET Nat
      BY <1>1, <1>2, TrackerTypes DEF Row
    <2>2. row \in Row /\ SameRow(row, top)
          /\ row.delta = IF opts.globalDelta THEN Gap(lastUs[0], top) ELSE top.delta
      BY <1>1, <2>1 DEF Row, SameRow
    <2>3. emitted' = Append(emitted, row) /\ collapsed' = collapsed
      BY <1>4 DEF Emit
    <2> HIDE DEF row
    <2>4. /\ Len(emitted') = Len(emitted) + 1
          /\ \A p \in 1 .. Len(emitted) : emitted'[p] = emitted[p]
          /\ emitted'[Len(emitted) + 1] = row
      BY <1>1, <2>2, <2>3, AppendFacts
    <2> QED
      BY <1>4, <2>2, <2>3, <2>4 DEF Emitted
  <1> QED
    BY <1>3, <1>4 DEF Pop

\* What the heap becomes when its top is popped: the others stay, and the
\* input's next record may come in.
Replaced(top) ==
  /\ heap \ {top} \subseteq heap'
  /\ \A m \in heap' :
       \/ m \in heap \ {top}
       \/ /\ m \in Row /\ m.input = top.input /\ m.seq = Len(pulled[top.input])
          /\ m.us \in Times
  /\ \A j \in Inputs : \A n \in 0 .. Len(pulled'[j]) - 1 :
       n < Len(pulled[j]) \/ \E m \in heap' : m.input = j /\ m.seq = n

\* The record popped is replaced by the next one of its input.
LEMMA RecordReplaced ==
  ASSUME TypeOK, NEW top \in heap, top.input \in Inputs, NEW m \in Row,
         Yields(top.input, m), heap' = (heap \ {top}) \union {m}
  PROVE  Grows /\ Replaced(top)
  <1>1. m.us \in Times /\ m.input = top.input /\ m.seq = Len(pulled[top.input])
    BY DEF Yields, Row
  <1>2. \A j \in Inputs : \A n \in 0 .. Len(pulled'[j]) - 1 :
          n < Len(pulled[j]) \/ (j = top.input /\ n = m.seq)
    BY <1>1, YieldFacts DEF Grows
  <1> QED
    BY <1>1, <1>2, YieldFacts DEF Replaced

\* An input that stops leaves its place in the heap empty.
LEMMA StopReplaced ==
  ASSUME TypeOK, NEW top \in heap, PopThenStop(top)
  PROVE  /\ Grows /\ Replaced(top) /\ heap' = heap \ {top}
         /\ pulled' = pulled /\ prevUs' = prevUs /\ Pop(top)
  <1>1. heap' = heap \ {top} /\ pulled' = pulled /\ prevUs' = prevUs /\ Pop(top)
    BY DEF PopThenStop, AdvanceLoss, AdvanceError, AdvanceEnd
  <1>2. \A j \in Inputs : pulled[j] \in Seq(Row)
    BY DEF TypeOK
  <1>3. \A j \in Inputs : Len(pulled[j]) \in Nat
    BY <1>2, AppendFacts
  <1> QED
    BY <1>1, <1>3 DEF Grows, Replaced

-----------------------------------------------------------------------------
(* Every record flows to the rows, and once.                               *)

\* The rows, the suppressed records and the heap are typed records.
LEMMA RowTypes ==
  ASSUME TypeOK
  PROVE  /\ Len(emitted) \in Nat /\ Len(collapsed) \in Nat
         /\ \A p \in 1 .. Len(emitted) : emitted[p] \in Row
              /\ emitted[p].input \in Inputs /\ emitted[p].seq \in Nat
              /\ emitted[p].us \in Times /\ emitted[p].us \in Nat
         /\ \A p \in 1 .. Len(collapsed) :
              /\ collapsed[p].row \in Row /\ collapsed[p].after \in Nat
              /\ collapsed[p].row.input \in Inputs /\ collapsed[p].row.seq \in Nat
         /\ \A m \in heap : m \in Row /\ m.input \in Inputs /\ m.seq \in Nat
                            /\ m.us \in Times /\ m.us \in Nat
         /\ \A i \in Inputs : Len(pulled[i]) \in Nat /\ pulled[i] \in Seq(Row)
         /\ \A i \in Inputs : \A n \in 1 .. Len(pulled[i]) :
              pulled[i][n] \in Row /\ pulled[i][n].us \in Nat
  <1>1. emitted \in Seq(Row) /\ collapsed \in Seq([row : Row, after : Nat])
        /\ heap \subseteq Row /\ \A i \in Inputs : pulled[i] \in Seq(Row)
    BY DEF TypeOK
  <1>2. \A r \in Row : r.input \in Inputs /\ r.seq \in Nat /\ r.us \in Times /\ r.us \in Nat
    BY ConstantsAssumption DEF Row, ConstantsAssumption
  <1>3. /\ Len(emitted) \in Nat /\ Len(collapsed) \in Nat
        /\ \A p \in 1 .. Len(emitted) : emitted[p] \in Row
        /\ \A p \in 1 .. Len(collapsed) : collapsed[p] \in [row : Row, after : Nat]
    <2> DEFINE D == [row : Row, after : Nat]
    <2>1. emitted \in Seq(Row) /\ collapsed \in Seq(D)
      BY <1>1
    <2> HIDE DEF D
    <2>2. /\ Len(emitted) \in Nat /\ Len(collapsed) \in Nat
          /\ \A p \in 1 .. Len(emitted) : emitted[p] \in Row
          /\ \A p \in 1 .. Len(collapsed) : collapsed[p] \in D
      BY <2>1
    <2> QED
      BY <2>2 DEF D
  <1>4. \A i \in Inputs : /\ Len(pulled[i]) \in Nat
                          /\ \A n \in 1 .. Len(pulled[i]) : pulled[i][n] \in Row
    BY <1>1
  <1> QED
    BY <1>1, <1>2, <1>3, <1>4

\* A record that arrives keeps the numbering of its input.
LEMMA ArrivalNumbered ==
  ASSUME TypeOK, PulledInv, NEW i \in Inputs, NEW m \in Row, Yields(i, m),
         i <= primed', primed <= primed', primed' \in Nat, primed' <= N,
         primed' < N => emitted' = <<>> /\ collapsed' = <<>>
  PROVE  PulledInv'
  <1>1. m.input = i /\ m.seq = Len(pulled[i])
    BY DEF Yields
  <1>2. \A j \in Inputs : \A n \in 1 .. Len(pulled'[j]) :
          pulled'[j][n].input = j /\ pulled'[j][n].seq = n - 1
    <2> SUFFICES ASSUME NEW j \in Inputs, NEW n \in 1 .. Len(pulled'[j])
                 PROVE  pulled'[j][n].input = j /\ pulled'[j][n].seq = n - 1
      OBVIOUS
    <2>1. Len(pulled[j]) \in Nat
      BY RowTypes
    <2>2. CASE n \in 1 .. Len(pulled[j])
      <3>1. pulled'[j][n] = pulled[j][n]
        BY <2>2, YieldFacts DEF Grows
      <3>2. pulled[j][n].input = j /\ pulled[j][n].seq = n - 1
        BY <2>2 DEF PulledInv
      <3> QED
        BY <3>1, <3>2
    <2>3. CASE n \notin 1 .. Len(pulled[j])
      <3>1. j = i /\ n = Len(pulled[i]) + 1
        BY <2>1, <2>3, YieldFacts
      <3> QED
        BY <1>1, <3>1, <2>1, YieldFacts
    <2> QED
      BY <2>2, <2>3
  <1>3. \A j \in Inputs : j > primed' => pulled'[j] = <<>>
    BY YieldFacts DEF PulledInv, Inputs, TypeOK
  <1>4. \A j \in Inputs :
          prevUs'[j] = IF Len(pulled'[j]) = 0 THEN None
                       ELSE Some(pulled'[j][Len(pulled'[j])].us)
    BY YieldFacts DEF PulledInv, Grows
  <1> QED
    BY <1>2, <1>3, <1>4 DEF PulledInv

\* The first record of an input.
LEMMA PrimeFlow ==
  ASSUME TypeOK, FlowInv, NEW us \in Times, NEW c \in Contents, PrimeRecord(us, c)
  PROVE  FlowInv'
  <1>0. PICK i \in Inputs : i = primed + 1
    BY PrimeYields
  <1>1. PICK m \in Row : Yields(i, m) /\ heap' = heap \union {m}
    BY <1>0, PrimeYields
  <1>2. /\ primed' = i /\ primed < N /\ primed \in Nat /\ i <= N
        /\ emitted' = emitted /\ collapsed' = collapsed
    BY <1>0, PrimeYields DEF TypeOK, Inputs
  <1>3. /\ emitted = <<>> /\ collapsed = <<>> /\ Len(pulled[i]) = 0
        /\ Len(emitted) = 0 /\ Len(collapsed) = 0
    BY <1>0, <1>2 DEF FlowInv, PulledInv, Inputs
  <1>4. PulledInv'
    BY <1>0, <1>1, <1>2, <1>3, ArrivalNumbered, ConstantsAssumption
    DEF FlowInv, ConstantsAssumption
  <1>a. /\ m.input = i /\ m.seq = 0
        /\ Len(pulled'[i]) = 1 /\ pulled'[i][1] = m
        /\ \A j \in Inputs : j # i => pulled'[j] = pulled[j]
    <2>1. m.input = i /\ m.seq = 0
      BY <1>1, <1>3 DEF Yields
    <2>2. Len(pulled'[i]) = Len(pulled[i]) + 1 /\ pulled'[i][Len(pulled[i]) + 1] = m
      BY <1>1, YieldFacts
    <2>3. \A j \in Inputs : j # i => pulled'[j] = pulled[j]
      BY <1>1, YieldFacts
    <2> QED
      BY <1>3, <2>1, <2>2, <2>3
  <1>5. HeapInv'
    <2> SUFFICES ASSUME NEW o \in heap'
                 PROVE  /\ o.input <= primed' /\ o.seq + 1 = Len(pulled'[o.input])
                        /\ o = pulled'[o.input][o.seq + 1]
      BY DEF HeapInv
    <2>1. CASE o = m
      <3>1. o.input = i /\ o.seq + 1 = 1 /\ i <= primed'
        BY <1>0, <1>2, <1>a, <2>1
      <3>2. Len(pulled'[i]) = 1 /\ pulled'[i][1] = o
        BY <1>a, <2>1
      <3> QED
        BY <3>1, <3>2
    <2>2. CASE o \in heap
      <3>1. /\ o.input <= primed /\ o.seq + 1 = Len(pulled[o.input])
            /\ o = pulled[o.input][o.seq + 1] /\ o.input \in Inputs
        BY <2>2, RowTypes DEF FlowInv, HeapInv
      <3>2. o.input # i /\ o.input <= primed'
        BY <1>0, <1>2, <3>1 DEF Inputs
      <3> QED
        BY <1>a, <3>1, <3>2
    <2> QED
      BY <1>1, <2>1, <2>2
  <1>6. KnownInv' /\ OnceInv'
    BY <1>2, <1>3 DEF KnownInv, OnceInv
  <1>7. SettledInv'
    <2> SUFFICES ASSUME NEW j \in Inputs, NEW n \in 0 .. Len(pulled'[j]) - 1
                 PROVE  Settled(j, n)'
      BY DEF SettledInv
    <2>3. CASE j = i
      <3>1. n = 0 /\ m \in heap'
        <4>1. Len(pulled'[j]) = 1
          BY <1>a, <2>3
        <4> QED
          BY <1>1, <4>1
      <3> QED
        BY <1>a, <2>3, <3>1 DEF Settled
    <2>4. CASE j # i
      <3>1. Settled(j, n)
        BY <1>a, <2>4 DEF FlowInv, SettledInv
      <3> QED
        BY <1>1, <1>2, <3>1 DEF Settled
    <2> QED
      BY <2>3, <2>4
  <1> QED
    BY <1>4, <1>5, <1>6, <1>7 DEF FlowInv

\* The popped record settles behind the input's next one.
LEMMA PopKnown ==
  ASSUME TypeOK, FlowInv, NEW top \in heap, Pop(top), Grows, Replaced(top)
  PROVE  KnownInv'
  <1>1. /\ top \in Row /\ top.input \in Inputs /\ top.seq \in Nat
        /\ top.seq + 1 = Len(pulled[top.input])
        /\ top = pulled[top.input][top.seq + 1]
    BY RowTypes DEF FlowInv, HeapInv
  <1>2. \A m \in heap' : /\ m \in heap \/ (m.input = top.input /\ m.seq = top.seq + 1)
                         /\ m.input = top.input => m.seq = top.seq + 1
    BY <1>1, RowTypes DEF Replaced, FlowInv, HeapInv
  <1>3. ASSUME NEW p \in 1 .. Len(emitted)
        PROVE  /\ emitted[p].seq < Len(pulled'[emitted[p].input])
               /\ SameRow(emitted[p], pulled'[emitted[p].input][emitted[p].seq + 1])
               /\ \A m \in heap' : m.input = emitted[p].input => emitted[p].seq < m.seq
    <2> DEFINE i == emitted[p].input
               n == emitted[p].seq
    <2>1. i \in Inputs /\ n \in Nat /\ n + 1 \in 1 .. Len(pulled[i])
      BY RowTypes DEF FlowInv, KnownInv
    <2>2. SameRow(emitted[p], pulled[i][n + 1]) /\ \A m \in heap : m.input = i => n < m.seq
      BY DEF FlowInv, KnownInv
    <2>3. pulled'[i][n + 1] = pulled[i][n + 1] /\ n < Len(pulled'[i])
      <3> HIDE DEF i, n
      <3> QED
        BY <2>1 DEF Grows
    <2>4. \A m \in heap' : m.input = i => n < m.seq
      BY <1>1, <1>2, <2>1, <2>2
    <2> QED
      BY <2>2, <2>3, <2>4
  <1>4. ASSUME NEW p \in 1 .. Len(collapsed)
        PROVE  /\ collapsed[p].row.seq < Len(pulled'[collapsed[p].row.input])
               /\ \A m \in heap' :
                    m.input = collapsed[p].row.input => collapsed[p].row.seq < m.seq
    <2> DEFINE i == collapsed[p].row.input
               n == collapsed[p].row.seq
    <2>1. /\ i \in Inputs /\ n \in Nat /\ n < Len(pulled[i])
          /\ \A m \in heap : m.input = i => n < m.seq
      BY RowTypes DEF FlowInv, KnownInv
    <2>2. n < Len(pulled'[i])
      BY <2>1 DEF Grows
    <2>3. \A m \in heap' : m.input = i => n < m.seq
      BY <1>1, <1>2, <2>1
    <2> QED
      BY <2>2, <2>3
  <1>5. /\ top.seq < Len(pulled'[top.input])
        /\ SameRow(top, pulled'[top.input][top.seq + 1])
        /\ \A m \in heap' : m.input = top.input => top.seq < m.seq
    <2> DEFINE i == top.input
               n == top.seq
    <2>1. i \in Inputs /\ n \in Nat /\ n + 1 \in 1 .. Len(pulled[i]) /\ top = pulled[i][n + 1]
      BY <1>1
    <2>2. pulled'[i][n + 1] = top /\ n < Len(pulled'[i])
      <3> HIDE DEF i, n
      <3> QED
        BY <2>1 DEF Grows
    <2>3. \A m \in heap' : m.input = top.input => top.seq < m.seq
      BY <1>1, <1>2
    <2> QED
      BY <2>2, <2>3 DEF SameRow
  <1>6. CASE Suppressed(top)
    <2>1. \A p \in 1 .. Len(collapsed') :
            \/ p \in 1 .. Len(collapsed) /\ collapsed'[p] = collapsed[p]
            \/ collapsed'[p].row = top
      BY <1>6, RowTypes DEF Suppressed
    <2>2. emitted' = emitted
      BY <1>6 DEF Suppressed
    <2> QED
      BY <1>3, <1>4, <1>5, <2>1, <2>2 DEF KnownInv
  <1>7. CASE Emitted(top)
    <2>1. \A p \in 1 .. Len(emitted') :
            \/ p \in 1 .. Len(emitted) /\ emitted'[p] = emitted[p]
            \/ SameRow(emitted'[p], top)
      BY <1>7, RowTypes DEF Emitted
    <2>2. collapsed' = collapsed
      BY <1>7 DEF Emitted
    <2>3. SameRow(top, pulled'[top.input][top.seq + 1]) /\ top \in Row
      BY <1>5, RowTypes
    <2>4. ASSUME NEW p \in 1 .. Len(emitted')
          PROVE  /\ emitted'[p].seq < Len(pulled'[emitted'[p].input])
                 /\ SameRow(emitted'[p], pulled'[emitted'[p].input][emitted'[p].seq + 1])
                 /\ \A m \in heap' :
                      m.input = emitted'[p].input => emitted'[p].seq < m.seq
      <3>1. CASE p \in 1 .. Len(emitted) /\ emitted'[p] = emitted[p]
        BY <1>3, <3>1
      <3>2. CASE SameRow(emitted'[p], top)
        <4>1. emitted'[p].input = top.input /\ emitted'[p].seq = top.seq
          BY <3>2 DEF SameRow
        <4>2. SameRow(emitted'[p], pulled'[top.input][top.seq + 1])
          BY <2>3, <3>2 DEF SameRow
        <4> QED
          BY <1>5, <4>1, <4>2
      <3> QED
        BY <2>1, <3>1, <3>2
    <2> QED
      BY <1>4, <2>2, <2>4 DEF KnownInv
  <1> QED
    BY <1>6, <1>7, SettleFacts

\* Nothing settled before has its number.
LEMMA PopOnce ==
  ASSUME TypeOK, FlowInv, NEW top \in heap, Pop(top)
  PROVE  OnceInv'
  <1>1. /\ \A p \in 1 .. Len(emitted) : emitted[p].input = top.input => emitted[p].seq < top.seq
        /\ \A p \in 1 .. Len(collapsed) :
             collapsed[p].row.input = top.input => collapsed[p].row.seq < top.seq
    BY DEF FlowInv, KnownInv
  <1>2. /\ top.seq \in Nat /\ Len(emitted) \in Nat /\ Len(collapsed) \in Nat
        /\ \A p \in 1 .. Len(emitted) : emitted[p].seq \in Nat
        /\ \A p \in 1 .. Len(collapsed) : collapsed[p].row.seq \in Nat
    BY RowTypes
  <1>3. CASE Suppressed(top)
    <2>1. /\ emitted' = emitted /\ Len(collapsed') = Len(collapsed) + 1
          /\ \A p \in 1 .. Len(collapsed) : collapsed'[p] = collapsed[p]
          /\ collapsed'[Len(collapsed) + 1].row = top
      BY <1>3 DEF Suppressed
    <2>2. ASSUME NEW p \in 1 .. Len(collapsed'), NEW q \in 1 .. Len(collapsed'),
                 p < q, collapsed'[p].row.input = collapsed'[q].row.input
          PROVE  collapsed'[p].row.seq < collapsed'[q].row.seq
      <3>1. p \in 1 .. Len(collapsed) /\ collapsed'[p] = collapsed[p]
        BY <1>2, <2>1, <2>2
      <3>2. CASE q \in 1 .. Len(collapsed)
        BY <2>1, <2>2, <3>1, <3>2 DEF OnceInv, FlowInv
      <3>3. CASE q = Len(collapsed) + 1
        BY <1>1, <2>1, <2>2, <3>1, <3>3
      <3> QED
        BY <1>2, <2>1, <3>2, <3>3
    <2>3. ASSUME NEW p \in 1 .. Len(emitted), NEW q \in 1 .. Len(collapsed'),
                 emitted[p].input = collapsed'[q].row.input
          PROVE  emitted[p].seq # collapsed'[q].row.seq
      <3>1. CASE q \in 1 .. Len(collapsed)
        BY <2>1, <2>3, <3>1 DEF OnceInv, FlowInv
      <3>2. CASE q = Len(collapsed) + 1
        BY <1>1, <1>2, <2>1, <2>3, <3>2
      <3> QED
        BY <1>2, <2>1, <3>1, <3>2
    <2> QED
      BY <2>1, <2>2, <2>3 DEF OnceInv, FlowInv
  <1>4. CASE Emitted(top)
    <2>1. /\ collapsed' = collapsed /\ Len(emitted') = Len(emitted) + 1
          /\ \A p \in 1 .. Len(emitted) : emitted'[p] = emitted[p]
          /\ emitted'[Len(emitted) + 1].input = top.input
          /\ emitted'[Len(emitted) + 1].seq = top.seq
      BY <1>4 DEF Emitted, SameRow
    <2>2. ASSUME NEW p \in 1 .. Len(emitted'), NEW q \in 1 .. Len(emitted'),
                 p < q, emitted'[p].input = emitted'[q].input
          PROVE  emitted'[p].seq < emitted'[q].seq
      <3>1. p \in 1 .. Len(emitted) /\ emitted'[p] = emitted[p]
        BY <1>2, <2>1, <2>2
      <3>2. CASE q \in 1 .. Len(emitted)
        BY <2>1, <2>2, <3>1, <3>2 DEF OnceInv, FlowInv
      <3>3. CASE q = Len(emitted) + 1
        BY <1>1, <2>1, <2>2, <3>1, <3>3
      <3> QED
        BY <1>2, <2>1, <3>2, <3>3
    <2>3. ASSUME NEW p \in 1 .. Len(emitted'), NEW q \in 1 .. Len(collapsed),
                 emitted'[p].input = collapsed[q].row.input
          PROVE  emitted'[p].seq # collapsed[q].row.seq
      <3>1. CASE p \in 1 .. Len(emitted)
        BY <2>1, <2>3, <3>1 DEF OnceInv, FlowInv
      <3>2. CASE p = Len(emitted) + 1
        BY <1>1, <1>2, <2>1, <2>3, <3>2
      <3> QED
        BY <1>2, <2>1, <3>1, <3>2
    <2> QED
      BY <2>1, <2>2, <2>3 DEF OnceInv, FlowInv
  <1> QED
    BY <1>3, <1>4, SettleFacts

\* What has settled, waits or is popped is not forgotten.
LEMMA PopSettled ==
  ASSUME TypeOK, FlowInv, NEW top \in heap, Pop(top), Grows, Replaced(top)
  PROVE  SettledInv'
  <1> SUFFICES ASSUME NEW j \in Inputs, NEW n \in 0 .. Len(pulled'[j]) - 1
               PROVE  Settled(j, n)'
    BY DEF SettledInv
  <1>0. Len(emitted) \in Nat /\ Len(collapsed) \in Nat
    BY RowTypes
  <1>1. CASE \E m \in heap' : m.input = j /\ m.seq = n
    BY <1>1 DEF Settled
  <1>2. CASE n < Len(pulled[j])
    <2>1. Settled(j, n)
      BY <1>2, RowTypes DEF FlowInv, SettledInv, Grows
    <2>2. CASE top.input = j /\ top.seq = n
      <3>1. CASE Suppressed(top)
        BY <1>0, <2>2, <3>1 DEF Settled, Suppressed
      <3>2. CASE Emitted(top)
        BY <1>0, <2>2, <3>2 DEF Settled, Emitted, SameRow
      <3> QED
        BY <3>1, <3>2, SettleFacts
    <2>3. CASE \E m \in heap \ {top} : m.input = j /\ m.seq = n
      BY <2>3 DEF Replaced, Settled
    <2>4. CASE \E p \in 1 .. Len(emitted) : emitted[p].input = j /\ emitted[p].seq = n
      <3>1. PICK p \in 1 .. Len(emitted) : emitted[p].input = j /\ emitted[p].seq = n
        BY <2>4
      <3>2. p \in 1 .. Len(emitted') /\ emitted'[p] = emitted[p]
        <4>1. CASE Suppressed(top)
          BY <1>0, <4>1 DEF Suppressed
        <4>2. CASE Emitted(top)
          BY <1>0, <4>2 DEF Emitted
        <4> QED
          BY <4>1, <4>2, SettleFacts
      <3> QED
        BY <3>1, <3>2 DEF Settled
    <2>5. CASE \E p \in 1 .. Len(collapsed) : collapsed[p].row.input = j /\ collapsed[p].row.seq = n
      <3>1. PICK p \in 1 .. Len(collapsed) : collapsed[p].row.input = j /\ collapsed[p].row.seq = n
        BY <2>5
      <3>2. p \in 1 .. Len(collapsed') /\ collapsed'[p] = collapsed[p]
        <4>1. CASE Suppressed(top)
          BY <1>0, <4>1 DEF Suppressed
        <4>2. CASE Emitted(top)
          BY <1>0, <4>2 DEF Emitted
        <4> QED
          BY <4>1, <4>2, SettleFacts
      <3> QED
        BY <3>1, <3>2 DEF Settled
    <2> QED
      BY <2>1, <2>2, <2>3, <2>4, <2>5 DEF Settled
  <1> QED
    BY <1>1, <1>2 DEF Replaced

\* A pop whose input yields another record.
LEMMA RecordFlow ==
  ASSUME TypeOK, FlowInv, NEW top \in heap, NEW us \in Times, NEW c \in Contents,
         PopThenRecord(top, us, c)
  PROVE  FlowInv'
  <1>1. PICK m \in Row : Yields(top.input, m) /\ heap' = (heap \ {top}) \union {m}
    BY PopYields
  <1>2. top.input \in Inputs /\ Pop(top) /\ Grows /\ Replaced(top)
    BY <1>1, PopYields, RecordReplaced
  <1>3. primed = N /\ primed' = N /\ N \in Nat
    BY <1>2, ConstantsAssumption DEF Pop, Running, ConstantsAssumption
  <1>4. PulledInv'
    BY <1>1, <1>2, <1>3, ArrivalNumbered DEF FlowInv, Inputs
  <1>5. HeapInv'
    <2>1. /\ m.input = top.input /\ m.seq = Len(pulled[top.input])
          /\ Len(pulled[top.input]) \in Nat /\ top.input <= N
      BY <1>1, <1>2, RowTypes DEF Yields, Inputs
    <2>2. /\ Len(pulled'[top.input]) = Len(pulled[top.input]) + 1
          /\ pulled'[top.input][Len(pulled[top.input]) + 1] = m
          /\ \A j \in Inputs : j # top.input => pulled'[j] = pulled[j]
      BY <1>1, <1>2, YieldFacts
    <2> SUFFICES ASSUME NEW o \in heap'
                 PROVE  /\ o.input <= primed' /\ o.seq + 1 = Len(pulled'[o.input])
                        /\ o = pulled'[o.input][o.seq + 1]
      BY DEF HeapInv
    <2>3. CASE o = m
      BY <1>3, <2>1, <2>2, <2>3
    <2>4. CASE o \in heap \ {top}
      <3>1. /\ o.input <= primed /\ o.seq + 1 = Len(pulled[o.input])
            /\ o = pulled[o.input][o.seq + 1] /\ o.input \in Inputs /\ o.seq \in Nat
        BY <2>4, RowTypes DEF FlowInv, HeapInv
      <3>2. /\ top.seq + 1 = Len(pulled[top.input]) /\ top = pulled[top.input][top.seq + 1]
            /\ top.seq \in Nat
        BY RowTypes DEF FlowInv, HeapInv
      <3>3. o.input # top.input
        BY <2>4, <3>1, <3>2
      <3> QED
        BY <1>3, <2>2, <3>1, <3>3
    <2> QED
      BY <1>1, <2>3, <2>4
  <1> QED
    BY <1>2, <1>4, <1>5, PopKnown, PopOnce, PopSettled DEF FlowInv

\* A pop whose input has ended.
LEMMA StopFlow ==
  ASSUME TypeOK, FlowInv, NEW top \in heap, PopThenStop(top)
  PROVE  FlowInv'
  <1>1. /\ Grows /\ Replaced(top) /\ heap' = heap \ {top}
        /\ pulled' = pulled /\ prevUs' = prevUs /\ Pop(top)
    BY StopReplaced
  <1>2. primed = N /\ primed' = N /\ N \in Nat
    BY <1>1, ConstantsAssumption DEF Pop, Running, ConstantsAssumption
  <1>3. PulledInv'
    BY <1>1, <1>2 DEF FlowInv, PulledInv
  <1>4. HeapInv'
    BY <1>1, <1>2 DEF FlowInv, HeapInv
  <1> QED
    BY <1>1, <1>3, <1>4, PopKnown, PopOnce, PopSettled DEF FlowInv

\* The other steps move no record.
LEMMA QuietFlow ==
  ASSUME TypeOK, FlowInv, QuietStep
  PROVE  FlowInv'
  <1>1. /\ UNCHANGED <<heap, prevUs, pulled, emitted, collapsed>>
        /\ primed' \in Nat /\ primed \in Nat /\ primed <= primed'
        /\ primed' < N => primed < N
    BY QuietKeeps, ConstantsAssumption DEF TypeOK, Priming, ConstantsAssumption
  <1>2. PulledInv'
    BY <1>1 DEF FlowInv, PulledInv, Inputs
  <1>3. HeapInv'
    BY <1>1, RowTypes DEF FlowInv, HeapInv, Inputs
  <1>4. KnownInv' /\ OnceInv'
    BY <1>1 DEF FlowInv, KnownInv, OnceInv
  <1>5. SettledInv'
    <2> SUFFICES ASSUME NEW j \in Inputs, NEW n \in 0 .. Len(pulled'[j]) - 1
                 PROVE  Settled(j, n)'
      BY DEF SettledInv
    <2>1. Settled(j, n)
      BY <1>1 DEF FlowInv, SettledInv
    <2> QED
      BY <1>1, <2>1 DEF Settled
  <1> QED
    BY <1>2, <1>3, <1>4, <1>5 DEF FlowInv

\* Nothing was pulled.
LEMMA InitFlow == Init => FlowInv
  <1> SUFFICES ASSUME Init PROVE FlowInv
    OBVIOUS
  <1>1. /\ \A i \in Inputs : pulled[i] = <<>> /\ prevUs[i] = None
        /\ emitted = <<>> /\ collapsed = <<>> /\ heap = {}
    BY DEF Init
  <1>2. \A i \in Inputs : Len(pulled[i]) = 0
    BY <1>1
  <1>3. PulledInv
    BY <1>1, <1>2 DEF PulledInv
  <1>4. SettledInv
    BY <1>2 DEF SettledInv
  <1> QED
    BY <1>1, <1>3, <1>4 DEF FlowInv, HeapInv, KnownInv, OnceInv

\* The merge keeps hold of every record.
THEOREM FlowInvariance == Spec => [](TypeOK /\ FlowInv)
  <1>1. Init => TypeOK /\ FlowInv
    BY InitType, InitFlow
  <1>2. TypeOK /\ FlowInv /\ [Next]_vars => (TypeOK /\ FlowInv)'
    <2>1. TypeOK /\ FlowInv /\ Next => FlowInv'
      BY StepKinds, QuietFlow, PrimeFlow, RecordFlow, StopFlow
    <2>2. FlowInv /\ UNCHANGED vars => FlowInv'
      BY DEF vars, FlowInv, PulledInv, HeapInv, KnownInv, OnceInv, SettledInv, Settled
    <2>3. TypeOK /\ UNCHANGED vars => TypeOK'
      BY DEF TypeOK, vars
    <2> QED
      BY <2>1, <2>2, <2>3, StepType
  <1> QED
    BY <1>1, <1>2, PTL DEF Spec

-----------------------------------------------------------------------------
(* How a merge may end.                                                    *)

\* How a merge may end, and what stands behind each ending.
SomeBroken == \E i \in Inputs : broken[i] # None

VerdictInv ==
  /\ failure = Some("loss") => ~opts.allowPartial /\ SomeBroken
  /\ terminal # None => SomeBroken
  /\ result = "open" /\ failure = None /\ terminal = None => ~SomeBroken
  /\ result = "open" /\ failure = None /\ opts.strict => InputsChronological
  /\ result = "none" => ~SomeBroken /\ (opts.strict => InputsChronological)
  /\ result = "loss" => SomeBroken
  /\ result = "none" \/ (result = "loss" /\ opts.allowPartial) => heap = {}

\* A record that arrives without stepping back leaves the inputs as
\* chronological as they were.
LEMMA ArrivalInOrder ==
  ASSUME TypeOK, PulledInv, NEW i \in Inputs, NEW m \in Row, Yields(i, m),
         InputsChronological, ~ \E prev \in prevUs[i] : m.us < prev
  PROVE  InputsChronological'
  <1> SUFFICES ASSUME NEW j \in Inputs PROVE Chronological(pulled'[j])
    BY DEF InputsChronological
  <1>1. Chronological(pulled[j]) /\ Chronological(pulled[i])
    BY DEF InputsChronological
  <1>2. CASE j # i
    BY <1>1, <1>2, YieldFacts
  <1>3. CASE j = i
    <2> DEFINE s == pulled[i]
    <2>1. s \in Seq(Row) /\ Len(s) \in Nat /\ pulled'[i] = Append(s, m)
      BY RowTypes, YieldFacts
    <2>2. \A a \in 1 .. Len(s) : s[a].us \in Nat
      BY RowTypes
    <2>3. m.us \in Nat
      BY ConstantsAssumption DEF Row, ConstantsAssumption
    <2>4. Len(s) # 0 => s[Len(s)].us <= m.us
      <3>1. Len(s) # 0 => prevUs[i] = Some(s[Len(s)].us)
        BY DEF PulledInv
      <3>2. Len(s) # 0 => ~(m.us < s[Len(s)].us)
        BY <3>1 DEF Some
      <3>3. Len(s) # 0 => s[Len(s)].us \in Nat
        BY <2>1, <2>2
      <3> QED
        BY <2>3, <3>2, <3>3
    <2>5. \A a \in 1 .. Len(s) : s[a].us <= m.us
      <3> SUFFICES ASSUME NEW a \in 1 .. Len(s) PROVE s[a].us <= m.us
        OBVIOUS
      <3>1. a = Len(s) \/ s[a].us <= s[Len(s)].us
        BY <1>1, <2>1 DEF Chronological
      <3> QED
        BY <2>1, <2>2, <2>3, <2>4, <3>1
    <2>6. /\ DOMAIN Append(s, m) = 1 .. Len(s) + 1 /\ DOMAIN s = 1 .. Len(s)
          /\ \A n \in 1 .. Len(s) : Append(s, m)[n] = s[n]
          /\ Append(s, m)[Len(s) + 1] = m
      BY <2>1, AppendFacts
    <2> HIDE DEF s
    <2>7. Chronological(s)
      BY <1>1 DEF s
    <2>8. Chronological(Append(s, m))
      BY <2>1, <2>2, <2>3, <2>5, <2>6, <2>7 DEF Chronological
    <2> QED
      BY <1>3, <2>1, <2>8 DEF s
  <1> QED
    BY <1>2, <1>3

\* The first record of an input cannot step back.
LEMMA FirstInOrder ==
  ASSUME TypeOK, PulledInv, NEW i \in Inputs, NEW m \in Row, Yields(i, m),
         InputsChronological, Len(pulled[i]) = 0
  PROVE  InputsChronological'
  <1>1. prevUs[i] = None
    BY DEF PulledInv
  <1> QED
    BY <1>1, ArrivalInOrder DEF None

\* Priming with a record keeps what was said of failures.
LEMMA PrimeVerdict ==
  ASSUME TypeOK, FlowInv, VerdictInv,
         NEW us \in Times, NEW c \in Contents, PrimeRecord(us, c)
  PROVE  VerdictInv'
  <1>0. PICK i \in Inputs : i = primed + 1
    BY PrimeYields
  <1>1. PICK m \in Row : Yields(i, m)
    BY <1>0, PrimeYields
  <1>2. /\ UNCHANGED <<opts, failure, terminal, result, broken>> /\ result = "open"
    BY PrimeYields
  <1>a. i > primed
    BY <1>0 DEF TypeOK
  <1>3. Len(pulled[i]) = 0 /\ PulledInv
    <2>1. pulled[i] = <<>>
      BY <1>a DEF FlowInv, PulledInv
    <2> QED
      BY <2>1 DEF FlowInv
  <1>4. InputsChronological => InputsChronological'
    BY <1>1, <1>3, FirstInOrder
  <1>5. SomeBroken' = SomeBroken
    BY <1>2 DEF SomeBroken
  <1> QED
    BY <1>2, <1>4, <1>5 DEF VerdictInv

\* Popping a record, its successor pushed, keeps what was said of failures.
LEMMA RecordVerdict ==
  ASSUME TypeOK, FlowInv, VerdictInv, NEW top \in heap,
         NEW us \in Times, NEW c \in Contents, PopThenRecord(top, us, c)
  PROVE  VerdictInv'
  <1>1. PICK m \in Row :
          /\ Yields(top.input, m)
          /\ failure' = IF (\E prev \in prevUs[top.input] : m.us < prev) /\ opts.strict
                        THEN Some("backward") ELSE failure
    BY PopYields
  <1>2. /\ top.input \in Inputs /\ UNCHANGED <<opts, terminal, result, broken>>
        /\ result = "open" /\ failure = None
    BY PopYields DEF Pop, Running
  <1>3. Some("backward") # Some("loss") /\ Some("backward") # None /\ None # Some("loss")
    BY DEF Some, None
  <1>4. failure' = None /\ opts.strict /\ InputsChronological => InputsChronological'
    BY <1>1, <1>2, <1>3, ArrivalInOrder DEF FlowInv
  <1>5. SomeBroken' = SomeBroken
    BY <1>2 DEF SomeBroken
  <1> QED
    BY <1>1, <1>2, <1>3, <1>4, <1>5 DEF VerdictInv

\* Popping the last record of an input keeps what was said of failures.
LEMMA StopVerdict ==
  ASSUME TypeOK, VerdictInv, NEW top \in heap, PopThenStop(top)
  PROVE  VerdictInv'
  <1>1. /\ UNCHANGED <<opts, result, pulled>> /\ result = "open" /\ failure = None
        /\ top.input \in Inputs
    BY RowTypes DEF PopThenStop, Pop, Running, AdvanceLoss, AdvanceError, AdvanceEnd
  <1>2. Some("record") # Some("loss") /\ Some("record") # None /\ Some("loss") # None
    BY DEF Some, None
  <1>3. InputsChronological' = InputsChronological
    BY <1>1 DEF InputsChronological
  <1>4. CASE AdvanceEnd(top.input, top)
    BY <1>1, <1>3, <1>4 DEF AdvanceEnd, VerdictInv, SomeBroken
  <1>5. CASE AdvanceLoss(top.input, top) \/ AdvanceError(top.input, top)
    <2>1. broken' = [broken EXCEPT ![top.input] = Some("loss")]
          \/ broken' = [broken EXCEPT ![top.input] = Some("record")]
      BY <1>5 DEF AdvanceLoss, AdvanceError
    <2>2. SomeBroken'
      BY <1>1, <1>2, <2>1 DEF SomeBroken, TypeOK
    <2>3. \/ terminal' = Some("loss") /\ failure' = failure
          \/ terminal' = terminal /\ failure' = Some("loss") /\ ~opts.allowPartial
          \/ terminal' = terminal /\ failure' = Some("record")
      BY <1>5 DEF AdvanceLoss, AdvanceError
    <2> QED
      BY <1>1, <1>2, <1>3, <2>2, <2>3 DEF VerdictInv
  <1> QED
    BY <1>4, <1>5 DEF PopThenStop

\* A step that moves no record keeps what was said of failures.
LEMMA QuietVerdict ==
  ASSUME TypeOK, VerdictInv, QuietStep
  PROVE  VerdictInv'
  <1>1. UNCHANGED <<opts, heap, pulled>>
    BY QuietKeeps
  <1>2. InputsChronological' = InputsChronological
    BY <1>1 DEF InputsChronological
  <1>3. \A x : Some(x) # None
    BY DEF Some, None
  <1>4. CASE PrimeIncompatible \/ PrimeEmpty
    BY <1>1, <1>2, <1>4
    DEF PrimeIncompatible, PrimeEmpty, Priming, VerdictInv, SomeBroken
  <1>5. ASSUME NEW e \in LeadingErrors, PrimeFails(e) \/ PrimeDropped(e) PROVE VerdictInv'
    <2>1. primed + 1 \in Inputs /\ result = "open"
      BY <1>5, ConstantsAssumption
      DEF PrimeFails, PrimeDropped, Priming, TypeOK, Inputs, ConstantsAssumption
    <2>2. broken' = [broken EXCEPT ![primed + 1] = Some(e)]
      BY <1>5 DEF PrimeFails, PrimeDropped
    <2>3. SomeBroken'
      BY <1>3, <2>1, <2>2 DEF SomeBroken, TypeOK
    <2>4. e \in Errors /\ "none" \notin Errors /\ "open" \notin Errors
      BY DEF LeadingErrors, MidFileErrors, Errors
    <2>5. /\ failure' = failure
          /\ \/ result' = e /\ ~opts.allowPartial /\ terminal' = terminal
             \/ result' = result /\ terminal' = Some("loss")
      BY <1>5 DEF PrimeFails, PrimeDropped
    <2>6. result' # "none"
      BY <2>1, <2>4, <2>5
    <2> QED
      BY <1>1, <1>2, <1>3, <2>1, <2>3, <2>4, <2>5, <2>6 DEF VerdictInv
  <1>6. CASE SurfaceError
    <2>1. PICK e \in failure : result' = e
      BY <1>6 DEF SurfaceError
    <2>2. failure = Some(e) /\ e \in Errors \union {"backward"}
      BY <2>1 DEF TypeOK, Option, Some, None
    <2>3. result' # "none" /\ result' # "open"
      BY <2>1, <2>2 DEF Errors
    <2>4. result' = "loss" => ~opts.allowPartial /\ SomeBroken
      BY <2>1, <2>2 DEF VerdictInv
    <2>5. UNCHANGED <<terminal, broken>> /\ failure' = None
      BY <1>6 DEF SurfaceError
    <2> QED
      BY <1>1, <1>3, <2>3, <2>4, <2>5 DEF VerdictInv, SomeBroken
  <1>7. CASE Exhausted
    <2>1. /\ result = "open" /\ failure = None /\ failure' = None /\ terminal' = None
          /\ heap = {} /\ UNCHANGED broken
          /\ result' = IF terminal = None THEN "none" ELSE "loss"
      BY <1>7 DEF Exhausted, Running
    <2>2. SomeBroken' = SomeBroken
      BY <2>1 DEF SomeBroken
    <2> QED
      BY <1>1, <1>2, <1>3, <2>1, <2>2 DEF VerdictInv
  <1> QED
    BY <1>4, <1>5, <1>6, <1>7 DEF QuietStep

\* No input has failed.
LEMMA InitVerdict == Init => VerdictInv
  <1> SUFFICES ASSUME Init PROVE VerdictInv
    OBVIOUS
  <1>1. /\ \A i \in Inputs : pulled[i] = <<>> /\ broken[i] = None
        /\ failure = None /\ terminal = None /\ result = "open"
    BY DEF Init
  <1>2. InputsChronological
    BY <1>1 DEF InputsChronological, Chronological
  <1>3. None # Some("loss")
    BY DEF None, Some
  <1> QED
    BY <1>1, <1>2, <1>3 DEF VerdictInv, SomeBroken

\* The merge's own error, .partial request and ending agree with what became
\* of the inputs.
THEOREM VerdictInvariance == Spec => [](TypeOK /\ FlowInv /\ VerdictInv)
  <1>1. Init => VerdictInv
    BY InitVerdict
  <1>2. TypeOK /\ FlowInv /\ VerdictInv /\ [Next]_vars => VerdictInv'
    <2>1. TypeOK /\ FlowInv /\ VerdictInv /\ Next => VerdictInv'
      BY StepKinds, QuietVerdict, PrimeVerdict, RecordVerdict, StopVerdict
    <2>2. VerdictInv /\ UNCHANGED vars => VerdictInv'
      BY DEF vars, VerdictInv, SomeBroken, InputsChronological
    <2> QED
      BY <2>1, <2>2
  <1> QED
    BY <1>1, <1>2, FlowInvariance, PTL DEF Spec

\* L2-MRG-004, L2-MRG-006: a merge that ends without a word had no input that
\* failed and, in strict mode, no clock that stepped back.
THEOREM MergeFailureNeverSilent == Spec => []FailureNeverSilent
  <1>1. VerdictInv => FailureNeverSilent
    BY DEF VerdictInv, FailureNeverSilent, SomeBroken
  <1> QED
    BY <1>1, VerdictInvariance, PTL

\* One record is in one place: of the rows, the suppressed records and the
\* heap, one holds it and no other does.
LEMMA InOnePlace ==
  ASSUME TypeOK, FlowInv, NEW i \in Inputs, NEW n \in 0 .. Len(pulled[i]) - 1
  PROVE  LET Is(m) == m.input = i /\ m.seq = n
         IN Cardinality({p \in DOMAIN emitted : Is(emitted[p])})
              + Cardinality({p \in DOMAIN collapsed : Is(collapsed[p].row)})
              + Cardinality({m \in heap : Is(m)}) = 1
  <1> DEFINE E == {p \in DOMAIN emitted : emitted[p].input = i /\ emitted[p].seq = n}
             C == {p \in DOMAIN collapsed : collapsed[p].row.input = i /\ collapsed[p].row.seq = n}
             H == {m \in heap : m.input = i /\ m.seq = n}
  <1>1. DOMAIN emitted = 1 .. Len(emitted) /\ DOMAIN collapsed = 1 .. Len(collapsed)
    BY DEF TypeOK
  <1>2. n \in Nat
    BY RowTypes
  <1>3. \A p, q \in E : p = q
    BY <1>1, <1>2, RowTypes DEF FlowInv, OnceInv
  <1>4. \A p, q \in C : p = q
    <2>1. \A p, q \in C : ~(p < q)
      <3> SUFFICES ASSUME NEW p \in C, NEW q \in C, p < q PROVE FALSE
        OBVIOUS
      <3>1. collapsed[p].row.seq < collapsed[q].row.seq
        BY <1>1 DEF FlowInv, OnceInv
      <3> QED
        BY <1>2, <3>1
    <2>2. C \subseteq Int
      BY <1>1, RowTypes
    <2> QED
      BY <2>1, <2>2
  <1>5. \A a, b \in H : a = b
    BY DEF FlowInv, HeapInv
  <1>6. (E = {} \/ C = {}) /\ (E = {} \/ H = {}) /\ (C = {} \/ H = {})
    BY <1>1, <1>2, RowTypes DEF FlowInv, OnceInv, KnownInv
  <1>7. E # {} \/ C # {} \/ H # {}
    BY <1>1 DEF FlowInv, SettledInv, Settled
  <1> HIDE DEF E, C, H
  <1>8. ASSUME NEW S, \A a, b \in S : a = b
        PROVE  Cardinality(S) = IF S = {} THEN 0 ELSE 1
    <2>1. S = {} \/ \E x : S = {x}
      <3>1. ASSUME NEW x \in S PROVE S = {x}
        BY <1>8
      <3> QED
        BY <3>1
    <2> QED
      BY <2>1, FS_EmptySet, FS_Singleton
  <1>9. Cardinality(E) + Cardinality(C) + Cardinality(H) = 1
    BY <1>3, <1>4, <1>5, <1>6, <1>7, <1>8
  <1> QED
    BY <1>9 DEF E, C, H

\* L1-MRG-001, L2-MRG-004: no record is lost or doubled, and none waits when
\* the merge ends well or with a .partial.
THEOREM NoRecordIsLost == Spec => []NoRowLost
  <1>1. TypeOK /\ FlowInv /\ VerdictInv => NoRowLost
    BY InOnePlace DEF NoRowLost, VerdictInv
  <1> QED
    BY <1>1, VerdictInvariance, PTL


-----------------------------------------------------------------------------
(* The heap's order.                                                       *)

\* The heap's key orders records by time, then input, then place.
LEMMA BeforeTransitive ==
  ASSUME NEW a \in Row, NEW b \in Row, NEW c \in Row, Before(a, b), Before(b, c)
  PROVE  Before(a, c)
  <1>1. \A r \in Row : r.us \in Nat /\ r.input \in Nat /\ r.seq \in Nat
    <2>1. Inputs \subseteq Nat
      BY ConstantsAssumption DEF Inputs, ConstantsAssumption
    <2>2. Times \subseteq Nat
      BY ConstantsAssumption DEF ConstantsAssumption
    <2> QED
      BY <2>1, <2>2 DEF Row
  <1> QED
    BY <1>1 DEF Before

\* The order of two records depends on nothing but the key.
LEMMA BeforeSame ==
  ASSUME NEW a, NEW b, NEW c, SameRow(a, b)
  PROVE  /\ Before(a, c) = Before(b, c) /\ Before(c, a) = Before(c, b)
  BY DEF SameRow, Before

\* What is chronological now was chronological before.
LEMMA WasChronological ==
  ASSUME TypeOK, TypeOK', Grows, InputsChronological'
  PROVE  InputsChronological
  <1> SUFFICES ASSUME NEW j \in Inputs PROVE Chronological(pulled[j])
    BY DEF InputsChronological
  <1> SUFFICES ASSUME NEW a \in DOMAIN pulled[j], NEW b \in DOMAIN pulled[j], a < b
               PROVE  pulled[j][a].us <= pulled[j][b].us
    BY DEF Chronological
  <1>1. pulled[j] \in Seq(Row) /\ Len(pulled[j]) \in Nat
    BY RowTypes
  <1>2. /\ DOMAIN pulled[j] = 1 .. Len(pulled[j])
        /\ pulled'[j] \in Seq(Row)
    BY <1>1 DEF TypeOK
  <1>3. DOMAIN pulled'[j] = 1 .. Len(pulled'[j])
    BY <1>2
  <1>4. /\ a \in DOMAIN pulled'[j] /\ b \in DOMAIN pulled'[j]
        /\ pulled'[j][a] = pulled[j][a] /\ pulled'[j][b] = pulled[j][b]
    BY <1>1, <1>2, <1>3 DEF Grows
  <1>5. Chronological(pulled'[j])
    BY DEF InputsChronological
  <1> QED
    BY <1>4, <1>5 DEF Chronological

\* While every input is chronological, the rows are in order and so is what
\* waits behind them.
OrderInv ==
  InputsChronological =>
    \A p \in 1 .. Len(emitted) :
      /\ \A q \in 1 .. p - 1 : Before(emitted[q], emitted[p])
      /\ \A m \in heap : Before(emitted[p], m)

\* On chronological inputs the next record of the popped one's input follows it.
LEMMA NextFollows ==
  ASSUME TypeOK, TypeOK', FlowInv, FlowInv', InputsChronological', NEW top \in heap,
         NEW m \in Row, Yields(top.input, m)
  PROVE  Before(top, m) /\ top.us <= m.us
  <1> DEFINE i == top.input
             n == top.seq
  <1>1. /\ i \in Inputs /\ n \in Nat /\ n + 1 = Len(pulled[i])
        /\ top = pulled[i][n + 1]
    BY RowTypes DEF FlowInv, HeapInv
  <1>2. m.input = i /\ m.seq = n + 1
    BY <1>1 DEF Yields
  <1>3. Len(pulled'[i]) = n + 2 /\ pulled'[i][n + 2] = m /\ pulled'[i][n + 1] = top
    <2>1. /\ Len(pulled'[i]) = Len(pulled[i]) + 1 /\ pulled'[i][Len(pulled[i]) + 1] = m
          /\ \A k \in 1 .. Len(pulled[i]) : pulled'[i][k] = pulled[i][k]
      BY <1>1, YieldFacts DEF Grows
    <2>2. Len(pulled[i]) + 1 = n + 2
      BY <1>1
    <2>3. Len(pulled'[i]) = n + 2 /\ pulled'[i][n + 2] = m
      BY <2>1, <2>2
    <2>4. pulled'[i][n + 1] = pulled[i][n + 1]
      <3>1. n + 1 \in 1 .. Len(pulled[i])
        BY <1>1
      <3> HIDE DEF n
      <3> QED
        BY <2>1, <3>1
    <2> QED
      BY <1>1, <2>3, <2>4
  <1>4. pulled'[i] \in Seq(Row)
    BY <1>1 DEF TypeOK
  <1>5. DOMAIN pulled'[i] = 1 .. n + 2
    BY <1>3, <1>4
  <1>6. Chronological(pulled'[i])
    BY <1>1 DEF InputsChronological
  <1>7. n + 1 \in 1 .. n + 2 /\ n + 2 \in 1 .. n + 2 /\ n + 1 < n + 2
    BY <1>1
  <1>8. top.us <= m.us
    BY <1>3, <1>5, <1>6, <1>7 DEF Chronological
  <1>9. top.us \in Nat /\ m.us \in Nat
    BY RowTypes, ConstantsAssumption DEF Row, ConstantsAssumption
  <1> QED
    BY <1>1, <1>2, <1>8, <1>9 DEF Before

\* The popped record comes before everything left, and after every row.
LEMMA PopOrder ==
  ASSUME TypeOK, TypeOK', OrderInv, Grows, NEW top \in heap, Pop(top),
         InputsChronological' =>
           \A m \in heap' : m \in heap \ {top} \/ Before(top, m)
  PROVE  OrderInv'
  <1> SUFFICES ASSUME InputsChronological'
               PROVE  \A p \in 1 .. Len(emitted') :
                        /\ \A q \in 1 .. p - 1 : Before(emitted'[q], emitted'[p])
                        /\ \A m \in heap' : Before(emitted'[p], m)
    BY DEF OrderInv, Before
  <1>1. \A p \in 1 .. Len(emitted) :
          /\ \A q \in 1 .. p - 1 : Before(emitted[q], emitted[p])
          /\ \A m \in heap : Before(emitted[p], m)
    BY WasChronological DEF OrderInv
  <1>2. /\ top \in Row /\ heap' \subseteq Row /\ Len(emitted) \in Nat
        /\ \A p \in 1 .. Len(emitted) : emitted[p] \in Row
    BY RowTypes DEF TypeOK
  <1>3. \A m \in heap' : Before(top, m)
    BY DEF Pop, IsTop
  <1>4. \A p \in 1 .. Len(emitted) : \A m \in heap' : Before(emitted[p], m)
    BY <1>1, <1>2, <1>3, BeforeTransitive
  <1>5. CASE Suppressed(top)
    BY <1>1, <1>4, <1>5 DEF Suppressed
  <1>6. CASE Emitted(top)
    <2>1. /\ Len(emitted') = Len(emitted) + 1
          /\ \A p \in 1 .. Len(emitted) : emitted'[p] = emitted[p]
          /\ SameRow(emitted'[Len(emitted) + 1], top)
      BY <1>6 DEF Emitted
    <2>2. \A m \in heap' : Before(emitted'[Len(emitted) + 1], m)
      BY <1>3, <2>1, BeforeSame
    <2>3. \A q \in 1 .. Len(emitted) : Before(emitted[q], emitted'[Len(emitted) + 1])
      <3>1. \A q \in 1 .. Len(emitted) : Before(emitted[q], top)
        BY <1>1
      <3> QED
        BY <2>1, <3>1 DEF SameRow, Before
    <2>4. \A p \in 1 .. Len(emitted') : p \in 1 .. Len(emitted) \/ p = Len(emitted) + 1
      BY <1>2, <2>1
    <2>5. \A p \in 1 .. Len(emitted) : \A q \in 1 .. p - 1 : q \in 1 .. Len(emitted)
      BY <1>2
    <2>6. \A q \in 1 .. (Len(emitted) + 1) - 1 : q \in 1 .. Len(emitted)
      BY <1>2
    <2> QED
      BY <1>1, <1>4, <2>1, <2>2, <2>3, <2>4, <2>5, <2>6
  <1> QED
    BY <1>5, <1>6, SettleFacts

\* Every step keeps the invariant.
LEMMA StepOrder ==
  ASSUME TypeOK, TypeOK', FlowInv, FlowInv', OrderInv, Next
  PROVE  OrderInv'
  <1>1. CASE QuietStep
    <2>1. UNCHANGED <<heap, pulled, emitted>>
      BY <1>1, QuietKeeps
    <2> QED
      BY <2>1 DEF OrderInv, InputsChronological
  <1>2. ASSUME NEW us \in Times, NEW c \in Contents, PrimeRecord(us, c) PROVE OrderInv'
    <2>1. emitted' = emitted /\ primed < N
      BY <1>2, PrimeYields
    <2>2. Len(emitted') = 0
      BY <2>1 DEF FlowInv, PulledInv
    <2> QED
      BY <2>2 DEF OrderInv
  <1>3. ASSUME NEW top \in heap, NEW us \in Times, NEW c \in Contents, PopThenRecord(top, us, c)
        PROVE  OrderInv'
    <2>1. PICK m \in Row : Yields(top.input, m) /\ heap' = (heap \ {top}) \union {m}
      BY <1>3, PopYields
    <2>2. top.input \in Inputs /\ Pop(top)
      BY <1>3, PopYields
    <2>3. Grows
      BY <2>1, <2>2, YieldFacts
    <2>4. InputsChronological' => Before(top, m)
      BY <2>1, NextFollows
    <2> QED
      BY <2>1, <2>2, <2>3, <2>4, PopOrder
  <1>4. ASSUME NEW top \in heap, PopThenStop(top) PROVE OrderInv'
    BY <1>4, StopReplaced, PopOrder
  <1> QED
    BY <1>1, <1>2, <1>3, <1>4, StepKinds

\* The rows are in the heap's order while the inputs are chronological.
THEOREM OrderInvariance == Spec => [](TypeOK /\ FlowInv /\ OrderInv)
  <1>1. Init => OrderInv
    BY DEF Init, OrderInv
  <1>2. TypeOK /\ TypeOK' /\ FlowInv /\ FlowInv' /\ OrderInv /\ [Next]_vars => OrderInv'
    <2>1. OrderInv /\ UNCHANGED vars => OrderInv'
      BY DEF vars, OrderInv, InputsChronological
    <2> QED
      BY <2>1, StepOrder
  <1> QED
    BY <1>1, <1>2, FlowInvariance, PTL DEF Spec

\* L2-MRG-002, L2-MRG-006: no row comes out before one it precedes, and the
\* rows of one input come out in capture order.
THEOREM RowsAreMergedInOrder == Spec => []MergedInOrder
  <1>1. TypeOK /\ FlowInv /\ OrderInv => MergedInOrder
    <2> SUFFICES ASSUME TypeOK, FlowInv, OrderInv PROVE MergedInOrder
      OBVIOUS
    <2>1. DOMAIN emitted = 1 .. Len(emitted)
      BY DEF TypeOK
    <2> QED
      BY <2>1 DEF MergedInOrder, OrderInv, FlowInv, OnceInv
  <1> QED
    BY <1>1, OrderInvariance, PTL

-----------------------------------------------------------------------------
(* The survivors, and what is collapsed against them.                      *)

\* A row witnesses the transaction m: what DedupWindow looks for.
Witnesses(row, m, window) ==
  /\ row.input # m.input /\ row.content = m.content
  /\ Distance(row.us, m.us) <= window

\* A survivor is a row, under its place ...
SurvivorsKnown ==
  /\ ~opts.collapse => survivors = {} /\ collapsed = <<>>
  /\ \A s \in survivors :
       /\ s.arrival \in 1 .. Len(emitted)
       /\ emitted[s.arrival].us = s.us /\ emitted[s.arrival].input = s.input
       /\ emitted[s.arrival].content = s.content
  /\ \A d \in 1 .. Len(collapsed) : collapsed[d].after <= Len(emitted)

\* ... they are few ...
SurvivorsFew ==
  IsFiniteSet(survivors) /\ SurvivorsBounded

\* ... and, on chronological inputs and under the cap, a row that is none is
\* out of the reach of every record to come.
SurvivorsEnough ==
  InputsChronological /\ opts.collapse /\ Len(emitted) <= opts.maxSurvivors =>
    \A p \in 1 .. Len(emitted) :
      \/ \E s \in survivors : s.arrival = p
      \/ \A m \in heap : emitted[p].us + opts.window < m.us

Witnessing ==
  /\ \A d \in 1 .. Len(collapsed) :
       /\ opts.collapse
       /\ \E p \in 1 .. collapsed[d].after :
            Witnesses(emitted[p], collapsed[d].row, opts.window)
  /\ InputsChronological /\ opts.collapse /\ Len(emitted) <= opts.maxSurvivors =>
       \A q \in 1 .. Len(emitted) : \A p \in 1 .. q - 1 :
         ~Witnesses(emitted[p], emitted[q], opts.window)

CollapseInv == SurvivorsKnown /\ SurvivorsFew /\ SurvivorsEnough /\ Witnessing

\* The options are numbers where they should be.
LEMMA OptionTypes ==
  ASSUME TypeOK
  PROVE  opts.window \in Nat /\ opts.maxSurvivors \in Nat /\ opts.maxSurvivors > 0
  BY ConstantsAssumption DEF TypeOK, ConstantsAssumption, OptionRecords

\* A survivor is typed.
LEMMA SurvivorTypes ==
  ASSUME TypeOK
  PROVE  \A s \in survivors :
           /\ s \in [us : Times, input : Inputs, content : Contents, arrival : Nat]
           /\ s.us \in Nat /\ s.arrival \in Nat
  <1>1. survivors \subseteq [us : Times, input : Inputs, content : Contents, arrival : Nat]
    BY DEF TypeOK
  <1> QED
    BY <1>1, ConstantsAssumption DEF ConstantsAssumption

\* There are no more survivors than rows: each has its own place.
LEMMA SurvivorsAreRows ==
  ASSUME TypeOK, SurvivorsKnown, IsFiniteSet(survivors)
  PROVE  Cardinality(survivors) \in Nat /\ Cardinality(survivors) <= Len(emitted)
  <1> DEFINE place == [s \in survivors |-> s.arrival]
  <1>1. Len(emitted) \in Nat
    BY RowTypes
  <1>2. place \in [survivors -> 1 .. Len(emitted)]
    BY DEF SurvivorsKnown
  <1>3. ASSUME NEW a \in survivors, NEW b \in survivors, a.arrival = b.arrival
        PROVE  a = b
    <2>1. a.us = b.us /\ a.input = b.input /\ a.content = b.content
      BY <1>3 DEF SurvivorsKnown
    <2>2. /\ a \in [us : Times, input : Inputs, content : Contents, arrival : Nat]
          /\ b \in [us : Times, input : Inputs, content : Contents, arrival : Nat]
      BY DEF TypeOK
    <2> QED
      BY <1>3, <2>1, <2>2
  <1>4. place \in Injection(survivors, 1 .. Len(emitted))
    BY <1>2, <1>3 DEF Injection, IsInjective
  <1>5. IsFiniteSet(1 .. Len(emitted)) /\ Cardinality(1 .. Len(emitted)) = Len(emitted)
    <2> DEFINE k == Len(emitted)
    <2> HIDE DEF k
    <2>1. k \in Int /\ 1 \in Int /\ ~(1 > k /\ k # 0) /\ k - 1 + 1 = k
      BY <1>1 DEF k
    <2>2. IsFiniteSet(1 .. k) /\ Cardinality(1 .. k) = IF 1 > k THEN 0 ELSE k - 1 + 1
      BY <2>1, FS_Interval
    <2> QED
      BY <2>1, <2>2 DEF k
  <1>6. Cardinality(survivors) <= Cardinality(1 .. Len(emitted))
    BY <1>4, <1>5, FS_Injection
  <1> QED
    BY <1>5, <1>6, FS_CardinalityType

\* Whichever way the record went, it is the one popped last.
LEMMA PoppedLast ==
  ASSUME TypeOK, SurvivorsKnown, NEW top \in heap, Pop(top)
  PROVE  LastUs' = top.us
  <1>1. Len(emitted) \in Nat /\ Len(collapsed) \in Nat
    BY RowTypes
  <1>2. CASE Suppressed(top)
    <2>1. /\ Len(collapsed') = Len(collapsed) + 1 /\ emitted' = emitted
          /\ collapsed'[Len(collapsed')] = [row |-> top, after |-> Len(emitted)]
      BY <1>2 DEF Suppressed
    <2>2. collapsed' # <<>>
      BY <1>1, <2>1
    <2> QED
      BY <2>1, <2>2 DEF LastUs, Last
  <1>3. CASE Emitted(top)
    <2>1. /\ Len(emitted') = Len(emitted) + 1 /\ collapsed' = collapsed
          /\ emitted'[Len(emitted')].us = top.us
      BY <1>3 DEF Emitted, SameRow
    <2>2. collapsed # <<>> => Len(collapsed) \in 1 .. Len(collapsed)
      BY <1>1 DEF TypeOK
    <2>3. collapsed # <<>> => /\ collapsed[Len(collapsed)].after <= Len(emitted)
                              /\ collapsed[Len(collapsed)].after \in Nat
      BY <2>2, RowTypes DEF SurvivorsKnown
    <2>4. ~(collapsed' # <<>> /\ collapsed'[Len(collapsed')].after = Len(emitted'))
      BY <1>1, <2>1, <2>3
    <2> QED
      BY <2>1, <2>4 DEF LastUs, Last
  <1> QED
    BY <1>2, <1>3, SettleFacts

\* What retain leaves.
LEMMA Retained ==
  ASSUME TypeOK, SurvivorsFew, NEW us
  PROVE  /\ InWindow(us) \subseteq survivors /\ IsFiniteSet(InWindow(us))
         /\ Cardinality(InWindow(us)) \in Nat
         /\ Cardinality(InWindow(us)) <= Cardinality(survivors)
         /\ Cardinality(InWindow(us)) <= opts.maxSurvivors
  <1>1. InWindow(us) \in SUBSET survivors
    BY DEF InWindow
  <1>2. /\ IsFiniteSet(survivors) /\ Cardinality(survivors) <= opts.maxSurvivors
        /\ Cardinality(survivors) \in Nat
    BY FS_CardinalityType DEF SurvivorsFew, SurvivorsBounded
  <1>3. /\ IsFiniteSet(InWindow(us)) /\ Cardinality(InWindow(us)) <= Cardinality(survivors)
    BY <1>1, <1>2, FS_Subset
  <1>4. Cardinality(InWindow(us)) \in Nat
    BY <1>3, FS_CardinalityType
  <1> QED
    BY <1>1, <1>2, <1>3, <1>4, OptionTypes

\* The row as it is remembered.
Remembered(top) ==
  [us |-> top.us, input |-> top.input, content |-> top.content,
   arrival |-> Len(emitted) + 1]

\* The survivors after a pop: some of the retained ones, and the new row if
\* there is one and rows are collapsed at all.
LEMMA PopSurvivors ==
  ASSUME TypeOK, SurvivorsKnown, SurvivorsFew, NEW top \in heap, Pop(top)
  PROVE  /\ \A s \in survivors' :
              \/ s \in InWindow(top.us)
              \/ s = Remembered(top) /\ Emitted(top)
              \/ ~opts.collapse /\ s \in survivors
         /\ IsFiniteSet(survivors') /\ Cardinality(survivors') <= opts.maxSurvivors
         /\ ~opts.collapse => survivors' = {}
  <1> DEFINE kept == InWindow(top.us)
             new == Remembered(top)
  <1>1. /\ kept \subseteq survivors /\ IsFiniteSet(kept) /\ Cardinality(kept) \in Nat
        /\ Cardinality(kept) <= opts.maxSurvivors
    BY Retained
  <1>2. opts.maxSurvivors \in Nat
    BY OptionTypes
  <1>3. CASE Suppress(top)
    <2>1. survivors' = kept /\ opts.collapse
      BY <1>3 DEF Suppress, IsDuplicate
    <2> QED
      BY <1>1, <2>1
  <1>4. CASE Emit(top) /\ Emitted(top) /\ ~opts.collapse
    <2>1. survivors' = survivors /\ survivors = {}
      BY <1>4 DEF Emit, SurvivorsKnown
    <2> QED
      BY <1>2, <1>4, <2>1, FS_EmptySet, OptionTypes
  <1>5. CASE Emit(top) /\ Emitted(top) /\ opts.collapse
    <2>1. Remember(top)
      BY <1>5 DEF Emit
    <2>2. CASE Cardinality(kept) < opts.maxSurvivors /\ survivors' = kept \union {new}
      <3>1. IsFiniteSet(survivors')
            /\ Cardinality(survivors') <= Cardinality(kept) + 1
        <4>1. /\ IsFiniteSet(kept \union {new})
              /\ Cardinality(kept \union {new}) = IF new \in kept THEN Cardinality(kept)
                                                  ELSE Cardinality(kept) + 1
          BY <1>1, FS_AddElement
        <4> QED
          BY <1>1, <2>2, <4>1
      <3>2. Cardinality(survivors') \in Nat
        BY <3>1, FS_CardinalityType
      <3> QED
        BY <1>1, <1>2, <1>5, <2>2, <3>1, <3>2
    <2>3. ASSUME NEW oldest \in kept, survivors' = (kept \ {oldest}) \union {new}
          PROVE  /\ IsFiniteSet(survivors') /\ Cardinality(survivors') <= opts.maxSurvivors
                 /\ \A s \in survivors' : s \in kept \/ s = new
      <3>1. IsFiniteSet(kept \ {oldest}) /\ Cardinality(kept \ {oldest}) = Cardinality(kept) - 1
        BY <1>1, <2>3, FS_RemoveElement
      <3>2. IsFiniteSet(survivors')
            /\ Cardinality(survivors') <= Cardinality(kept \ {oldest}) + 1
        BY <1>1, <2>3, <3>1, FS_AddElement
      <3>3. Cardinality(survivors') \in Nat
        BY <3>2, FS_CardinalityType
      <3> QED
        BY <1>1, <1>2, <2>3, <3>1, <3>2, <3>3
    <2> QED
      BY <1>5, <2>1, <2>2, <2>3 DEF Remember, Remembered
  <1> QED
    BY <1>3, <1>4, <1>5, SettleFacts

\* Popping a record keeps the survivors among the rows handed on.
LEMMA PopKnownSurvivors ==
  ASSUME TypeOK, SurvivorsKnown, SurvivorsFew, NEW top \in heap, Pop(top)
  PROVE  SurvivorsKnown'
  <1>1. opts' = opts
    BY DEF Pop
  <1>2. Len(emitted) \in Nat /\ Len(collapsed) \in Nat
    BY RowTypes
  <1>3. ASSUME NEW s \in InWindow(top.us) PROVE s \in survivors
    BY Retained
  <1>4. \A s \in survivors :
          /\ s.arrival \in 1 .. Len(emitted)
          /\ emitted[s.arrival].us = s.us /\ emitted[s.arrival].input = s.input
          /\ emitted[s.arrival].content = s.content
    BY DEF SurvivorsKnown
  <1>5. CASE Suppress(top) /\ Suppressed(top)
    <2>1. emitted' = emitted /\ opts.collapse /\ survivors' = InWindow(top.us)
      BY <1>5 DEF Suppressed, Suppress, IsDuplicate
    <2>2. \A d \in 1 .. Len(collapsed') : collapsed'[d].after <= Len(emitted')
      <3>1. \A d \in 1 .. Len(collapsed') :
              \/ d \in 1 .. Len(collapsed) /\ collapsed'[d] = collapsed[d]
              \/ collapsed'[d].after = Len(emitted)
        BY <1>2, <1>5 DEF Suppressed
      <3> QED
        BY <1>2, <2>1, <3>1 DEF SurvivorsKnown
    <2> QED
      BY <1>1, <1>3, <1>4, <2>1, <2>2 DEF SurvivorsKnown
  <1>6. CASE Emit(top) /\ Emitted(top)
    <2>1. /\ collapsed' = collapsed /\ Len(emitted') = Len(emitted) + 1
          /\ \A p \in 1 .. Len(emitted) : emitted'[p] = emitted[p]
          /\ SameRow(emitted'[Len(emitted) + 1], top)
      BY <1>6 DEF Emitted
    <2>2. \A s \in survivors' : s \in survivors \/ s = Remembered(top)
      BY <1>3, PopSurvivors
    <2>3. \A d \in 1 .. Len(collapsed') : collapsed'[d].after <= Len(emitted')
      BY <1>2, <2>1, RowTypes DEF SurvivorsKnown
    <2>4. ~opts'.collapse => survivors' = {} /\ collapsed' = <<>>
      BY <1>1, <2>1, PopSurvivors DEF SurvivorsKnown
    <2>5. ASSUME NEW s \in survivors'
          PROVE  /\ s.arrival \in 1 .. Len(emitted')
                 /\ emitted'[s.arrival].us = s.us /\ emitted'[s.arrival].input = s.input
                 /\ emitted'[s.arrival].content = s.content
      <3>1. CASE s \in survivors
        BY <1>2, <1>4, <2>1, <3>1
      <3>2. CASE s = Remembered(top)
        <4>1. s.arrival = Len(emitted) + 1 /\ s.us = top.us /\ s.input = top.input
              /\ s.content = top.content
          BY <3>2 DEF Remembered
        <4> QED
          BY <1>2, <2>1, <4>1 DEF SameRow
      <3> QED
        BY <2>2, <3>1, <3>2
    <2> QED
      BY <2>3, <2>4, <2>5 DEF SurvivorsKnown
  <1> QED
    BY <1>5, <1>6, SettleFacts

\* Popping a record keeps the survivors within their bound: one is added only
\* after the oldest has made room.
LEMMA PopFewSurvivors ==
  ASSUME TypeOK, SurvivorsKnown, SurvivorsFew, NEW top \in heap, Pop(top)
  PROVE  SurvivorsFew'
  <1>1. opts' = opts /\ LastUs' = top.us
    BY PoppedLast DEF Pop
  <1>2. top.us \in Nat /\ opts.window \in Nat
    BY RowTypes, OptionTypes
  <1>3. \A s \in survivors' : Distance(s.us, top.us) <= opts.window
    <2>1. \A s \in survivors' : s \in InWindow(top.us) \/ s = Remembered(top)
      BY PopSurvivors
    <2>2. Remembered(top).us = top.us
      BY DEF Remembered
    <2> QED
      BY <1>2, <2>1, <2>2 DEF InWindow, Distance
  <1>4. IsFiniteSet(survivors') /\ Cardinality(survivors') <= opts.maxSurvivors
    BY PopSurvivors
  <1> QED
    BY <1>1, <1>3, <1>4 DEF SurvivorsFew, SurvivorsBounded

\* A pop leaves the rows before it as they were.
LEMMA RowsKept ==
  ASSUME TypeOK, NEW top \in heap, Pop(top)
  PROVE  /\ opts' = opts
         /\ Len(emitted) \in Nat /\ Len(emitted') \in Nat /\ Len(emitted) <= Len(emitted')
         /\ \A p \in 1 .. Len(emitted) : emitted'[p] = emitted[p]
         /\ \A p \in 1 .. Len(emitted') :
              p \in 1 .. Len(emitted) \/ (p = Len(emitted) + 1 /\ Emitted(top))
  <1>1. Len(emitted) \in Nat /\ opts' = opts
    BY RowTypes DEF Pop
  <1>2. CASE Suppressed(top)
    BY <1>1, <1>2 DEF Suppressed
  <1>3. CASE Emitted(top)
    <2>1. Len(emitted') = Len(emitted) + 1
          /\ \A p \in 1 .. Len(emitted) : emitted'[p] = emitted[p]
      BY <1>3 DEF Emitted
    <2> QED
      BY <1>1, <1>3, <2>1
  <1> QED
    BY <1>2, <1>3, SettleFacts

\* Under the cap no survivor is pushed out.
LEMMA AllRetained ==
  ASSUME TypeOK, SurvivorsKnown, SurvivorsFew, NEW top \in heap, Pop(top),
         opts.collapse, Len(emitted') <= opts.maxSurvivors
  PROVE  /\ InWindow(top.us) \subseteq survivors'
         /\ Emitted(top) => Remembered(top) \in survivors'
  <1>1. CASE Suppress(top) /\ Suppressed(top)
    <2>1. survivors' = InWindow(top.us) /\ Len(emitted') # Len(emitted) + 1
      BY <1>1, RowTypes DEF Suppress, Suppressed
    <2> QED
      BY <2>1 DEF Emitted
  <1>2. CASE Emit(top) /\ Emitted(top)
    <2>1. Remember(top) /\ Len(emitted') = Len(emitted) + 1
      BY <1>2 DEF Emit, Emitted
    <2>2. /\ Cardinality(InWindow(top.us)) <= Cardinality(survivors)
          /\ Cardinality(survivors) <= Len(emitted) /\ Cardinality(survivors) \in Nat
          /\ Cardinality(InWindow(top.us)) \in Nat
      BY Retained, SurvivorsAreRows DEF SurvivorsFew
    <2>3. Cardinality(InWindow(top.us)) < opts.maxSurvivors
      BY <2>1, <2>2, RowTypes, OptionTypes
    <2>4. survivors' = InWindow(top.us) \union {Remembered(top)}
      BY <2>1, <2>2, <2>3, OptionTypes DEF Remember, Remembered
    <2> QED
      BY <2>4
  <1> QED
    BY <1>1, <1>2, SettleFacts

\* A row that leaves the window stays out of reach: the records to come are
\* no earlier than the one just popped.
LEMMA PopEnoughSurvivors ==
  ASSUME TypeOK, TypeOK', OrderInv, SurvivorsKnown, SurvivorsFew, SurvivorsEnough, Grows,
         NEW top \in heap, Pop(top),
         InputsChronological' => \A m \in heap' : top.us <= m.us
  PROVE  SurvivorsEnough'
  <1>1. opts' = opts
    BY DEF Pop
  <1>2. Len(emitted) \in Nat /\ Len(emitted) <= Len(emitted')
        /\ \A p \in 1 .. Len(emitted) : emitted'[p] = emitted[p]
    BY RowsKept
  <1> SUFFICES ASSUME InputsChronological', opts.collapse, Len(emitted') <= opts.maxSurvivors,
                      NEW p \in 1 .. Len(emitted')
               PROVE  \/ \E s \in survivors' : s.arrival = p
                      \/ \A m \in heap' : emitted'[p].us + opts.window < m.us
    BY <1>1 DEF SurvivorsEnough
  <1>3. InWindow(top.us) \subseteq survivors' /\ (Emitted(top) => Remembered(top) \in survivors')
    BY AllRetained
  <1>4. /\ top.us \in Nat /\ opts.window \in Nat /\ Len(emitted') \in Nat
        /\ \A m \in heap' : m.us \in Nat /\ top.us <= m.us
    <2>1. \A m \in heap' : m \in Row
      BY DEF TypeOK
    <2>2. \A m \in Row : m.us \in Nat
      BY ConstantsAssumption DEF Row, ConstantsAssumption
    <2>3. Len(emitted') \in Nat
      BY RowsKept
    <2> QED
      BY <2>1, <2>2, <2>3, RowTypes, OptionTypes
  <1>5. CASE p \notin 1 .. Len(emitted)
    <2>1. Emitted(top) /\ p = Len(emitted) + 1
      BY <1>5, RowsKept
    <2>2. Remembered(top).arrival = p
      BY <2>1 DEF Remembered
    <2> QED
      BY <1>3, <2>1, <2>2
  <1>6. CASE p \in 1 .. Len(emitted)
    <2>1. /\ emitted[p].us \in Nat /\ Before(emitted[p], top)
          /\ emitted'[p] = emitted[p]
      BY <1>2, <1>6, WasChronological, RowTypes DEF OrderInv
    <2>2. emitted[p].us <= top.us
      BY <1>4, <2>1 DEF Before
    <2>3. \/ \E s \in survivors : s.arrival = p
          \/ emitted[p].us + opts.window < top.us
      <3>1. Len(emitted) <= opts.maxSurvivors /\ InputsChronological
        BY <1>2, <1>4, WasChronological, OptionTypes
      <3> QED
        BY <1>6, <3>1 DEF SurvivorsEnough
    <2>4. CASE \E s \in survivors : s.arrival = p
      <3>1. PICK s \in survivors : s.arrival = p
        BY <2>4
      <3>2. s.us = emitted[p].us
        BY <3>1 DEF SurvivorsKnown
      <3>3. CASE s \in InWindow(top.us)
        BY <1>3, <3>1, <3>3
      <3>4. CASE s \notin InWindow(top.us)
        <4>1. ~(Distance(s.us, top.us) <= opts.window)
          BY <3>4 DEF InWindow
        <4>2. emitted[p].us + opts.window < top.us
          BY <1>4, <2>1, <2>2, <3>2, <4>1 DEF Distance
        <4> QED
          BY <1>4, <2>1, <4>2
      <3> QED
        BY <3>3, <3>4
    <2>5. CASE emitted[p].us + opts.window < top.us
      BY <1>4, <2>1, <2>5
    <2> QED
      BY <2>3, <2>4, <2>5
  <1> QED
    BY <1>5, <1>6

\* A record is suppressed for a survivor that witnesses it; a row is emitted
\* because none did, which under the cap means that no row did.
LEMMA PopWitnessing ==
  ASSUME TypeOK, TypeOK', CollapseInv, OrderInv, Grows, NEW top \in heap, Pop(top)
  PROVE  Witnessing'
  <1> DEFINE w == opts.window
  <1>1. /\ opts' = opts /\ Len(emitted) \in Nat /\ Len(emitted') \in Nat
        /\ Len(emitted) <= Len(emitted') /\ Len(collapsed) \in Nat
        /\ \A p \in 1 .. Len(emitted) : emitted'[p] = emitted[p]
    BY RowsKept, RowTypes
  <1>2. top.us \in Nat /\ w \in Nat /\ \A p \in 1 .. Len(emitted) : emitted[p].us \in Nat
    BY RowTypes, OptionTypes
  <1>3. ASSUME NEW d \in 1 .. Len(collapsed')
        PROVE  /\ opts'.collapse
               /\ \E p \in 1 .. collapsed'[d].after :
                    Witnesses(emitted'[p], collapsed'[d].row, opts'.window)
    <2>1. CASE d \in 1 .. Len(collapsed) /\ collapsed'[d] = collapsed[d]
      <3>1. PICK p \in 1 .. collapsed[d].after : Witnesses(emitted[p], collapsed[d].row, w)
        BY <2>1 DEF CollapseInv, Witnessing
      <3>2. opts.collapse /\ collapsed[d].after <= Len(emitted) /\ collapsed[d].after \in Nat
        BY <2>1, RowTypes DEF CollapseInv, Witnessing, SurvivorsKnown
      <3>3. p \in 1 .. Len(emitted)
        BY <1>1, <3>2
      <3> QED
        BY <1>1, <2>1, <3>1, <3>2, <3>3
    <2>2. CASE Suppress(top) /\ collapsed'[d] = [row |-> top, after |-> Len(emitted)]
      <3>1. PICK s \in InWindow(top.us) : Matches(s, top)
        BY <2>2 DEF Suppress, IsDuplicate
      <3>2. opts.collapse /\ s \in survivors /\ Distance(s.us, top.us) <= w
        BY <2>2 DEF Suppress, IsDuplicate, InWindow
      <3>3. /\ s.arrival \in 1 .. Len(emitted) /\ emitted[s.arrival].us = s.us
            /\ emitted[s.arrival].input = s.input /\ emitted[s.arrival].content = s.content
        BY <3>2 DEF CollapseInv, SurvivorsKnown
      <3>4. Witnesses(emitted[s.arrival], top, w)
        BY <3>1, <3>2, <3>3 DEF Matches, Witnesses
      <3>5. collapsed'[d].row = top /\ collapsed'[d].after = Len(emitted)
        BY <2>2
      <3> QED
        BY <1>1, <3>2, <3>3, <3>4, <3>5
    <2> QED
      <3>1. CASE Suppress(top) /\ Suppressed(top)
        <4>1. \/ d \in 1 .. Len(collapsed) /\ collapsed'[d] = collapsed[d]
              \/ collapsed'[d] = [row |-> top, after |-> Len(emitted)]
          BY <1>1, <3>1 DEF Suppressed
        <4> QED
          BY <2>1, <2>2, <3>1, <4>1
      <3>2. CASE Emitted(top)
        BY <2>1, <3>2 DEF Emitted
      <3> QED
        BY <3>1, <3>2, SettleFacts
  <1>4. ASSUME InputsChronological', opts'.collapse, Len(emitted') <= opts'.maxSurvivors,
               NEW q \in 1 .. Len(emitted'), NEW p \in 1 .. q - 1
        PROVE  ~Witnesses(emitted'[p], emitted'[q], opts'.window)
    <2>1. InputsChronological /\ Len(emitted) <= opts.maxSurvivors
      BY <1>1, <1>4, WasChronological, OptionTypes
    <2>2. CASE q \in 1 .. Len(emitted)
      <3>1. p \in 1 .. Len(emitted)
        BY <1>1, <2>2
      <3> QED
        BY <1>1, <1>4, <2>1, <2>2, <3>1 DEF CollapseInv, Witnessing
    <2>3. CASE q \notin 1 .. Len(emitted)
      <3>1. q = Len(emitted) + 1 /\ Emitted(top)
        BY <2>3, RowsKept
      <3>2. p \in 1 .. Len(emitted) /\ emitted'[p] = emitted[p]
        BY <1>1, <3>1
      <3>3. ~IsDuplicate(top)
        <4>1. Len(emitted') = Len(emitted) + 1
          BY <3>1 DEF Emitted
        <4>2. ~Suppress(top) \/ ~Suppressed(top)
          BY <1>1, <4>1 DEF Suppressed
        <4>3. Emit(top)
          BY <4>2, SettleFacts
        <4> QED
          BY <4>3 DEF Emit
      <3>4. SameRow(emitted'[q], top)
        BY <3>1 DEF Emitted
      <3>5. ~Witnesses(emitted[p], top, w)
        <4> SUFFICES ASSUME Witnesses(emitted[p], top, w) PROVE FALSE
          OBVIOUS
        <4>1. CASE \E s \in survivors : s.arrival = p
          <5>1. PICK s \in survivors : s.arrival = p
            BY <4>1
          <5>2. s.us = emitted[p].us /\ s.input = emitted[p].input
                /\ s.content = emitted[p].content
            BY <5>1 DEF CollapseInv, SurvivorsKnown
          <5>3. s \in InWindow(top.us) /\ Matches(s, top)
            BY <5>2 DEF Witnesses, InWindow, Matches
          <5> QED
            BY <1>1, <1>4, <3>3, <5>3 DEF IsDuplicate
        <4>2. CASE emitted[p].us + w < top.us
          BY <1>2, <3>2, <4>2 DEF Witnesses, Distance
        <4> QED
          BY <1>1, <1>4, <2>1, <3>2, <4>1, <4>2 DEF CollapseInv, SurvivorsEnough
      <3> QED
        BY <1>1, <3>2, <3>4, <3>5 DEF Witnesses, SameRow
    <2> QED
      BY <2>2, <2>3
  <1> QED
    BY <1>3, <1>4 DEF Witnessing

\* A pop, whatever its input does next.
LEMMA PopCollapse ==
  ASSUME TypeOK, TypeOK', OrderInv, CollapseInv, Grows, NEW top \in heap, Pop(top),
         InputsChronological' => \A m \in heap' : top.us <= m.us
  PROVE  CollapseInv'
  BY PopKnownSurvivors, PopFewSurvivors, PopEnoughSurvivors, PopWitnessing DEF CollapseInv

\* Every step.
LEMMA StepCollapse ==
  ASSUME TypeOK, TypeOK', FlowInv, FlowInv', OrderInv, CollapseInv, Next
  PROVE  CollapseInv'
  <1>1. CASE QuietStep
    <2>1. UNCHANGED <<opts, heap, pulled, emitted, collapsed, survivors>>
      BY <1>1, QuietKeeps
    <2> QED
      BY <2>1
      DEF CollapseInv, SurvivorsKnown, SurvivorsFew, SurvivorsEnough, Witnessing,
          SurvivorsBounded, LastUs, InputsChronological
  <1>2. ASSUME NEW us \in Times, NEW c \in Contents, PrimeRecord(us, c) PROVE CollapseInv'
    <2>1. UNCHANGED <<opts, emitted, collapsed, survivors>> /\ primed < N
      BY <1>2, PrimeYields
    <2>2. Len(emitted) = 0 /\ Len(collapsed) = 0
      BY <2>1 DEF FlowInv, PulledInv
    <2>3. SurvivorsKnown' /\ SurvivorsFew'
      BY <2>1 DEF CollapseInv, SurvivorsKnown, SurvivorsFew, SurvivorsBounded, LastUs
    <2> QED
      BY <2>1, <2>2, <2>3 DEF CollapseInv, SurvivorsEnough, Witnessing
  <1>3. ASSUME NEW top \in heap, NEW us \in Times, NEW c \in Contents, PopThenRecord(top, us, c)
        PROVE  CollapseInv'
    <2>1. PICK m \in Row : Yields(top.input, m) /\ heap' = (heap \ {top}) \union {m}
      BY <1>3, PopYields
    <2>2. top.input \in Inputs /\ Pop(top)
      BY <1>3, PopYields
    <2>3. Grows
      BY <2>1, <2>2, YieldFacts
    <2>4. InputsChronological' => top.us <= m.us
      BY <2>1, NextFollows
    <2>5. \A o \in heap \ {top} : top.us <= o.us
      BY <2>2, RowTypes DEF Pop, IsTop, Before
    <2> QED
      BY <2>1, <2>2, <2>3, <2>4, <2>5, PopCollapse
  <1>4. ASSUME NEW top \in heap, PopThenStop(top) PROVE CollapseInv'
    <2>1. Pop(top) /\ Grows /\ heap' = heap \ {top}
      BY <1>4, StopReplaced
    <2>2. \A o \in heap \ {top} : top.us <= o.us
      BY <2>1, RowTypes DEF Pop, IsTop, Before
    <2> QED
      BY <2>1, <2>2, PopCollapse
  <1> QED
    BY <1>1, <1>2, <1>3, <1>4, StepKinds

\* No row was handed on and none survives.
LEMMA InitCollapse == Init => TypeOK /\ CollapseInv
  <1> SUFFICES ASSUME Init PROVE CollapseInv
    BY InitType
  <1>1. survivors = {} /\ emitted = <<>> /\ collapsed = <<>>
    BY DEF Init
  <1>2. opts.maxSurvivors \in Nat
    BY InitType, OptionTypes
  <1>3. Len(emitted) = 0 /\ Len(collapsed) = 0
    BY <1>1
  <1> QED
    BY <1>1, <1>2, <1>3, FS_EmptySet
    DEF CollapseInv, SurvivorsKnown, SurvivorsFew, SurvivorsEnough, Witnessing, SurvivorsBounded

\* The survivors stand for the rows that a record to come may be a copy of.
THEOREM CollapseInvariance == Spec => [](TypeOK /\ FlowInv /\ CollapseInv)
  <1>1. TypeOK /\ TypeOK' /\ FlowInv /\ FlowInv' /\ OrderInv /\ CollapseInv /\ [Next]_vars
          => CollapseInv'
    <2>1. CollapseInv /\ UNCHANGED vars => CollapseInv'
      BY DEF vars, CollapseInv, SurvivorsKnown, SurvivorsFew, SurvivorsEnough, Witnessing,
             SurvivorsBounded, LastUs, InputsChronological
    <2> QED
      BY <2>1, StepCollapse
  <1> QED
    BY <1>1, InitCollapse, OrderInvariance, PTL DEF Spec

\* L2-MRG-007, L2-MRG-008: never more survivors than the cap, and none outside
\* the window of the record just tested.
THEOREM SurvivorsAreBounded == Spec => []SurvivorsBounded
  <1>1. CollapseInv => SurvivorsBounded
    BY DEF CollapseInv, SurvivorsFew
  <1> QED
    BY <1>1, CollapseInvariance, PTL

\* L2-MRG-007: what is suppressed had a witness; and on chronological inputs,
\* under the cap, what is a row had none.
THEOREM CollapsingIsExact == Spec => []CollapsedIffWitnessed
  <1>1. TypeOK /\ CollapseInv => CollapsedIffWitnessed
    <2> SUFFICES ASSUME TypeOK, CollapseInv PROVE CollapsedIffWitnessed
      OBVIOUS
    <2>1. /\ DOMAIN emitted = 1 .. Len(emitted)
          /\ ToSet(collapsed) = {collapsed[d] : d \in 1 .. Len(collapsed)}
      BY DEF TypeOK, ToSet
    <2>2. ASSUME NEW d \in ToSet(collapsed)
          PROVE  /\ opts.collapse
                 /\ \E p \in 1 .. d.after :
                      /\ emitted[p].input # d.row.input /\ emitted[p].content = d.row.content
                      /\ Distance(emitted[p].us, d.row.us) <= opts.window
      BY <2>1 DEF CollapseInv, Witnessing, Witnesses
    <2>3. ASSUME opts.collapse, InputsChronological, Len(emitted) <= opts.maxSurvivors,
                 NEW q \in DOMAIN emitted, NEW p \in 1 .. q - 1
          PROVE  ~ /\ emitted[p].input # emitted[q].input
                   /\ emitted[p].content = emitted[q].content
                   /\ Distance(emitted[p].us, emitted[q].us) <= opts.window
      BY <2>1, <2>3 DEF CollapseInv, Witnessing, Witnesses
    <2> QED
      BY <2>2, <2>3 DEF CollapsedIffWitnessed
  <1> QED
    BY <1>1, CollapseInvariance, PTL

-----------------------------------------------------------------------------
(* The rows DELTA is measured from.                                        *)

\* The earlier rows of a key.
SameKey(s, p) == {q \in 1 .. p - 1 : s[q].content = s[p].content}

\* DELTA by name.
LEMMA GapShape ==
  ASSUME NEW s, NEW p
  PROVE  GapFromLast(s, p) =
           IF s[p].content \notin DeltaKeys THEN None
           ELSE IF SameKey(s, p) = {} THEN Some(0)
           ELSE IF s[LastOf(SameKey(s, p))].us <= s[p].us
                THEN Some(s[p].us - s[LastOf(SameKey(s, p))].us)
                ELSE None
  BY DEF GapFromLast, SameKey, LastOf

\* t is s with e behind it, as far as DELTA looks.
Extended(s, t, e) ==
  /\ Len(s) \in Nat /\ Len(t) = Len(s) + 1
  /\ \A q \in 1 .. Len(s) :
       t[q].content = s[q].content /\ t[q].us = s[q].us /\ s[q].us \in Nat
  /\ t[Len(s) + 1].content = e.content /\ t[Len(s) + 1].us = e.us /\ e.us \in Nat

\* What comes later does not change a gap.
LEMMA GapOfPrefix ==
  ASSUME NEW s, NEW t, NEW p \in Nat \ {0},
         \A q \in 1 .. p : t[q].content = s[q].content /\ t[q].us = s[q].us
  PROVE  GapFromLast(t, p) = GapFromLast(s, p)
  <1>1. p \in 1 .. p /\ \A q \in 1 .. p - 1 : q \in 1 .. p
    OBVIOUS
  <1>2. SameKey(t, p) = SameKey(s, p)
    BY <1>1 DEF SameKey
  <1>3. SameKey(s, p) # {} => LastOf(SameKey(s, p)) \in 1 .. p
    <2>1. SameKey(s, p) \in SUBSET (1 .. p)
      BY <1>1 DEF SameKey
    <2> QED
      BY <2>1, LastOfPlaces
  <1>4. SameKey(s, p) # {} => t[LastOf(SameKey(s, p))].us = s[LastOf(SameKey(s, p))].us
    BY <1>3
  <1> QED
    BY <1>1, <1>2, <1>4, GapShape
\* A tracker remembers the time of the last row of every key.
Cursor(last, s) ==
  \A k \in DeltaKeys :
    \/ last[k] = None /\ \A h \in 1 .. Len(s) : s[h].content # k
    \/ \E q \in 1 .. Len(s) :
         /\ s[q].content = k /\ last[k] = Some(s[q].us)
         /\ \A h \in 1 .. Len(s) : s[h].content = k => h <= q

\* The cursor gives the gap to the last row of the key ...
LEMMA CursorGap ==
  ASSUME NEW s, NEW t, NEW e, Extended(s, t, e), NEW last, Cursor(last, s)
  PROVE  GapFromLast(t, Len(s) + 1) = Gap(last, e)
  <1> DEFINE p == Len(s) + 1
             k == e.content
             same == SameKey(t, p)
  <1>1. Len(s) \in Nat /\ p - 1 = Len(s) /\ t[p].content = k /\ t[p].us = e.us /\ e.us \in Nat
    BY DEF Extended
  <1>2. \A q \in 1 .. Len(s) : /\ t[q].content = s[q].content /\ t[q].us = s[q].us
                               /\ s[q].us \in Nat
    BY DEF Extended
  <1>3. same = {q \in 1 .. Len(s) : s[q].content = k}
    BY <1>1, <1>2 DEF SameKey
  <1> HIDE DEF same, p
  <1>4. GapFromLast(t, p) = IF k \notin DeltaKeys THEN None
                            ELSE IF same = {} THEN Some(0)
                            ELSE IF t[LastOf(same)].us <= e.us
                                 THEN Some(e.us - t[LastOf(same)].us) ELSE None
    BY <1>1, GapShape DEF same
  <1>5. CASE k \notin DeltaKeys
    BY <1>4, <1>5 DEF Gap, p
  <1>6. CASE k \in DeltaKeys /\ last[k] = None /\ \A h \in 1 .. Len(s) : s[h].content # k
    <2>1. same = {}
      BY <1>3, <1>6
    <2> QED
      BY <1>4, <1>6, <2>1 DEF Gap, GapSince, p
  <1>7. ASSUME k \in DeltaKeys, NEW q \in 1 .. Len(s), s[q].content = k, last[k] = Some(s[q].us),
               \A h \in 1 .. Len(s) : s[h].content = k => h <= q
        PROVE  GapFromLast(t, p) = Gap(last, e)
    <2>1. same \in SUBSET (1 .. Len(s)) /\ same # {} /\ q \in same
      BY <1>3, <1>7
    <2>2. LastOf(same) \in same /\ q <= LastOf(same)
      BY <1>1, <2>1, LastOfPlaces
    <2>3. LastOf(same) = q
      BY <1>1, <1>3, <1>7, <2>2
    <2>4. t[LastOf(same)].us = s[q].us /\ s[q].us \in Nat
      BY <1>2, <2>3
    <2>5. Gap(last, e) = IF s[q].us <= e.us THEN Some(e.us - s[q].us) ELSE None
      BY <1>1, <1>7, <2>4 DEF Gap, GapSince, Some, None
    <2> QED
      BY <1>4, <1>7, <2>1, <2>4, <2>5
  <1> QED
    BY <1>5, <1>6, <1>7 DEF Cursor, p

\* ... and follows the rows.
LEMMA CursorFollows ==
  ASSUME NEW s, NEW t, NEW e, Extended(s, t, e), NEW V, NEW last \in [DeltaKeys -> V],
         Cursor(last, s)
  PROVE  Cursor(Observed(last, e), t)
  <1> SUFFICES ASSUME NEW k \in DeltaKeys
               PROVE  \/ /\ Observed(last, e)[k] = None
                         /\ \A h \in 1 .. Len(t) : t[h].content # k
                      \/ \E q \in 1 .. Len(t) :
                           /\ t[q].content = k /\ Observed(last, e)[k] = Some(t[q].us)
                           /\ \A h \in 1 .. Len(t) : t[h].content = k => h <= q
    BY DEF Cursor
  <1>1. Len(s) \in Nat /\ Len(t) = Len(s) + 1
        /\ t[Len(s) + 1].content = e.content /\ t[Len(s) + 1].us = e.us
        /\ \A q \in 1 .. Len(s) : t[q].content = s[q].content /\ t[q].us = s[q].us
    BY DEF Extended
  <1>2. CASE k = e.content
    <2>1. Observed(last, e)[k] = Some(e.us)
      BY <1>2 DEF Observed
    <2>2. Len(s) + 1 \in 1 .. Len(t) /\ \A h \in 1 .. Len(t) : h <= Len(s) + 1
      BY <1>1
    <2> QED
      BY <1>1, <1>2, <2>1, <2>2
  <1>3. CASE k # e.content
    <2>1. Observed(last, e)[k] = last[k]
      BY <1>3 DEF Observed
    <2>2. \A h \in 1 .. Len(t) : h \in 1 .. Len(s) \/ h = Len(s) + 1
      BY <1>1
    <2>3. CASE last[k] = None /\ \A h \in 1 .. Len(s) : s[h].content # k
      BY <1>1, <1>3, <2>1, <2>2, <2>3
    <2>4. ASSUME NEW q \in 1 .. Len(s), s[q].content = k, last[k] = Some(s[q].us),
                 \A h \in 1 .. Len(s) : s[h].content = k => h <= q
          PROVE  \E r \in 1 .. Len(t) :
                   /\ t[r].content = k /\ Observed(last, e)[k] = Some(t[r].us)
                   /\ \A h \in 1 .. Len(t) : t[h].content = k => h <= r
      <3>1. q \in 1 .. Len(t) /\ t[q].content = k /\ t[q].us = s[q].us
        BY <1>1, <2>4
      <3>2. \A h \in 1 .. Len(t) : t[h].content = k => h <= q
        BY <1>1, <1>3, <2>2, <2>4
      <3> QED
        BY <2>1, <2>4, <3>1, <3>2
    <2> QED
      BY <2>3, <2>4 DEF Cursor
  <1> QED
    BY <1>2, <1>3


\* Every reader's DELTA is its file's; a row's is the scope's.
ReaderDeltas ==
  \A i \in Inputs :
    /\ Cursor(lastUs[i], pulled[i])
    /\ \A n \in 1 .. Len(pulled[i]) : pulled[i][n].delta = GapFromLast(pulled[i], n)

RowDeltas ==
  /\ opts.globalDelta => Cursor(lastUs[0], emitted)
  /\ \A p \in 1 .. Len(emitted) :
       emitted[p].delta = IF opts.globalDelta THEN GapFromLast(emitted, p)
                          ELSE pulled[emitted[p].input][emitted[p].seq + 1].delta

DeltaInv == ReaderDeltas /\ RowDeltas

\* The trackers are typed.
LEMMA TrackersTyped ==
  ASSUME TypeOK
  PROVE  /\ 0 \in 0 .. N /\ 0 \notin Inputs /\ Inputs \subseteq 0 .. N
         /\ \A i \in 0 .. N : lastUs[i] \in [DeltaKeys -> Option(Times)]
         /\ lastUs \in [0 .. N -> [DeltaKeys -> Option(Times)]]
  BY ConstantsAssumption DEF TypeOK, Inputs, ConstantsAssumption

\* The reader that yields a record has seen it; the others have not.
LEMMA YieldReaderDeltas ==
  ASSUME TypeOK, ReaderDeltas, NEW i \in Inputs, NEW m \in Row, Yields(i, m),
         lastUs'[i] = Observed(lastUs[i], m),
         \A j \in Inputs : j # i => lastUs'[j] = lastUs[j]
  PROVE  ReaderDeltas'
  <1> SUFFICES ASSUME NEW j \in Inputs
               PROVE  /\ Cursor(lastUs'[j], pulled'[j])
                      /\ \A n \in 1 .. Len(pulled'[j]) :
                           pulled'[j][n].delta = GapFromLast(pulled'[j], n)
    BY DEF ReaderDeltas, Cursor, GapFromLast, Gap, GapSince
  <1>1. CASE j # i
    BY <1>1, YieldFacts DEF ReaderDeltas
  <1>2. CASE j = i
    <2> DEFINE s == pulled[i]
               t == pulled'[i]
    <2>1. /\ Len(s) \in Nat /\ Len(t) = Len(s) + 1 /\ t[Len(s) + 1] = m
          /\ \A n \in 1 .. Len(s) : t[n] = s[n] /\ s[n].us \in Nat
      BY YieldFacts, RowTypes DEF Grows
    <2>2. m.us \in Nat
      BY ConstantsAssumption DEF Row, ConstantsAssumption
    <2>3. Cursor(lastUs[i], s) /\ \A n \in 1 .. Len(s) : s[n].delta = GapFromLast(s, n)
      BY DEF ReaderDeltas
    <2>4. lastUs[i] \in [DeltaKeys -> Option(Times)] /\ m.delta = Gap(lastUs[i], m)
      BY TrackersTyped DEF Yields
    <2> HIDE DEF s, t
    <2>5. Extended(s, t, m)
      BY <2>1, <2>2 DEF Extended
    <2>6. Cursor(Observed(lastUs[i], m), t)
      BY <2>3, <2>4, <2>5, CursorFollows
    <2>7. t[Len(s) + 1].delta = GapFromLast(t, Len(s) + 1)
      BY <2>1, <2>3, <2>4, <2>5, CursorGap
    <2>8. ASSUME NEW n \in 1 .. Len(s) PROVE t[n].delta = GapFromLast(t, n)
      <3>1. \A q \in 1 .. n : t[q].content = s[q].content /\ t[q].us = s[q].us
        BY <2>1
      <3>2. GapFromLast(t, n) = GapFromLast(s, n)
        BY <2>1, <3>1, GapOfPrefix
      <3> QED
        BY <2>1, <2>3, <3>2
    <2>9. \A n \in 1 .. Len(t) : n \in 1 .. Len(s) \/ n = Len(s) + 1
      BY <2>1
    <2> QED
      BY <1>2, <2>6, <2>7, <2>8, <2>9 DEF t
  <1> QED
    BY <1>1, <1>2

\* The merge's tracker has seen the rows, and none of the suppressed records.
LEMMA PopRowDeltas ==
  ASSUME TypeOK, FlowInv, RowDeltas, Grows, NEW top \in heap, Pop(top),
         lastUs'[0] = MergeTracker(top)
  PROVE  RowDeltas'
  <1>1. opts' = opts /\ Len(emitted) \in Nat
    BY RowTypes DEF Pop
  <1>2. ASSUME NEW p \in 1 .. Len(emitted)
        PROVE  pulled'[emitted[p].input][emitted[p].seq + 1]
                 = pulled[emitted[p].input][emitted[p].seq + 1]
    <2>1. /\ emitted[p].input \in Inputs /\ emitted[p].seq \in Nat
          /\ emitted[p].seq < Len(pulled[emitted[p].input])
      BY RowTypes DEF FlowInv, KnownInv
    <2>2. emitted[p].seq + 1 \in 1 .. Len(pulled[emitted[p].input])
      BY <2>1, RowTypes
    <2> QED
      BY <2>1, <2>2 DEF Grows
  <1>3. CASE Suppress(top) /\ Suppressed(top)
    <2>1. emitted' = emitted /\ IsDuplicate(top)
      BY <1>3 DEF Suppress, Suppressed
    <2>2. lastUs'[0] = lastUs[0]
      BY <2>1 DEF MergeTracker
    <2> QED
      BY <1>1, <1>2, <2>1, <2>2 DEF RowDeltas
  <1>4. CASE Emit(top) /\ Emitted(top)
    <2> DEFINE s == emitted
               t == emitted'
    <2>1. /\ Len(t) = Len(s) + 1 /\ SameRow(t[Len(s) + 1], top)
          /\ \A p \in 1 .. Len(s) : t[p] = s[p]
          /\ t[Len(s) + 1].delta = IF opts.globalDelta THEN Gap(lastUs[0], top) ELSE top.delta
      BY <1>4 DEF Emitted
    <2>2. ~IsDuplicate(top)
      BY <1>4 DEF Emit
    <2>3. Extended(s, t, top)
      BY <1>1, <2>1, RowTypes DEF Extended, SameRow
    <2>4. \A p \in 1 .. Len(s) : GapFromLast(t, p) = GapFromLast(s, p)
      <3> SUFFICES ASSUME NEW p \in 1 .. Len(s) PROVE GapFromLast(t, p) = GapFromLast(s, p)
        OBVIOUS
      <3>1. \A q \in 1 .. p : t[q].content = s[q].content /\ t[q].us = s[q].us
        BY <1>1, <2>1
      <3> HIDE DEF s, t
      <3> QED
        BY <3>1, GapOfPrefix
    <2>5. \A p \in 1 .. Len(t) : p \in 1 .. Len(s) \/ p = Len(s) + 1
      BY <1>1, <2>1
    <2>6. CASE opts.globalDelta
      <3>1. Cursor(lastUs[0], s) /\ lastUs'[0] = Observed(lastUs[0], top)
        BY <2>2, <2>6 DEF RowDeltas, MergeTracker
      <3>2. lastUs[0] \in [DeltaKeys -> Option(Times)]
        BY TrackersTyped
      <3>3. \A p \in 1 .. Len(s) : s[p].delta = GapFromLast(s, p)
        BY <2>6 DEF RowDeltas
      <3> HIDE DEF s, t
      <3>4. Cursor(lastUs'[0], t)
        BY <2>3, <3>1, <3>2, CursorFollows
      <3>5. t[Len(s) + 1].delta = GapFromLast(t, Len(s) + 1)
        BY <2>1, <2>3, <2>6, <3>1, CursorGap
      <3>6. \A p \in 1 .. Len(t) : t[p].delta = GapFromLast(t, p)
        BY <2>1, <2>4, <2>5, <3>3, <3>5
      <3> QED
        BY <1>1, <2>6, <3>4, <3>6 DEF RowDeltas, t
    <2>7. CASE ~opts.globalDelta
      <3>1. /\ top.seq + 1 \in 1 .. Len(pulled[top.input]) /\ top.input \in Inputs
            /\ top = pulled[top.input][top.seq + 1]
        BY RowTypes DEF FlowInv, HeapInv
      <3>2. pulled'[top.input][top.seq + 1] = top
        BY <3>1 DEF Grows
      <3>3. t[Len(s) + 1].delta = pulled'[t[Len(s) + 1].input][t[Len(s) + 1].seq + 1].delta
        BY <2>1, <2>7, <3>2 DEF SameRow
      <3>4. \A p \in 1 .. Len(s) :
              t[p].delta = pulled'[t[p].input][t[p].seq + 1].delta
        BY <1>2, <2>1, <2>7 DEF RowDeltas
      <3> QED
        BY <1>1, <2>5, <2>7, <3>3, <3>4 DEF RowDeltas
    <2> QED
      BY <2>6, <2>7
  <1> QED
    BY <1>3, <1>4, SettleFacts


\* Every step keeps the invariant.
LEMMA StepDelta ==
  ASSUME TypeOK, FlowInv, DeltaInv, Next
  PROVE  DeltaInv'
  <1>1. CASE QuietStep
    <2>1. UNCHANGED <<opts, lastUs, pulled, emitted>>
      BY <1>1, QuietKeeps
    <2> QED
      BY <2>1 DEF DeltaInv, ReaderDeltas, RowDeltas
  <1>2. ASSUME NEW us \in Times, NEW c \in Contents, PrimeRecord(us, c) PROVE DeltaInv'
    <2>0. PICK i \in Inputs : i = primed + 1
      BY <1>2, PrimeYields
    <2>1. PICK m \in Row : Yields(i, m) /\ lastUs' = [lastUs EXCEPT ![i] = Observed(@, m)]
      BY <1>2, <2>0, PrimeYields
    <2>2. UNCHANGED <<opts, emitted>> /\ primed < N
      BY <1>2, PrimeYields
    <2>3. /\ lastUs'[i] = Observed(lastUs[i], m) /\ lastUs'[0] = lastUs[0]
          /\ \A j \in Inputs : j # i => lastUs'[j] = lastUs[j]
      BY <2>1, TrackersTyped
    <2>4. ReaderDeltas'
      BY <2>1, <2>3, YieldReaderDeltas DEF DeltaInv
    <2>5. Len(emitted) = 0
      BY <2>2 DEF FlowInv, PulledInv
    <2>6. RowDeltas'
      BY <2>2, <2>3, <2>5 DEF DeltaInv, RowDeltas
    <2> QED
      BY <2>4, <2>6 DEF DeltaInv
  <1>3. ASSUME NEW top \in heap, NEW us \in Times, NEW c \in Contents, PopThenRecord(top, us, c)
        PROVE  DeltaInv'
    <2>0. top.input \in Inputs /\ Pop(top)
      BY <1>3, PopYields
    <2>1. PICK m \in Row :
            /\ Yields(top.input, m)
            /\ lastUs' = [lastUs EXCEPT ![0] = MergeTracker(top),
                                        ![top.input] = Observed(@, m)]
      BY <1>3, PopYields
    <2>2. PICK i \in Inputs : i = top.input
      BY <2>0
    <2>3. /\ lastUs'[i] = Observed(lastUs[i], m) /\ lastUs'[0] = MergeTracker(top)
          /\ \A j \in Inputs : j # i => lastUs'[j] = lastUs[j]
      BY <2>1, <2>2, TrackersTyped
    <2>4. Grows
      BY <2>0, <2>1, YieldFacts
    <2>5. ReaderDeltas'
      BY <2>1, <2>2, <2>3, YieldReaderDeltas DEF DeltaInv
    <2>6. RowDeltas'
      BY <2>0, <2>3, <2>4, PopRowDeltas DEF DeltaInv
    <2> QED
      BY <2>5, <2>6 DEF DeltaInv
  <1>4. ASSUME NEW top \in heap, PopThenStop(top) PROVE DeltaInv'
    <2>1. Pop(top) /\ Grows /\ pulled' = pulled
      BY <1>4, StopReplaced
    <2>2. lastUs' = [lastUs EXCEPT ![0] = MergeTracker(top)]
      BY <1>4 DEF PopThenStop
    <2>3. lastUs'[0] = MergeTracker(top) /\ \A j \in Inputs : lastUs'[j] = lastUs[j]
      BY <2>2, TrackersTyped
    <2>4. ReaderDeltas'
      BY <2>1, <2>3 DEF DeltaInv, ReaderDeltas
    <2>5. RowDeltas'
      BY <2>1, <2>3, PopRowDeltas DEF DeltaInv
    <2> QED
      BY <2>4, <2>5 DEF DeltaInv
  <1> QED
    BY <1>1, <1>2, <1>3, <1>4, StepKinds

\* No row was handed on and no key was seen.
LEMMA InitDelta == Init => DeltaInv
  <1> SUFFICES ASSUME Init PROVE DeltaInv
    OBVIOUS
  <1>1. /\ emitted = <<>> /\ \A i \in Inputs : pulled[i] = <<>>
        /\ \A i \in 0 .. N : lastUs[i] = [k \in DeltaKeys |-> None]
    BY DEF Init
  <1>2. 0 \in 0 .. N /\ Inputs \subseteq 0 .. N
    BY ConstantsAssumption DEF Inputs, ConstantsAssumption
  <1>3. Len(emitted) = 0 /\ \A i \in Inputs : Len(pulled[i]) = 0
    BY <1>1
  <1>4. \A i \in 0 .. N : \A k \in DeltaKeys : lastUs[i][k] = None
    BY <1>1
  <1> QED
    BY <1>2, <1>3, <1>4 DEF DeltaInv, ReaderDeltas, RowDeltas, Cursor

\* The trackers follow the rows they are meant to.
THEOREM DeltaInvariance == Spec => [](TypeOK /\ FlowInv /\ DeltaInv)
  <1>1. TypeOK /\ FlowInv /\ DeltaInv /\ [Next]_vars => DeltaInv'
    <2>1. DeltaInv /\ UNCHANGED vars => DeltaInv'
      BY DEF vars, DeltaInv, ReaderDeltas, RowDeltas
    <2> QED
      BY <2>1, StepDelta
  <1> QED
    BY <1>1, InitDelta, FlowInvariance, PTL DEF Spec

\* L2-MRG-005, L2-RDR-017: DELTA is the gap to the last row of the key, over
\* the rows that came out or over the record's own file.
THEOREM DeltaIsInScope == Spec => []DeltaInScope
  <1>1. TypeOK /\ FlowInv /\ DeltaInv => DeltaInScope
    <2> SUFFICES ASSUME TypeOK, FlowInv, DeltaInv PROVE DeltaInScope
      OBVIOUS
    <2> SUFFICES ASSUME NEW p \in DOMAIN emitted
                 PROVE  emitted[p].delta =
                          IF opts.globalDelta THEN GapFromLast(emitted, p)
                          ELSE GapFromLast(pulled[emitted[p].input], emitted[p].seq + 1)
      BY DEF DeltaInScope
    <2>1. p \in 1 .. Len(emitted)
      BY DEF TypeOK
    <2>2. /\ emitted[p].input \in Inputs /\ emitted[p].seq \in Nat
          /\ emitted[p].seq < Len(pulled[emitted[p].input])
      BY <2>1, RowTypes DEF FlowInv, KnownInv
    <2>3. emitted[p].seq + 1 \in 1 .. Len(pulled[emitted[p].input])
      BY <2>2, RowTypes
    <2> QED
      BY <2>1, <2>2, <2>3 DEF DeltaInv, ReaderDeltas, RowDeltas
  <1> QED
    BY <1>1, DeltaInvariance, PTL

=============================================================================
