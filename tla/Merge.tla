------------------------------- MODULE Merge -------------------------------
(***************************************************************************)
(* MergedRecordIter (src/rust/src/merge.rs): the streaming k-way merge of  *)
(* several recordings by absolute time, with the optional collapsing of    *)
(* copies of one transaction that several recorders witnessed, and DELTA   *)
(* (src/rust/src/delta.rs) measured per file or over the merged rows.      *)
(*                                                                         *)
(* The readers are the environment: each is pulled one record at a time    *)
(* and yields records of any times, then the end or one terminal error.    *)
(* Construction primes one input per action; after it, each action is one  *)
(* turn of the loop in Iterator::next, `advance` included.                 *)
(***************************************************************************)
EXTENDS Integers, Sequences, FiniteSets, SequencesExt

CONSTANTS
  N,           \* number of inputs, in resolved order
  Times,       \* absolute microseconds
  Contents,    \* wire contents: all that DedupKey compares
  DeltaKeys,   \* the contents that have an RT/MSG key, each its own
  Configs,     \* the option records a merge may be started with
  MaxRecords   \* bound: records the inputs hold together

Inputs == 1 .. N

OptionRecords == [strict : BOOLEAN, allowPartial : BOOLEAN, collapse : BOOLEAN,
                  window : Nat, maxSurvivors : Nat \ {0}, globalDelta : BOOLEAN]

ASSUME ConstantsAssumption ==
  /\ N \in Nat \ {0}
  /\ Times \subseteq Nat
  /\ DeltaKeys \subseteq Contents
  /\ Configs \subseteq OptionRecords
  /\ MaxRecords \in Nat

\* Option<T> is a set of at most one value.
None == {}
Some(x) == {x}

\* The errors a reader yields: UnrecoverableSyncLoss; a strict-mode rejection of
\* a record; no valid record at all.
Errors == {"loss", "record", "unusable"}

VARIABLES
  opts,       \* strict, allow_partial and the builder's settings
  primed,     \* inputs whose first record new() has pulled
  heap,       \* one record at most per input
  prevUs,     \* [input |-> Option: time of the record pulled last]
  failure,    \* Option: pending_error
  terminal,   \* Option: pending_terminal
  survivors,  \* DedupWindow: what later records are compared with; a row's
              \* arrival number stands for its place in the VecDeque
  lastUs,     \* [tracker |-> [key |-> Option]]: 0 is the merge's, i input i's
  result,     \* "open", or how the merge ended
  pulled,     \* history: [input |-> the records it yielded]
  broken,     \* history: [input |-> Option: the error it yielded]
  emitted,    \* history: the rows handed on
  collapsed   \* history: the records suppressed, each with the rows before it

vars == <<opts, primed, heap, prevUs, failure, terminal, survivors, lastUs,
          result, pulled, broken, emitted, collapsed>>

-----------------------------------------------------------------------------
(* DeltaTracker.                                                           *)

\* Mutant of GapSince: the subtraction is not guarded.
GapUnchecked(last, us) ==
  IF last = None THEN Some(0) ELSE {us - prev : prev \in last}

\* First is 0, Elapsed the gap, Backward empty.
GapSince(last, us) ==
  IF last = None THEN Some(0) ELSE {us - prev : prev \in {p \in last : us >= p}}

\* observe: the cursor moves on the backward path too; NoKey leaves no trace.
Observed(last, m) ==
  IF m.content \in DeltaKeys THEN [last EXCEPT ![m.content] = Some(m.us)] ELSE last

Gap(last, m) ==
  IF m.content \in DeltaKeys THEN GapSince(last[m.content], m.us) ELSE None

-----------------------------------------------------------------------------
(* Pulling input i; a reader's DELTA comes with the record.                *)

Message(i, us, c) ==
  LET m == [us |-> us, content |-> c]
  IN [us |-> us, input |-> i, seq |-> Len(pulled[i]), content |-> c,
      delta |-> Gap(lastUs[i], m)]

RecordsPulled == {r \in Inputs \X (1 .. MaxRecords) : r[2] <= Len(pulled[r[1]])}

MayYieldRecord == Cardinality(RecordsPulled) < MaxRecords

\* A strict reader rejects a record, a lenient one gives up on a lost sync.
MidFileErrors == IF opts.strict THEN {"record"} ELSE {"loss"}
LeadingErrors == MidFileErrors \union {"unusable"}

Push(i, m) ==
  /\ pulled' = [pulled EXCEPT ![i] = Append(@, m)]
  /\ prevUs' = [prevUs EXCEPT ![i] = Some(m.us)]

-----------------------------------------------------------------------------
(* MergedRecordIter::new.                                                  *)

Init ==
  /\ opts \in Configs
  /\ primed = 0
  /\ heap = {}
  /\ prevUs = [i \in Inputs |-> None]
  /\ failure = None /\ terminal = None
  /\ survivors = {}
  /\ lastUs = [i \in 0 .. N |-> [k \in DeltaKeys |-> None]]
  /\ result = "open"
  /\ pulled = [i \in Inputs |-> <<>>]
  /\ broken = [i \in Inputs |-> None]
  /\ emitted = <<>> /\ collapsed = <<>>

Priming == result = "open" /\ primed < N

PrimeRecord(us, c) ==
  LET i == primed + 1
      m == Message(i, us, c)
  IN /\ Priming /\ MayYieldRecord
     /\ primed' = i
     /\ heap' = heap \union {m}
     /\ lastUs' = [lastUs EXCEPT ![i] = Observed(@, m)]
     /\ Push(i, m)
     /\ UNCHANGED <<opts, failure, terminal, survivors, result, broken, emitted, collapsed>>

\* check_mergeable: a Standard or freerun record leads the input.
PrimeIncompatible ==
  /\ Priming
  /\ result' = "incompatible"
  /\ UNCHANGED <<opts, primed, heap, prevUs, failure, terminal, survivors, lastUs,
                 pulled, broken, emitted, collapsed>>

\* Without --allow-partial an input that fails at once fails the batch ...
PrimeFails(e) ==
  LET i == primed + 1
  IN /\ Priming /\ ~opts.allowPartial
     /\ broken' = [broken EXCEPT ![i] = Some(e)]
     /\ result' = e
     /\ UNCHANGED <<opts, primed, heap, prevUs, failure, terminal, survivors, lastUs,
                    pulled, emitted, collapsed>>

\* Mutant of PrimeDropped: the input is skipped without a trace.
PrimeSkipped(e) ==
  LET i == primed + 1
  IN /\ Priming /\ opts.allowPartial
     /\ primed' = i
     /\ broken' = [broken EXCEPT ![i] = Some(e)]
     /\ UNCHANGED <<opts, heap, prevUs, failure, terminal, survivors, lastUs, result,
                    pulled, emitted, collapsed>>

\* ... with it, whatever the error, it is truncated at offset 0.
PrimeDropped(e) ==
  LET i == primed + 1
  IN /\ Priming /\ opts.allowPartial
     /\ primed' = i
     /\ broken' = [broken EXCEPT ![i] = Some(e)]
     /\ terminal' = Some("loss")
     /\ UNCHANGED <<opts, heap, prevUs, failure, survivors, lastUs, result,
                    pulled, emitted, collapsed>>

PrimeEmpty ==
  /\ Priming
  /\ primed' = primed + 1
  /\ UNCHANGED <<opts, heap, prevUs, failure, terminal, survivors, lastUs, result,
                 pulled, broken, emitted, collapsed>>

-----------------------------------------------------------------------------
(* advance(file_index): the record after the popped one, or the input's    *)
(* end.  `top` has left the heap in the same step.                         *)

AdvanceRecord(i, top, us, c) ==
  LET m == Message(i, us, c)
      backward == \E prev \in prevUs[i] : us < prev
  IN /\ MayYieldRecord
     /\ heap' = (heap \ {top}) \union {m}
     /\ failure' = IF backward /\ opts.strict THEN Some("backward") ELSE failure
     /\ Push(i, m)
     /\ UNCHANGED <<terminal, broken>>

\* Mutant of AdvanceLoss: the error ends the merge before the rows in the heap.
AdvanceLossAtOnce(i, top) ==
  /\ "loss" \in MidFileErrors
  /\ heap' = heap \ {top}
  /\ broken' = [broken EXCEPT ![i] = Some("loss")]
  /\ failure' = Some("loss")
  /\ UNCHANGED <<terminal, prevUs, pulled>>

\* A lost sync waits for the heap to drain if a .partial is wanted.
AdvanceLoss(i, top) ==
  /\ "loss" \in MidFileErrors
  /\ heap' = heap \ {top}
  /\ broken' = [broken EXCEPT ![i] = Some("loss")]
  /\ IF opts.allowPartial
     THEN terminal' = Some("loss") /\ UNCHANGED failure
     ELSE failure' = Some("loss") /\ UNCHANGED terminal
  /\ UNCHANGED <<prevUs, pulled>>

AdvanceError(i, top) ==
  /\ "record" \in MidFileErrors
  /\ heap' = heap \ {top}
  /\ broken' = [broken EXCEPT ![i] = Some("record")]
  /\ failure' = Some("record")
  /\ UNCHANGED <<terminal, prevUs, pulled>>

AdvanceEnd(i, top) ==
  /\ heap' = heap \ {top}
  /\ UNCHANGED <<failure, terminal, broken, prevUs, pulled>>

-----------------------------------------------------------------------------
(* DedupWindow::is_duplicate.                                              *)

Distance(a, b) == IF a >= b THEN a - b ELSE b - a

\* Mutant of InWindow: survivors leave from the front, on a one-sided test.
FrontEvicted(us) ==
  {s \in survivors :
     \E front \in survivors : front.arrival <= s.arrival /\ us - front.us <= opts.window}

\* retain: over the whole set, on the absolute distance.
InWindow(us) == {s \in survivors : Distance(s.us, us) <= opts.window}

\* Mutant of Matches: provenance is not compared.
MatchesContent(s, top) == s.content = top.content

Matches(s, top) == s.input # top.input /\ s.content = top.content

IsDuplicate(top) ==
  opts.collapse /\ \E s \in InWindow(top.us) : Matches(s, top)

\* pop_front at the cap, which one removal gets below; then push_back.
Remember(top) ==
  LET kept == InWindow(top.us)
      new == [us |-> top.us, input |-> top.input, content |-> top.content,
              arrival |-> Len(emitted) + 1]
  IN \/ /\ Cardinality(kept) < opts.maxSurvivors
        /\ survivors' = kept \union {new}
     \/ /\ Cardinality(kept) >= opts.maxSurvivors
        /\ \E oldest \in kept :
             /\ \A s \in kept : oldest.arrival <= s.arrival
             /\ survivors' = (kept \ {oldest}) \union {new}

-----------------------------------------------------------------------------
(* Iterator::next.                                                         *)

Before(a, b) ==
  \/ a.us < b.us
  \/ a.us = b.us /\ a.input < b.input
  \/ a.us = b.us /\ a.input = b.input /\ a.seq < b.seq

\* Mutant of IsTop: the heap is keyed by input before time.
IsTopByInput(m) == \A o \in heap : m.input <= o.input

IsTop(m) == \A o \in heap \ {m} : Before(m, o)

Running == result = "open" /\ primed = N /\ failure = None

SurfaceError ==
  /\ result = "open" /\ primed = N
  /\ \E e \in failure : result' = e
  /\ failure' = None
  /\ UNCHANGED <<opts, primed, heap, prevUs, terminal, survivors, lastUs,
                 pulled, broken, emitted, collapsed>>

Exhausted ==
  /\ Running /\ heap = {}
  /\ result' = IF terminal = None THEN "none" ELSE "loss"
  /\ terminal' = None
  /\ UNCHANGED <<opts, primed, heap, prevUs, failure, survivors, lastUs,
                 pulled, broken, emitted, collapsed>>

\* A suppressed record leaves the merge's DELTA tracker alone.
Suppress(top) ==
  /\ IsDuplicate(top)
  /\ survivors' = InWindow(top.us)
  /\ collapsed' = Append(collapsed, [row |-> top, after |-> Len(emitted)])
  /\ UNCHANGED emitted

\* apply_global_delta.
Emit(top) ==
  /\ ~IsDuplicate(top)
  /\ IF opts.collapse THEN Remember(top) ELSE UNCHANGED survivors
  /\ emitted' = Append(emitted,
       IF opts.globalDelta THEN [top EXCEPT !.delta = Gap(lastUs[0], top)] ELSE top)
  /\ UNCHANGED collapsed

\* Mutant of MergeTracker: suppressed records move the cursor too.
MergeTrackerOfAll(top) ==
  IF opts.globalDelta THEN Observed(lastUs[0], top) ELSE lastUs[0]

MergeTracker(top) ==
  IF opts.globalDelta /\ ~IsDuplicate(top) THEN Observed(lastUs[0], top) ELSE lastUs[0]

Pop(top) ==
  /\ Running /\ top \in heap /\ IsTop(top)
  /\ Suppress(top) \/ Emit(top)
  /\ UNCHANGED <<opts, primed, result>>

\* One turn of the loop: the top is suppressed or emitted, its input advanced.
PopThenRecord(top, us, c) ==
  /\ Pop(top)
  /\ AdvanceRecord(top.input, top, us, c)
  /\ LET next == [us |-> us, content |-> c]
     IN lastUs' = [lastUs EXCEPT ![0] = MergeTracker(top),
                                 ![top.input] = Observed(@, next)]

PopThenStop(top) ==
  /\ Pop(top)
  /\ \/ AdvanceLoss(top.input, top)
     \/ AdvanceError(top.input, top)
     \/ AdvanceEnd(top.input, top)
  /\ lastUs' = [lastUs EXCEPT ![0] = MergeTracker(top)]

Next ==
  \/ \E us \in Times, c \in Contents : PrimeRecord(us, c)
  \/ PrimeIncompatible \/ PrimeEmpty
  \/ \E e \in LeadingErrors : PrimeFails(e) \/ PrimeDropped(e)
  \/ SurfaceError \/ Exhausted
  \/ \E top \in heap :
       \/ \E us \in Times, c \in Contents : PopThenRecord(top, us, c)
       \/ PopThenStop(top)

Spec == Init /\ [][Next]_vars

-----------------------------------------------------------------------------
(* Properties.                                                             *)

Option(S) == {None} \union {Some(x) : x \in S}

Row == [us : Times, input : Inputs, seq : Nat, content : Contents, delta : SUBSET Nat]

\* Every variable keeps its type.
TypeOK ==
  /\ opts \in Configs
  /\ primed \in 0 .. N
  /\ heap \subseteq Row
  /\ prevUs \in [Inputs -> Option(Times)]
  /\ failure \in Option(Errors \union {"backward"})
  /\ terminal \in Option({"loss"})
  /\ survivors \subseteq [us : Times, input : Inputs, content : Contents, arrival : Nat]
  /\ lastUs \in [0 .. N -> [DeltaKeys -> Option(Times)]]
  /\ result \in Errors \union {"open", "none", "incompatible", "backward"}
  /\ pulled \in [Inputs -> Seq(Row)]
  /\ broken \in [Inputs -> Option(Errors)]
  /\ emitted \in Seq(Row)
  /\ collapsed \in Seq([row : Row, after : Nat])

Chronological(s) == \A a, b \in DOMAIN s : a < b => s[a].us <= s[b].us

InputsChronological == \A i \in Inputs : Chronological(pulled[i])

\* L2-MRG-002, L2-MRG-006: chronological inputs come out in the order of the
\* heap's key, none before a row it precedes; and whatever the clocks do, the
\* rows of one input come out in capture order.
MergedInOrder ==
  /\ InputsChronological /\ primed = N =>
       \A p \in DOMAIN emitted :
         /\ \A q \in 1 .. p - 1 : Before(emitted[q], emitted[p])
         /\ \A m \in heap : Before(emitted[p], m)
  /\ \A p, q \in DOMAIN emitted :
       p < q /\ emitted[p].input = emitted[q].input => emitted[p].seq < emitted[q].seq

\* L1-MRG-001, L2-MRG-004: every record pulled is a row, is suppressed, or
\* waits in the heap, and once only; at the end, and before the error that
\* asks for a .partial, none waits.
NoRowLost ==
  /\ \A i \in Inputs : \A n \in 0 .. Len(pulled[i]) - 1 :
       LET Is(m) == m.input = i /\ m.seq = n
       IN Cardinality({p \in DOMAIN emitted : Is(emitted[p])})
            + Cardinality({p \in DOMAIN collapsed : Is(collapsed[p].row)})
            + Cardinality({m \in heap : Is(m)}) = 1
  /\ result = "none" \/ (result = "loss" /\ opts.allowPartial) => heap = {}

\* L2-MRG-007: a suppressed record has a row before it from another input, of
\* the same content and within the window; and on chronological inputs, while
\* the cap is not reached, every such record is suppressed.
CollapsedIffWitnessed ==
  LET Witnessed(m, p) ==
        /\ emitted[p].input # m.input /\ emitted[p].content = m.content
        /\ Distance(emitted[p].us, m.us) <= opts.window
  IN /\ \A d \in ToSet(collapsed) :
          opts.collapse /\ \E p \in 1 .. d.after : Witnessed(d.row, p)
     /\ opts.collapse /\ InputsChronological /\ Len(emitted) <= opts.maxSurvivors =>
          \A q \in DOMAIN emitted : \A p \in 1 .. q - 1 : ~Witnessed(emitted[q], p)

\* The record popped last: a row, or a suppressed record after the last row.
LastUs ==
  IF collapsed # <<>> /\ Last(collapsed).after = Len(emitted)
  THEN Last(collapsed).row.us ELSE Last(emitted).us

\* L2-MRG-007, L2-MRG-008: the survivors are bounded in number, and each is
\* within the window of the record just tested, whatever order they came in.
SurvivorsBounded ==
  /\ Cardinality(survivors) <= opts.maxSurvivors
  /\ \A s \in survivors : Distance(s.us, LastUs) <= opts.window

\* L2-MRG-004, L2-MRG-006: a merge that ends with neither error nor .partial
\* had no input that failed and, in strict mode, none whose clock stepped
\* back; one that ends in a lost sync had one.
FailureNeverSilent ==
  /\ result = "none" =>
       /\ \A i \in Inputs : broken[i] = None
       /\ opts.strict => InputsChronological
  /\ result = "loss" => \E i \in Inputs : broken[i] # None

\* The rows of s before row p that share its RT/MSG key: the last one is what
\* DELTA is measured from.
GapFromLast(s, p) ==
  LET same == {q \in 1 .. p - 1 : s[q].content = s[p].content}
      last == CHOOSE q \in same : \A h \in same : h <= q
  IN IF s[p].content \notin DeltaKeys THEN None
     ELSE IF same = {} THEN Some(0)
     ELSE IF s[last].us <= s[p].us THEN Some(s[p].us - s[last].us)
     ELSE None

\* L2-MRG-005, L2-RDR-017: under the global scope DELTA is the gap to the last
\* row of the key that came out, suppressed records left out; per file it is
\* what the record's own file gives it, suppressed records counted.
DeltaInScope ==
  \A p \in DOMAIN emitted :
    LET row == emitted[p]
    IN row.delta = IF opts.globalDelta THEN GapFromLast(emitted, p)
                   ELSE GapFromLast(pulled[row.input], row.seq + 1)

\* docs/L2-REQ.md:1187: "strict mode SHALL surface the first record or
\* structural-invariant failure in any file".
StrictFailureSurfaces ==
  \A i \in Inputs : broken[i] = Some("record") => result \notin {"none", "loss"}

\* docs/L1-REQ.md:384: "identical messages from a single input SHALL NOT be
\* collapsed": no input shows a content more often than the merged rows do.
RepeatsOfOneInputKept ==
  result = "none" =>
    \A i \in Inputs, c \in Contents :
      Cardinality({n \in DOMAIN pulled[i] : pulled[i][n].content = c})
        <= Cardinality({p \in DOMAIN emitted : emitted[p].content = c})
=============================================================================
