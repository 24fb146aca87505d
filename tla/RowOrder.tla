------------------------------ MODULE RowOrder ------------------------------
(***************************************************************************)
(* The Ordered adapter (src/rust/src/order.rs): the last stage before the  *)
(* CSV writer.  It pulls decoded records, buffers a run of consecutive     *)
(* records of one timestamp, and emits each run sorted by RT/MSG with the  *)
(* records that have no Command Word riding behind their predecessor; a    *)
(* run that reaches the cap goes out as it arrived.  An error of the       *)
(* stream comes out after everything that arrived before it.               *)
(*                                                                         *)
(* One action per branch of the loop in Iterator::next.  The stream pulled *)
(* from is what one input's reader can yield: records of any timestamps,   *)
(* then the end or an error.  The writer stops at the first error.         *)
(***************************************************************************)
EXTENDS Integers, Sequences, FiniteSets, SequencesExt

CONSTANTS
  Times,       \* timestamps: variant and value together
  Keys,        \* sort keys of a Command Word: numbers in (RT, SA, R/T) order
  Kinds,       \* kinds of record the stream holds
  Caps,        \* max_group values the adapter may be given
  MaxRecords   \* bound: records in the stream

\* sort_key is None: numbered below every key, as None orders before Some.
NoKey == 0

ASSUME ConstantsAssumption ==
  /\ Keys \subseteq Nat \ {NoKey}
  /\ Kinds \subseteq {"clean", "errored", "spurious"}
  /\ Caps \subseteq Nat
  /\ MaxRecords \in Nat

\* A record, numbered by its arrival.  Only SPURIOUS_DATA has no Command Word.
Record == [id : Nat \ {0}, time : Times, kind : Kinds, key : Keys \union {NoKey}]

VARIABLES
  cap,      \* max_group, fixed
  arrived,  \* history: every record pulled from the inner stream
  buf,      \* the run being accumulated
  out,      \* records to emit, last one first
  pending,  \* an Err waits for the rows before it
  done,     \* the inner stream is exhausted
  emitted,  \* history: the rows the writer was given
  result    \* "open", or how the stream ended: "none" or "err"

vars == <<cap, arrived, buf, out, pending, done, emitted, result>>

-----------------------------------------------------------------------------
(* sort_run.                                                               *)

\* Mutant of ChunkOf: a pinned record is a chunk of its own.
PinsAlone(run, n) == n

\* The chunk place n of the run falls in: an anchor and the pinned records
\* behind it, named by the anchor's place; pins before any anchor are chunk 0.
ChunkOf(run, n) ==
  LET anchors == {a \in 1 .. n : run[a].key # NoKey}
  IN IF anchors = {} THEN 0 ELSE CHOOSE a \in anchors : \A h \in anchors : h <= a

ChunkKey(run, c) == IF c = 0 THEN NoKey ELSE run[c].key

\* Mutant of ChunkBefore: equal keys come out in any order but that of arrival.
ChunkBeforeUnstable(run, c, d) ==
  \/ ChunkKey(run, c) < ChunkKey(run, d)
  \/ ChunkKey(run, c) = ChunkKey(run, d) /\ c > d

\* The order of a stable sort by the anchor's key.
ChunkBefore(run, c, d) ==
  \/ ChunkKey(run, c) < ChunkKey(run, d)
  \/ ChunkKey(run, c) = ChunkKey(run, d) /\ c < d

\* Chunks are sorted, their records are not.
PlaceBefore(run, n, m) ==
  \/ ChunkBefore(run, ChunkOf(run, n), ChunkOf(run, m))
  \/ ChunkOf(run, n) = ChunkOf(run, m) /\ n < m

Ahead(run, n) == {m \in DOMAIN run : PlaceBefore(run, m, n)}

SortRun(run) ==
  [r \in DOMAIN run |->
     run[CHOOSE n \in DOMAIN run : Cardinality(Ahead(run, n)) = r - 1]]

-----------------------------------------------------------------------------
(* The adapter.                                                            *)

\* Mutant of Clamp: a cap of 0 is taken as given.
Unclamped(n) == n

\* order_rows clamps the cap.
Clamp(n) == IF n = 0 THEN 1 ELSE n

Init ==
  /\ cap \in {Clamp(n) : n \in Caps}
  /\ arrived = <<>> /\ buf = <<>> /\ out = <<>> /\ emitted = <<>>
  /\ pending = FALSE /\ done = FALSE
  /\ result = "open"

\* flush and flush_capped extend the emission queue at the end it is popped
\* from: right only while the queue is empty.
Flushed(queue, run) == queue \o Reverse(SortRun(run))
FlushedCapped(queue, run) == queue \o Reverse(run)

Drain ==
  /\ result = "open" /\ out # <<>>
  /\ emitted' = Append(emitted, Last(out))
  /\ out' = Front(out)
  /\ UNCHANGED <<cap, arrived, buf, pending, done, result>>

Surface ==
  /\ result = "open" /\ out = <<>> /\ pending
  /\ pending' = FALSE
  /\ result' = "err"
  /\ UNCHANGED <<cap, arrived, buf, out, done, emitted>>

Finish ==
  /\ result = "open" /\ out = <<>> /\ ~pending /\ done
  /\ result' = "none"
  /\ UNCHANGED <<cap, arrived, buf, out, pending, done, emitted>>

Pulling == result = "open" /\ out = <<>> /\ ~pending /\ ~done

PullEnd ==
  /\ Pulling
  /\ done' = TRUE
  /\ out' = Flushed(out, buf)
  /\ buf' = <<>>
  /\ UNCHANGED <<cap, arrived, pending, emitted, result>>

\* Mutant of PullErr: the error overtakes the buffered run.
PullErrUnflushed ==
  /\ Pulling
  /\ pending' = TRUE
  /\ UNCHANGED <<cap, arrived, buf, out, done, emitted, result>>

PullErr ==
  /\ Pulling
  /\ pending' = TRUE
  /\ out' = Flushed(out, buf)
  /\ buf' = <<>>
  /\ UNCHANGED <<cap, arrived, done, emitted, result>>

\* Mutant of StartsNewRun: the run never ends before the cap.
NeverNewRun(m) == FALSE

StartsNewRun(m) == buf # <<>> /\ Head(buf).time # m.time

\* Mutant of AtCap: one record late.
PastCap(run) == Len(run) > cap

AtCap(run) == Len(run) >= cap

\* accept.
Accept(m) ==
  LET queue == IF StartsNewRun(m) THEN Flushed(out, buf) ELSE out
      run == IF StartsNewRun(m) THEN <<m>> ELSE Append(buf, m)
  IN IF AtCap(run)
     THEN out' = FlushedCapped(queue, run) /\ buf' = <<>>
     ELSE out' = queue /\ buf' = run

PullOk(m) ==
  /\ Pulling /\ Len(arrived) < MaxRecords
  /\ m.id = Len(arrived) + 1
  /\ arrived' = Append(arrived, m)
  /\ Accept(m)
  /\ UNCHANGED <<cap, pending, done, emitted, result>>

Next ==
  \/ Drain \/ Surface \/ Finish \/ PullEnd \/ PullErr
  \/ \E t \in Times, k \in Kinds, key \in Keys \union {NoKey} :
       /\ (k = "spurious") = (key = NoKey)
       /\ PullOk([id |-> Len(arrived) + 1, time |-> t, kind |-> k, key |-> key])

Spec == Init /\ [][Next]_vars

-----------------------------------------------------------------------------
(* Properties.                                                             *)

\* Every variable keeps its type.
TypeOK ==
  /\ cap \in Nat \ {0}
  /\ arrived \in Seq(Record) /\ buf \in Seq(Record)
  /\ out \in Seq(Record) /\ emitted \in Seq(Record)
  /\ pending \in BOOLEAN /\ done \in BOOLEAN
  /\ result \in {"open", "none", "err"}

\* L2-WRT-022: the run and the queue together never hold more records than
\* the cap, and the run always has room for one more.
BufferBounded == Len(buf) + Len(out) <= cap /\ Len(buf) < cap

\* The first record of the run record i arrived in.
RunStart(i) ==
  CHOOSE s \in 1 .. i :
    /\ \A j \in s .. i : arrived[j].time = arrived[i].time
    /\ s > 1 => arrived[s - 1].time # arrived[i].time

\* A run is cut into blocks of `cap` records; the last block may fall short.
BlockStart(i) == RunStart(i) + cap * ((i - RunStart(i)) \div cap)

Capped(i) ==
  LET last == BlockStart(i) + cap - 1
  IN last <= Len(arrived) /\ RunStart(last) = RunStart(i)

\* The record that pins i: i itself, unless it has no Command Word.
Anchor(i) ==
  LET anchors == {j \in BlockStart(i) .. i : arrived[j].key # NoKey}
  IN IF anchors = {} THEN 0 ELSE CHOOSE j \in anchors : \A h \in anchors : h <= j

AnchorKey(i) == IF Anchor(i) = 0 THEN NoKey ELSE arrived[Anchor(i)].key

\* The canonical order of the rows i and j, from the arrival order alone.
Precedes(i, j) ==
  IF BlockStart(i) # BlockStart(j) \/ Capped(i) THEN i < j
  ELSE \/ AnchorKey(i) < AnchorKey(j)
       \/ AnchorKey(i) = AnchorKey(j) /\ i < j

\* L1-OUT-003: the rows come out in canonical order, each once, whatever the
\* timestamps do and wherever runs, caps, errors and the end fall.
CanonicalOrder ==
  \A p, q \in DOMAIN emitted : p < q => Precedes(emitted[p].id, emitted[q].id)

\* L2-WRT-021: the end or the error of the stream comes out only after every
\* row that arrived before it: a .partial holds all that was decoded.
RowsBeforeResult ==
  result # "open" =>
    /\ Len(emitted) = Len(arrived)
    /\ ToSet(emitted) = ToSet(arrived)

\* The module's header: DELTA, computed upstream per RT/MSG, still reads as a
\* gap between consecutive rows of one key, as those rows are never swapped.
KeyOrderKept ==
  \A p, q \in DOMAIN emitted :
    p < q /\ emitted[p].key = emitted[q].key /\ emitted[p].key # NoKey =>
      emitted[p].id < emitted[q].id

\* L2-WRT-021: a record without a Command Word comes out right behind the
\* record it followed, if both are of one run and of one block of it.
PinsTravel ==
  \A p \in DOMAIN emitted :
    LET i == emitted[p].id
    IN emitted[p].key = NoKey /\ i > BlockStart(i) =>
         p > 1 /\ emitted[p - 1].id = i - 1

\* docs/ERROR-CATALOG.md:182: "when you read ERROR_CODE = 2000, the row
\* immediately above it in the CSV is the error it continues".  The reader
\* gives that code to a SPURIOUS_DATA record that follows an errored one.
ContinuationUnderItsError ==
  \A p \in DOMAIN emitted :
    LET i == emitted[p].id
    IN emitted[p].kind = "spurious" /\ i > 1 /\ arrived[i - 1].kind = "errored" =>
         p > 1 /\ emitted[p - 1].id = i - 1
=============================================================================
