------------------------------- MODULE Reader -------------------------------
(***************************************************************************)
(* RecordIter (src/rust/src/reader.rs) with the record validation and the  *)
(* scans of src/rust/src/sync.rs: how one recording is walked record by    *)
(* record, what happens where no record stands, and how the walk ends.     *)
(*                                                                         *)
(* A recording is a sequence of 16-bit words; an offset is the number of   *)
(* words before it.  A word is described by what it would be as the first  *)
(* word of a record, because a scan may take any word for a Type Word.     *)
(* One action is one turn of the loop in Iterator::next (decode_one).      *)
(***************************************************************************)
EXTENDS Naturals, Sequences, FiniteSetsExt

CONSTANTS
  Files,       \* the recordings
  Configs,     \* the ReaderOptions a reader may be given
  MinWords,    \* [format |-> the least words of a record]
  ScanWindow,  \* MAX_SCAN_BYTES, in words
  Sample       \* HOMOGENEITY_SAMPLE_RECORDS

Formats == {"irig", "std"}

\* How a word reads as a Type Word: `kind` is its message type with the error
\* bit, "null" the terminator, "junk" an unknown type; `len` its word count.
\* `fate` is what a record starting there would break: an IRIG field range, a
\* structural invariant of a message, or the set of known error codes.
Word == [kind : {"null", "junk", "msg", "err", "spur"}, len : Nat,
         fate : {"fine", "time", "shape", "code"}]

OptionRecords == [strict : BOOLEAN, hint : Formats \union {"auto"}, lookahead : Nat \ {0}]

ASSUME ConstantsAssumption ==
  /\ Files \subseteq Seq(Word) \ {<<>>}
  /\ Configs \subseteq OptionRecords
  /\ MinWords \in [Formats -> Nat \ {0}] /\ MinWords["std"] <= MinWords["irig"]
  /\ ScanWindow \in Nat /\ MinWords["irig"] <= ScanWindow
  /\ Sample \in Nat \ {0, 1}

VARIABLES
  opts,       \* the reader's options
  file,       \* the recording, mapped read-only
  format,     \* resolved_format, once open
  offset,     \* the word the next record is looked for at
  prevError,  \* prev_was_error
  losses,     \* sync_losses
  pending,    \* pending_error
  result,     \* "unopened", "open", or how the iterator ended
  seen        \* history: the records yielded or skipped

vars == <<opts, file, format, offset, prevError, losses, pending, result, seen>>

Ends == {"end", "empty", "unusable", "record", "loss"}

-----------------------------------------------------------------------------
(* validate_record_detailed.  `min` is the least word count.               *)

Readable(p) == p < Len(file)
At(p) == file[p + 1]

\* Checks 1 to 3, which look-ahead repeats for each follower.
PlausibleWord(w, min) == w.kind \in {"msg", "err", "spur"} /\ w.len >= min

Plausible(p, min) == Readable(p) /\ PlausibleWord(At(p), min)

\* Mutant of Fits: the extent of the record is not checked.
FitsUnchecked(p) == TRUE

\* Check 4.
Fits(p) == p + At(p).len <= Len(file)

\* Check 5, made only when the format is known to be IRIG.
TimeInRange(p, hint) == hint = "irig" => At(p).fate # "time"

\* min_word_count: an unknown format has the smaller minimum.
MinFor(hint) == IF hint = "irig" THEN MinWords["irig"] ELSE MinWords["std"]

\* Check 6: up to n followers from boundary p of the words f are plausible.
\* The end of the file ends the walk, and so does a terminator where it is
\* honored.
Followed(f, p, n, min, honor) ==
  LET walk[k \in Nat, q \in Nat] ==
        q < Len(f) /\ ~(honor /\ f[q + 1].kind = "null") =>
          PlausibleWord(f[q + 1], min) /\ (k > 1 => walk[k - 1, q + f[q + 1].len])
  IN n > 0 => walk[n, p]

ValidAlone(p, hint) ==
  Plausible(p, MinFor(hint)) /\ Fits(p) /\ TimeInRange(p, hint)

Valid(p, hint, depth, honor) ==
  /\ ValidAlone(p, hint)
  /\ Followed(file, p + At(p).len, depth - 1, MinFor(hint), honor)

-----------------------------------------------------------------------------
(* The scans: every word from the first one of the window.                 *)

ScanEnd(p) == Min({Len(file), p + ScanWindow})

\* find_first_record.
FirstRecords ==
  {p \in 0 .. ScanEnd(0) - 1 : Valid(p, opts.hint, opts.lookahead, TRUE)}

\* diagnose_header_scan_failure: only the extent is wrong.  A format still
\* unknown is taken for IRIG here.
TruncatedRecords ==
  {p \in 0 .. ScanEnd(0) - 1 :
     /\ Plausible(p, MinWords[IF opts.hint = "auto" THEN "irig" ELSE opts.hint])
     /\ ~Fits(p)}

\* recover_sync: past the bad boundary, and no terminator is trusted.
Resumptions ==
  {p \in offset + 1 .. ScanEnd(offset) - 1 : Valid(p, format, opts.lookahead, FALSE)}

\* is_homogeneous_payload: the sampled records agree in every word but the
\* three after the Type Word.
Homogeneous(p) ==
  LET len == At(p).len
  IN /\ p + Sample * len <= Len(file)
     /\ \A i \in 1 .. Sample - 1, j \in (0 .. len - 1) \ (1 .. 3) :
          At(p + i * len + j) = At(p + j)

-----------------------------------------------------------------------------
(* iter().                                                                 *)

Init ==
  /\ opts \in Configs
  /\ file \in Files
  /\ format = "std"
  /\ offset = 0
  /\ prevError = FALSE
  /\ losses = 0
  /\ pending = FALSE
  /\ result = "unopened"
  /\ seen = <<>>

Opening == result = "unopened"

\* The probe of the first records (decode.rs) chooses the format under
\* "auto", and may find a forced format contradicted or its own choice
\* ambiguous: strict mode rejects both.  Its scores are left open.
OpenAtRecord ==
  /\ Opening /\ FirstRecords # {}
  /\ offset' = Min(FirstRecords)
  /\ IF opts.hint = "auto" THEN format' \in Formats ELSE format' = opts.hint
  /\ \/ pending' = Homogeneous(Min(FirstRecords))
     \/ opts.strict /\ pending' = TRUE
  /\ result' = "open"
  /\ UNCHANGED <<opts, file, prevError, losses, seen>>

\* diagnose_no_records: the stream opens on the terminator ...
OpenEmpty ==
  /\ Opening /\ FirstRecords = {} /\ At(0).kind = "null"
  /\ offset' = Len(file)
  /\ result' = "empty"
  /\ UNCHANGED <<opts, file, format, prevError, losses, pending, seen>>

\* ... or lenient mode ends before a truncated first record ...
OpenTruncated ==
  /\ Opening /\ FirstRecords = {} /\ At(0).kind # "null"
  /\ TruncatedRecords # {} /\ ~opts.strict
  /\ offset' = Len(file)
  /\ result' = "end"
  /\ UNCHANGED <<opts, file, format, prevError, losses, pending, seen>>

\* ... or the file is none: FirstRecordTruncated, NoValidRecords.
OpenUnusable ==
  /\ Opening /\ FirstRecords = {} /\ At(0).kind # "null"
  /\ TruncatedRecords = {} \/ opts.strict
  /\ offset' = Len(file)
  /\ pending' = TRUE
  /\ result' = "open"
  /\ UNCHANGED <<opts, file, format, prevError, losses, seen>>

-----------------------------------------------------------------------------
(* next() and decode_one.  Yielding an error ends the iterator.            *)

SurfacePending ==
  /\ result = "open" /\ pending
  /\ pending' = FALSE
  /\ result' = "unusable"
  /\ UNCHANGED <<opts, file, format, offset, prevError, losses, seen>>

\* Fewer words are left than the shortest Standard record has.
TooShort == offset + MinWords["std"] > Len(file)

EndShort ==
  /\ result = "open" /\ ~pending /\ TooShort
  /\ result' = "end"
  /\ UNCHANGED <<opts, file, format, offset, prevError, losses, pending, seen>>

Looking == result = "open" /\ ~pending /\ ~TooShort

EndTerminator ==
  /\ Looking /\ At(offset).kind = "null"
  /\ result' = "end"
  /\ UNCHANGED <<opts, file, format, offset, prevError, losses, pending, seen>>

\* Mutant of RecordHere: the walk looks ahead like a scan.
RecordConfirmed ==
  Looking /\ At(offset).kind # "null" /\ Valid(offset, format, opts.lookahead, TRUE)

\* Depth 1: a boundary the walk has reached is trusted.
RecordHere == Looking /\ At(offset).kind # "null" /\ Valid(offset, format, 1, TRUE)

NoRecordHere == Looking /\ At(offset).kind # "null" /\ ~RecordHere

\* handle_sync_loss, in strict mode ...
LoseStrict ==
  /\ NoRecordHere /\ opts.strict
  /\ losses' = losses + 1
  /\ result' = "record"
  /\ UNCHANGED <<opts, file, format, offset, prevError, pending, seen>>

\* Mutant of Recover: the corruption is not taken as a boundary.
RecoverKeepingFlag ==
  /\ NoRecordHere /\ ~opts.strict /\ Resumptions # {}
  /\ losses' = losses + 1
  /\ offset' = Min(Resumptions)
  /\ UNCHANGED <<opts, file, format, prevError, pending, result, seen>>

\* Mutant of Recover: only a loss that is not recovered from is counted.
RecoverUncounted ==
  /\ NoRecordHere /\ ~opts.strict /\ Resumptions # {}
  /\ offset' = Min(Resumptions)
  /\ prevError' = FALSE
  /\ UNCHANGED <<opts, file, format, losses, pending, result, seen>>

\* ... and in lenient mode: the walk resumes ...
Recover ==
  /\ NoRecordHere /\ ~opts.strict /\ Resumptions # {}
  /\ losses' = losses + 1
  /\ offset' = Min(Resumptions)
  /\ prevError' = FALSE
  /\ UNCHANGED <<opts, file, format, pending, result, seen>>

\* Mutant of NearEnd: a scan that found nothing always means the end.
AlwaysNearEnd == TRUE

NearEnd == Len(file) - offset < ScanWindow

\* ... or the recording is taken to be cut off here ...
EndTruncated ==
  /\ NoRecordHere /\ ~opts.strict /\ Resumptions = {} /\ NearEnd
  /\ losses' = losses + 1
  /\ result' = "end"
  /\ UNCHANGED <<opts, file, format, offset, prevError, pending, seen>>

\* ... or UnrecoverableSyncLoss.
LoseForGood ==
  /\ NoRecordHere /\ ~opts.strict /\ Resumptions = {} /\ ~NearEnd
  /\ losses' = losses + 1
  /\ result' = "loss"
  /\ UNCHANGED <<opts, file, format, offset, prevError, pending, seen>>

\* A record the walk went over, as a row or past it.  `cont`: a SPURIOUS_DATA
\* record got the continuation code 0x2000, not 0x2001.
Entry(as, cont) ==
  [at |-> offset, len |-> At(offset).len, kind |-> At(offset).kind, as |-> as, cont |-> cont]

\* Mutant of NextBoundary: by the least length of the format.
NextBoundaryMin == offset + MinFor(format)

\* The declared length leads to the next boundary.
NextBoundary == offset + At(offset).len

Pass(e) ==
  /\ seen' = Append(seen, e)
  /\ offset' = NextBoundary
  /\ UNCHANGED <<opts, file, format, losses, pending, result>>

YieldSpurious ==
  /\ RecordHere /\ At(offset).kind = "spur"
  /\ Pass(Entry("row", prevError))
  /\ prevError' = FALSE

\* decode_error_record: the structural invariants do not apply, and lenient
\* mode takes an unknown code as it is.
YieldErrored ==
  /\ RecordHere /\ At(offset).kind = "err"
  /\ opts.strict => At(offset).fate # "code"
  /\ Pass(Entry("row", FALSE))
  /\ prevError' = TRUE

\* decode_normal_record.
YieldMessage ==
  /\ RecordHere /\ At(offset).kind = "msg" /\ At(offset).fate # "shape"
  /\ Pass(Entry("row", FALSE))
  /\ prevError' = FALSE

\* Mutant of SkipRecord: the record is not passed over.
SkipInPlace ==
  /\ RecordHere /\ At(offset).kind = "msg" /\ At(offset).fate = "shape" /\ ~opts.strict
  /\ prevError' = FALSE
  /\ UNCHANGED <<opts, file, format, offset, losses, pending, result, seen>>

\* Mutant of SkipRecord: in strict mode too.
SkipAlways ==
  /\ RecordHere /\ At(offset).kind = "msg" /\ At(offset).fate = "shape"
  /\ Pass(Entry("skipped", FALSE))
  /\ prevError' = FALSE

\* A structural invariant is broken, before or after the payload is read.
SkipRecord ==
  /\ RecordHere /\ At(offset).kind = "msg" /\ At(offset).fate = "shape" /\ ~opts.strict
  /\ Pass(Entry("skipped", FALSE))
  /\ prevError' = FALSE

RejectRecord ==
  /\ RecordHere /\ opts.strict
  /\ \/ At(offset).kind = "msg" /\ At(offset).fate = "shape"
     \/ At(offset).kind = "err" /\ At(offset).fate = "code"
  /\ result' = "record"
  /\ UNCHANGED <<opts, file, format, offset, prevError, losses, pending, seen>>

Next ==
  \/ OpenAtRecord \/ OpenEmpty \/ OpenTruncated \/ OpenUnusable
  \/ SurfacePending \/ EndShort \/ EndTerminator
  \/ LoseStrict \/ Recover \/ EndTruncated \/ LoseForGood
  \/ YieldSpurious \/ YieldErrored \/ YieldMessage \/ SkipRecord \/ RejectRecord

Spec == Init /\ [][Next]_vars

\* The consumer pulls until the iterator ends.
FairSpec == Spec /\ WF_vars(Next)

-----------------------------------------------------------------------------
(* Properties.                                                             *)

SeenEntry == [at : Nat, len : Nat, kind : {"msg", "err", "spur"},
              as : {"row", "skipped"}, cont : BOOLEAN]

\* Every variable keeps its type; the offset never leaves the file.
TypeOK ==
  /\ opts \in Configs /\ file \in Seq(Word)
  /\ format \in Formats
  /\ offset \in 0 .. Len(file)
  /\ prevError \in BOOLEAN /\ pending \in BOOLEAN
  /\ losses \in Nat
  /\ result \in {"unopened", "open"} \union Ends
  /\ seen \in Seq(SeenEntry)

\* The walk in pieces.  From(i) is the boundary after entry i, From(0) the
\* first record found; Resumed(i) is where the walk went on, or stands now.
Walking == result \notin {"unopened", "empty", "unusable"} /\ FirstRecords # {}
From(i) == IF i = 0 THEN Min(FirstRecords) ELSE seen[i].at + seen[i].len
Resumed(i) == IF i = Len(seen) THEN offset ELSE seen[i + 1].at
Breaks == {i \in 0 .. Len(seen) : Resumed(i) # From(i)}

\* The iterator has ended at a boundary where no record stands.
EndedLost ==
  result \in Ends /\ ~TooShort /\ At(offset).kind # "null" /\ ~ValidAlone(offset, format)

\* L1-SYN-001: no word belongs to two rows: records come out in file order and
\* disjoint, however often the walk lost its place and resumed.
RowsDisjoint == Walking => \A i \in 0 .. Len(seen) : From(i) <= Resumed(i)

\* decode_one's comment on depth 1: a record that passes checks 1 to 5 where
\* the record before it ends is never lost, whatever follows it.
NoValidRecordLost ==
  Walking => \A i \in 0 .. Len(seen) :
    ValidAlone(From(i), format) => Resumed(i) = From(i)

\* L2-ERR-005, L2-ERR-006: a SPURIOUS_DATA row has the continuation code
\* exactly if an errored record ends where it starts.
ContinuationHonest ==
  \A i \in DOMAIN seen : seen[i].kind = "spur" =>
    (seen[i].cont <=> \E j \in DOMAIN seen : seen[j].kind = "err" /\ From(j) = seen[i].at)

\* L1-EXIT-005: sync_losses, from which the CLI tells a complete decode from a
\* recovered one, is the number of places where the walk left words out, and
\* one more if it ended where it found no record.
LossesCounted ==
  Walking => losses = Cardinality(Breaks) + (IF EndedLost THEN 1 ELSE 0)

\* A message whose invariants, or an errored record whose code, are not right.
Broken(w) ==
  \/ w.kind = "msg" /\ w.fate = "shape"
  \/ w.kind = "err" /\ w.fate = "code"

\* L1-MODE-001, L2-SYN-016, L2-ERR-004: strict mode leaves nothing out.  What
\* it yielded is every record from the first one on, none of them broken; it
\* ends without an error at a terminator, or with no room for a record.
StrictSurfaces ==
  opts.strict /\ Walking =>
    /\ Breaks = {}
    /\ \A i \in DOMAIN seen : seen[i].as = "row" /\ ~Broken(At(seen[i].at))
    /\ result = "end" => TooShort \/ At(offset).kind = "null"

\* L1-EXIT-004: a walk ends cleanly only at a terminator or less than a scan
\* window from the end of the file: a longer stretch with no record in it is
\* always an error.
CleanEndNearEof ==
  Walking /\ result = "end" =>
    Len(file) - offset < ScanWindow \/ At(offset).kind = "null"

\* L1-SYN-002: every walk ends, whatever the file holds.
Terminates == <>(result \in Ends)

\* docs/L2-REQ.md:367, L2-RDR-003: "Strict mode SHALL surface a truncation
\* error when a readable Type Word declares a record extent beyond
\* end-of-file."
StrictTailSurfaces ==
  opts.strict /\ Walking /\ result = "end" => ~(Plausible(offset, MinFor(format)) /\ ~Fits(offset))

\* docs/L2-REQ.md:360, L2-RDR-002: "Lenient mode SHALL stop cleanly at a
\* truncated final record", which the walk has reached after record i.
TruncatedTailStops ==
  ~opts.strict /\ Walking => \A i \in 1 .. Len(seen) :
    Plausible(From(i), MinFor(format)) /\ ~Fits(From(i)) => Resumed(i) = From(i)
=============================================================================
