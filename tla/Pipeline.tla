------------------------------ MODULE Pipeline ------------------------------
(***************************************************************************)
(* From the inputs to the rows: one reader per input (src/rust/src/        *)
(* reader.rs), the filters (filter.rs), the merge by time (merge.rs) and   *)
(* the canonical order (order.rs), as execute_decode_or_merge of cli.rs    *)
(* chains them.                                                            *)
(*                                                                         *)
(* A recording is the sequence of its 16-bit words.  The walk over them is *)
(* that of the module Reader and the order of the rows that of RowOrder;   *)
(* this module decodes the records between them.  DELTA and the collapsing *)
(* of duplicates are in the module Merge.                                  *)
(***************************************************************************)
EXTENDS Fields, Inputs

CONSTANTS
  ScanWindow,  \* MAX_SCAN_BYTES, in words
  Sample,      \* HOMOGENEITY_SAMPLE_RECORDS
  MaxRecords   \* bound: rows of a run

ASSUME ScanWindowAssumption == ScanWindow \in Nat

\* No error is None.
ASSUME NoErrorAssumption == None # "IncompatibleMergeInputs"

VARIABLES
  settings,    \* DecoderConfig with the command line laid over it, or None
  inputs,      \* the paths of the recordings to read
  readers,     \* MieFileReader and RecordIter of each opened input
  front,       \* the heap: the next message of each input that has one
  lastTime,    \* prev_us: the time of the last message of each input, or None
  halted,      \* pending_error, or None
  terminal,    \* pending_terminal is armed
  failure,     \* the error the stream ended with, or None
  cap, arrived, buf, out, pending, done, emitted, result   \* RowOrder

mergeVars == <<front, lastTime, halted, terminal>>
orderVars == <<cap, arrived, buf, out, pending, done, emitted, result>>
pipelineVars == <<settings, inputs, readers, mergeVars, failure, orderVars>>

Order == INSTANCE RowOrder WITH
           Times <- {}, Keys <- {}, Kinds <- {}, Caps <- {}

-----------------------------------------------------------------------------
(* A reader.                                                               *)

Walk(reader) ==
  INSTANCE Reader WITH
    Files <- {}, Configs <- {}, MinWords <- MinRecordWords,
    opts <- reader.opts, file <- reader.file, format <- reader.format,
    offset <- reader.offset, prevError <- reader.prevError,
    losses <- reader.losses, pending <- reader.error # None,
    result <- IF reader.ended THEN "end" ELSE "open", seen <- <<>>

Hint ==
  CASE settings.input_time_format = "standard" -> "std"
    [] settings.input_time_format = "irig"     -> "irig"
    [] OTHER                                   -> "auto"

\* with_options, on a file that can be read.
NewReader(path) ==
  LET words == disk[Canonical(path)].words
  IN  [path |-> path, words |-> words,
       opts |-> [strict |-> settings.strict, hint |-> Hint,
                 lookahead |-> settings.lookahead_records],
       file |-> Described(words, IF Hint = "irig" THEN "irig" ELSE "std"),
       format |-> IF Hint = "auto" THEN "irig" ELSE Hint,
       mux |-> IF settings.mux_enabled
                 THEN MuxOf(path.name, settings.mux_delimiter, settings.mux_field)
                 ELSE None,
       offset |-> 0, prevError |-> FALSE, losses |-> 0, error |-> None,
       empty |-> FALSE, ended |-> FALSE]

\* resolve_auto_format and check_forced_format.
FormatRefused(reader, probe) ==
  /\ reader.opts.strict
  /\ IF reader.opts.hint = "auto" THEN probe.confidence = "ambiguous"
     ELSE probe.confidence = "decisive" /\ probe.clock # reader.opts.hint

\* resolve_format_for_hit.
AtFirstRecord(reader, first) ==
  LET probe == Probe(reader.words, first + 1, settings.detect_records)
      clock == IF reader.opts.hint = "auto" THEN probe.clock ELSE reader.opts.hint
  IN  [reader EXCEPT
         !.offset = first,
         !.format = clock,
         !.file = Described(reader.words, clock),
         !.error = IF Homogeneous(reader.words, first + 1, Sample)
                     THEN "HomogeneousPayload"
                   ELSE IF FormatRefused(reader, probe)
                     THEN "TimestampFormatMismatch"
                   ELSE None]

\* iter, with diagnose_no_records.
Iterated(reader) ==
  LET firsts == Walk(reader)!FirstRecords
      cut == Walk(reader)!TruncatedRecords # {}
      none == [reader EXCEPT !.offset = Len(reader.words)]
  IN  CASE firsts # {} -> AtFirstRecord(reader, Min(firsts))
        [] firsts = {} /\ IsTerminator(reader.words[1]) ->
             [none EXCEPT !.empty = TRUE, !.ended = TRUE]
        [] firsts = {} /\ ~IsTerminator(reader.words[1]) ->
             IF ~cut THEN [none EXCEPT !.error = "NoValidRecords"]
             ELSE IF reader.opts.strict
               THEN [none EXCEPT !.error = "FirstRecordTruncated"]
               ELSE [none EXCEPT !.ended = TRUE]

\* What next() returns: a message, an error, or neither at the end.
Over == [over |-> TRUE]
End(reader) == [reader |-> [reader EXCEPT !.ended = TRUE], item |-> Over]
Yield(reader, message) == [reader |-> reader, item |-> [message |-> message]]
Break(reader, error) ==
  [reader |-> [reader EXCEPT !.ended = TRUE], item |-> [error |-> error]]
Again(reader) == [reader |-> reader, item |-> [again |-> TRUE]]

Repeats(item) == Is("again", item)
HasMessage(item) == Is("message", item)
HasError(item) == Is("error", item)

\* handle_sync_loss.
LoseSync(reader) ==
  LET lost == [reader EXCEPT !.losses = @ + 1]
      resumptions == Walk(reader)!Resumptions
  IN  IF reader.opts.strict THEN Break(lost, "RecordError")
      ELSE IF resumptions # {}
        THEN Again([lost EXCEPT !.offset = Min(resumptions), !.prevError = FALSE])
      ELSE IF Walk(reader)!NearEnd THEN End(lost)
      ELSE Break(lost, "UnrecoverableSyncLoss")

\* spurious_message, decode_error_record and decode_normal_record.
TakeRecord(reader) ==
  LET word == Walk(reader)!At(reader.offset)
      record == SubSeq(reader.words, reader.offset + 1, reader.offset + word.len)
      decoded == MessageOf(record, reader.format, reader.prevError)
      message == With(With(decoded, "offset", reader.offset), "mux", reader.mux)
      past == [reader EXCEPT !.offset = Walk(reader)!NextBoundary,
                             !.prevError = word.kind = "err"]
  IN  CASE word.kind = "msg" /\ word.fate = "shape" ->
             IF reader.opts.strict THEN Break(reader, "RecordError") ELSE Again(past)
        [] word.kind = "err" /\ word.fate = "code" /\ reader.opts.strict ->
             Break(reader, "RecordError")
        [] OTHER -> Yield(past, message)

\* One turn of the loop in Iterator::next.
Turn(reader) ==
  CASE reader.ended -> End(reader)
    [] ~reader.ended /\ reader.error # None ->
         Break([reader EXCEPT !.error = None], reader.error)
    [] Walk(reader)!NoRecordHere -> LoseSync(reader)
    [] Walk(reader)!RecordHere   -> TakeRecord(reader)
    [] OTHER                     -> End(reader)

\* A turn without an item passes at least one word, and one more ends.
Onward(turn) == IF Repeats(turn.item) THEN Turn(turn.reader) ELSE turn

NextItem(reader) ==
  LET turns[n \in 0 .. Len(reader.words)] ==
        Onward(IF n = 0 THEN Again(reader) ELSE turns[n - 1])
  IN  turns[Len(reader.words)]

-----------------------------------------------------------------------------
(* should_exclude.                                                         *)

Addressed(message) == message.command # None

Listed(message, types, buses, rts, subaddresses) ==
  [type       |-> message.word.type \in types,
   bus        |-> message.word.bus \in buses,
   rt         |-> Addressed(message) /\ CommandWord(message.command).rt \in rts,
   subaddress |-> /\ Addressed(message)
                  /\ CommandWord(message.command).subaddress \in subaddresses]

\* An inclusion set counts only if it has a member.
Excluded(message) ==
  LET out_ == Listed(message, settings.exclude_types, settings.exclude_buses,
                     settings.exclude_rts, settings.exclude_subaddresses)
      in_ == Listed(message, settings.include_types, settings.include_buses,
                    settings.include_rts, settings.include_subaddresses)
  IN  \/ \E field \in DOMAIN out_ : out_[field]
      \/ settings.include_types # {} /\ ~in_.type
      \/ settings.include_buses # {} /\ ~in_.bus
      \/ settings.include_rts # {} /\ ~in_.rt
      \/ settings.include_subaddresses # {} /\ ~in_.subaddress

-----------------------------------------------------------------------------
(* The merge.                                                              *)

Merging == Len(inputs) > 1

Waiting == DOMAIN front

\* The least time, then the least input.
Oldest ==
  CHOOSE i \in Waiting : \A j \in Waiting \ {i} :
    \/ Earlier(front[i].time.parts, front[j].time.parts)
    \/ front[i].time.parts = front[j].time.parts /\ i < j

\* check_mergeable.
Mergeable(message) == message.time.clock = "irig" /\ ~message.time.freerun

\* MergedRecordIter::new: the error that the first item of an input fails the
\* run with, or None.  An input that fails may be dropped under allow_partial.
PrimingError(item) ==
  CASE HasError(item)   -> IF settings.allow_partial THEN None ELSE item.error
    [] HasMessage(item) ->
         IF Mergeable(item.message) THEN None ELSE "IncompatibleMergeInputs"
    [] item = Over      -> None

\* The merge over the first item of every reader.  The first input that fails
\* the run decides; nothing is kept of such a run.
PrimedWith(next) ==
  LET failing == {i \in DOMAIN next : PrimingError(next[i].item) # None}
      waiting == {i \in DOMAIN next : HasMessage(next[i].item)}
  IN  [readers |-> [i \in DOMAIN next |-> next[i].reader],
       front |-> [i \in waiting |-> With(next[i].item.message, "input", i)],
       lastTime |-> [i \in DOMAIN next |->
                       IF i \in waiting THEN next[i].item.message.time.parts
                       ELSE None],
       halted |-> None,
       terminal |-> \E i \in DOMAIN next : HasError(next[i].item),
       error |-> IF failing = {} THEN None
                 ELSE PrimingError(next[Min(failing)].item)]

\* Every reader's iter(), and the merge over them where there is one.
Primed ==
  IF Merging
    THEN PrimedWith([i \in DOMAIN readers |-> NextItem(Iterated(readers[i]))])
    ELSE [readers |-> [i \in DOMAIN readers |-> Iterated(readers[i])],
          front |-> <<>>,
          lastTime |-> [i \in DOMAIN readers |-> None],
          halted |-> None, terminal |-> FALSE, error |-> None]

\* Mutant of Advanced: an input that loses sync just stops.
AdvancedSilently(i, next) ==
  LET here == [readers |-> [readers EXCEPT ![i] = next.reader],
               front |-> [j \in Waiting \ {i} |-> front[j]],
               lastTime |-> lastTime, halted |-> None, terminal |-> terminal]
  IN  IF HasMessage(next.item)
        THEN [here EXCEPT !.front = With(@, i, With(next.item.message, "input", i)),
                          !.lastTime[i] = next.item.message.time.parts]
        ELSE here

\* advance: the input whose message has just been popped.
Advanced(i, next) ==
  LET here == [readers |-> [readers EXCEPT ![i] = next.reader],
               front |-> [j \in Waiting \ {i} |-> front[j]],
               lastTime |-> lastTime, halted |-> None, terminal |-> terminal]
  IN  CASE HasMessage(next.item) ->
             LET time == next.item.message.time.parts
             IN  [here EXCEPT
                    !.front = With(@, i, With(next.item.message, "input", i)),
                    !.lastTime[i] = time,
                    !.halted = IF settings.strict /\ Earlier(time, lastTime[i])
                                 THEN "NonMonotonicInput" ELSE None]
        [] HasError(next.item) ->
             IF settings.allow_partial /\ next.item.error = "UnrecoverableSyncLoss"
               THEN [here EXCEPT !.terminal = TRUE]
               ELSE [here EXCEPT !.halted = next.item.error]
        [] next.item = Over -> here

\* Iterator::next of the merge, and of the one reader where there is none:
\* the item, and the state it leaves behind.
Same ==
  [readers |-> readers, front |-> front, lastTime |-> lastTime,
   halted |-> halted, terminal |-> terminal]

Pulled ==
  LET i == IF Merging THEN Oldest ELSE 1
      next == NextItem(readers[i])
  IN  IF ~Merging
        THEN [item |-> IF HasMessage(next.item)
                         THEN [message |-> With(next.item.message, "input", 1)]
                         ELSE next.item,
              state |-> [Same EXCEPT !.readers[1] = next.reader]]
      ELSE IF halted # None
        THEN [item |-> [error |-> halted], state |-> [Same EXCEPT !.halted = None]]
      ELSE IF Waiting = {}
        THEN [item |-> IF terminal THEN [error |-> "UnrecoverableSyncLoss"] ELSE Over,
              state |-> [Same EXCEPT !.terminal = FALSE]]
        ELSE [item |-> [message |-> front[i]], state |-> Advanced(i, next)]

Become(state) ==
  /\ readers' = state.readers
  /\ front' = state.front
  /\ lastTime' = state.lastTime
  /\ halted' = state.halted
  /\ terminal' = state.terminal

-----------------------------------------------------------------------------
(* The stream below the writer, pulled only while the order is empty.      *)

SortKey(message) ==
  IF ~Addressed(message) THEN Order!NoKey
  ELSE LET command == CommandWord(message.command)
       IN  1 + command.rt * 64 + command.subaddress * 2
             + IF command.transmits THEN 1 ELSE 0

Ordered(message) ==
  With(With(message, "id", Len(arrived) + 1), "key", SortKey(message))

PullMessage(pulled) ==
  /\ HasMessage(pulled.item)
  /\ ~Excluded(pulled.item.message)
  /\ Order!PullOk(Ordered(pulled.item.message))
  /\ UNCHANGED failure

\* Filtered::next drops the message and pulls again.
PullExcluded(pulled) ==
  /\ HasMessage(pulled.item)
  /\ Excluded(pulled.item.message)
  /\ UNCHANGED <<failure, orderVars>>

PullFailure(pulled) ==
  /\ HasError(pulled.item)
  /\ Order!PullErr
  /\ failure' = pulled.item.error

PullNothing(pulled) ==
  /\ pulled.item = Over
  /\ Order!PullEnd
  /\ UNCHANGED failure

Pull ==
  /\ Order!Pulling
  /\ \E pulled \in {Pulled} :
       /\ Become(pulled.state)
       /\ \/ PullMessage(pulled) \/ PullExcluded(pulled)
          \/ PullFailure(pulled) \/ PullNothing(pulled)
  /\ UNCHANGED <<settings, inputs>>

StartPipeline ==
  /\ settings = None /\ inputs = <<>>
  /\ readers = <<>> /\ front = <<>> /\ lastTime = <<>>
  /\ halted = None /\ terminal = FALSE /\ failure = None
  /\ cap = 1
  /\ arrived = <<>> /\ buf = <<>> /\ out = <<>> /\ emitted = <<>>
  /\ pending = FALSE /\ done = FALSE
  /\ result = "open"
=============================================================================
