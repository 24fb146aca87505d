------------------------------- MODULE Fields -------------------------------
(***************************************************************************)
(* What one record says: the bit fields of its words, its message format,  *)
(* the invariants of its structure, its payload and its timestamp          *)
(* (src/rust/src/decode.rs, models.rs and the payload part of reader.rs).  *)
(*                                                                         *)
(* A record is a sequence of 16-bit words.  Numbers that TLC's integers    *)
(* cannot hold (a count of microseconds, a 32-bit counter) stay the tuple  *)
(* of their parts, most significant first, and are compared as such.       *)
(***************************************************************************)
EXTENDS Vocabulary, FiniteSetsExt

TimeWords == [irig |-> 3, std |-> 2]
MinRecordWords == [irig |-> 5, std |-> 4]

Types == [ModeCommand     |-> 1,  BcToRt          |-> 2, RtToBc |-> 4,
          RtToRt          |-> 8,  BroadcastBcToRt |-> 16,
          BroadcastRtToRt |-> 24, SpuriousData    |-> 32]

MaxDataWords == 32
Broadcast == 31

-----------------------------------------------------------------------------
(* The words of a record.                                                  *)

\* The field of `width` bits whose lowest one is bit `low`.
Bits(word, low, width) == (word \div 2 ^ low) % 2 ^ width
IsSet(word, n) == Bits(word, n, 1) = 1

\* None stands for a read past the end.
WordAt(words, i) == IF i \in DOMAIN words THEN words[i] ELSE None
WordsAt(words, i, n) ==
  LET m == Min({n, MaxDataWords})
  IN  IF i + m - 1 <= Len(words) THEN SubSeq(words, i, i + m - 1) ELSE <<>>

IsTerminator(word) == word = 0

TypeWord(word) ==
  [type     |-> Bits(word, 0, 7),
   bus      |-> IF IsSet(word, 7) THEN "b" ELSE "a",
   count    |-> Bits(word, 8, 6),
   error    |-> IsSet(word, 14),
   reserved |-> IsSet(word, 15)]

CommandWord(word) ==
  [rt         |-> Bits(word, 11, 5),
   transmits  |-> IsSet(word, 10),
   subaddress |-> Bits(word, 5, 5),
   words      |-> IF Bits(word, 0, 5) = 0 THEN 32 ELSE Bits(word, 0, 5)]

\* The microseconds have 20 bits, four of them beside the seconds.
IrigTime(upper, middle, lower) ==
  [clock   |-> "irig",
   freerun |-> IsSet(upper, 15),
   parts   |-> <<Bits(upper, 5, 9), Bits(upper, 0, 5), Bits(middle, 10, 6),
                 Bits(middle, 4, 6), Bits(middle, 0, 4) * 65536 + lower>>]

StandardTime(upper, lower) ==
  [clock |-> "std", freerun |-> FALSE, parts |-> <<upper, lower>>]

TimeOf(words, clock) ==
  IF clock = "irig" THEN IrigTime(words[2], words[3], words[4])
                    ELSE StandardTime(words[2], words[3])

-----------------------------------------------------------------------------
(* classify_message_format and classify_mode_code.                         *)

\* A mode code's shape is told from its length, net of the timestamp.
ModeFormat(command, count, clock) ==
  LET extra == count - TimeWords[clock]
  IN  CASE command.rt = Broadcast /\ extra >= 3 -> "ModeCodeBcastData"
        [] command.rt = Broadcast /\ extra < 3  -> "ModeCodeBcastNoData"
        [] command.rt # Broadcast /\ extra < 4  -> "ModeCodeNoData"
        [] command.rt # Broadcast /\ extra >= 4 ->
             IF command.transmits THEN "ModeCodeTxData" ELSE "ModeCodeRxData"

Known(type) == \E name \in DOMAIN Types : Types[name] = type

FormatOf(type, command, count, clock) ==
  CASE type = Types.BcToRt          -> "Receive"
    [] type = Types.RtToBc          -> "Transmit"
    [] type = Types.RtToRt          -> "RtToRt"
    [] type = Types.BroadcastBcToRt -> "ReceiveBroadcast"
    [] type = Types.BroadcastRtToRt -> "RtToRtBroadcast"
    [] type = Types.ModeCommand     -> ModeFormat(command, count, clock)
    [] type = Types.SpuriousData    -> "SpuriousData"
    [] ~Known(type)                 -> "unclassifiable"

-----------------------------------------------------------------------------
(* The structural invariants.                                              *)

\* Words of payload a format needs, given the declared data words.
MinPayload(format, words) ==
  CASE format \in {"Receive", "Transmit"} -> words + 1
    [] format = "RtToRt"                  -> words + 3
    [] format = "ReceiveBroadcast"        -> words
    [] format = "RtToRtBroadcast"         -> words + 2
    [] format \in {"ModeCodeTxData", "ModeCodeRxData"}        -> 2
    [] format \in {"ModeCodeNoData", "ModeCodeBcastData"}     -> 1
    [] format \in {"ModeCodeBcastNoData", "SpuriousData"}     -> 0

\* L2-SYN-020 to L2-SYN-022, from the first two words that describe it.
StructureHolds(tw, command, format, clock) ==
  /\ tw.type = Types.BcToRt => ~command.transmits
  /\ tw.type = Types.RtToBc => command.transmits
  /\ tw.count >= 2 + TimeWords[clock] + MinPayload(format, command.words)

RtToRtFormats == {"RtToRt", "RtToRtBroadcast"}

\* L2-SYN-023 and L2-SYN-027, once the second Command Word is read.
CommandsAgree(format, command, second) ==
  format \in RtToRtFormats =>
    ~second.transmits /\ second.words = command.words

-----------------------------------------------------------------------------
(* extract_payload: p is the first word after the Command Word.            *)

Payload(words, p, format, command) ==
  LET second == CommandWord(IF p \in DOMAIN words THEN words[p] ELSE 0)
      part(cmd2, status, status2, data) ==
        [second |-> cmd2, status |-> status, status2 |-> status2, data |-> data]
      one(i) == WordsAt(words, i, 1)
      n == command.words
      m == second.words
  IN  CASE format = "Receive" ->
             part(None, WordAt(words, p + n), None, WordsAt(words, p, n))
        [] format = "Transmit" ->
             part(None, WordAt(words, p), None, WordsAt(words, p + 1, n))
        [] format = "RtToRt" ->
             part(second, WordAt(words, p + 1), WordAt(words, p + 2 + m),
                  WordsAt(words, p + 2, m))
        [] format = "RtToRtBroadcast" ->
             part(second, WordAt(words, p + 1), None, WordsAt(words, p + 2, m))
        [] format = "ReceiveBroadcast" ->
             part(None, None, None, WordsAt(words, p, n))
        [] format = "ModeCodeTxData" ->
             part(None, WordAt(words, p), None, one(p + 1))
        [] format = "ModeCodeRxData" ->
             part(None, WordAt(words, p + 1), None, one(p))
        [] format = "ModeCodeNoData" ->
             part(None, WordAt(words, p), None, <<>>)
        [] format = "ModeCodeBcastData" -> part(None, None, None, one(p))
        [] format \in {"ModeCodeBcastNoData", "SpuriousData"} ->
             part(None, None, None, <<>>)

\* Known DDC error codes: 0x011E, 0x0120, 0x0136, 0x0140 and 0x0150.
KnownCodes == {286, 288, 310, 320, 336}
Continuation == 8192
Standalone == 8193

-----------------------------------------------------------------------------
(* A whole record: what each word of a file would be as the first of one,  *)
(* in the terms of the module Reader, and the message a record becomes.    *)

\* L2-SYN-004 and L2-SYN-019: a free-running clock has no day.
TimeHolds(time) ==
  /\ time.parts[2] < 24 /\ time.parts[3] < 60 /\ time.parts[4] < 60
  /\ time.parts[5] < 1000000
  /\ time.freerun \/ time.parts[1] \in 1 .. 366

CommandIndex(clock) == TimeWords[clock] + 2

FormatIn(record, clock) ==
  FormatOf(TypeWord(record[1]).type, CommandWord(record[CommandIndex(clock)]),
           TypeWord(record[1]).count, clock)

PayloadIn(record, clock) ==
  Payload(record, CommandIndex(clock) + 1, FormatIn(record, clock),
          CommandWord(record[CommandIndex(clock)]))

ShapeHolds(record, clock) ==
  LET command == CommandWord(record[CommandIndex(clock)])
      format == FormatIn(record, clock)
  IN  /\ StructureHolds(TypeWord(record[1]), command, format, clock)
      /\ CommandsAgree(format, command, PayloadIn(record, clock).second)

KindOf(word) ==
  CASE IsTerminator(word)                             -> "null"
    [] TypeWord(word).type = Types.SpuriousData       -> "spur"
    [] ~IsTerminator(word) /\ ~Known(TypeWord(word).type) -> "junk"
    [] OTHER -> IF TypeWord(word).error THEN "err" ELSE "msg"

FateOf(record, kind, clock) ==
  CASE clock = "irig" /\ ~TimeHolds(TimeOf(record, clock)) -> "time"
    [] kind = "msg" /\ ~ShapeHolds(record, clock)          -> "shape"
    [] kind = "err" /\ record[Len(record)] \notin KnownCodes -> "code"
    [] OTHER                                              -> "fine"

Described(words, clock) ==
  [i \in DOMAIN words |->
     LET kind == KindOf(words[i])
         len == TypeWord(words[i]).count
         whole == /\ kind \in {"msg", "err", "spur"}
                  /\ len >= MinRecordWords[clock]
                  /\ i + len - 1 <= Len(words)
     IN  [kind |-> kind, len |-> len,
          fate |-> IF whole
                     THEN FateOf(SubSeq(words, i, i + len - 1), kind, clock)
                     ELSE "fine"]]

Blank(record, clock) ==
  [time |-> TimeOf(record, clock), word |-> TypeWord(record[1]),
   command |-> None, second |-> None, status |-> None, status2 |-> None,
   data |-> <<>>, code |-> None]

\* spurious_message: a continuation if the record before it was in error.
SpuriousMessage(record, clock, prevError) ==
  [Blank(record, clock) EXCEPT
     !.data = WordsAt(record, CommandIndex(clock), Len(record) - CommandIndex(clock) + 1),
     !.code = IF prevError THEN Continuation ELSE Standalone]

\* decode_error_record: the Error Word is the last one of the record.
ErrorMessage(record, clock) ==
  [Blank(record, clock) EXCEPT
     !.command = record[CommandIndex(clock)],
     !.data = WordsAt(record, CommandIndex(clock) + 1, Len(record) - CommandIndex(clock) - 1),
     !.code = record[Len(record)]]

\* decode_normal_record.
NormalMessage(record, clock) ==
  LET payload == PayloadIn(record, clock)
  IN  [Blank(record, clock) EXCEPT
         !.command = record[CommandIndex(clock)],
         !.second = payload.second,
         !.status = payload.status,
         !.status2 = payload.status2,
         !.data = payload.data]

MessageOf(record, clock, prevError) ==
  CASE KindOf(record[1]) = "spur" -> SpuriousMessage(record, clock, prevError)
    [] KindOf(record[1]) = "err"  -> ErrorMessage(record, clock)
    [] KindOf(record[1]) = "msg"  -> NormalMessage(record, clock)

\* HOMOGENEITY_SAMPLE_RECORDS copies of one record, but for its time.
Homogeneous(words, at, sample) ==
  LET len == TypeWord(words[at]).count
  IN  /\ at + sample * len - 1 <= Len(words)
      /\ \A i \in 1 .. sample - 1, j \in (0 .. len - 1) \ (1 .. 3) :
           words[at + i * len + j] = words[at + j]

-----------------------------------------------------------------------------
(* probe_timestamp_format: each record scores for both formats, as if its  *)
(* Command Word stood behind a timestamp of either.                        *)

DirectionFits(tw, command) ==
  \/ tw.type = Types.BcToRt /\ ~command.transmits
  \/ tw.type = Types.RtToBc /\ command.transmits

\* Words of a record that are neither timestamp nor data.
Overhead(clock) == TimeWords[clock] + 3

Score(words, at, clock) ==
  LET tw == TypeWord(words[at])
      command == CommandWord(words[at + TimeWords[clock] + 1])
      time == IrigTime(words[at + 1], words[at + 2], 0).parts
  IN  IF at + TimeWords[clock] + 1 \notin DOMAIN words THEN 0
      ELSE (IF DirectionFits(tw, command) THEN 2 ELSE 0)
           + (IF tw.count - Overhead(clock) = command.words THEN 2 ELSE 0)
           + (IF clock = "irig" /\ time[2] < 24 /\ time[3] < 60 /\ time[4] < 60
                THEN 1 ELSE 0)

\* Where the records to score begin: up to n from `first`, none impossible.
Probed(words, first, n) ==
  LET walk[k \in 0 .. n, at \in Nat] ==
        IF \/ k = 0 \/ at + MinRecordWords["std"] - 1 > Len(words)
           \/ TypeWord(words[at]).count < MinRecordWords["std"]
          THEN {}
          ELSE {at} \cup walk[k - 1, at + TypeWord(words[at]).count]
  IN  walk[n, first]

TotalScore(words, first, n, clock) ==
  MapThenSumSet(LAMBDA at : Score(words, at, clock), Probed(words, first, n))

\* IRIG wins a tie.
Probe(words, first, n) ==
  LET irig == TotalScore(words, first, n, "irig")
      standard == TotalScore(words, first, n, "std")
      most == Max({irig, standard})
      margin == 2 * most - irig - standard
  IN  [clock |-> IF irig >= standard THEN "irig" ELSE "std",
       confidence |->
         IF most < 4 \/ margin < 3 THEN "ambiguous"
         ELSE IF most >= 8 /\ margin >= 6 THEN "decisive" ELSE "marginal"]

-----------------------------------------------------------------------------
(* Calendar dates.                                                         *)

IsLeapYear(year) == year % 4 = 0 /\ (year % 100 # 0 \/ year % 400 = 0)

MonthLengths(year) ==
  <<31, IF IsLeapYear(year) THEN 29 ELSE 28,
    31, 30, 31, 30, 31, 31, 30, 31, 30, 31>>

DayExists(year, day) == day \in 1 .. IF IsLeapYear(year) THEN 366 ELSE 365

\* The month and the day of it: what remains after the months before.
MonthDay(year, day) ==
  LET lengths == MonthLengths(year)
      from[month \in 1 .. 12, left \in Nat] ==
        IF left <= lengths[month] \/ month = 12 THEN <<month, left>>
        ELSE from[month + 1, left - lengths[month]]
  IN  from[1, day]

\* Whole hours and minutes of an offset, toward zero, and its sign.
OffsetParts(minutes) ==
  LET size == IF minutes < 0 THEN -minutes ELSE minutes
  IN  IF minutes = 0 THEN <<"Z">>
      ELSE <<IF minutes < 0 THEN "-" ELSE "+", size \div 60, size % 60>>

\* Whether format_with has an answer.
Renders(time, render) ==
  render.format # "doy" =>
    /\ time.clock = "irig"
    /\ ~time.freerun
    /\ render.year # render.missing
    /\ DayExists(render.year, time.parts[1])

Rendered(time, render) ==
  LET clockTime == SubSeq(time.parts, 2, 5)
      date == MonthDay(render.year, time.parts[1])
  IN  CASE render.format = "doy" -> time.parts
        [] render.format = "iso" ->
             <<render.year, date[1], date[2]>> \o clockTime
               \o OffsetParts(render.offset)
        [] render.format = "dom" -> <<date[2]>> \o clockTime

\* Earlier, part by part.
Earlier(a, b) ==
  \E i \in DOMAIN a : a[i] < b[i] /\ \A j \in 1 .. i - 1 : a[j] = b[j]
=============================================================================
