-------------------------------- MODULE Dump --------------------------------
(***************************************************************************)
(* The hex dumps (src/rust/src/dump.rs): which bytes of a recording are    *)
(* shown, under which record, and with which annotation.  Offsets count    *)
(* bytes, and may be odd.  The layout of a line is left out.               *)
(***************************************************************************)
EXTENDS Fields

MinRecordBytes == 10

Size(words) == 2 * Len(words)

ByteAt(words, offset) ==
  LET word == words[offset \div 2 + 1]
  IN  IF offset % 2 = 0 THEN word % 256 ELSE word \div 256

\* Little-endian; None past the end.
ReadU16(words, offset) ==
  IF offset + 2 <= Size(words)
    THEN ByteAt(words, offset) + 256 * ByteAt(words, offset + 1)
    ELSE None

OrZero(word) == IF word = None THEN 0 ELSE word

\* The bytes a raw dump shows: from the first one to before the other.
RawRange(words, offset, length) ==
  LET from == Min({offset, Size(words)})
      until == IF length = None THEN Size(words)
               ELSE Min({offset + length, Size(words)})
  IN  [from |-> from, until |-> Max({from, until})]

\* write_record_annotation: the timestamp is always read as IRIG.
Annotation(words, offset) ==
  LET word(n) == OrZero(ReadU16(words, offset + 2 * n))
      tw == TypeWord(word(0))
      command == CommandWord(word(4))
  IN  [from    |-> offset,
       until   |-> offset + 2 * tw.count,
       word    |-> tw,
       time    |-> IrigTime(word(1), word(2), word(3)),
       command |-> command,
       format  |-> FormatOf(tw.type, command, tw.count, "irig"),
       code    |-> IF tw.error THEN word(tw.count - 1) ELSE None]

\* Mutant of Note: a record that runs past the end is shown too.
NoteOfCount(words, offset) ==
  IF TypeWord(ReadU16(words, offset)).count < MinRecordWords["irig"]
    THEN "invalid" ELSE "none"

\* dump_record_extent: why the scan stops before the record at `offset`.
Note(words, offset) ==
  LET count == TypeWord(ReadU16(words, offset)).count
  IN  CASE count < MinRecordWords["irig"]                     -> "invalid"
        [] count >= MinRecordWords["irig"]
             /\ offset + 2 * count > Size(words)              -> "truncated"
        [] OTHER                                              -> "none"

\* write_hex_dump_records: one record after the other, the first at `start`.
DumpStarted == [records |-> <<>>, note |-> "none"]

NextOffset(records, start) ==
  IF records = <<>> THEN start ELSE records[Len(records)].until

\* The guards of its loop: the end, and the limit on records.
DumpExhausted(words, records, start, most) ==
  \/ NextOffset(records, start) + MinRecordBytes > Size(words)
  \/ most # None /\ Len(records) >= most
=============================================================================
