------------------------------ MODULE DumpProofs ------------------------------
(***************************************************************************)
(* Proofs about Program, continued: a dump shows the bytes that were asked *)
(* for, or record after record what was recorded.                          *)
(***************************************************************************)
EXTENDS ProgramProofs

-----------------------------------------------------------------------------
(* What is read from a recording, and what an annotation says of it.       *)

\* The smaller of two numbers.
LEMMA MinOfTwo ==
  ASSUME NEW a \in Int, NEW b \in Int
  PROVE  Min({a, b}) = IF a <= b THEN a ELSE b
  <1> DEFINE least == IF a <= b THEN a ELSE b
  <1>1. least \in {a, b} /\ \A y \in {a, b} : least <= y
    OBVIOUS
  <1>2. Min({a, b}) \in {a, b} /\ \A y \in {a, b} : Min({a, b}) <= y
    BY <1>1 DEF Min
  <1> QED
    BY <1>2

\* The larger of two numbers.
LEMMA MaxOfTwo ==
  ASSUME NEW a \in Int, NEW b \in Int
  PROVE  Max({a, b}) = IF a >= b THEN a ELSE b
  <1> DEFINE most == IF a >= b THEN a ELSE b
  <1>1. most \in {a, b} /\ \A y \in {a, b} : most >= y
    OBVIOUS
  <1>2. Max({a, b}) \in {a, b} /\ \A y \in {a, b} : Max({a, b}) >= y
    BY <1>1 DEF Max
  <1> QED
    BY <1>2

\* A word read inside the recording is a number, aligned or not.
LEMMA ReadsNumber ==
  ASSUME NEW words, IsWords(words), NEW offset \in Nat, offset + 2 <= Size(words)
  PROVE  ReadU16(words, offset) \in Nat
  <1>1. Len(words) \in Nat /\ Size(words) = 2 * Len(words)
    BY DEF IsWords, Size
  <1>2. offset \div 2 + 1 \in 1 .. Len(words) /\ (offset + 1) \div 2 + 1 \in 1 .. Len(words)
    BY <1>1
  <1>3. \A i \in 1 .. Len(words) : words[i] \in Nat
    BY DEF IsWords
  <1>4. \A w \in Nat : w % 256 \in Nat /\ w \div 256 \in Nat
    OBVIOUS
  <1>5. words[offset \div 2 + 1] \in Nat /\ words[(offset + 1) \div 2 + 1] \in Nat
    BY <1>2, <1>3
  <1>6. ByteAt(words, offset) \in Nat
    BY <1>4, <1>5 DEF ByteAt
  <1>7. ByteAt(words, offset + 1) \in Nat
    BY <1>4, <1>5 DEF ByteAt
  <1>8. ReadU16(words, offset) = ByteAt(words, offset) + 256 * ByteAt(words, offset + 1)
    BY DEF ReadU16
  <1> QED
    BY <1>6, <1>7, <1>8

\* Read where a word of the recording stands, it is that word.
LEMMA ReadsWord ==
  ASSUME NEW words, IsWords(words), NEW n \in Nat, n < Len(words)
  PROVE  OrZero(ReadU16(words, 2 * n)) = words[n + 1]
  <1>1. Len(words) \in Nat /\ Size(words) = 2 * Len(words)
    BY DEF IsWords, Size
  <1>2. words[n + 1] \in Nat
    BY <1>1 DEF IsWords
  <1>3. (2 * n) \div 2 = n /\ (2 * n + 1) \div 2 = n /\ (2 * n) % 2 = 0 /\ (2 * n + 1) % 2 = 1
    OBVIOUS
  <1>4. ByteAt(words, 2 * n) = words[n + 1] % 256
    BY <1>3 DEF ByteAt
  <1>5. ByteAt(words, 2 * n + 1) = words[n + 1] \div 256
    BY <1>3 DEF ByteAt
  <1>6. ReadU16(words, 2 * n) = (words[n + 1] % 256) + 256 * (words[n + 1] \div 256)
    BY <1>1, <1>4, <1>5 DEF ReadU16
  <1>7. ReadU16(words, 2 * n) = words[n + 1]
    BY <1>2, <1>6
  <1> QED
    BY <1>2, <1>7, NoneAssumption DEF OrZero

\* What the annotation tells of a record that is not cut off.
LEMMA WholeIsTold ==
  ASSUME NEW words, IsWords(words), NEW offset \in Nat,
         offset + MinRecordBytes <= Size(words), Note(words, offset) = "none"
  PROVE  /\ Annotation(words, offset).from = offset
         /\ Annotation(words, offset).until \in Nat
         /\ Annotation(words, offset).until >= offset + MinRecordBytes
         /\ Annotation(words, offset).until <= Size(words)
  <1>1. Size(words) \in Nat /\ MinRecordBytes = 10
    BY DEF IsWords, Size, MinRecordBytes
  <1>2. ReadU16(words, offset) \in Nat
    BY <1>1, ReadsNumber
  <1> DEFINE count == TypeWord(ReadU16(words, offset)).count
  <1>3. count \in Nat
    <2>1. \A w \in Nat : Bits(w, 8, 6) \in Nat
      BY DEF Bits
    <2> QED
      BY <1>2, <2>1 DEF TypeWord
  <1>4. ~(count < 5) /\ ~(count >= 5 /\ offset + 2 * count > Size(words))
    BY DEF Note, MinRecordWords
  <1>5. OrZero(ReadU16(words, offset + 2 * 0)) = ReadU16(words, offset)
    BY <1>2, NoneAssumption DEF OrZero
  <1>6. /\ Annotation(words, offset).from = offset
        /\ Annotation(words, offset).until = offset + 2 * count
    BY <1>5 DEF Annotation
  <1> HIDE DEF count
  <1> QED
    BY <1>1, <1>3, <1>4, <1>6

\* Where a record was sent, the annotation tells what was.
LEMMA SentIsTold ==
  ASSUME NEW words, IsWords(words), NEW n \in Nat, NEW sent,
         2 * n + MinRecordBytes <= Size(words), Note(words, 2 * n) = "none",
         Holds(words, n, sent)
  PROVE  Tells(Annotation(words, 2 * n), sent)
  <1> DEFINE offset == 2 * n
             word(k) == OrZero(ReadU16(words, offset + 2 * k))
             tw == TypeWord(words[n + 1])
             record == Annotation(words, offset)
  <1>1. Len(words) \in Nat /\ Size(words) = 2 * Len(words) /\ MinRecordBytes = 10
    BY DEF IsWords, Size, MinRecordBytes
  <1>2. ASSUME NEW k \in Nat, n + k < Len(words)
        PROVE  word(k) = words[n + k + 1]
    <2>1. offset + 2 * k = 2 * (n + k) /\ n + k \in Nat
      BY <1>2
    <2> QED
      BY <1>2, <2>1, ReadsWord
  <1>3. /\ word(0) = words[n + 1] /\ word(1) = words[n + 2] /\ word(2) = words[n + 3]
        /\ word(3) = words[n + 4] /\ word(4) = words[n + 5]
    <2>1. n + 4 < Len(words)
      BY <1>1
    <2> HIDE DEF word
    <2> QED
      BY <1>1, <1>2, <2>1
  <1>4. /\ record.word = TypeWord(word(0))
        /\ record.time = IrigTime(word(1), word(2), word(3))
        /\ record.command = CommandWord(word(4))
        /\ record.code = IF TypeWord(word(0)).error THEN word(TypeWord(word(0)).count - 1)
                                                    ELSE None
    BY DEF Annotation
  <1>5. tw.count \in Nat /\ tw.count >= 5 /\ n + (tw.count - 1) < Len(words)
    <2>1. ReadU16(words, offset) = words[n + 1] /\ words[n + 1] \in Nat
      <3>1. words[n + 1] \in Nat /\ n < Len(words)
        BY <1>1 DEF IsWords
      <3>2. OrZero(ReadU16(words, offset)) = words[n + 1]
        BY <3>1, ReadsWord
      <3>3. ReadU16(words, offset) \in Nat
        BY <1>1, ReadsNumber
      <3> QED
        BY <3>1, <3>2, <3>3, NoneAssumption DEF OrZero
    <2>2. \A w \in Nat : Bits(w, 8, 6) \in Nat
      BY DEF Bits
    <2>3. tw.count \in Nat
      BY <2>1, <2>2 DEF TypeWord
    <2>4. ~(tw.count < 5) /\ ~(tw.count >= 5 /\ offset + 2 * tw.count > Size(words))
      BY <2>1 DEF Note, MinRecordWords
    <2> HIDE DEF tw
    <2> QED
      BY <1>1, <2>3, <2>4
  <1>6. word(tw.count - 1) = words[n + tw.count]
    <2>1. tw.count - 1 \in Nat /\ n + (tw.count - 1) + 1 = n + tw.count
      BY <1>5
    <2> HIDE DEF word, tw
    <2> QED
      BY <1>2, <1>5, <2>1
  <1>7. /\ tw.type = Types[sent.type] /\ tw.bus = sent.bus
        /\ tw.error = (sent.error # None)
        /\ IrigTime(words[n + 2], words[n + 3], words[n + 4]).parts = sent.time
        /\ IrigTime(words[n + 2], words[n + 3], words[n + 4]).freerun = sent.freerun
        /\ sent.command # None => CommandWord(words[n + 5]) = sent.command
        /\ sent.error # None => words[n + tw.count] = sent.error
    BY DEF Holds
  <1> HIDE DEF tw, word, record
  <1>8. record.word = tw /\ record.time = IrigTime(words[n + 2], words[n + 3], words[n + 4])
    BY <1>3, <1>4 DEF tw
  <1>9. record.command = CommandWord(words[n + 5])
    BY <1>3, <1>4
  <1>10. record.code = sent.error
    BY <1>3, <1>4, <1>6, <1>7 DEF tw
  <1> QED
    BY <1>7, <1>8, <1>9, <1>10 DEF Tells, record

-----------------------------------------------------------------------------
(* The dump of a run.                                                      *)

\* The recordings of the disk, and what was sent in them.
RecordingsInv ==
  \A place \in DOMAIN disk : disk[place].kind = "recording" =>
    /\ IsWords(disk[place].words)
    /\ \A n \in DOMAIN disk[place].parts :
         disk[place].parts[n].is = "record" /\ disk[place].parts[n].sent.clock = "irig" =>
           /\ disk[place].parts[n].at \in Nat
           /\ Holds(disk[place].words, disk[place].parts[n].at, disk[place].parts[n].sent)

\* The offset, the length and the number of records that were given.
SizesInv ==
  /\ \A i \in DOMAIN argv : WellFormed(argv[i])
  /\ \A field \in SizeFields \cap DOMAIN args : args[field] \in Nat

\* While records are shown, each one is honest and nothing has been noted.
ShowingInv ==
  /\ Openable(OnePath) /\ "raw" \notin DOMAIN args
  /\ dumped = [records |-> dumped.records, note |-> "none"]
  /\ Len(dumped.records) \in Nat
  /\ DOMAIN dumped.records = 1 .. Len(dumped.records)
  /\ \A k \in DOMAIN dumped.records :
       dumped.records[k].until \in Nat /\ RecordHonest(k)
  /\ "records" \in DOMAIN args => Len(dumped.records) <= args["records"]

DumpInv ==
  /\ RecordingsInv /\ SizesInv
  /\ stage # "exited" => outcome = None
  /\ stage \notin {"dumping", "exited"} => dumped = None
  /\ stage = "dumping" => ShowingInv
  /\ DumpHonest

\* A text that is good for a size gives a number.
LEMMA GoodSizeGiven ==
  ASSUME NEW token, WellFormed(token), NEW text,
         text \in {token.text} \cup ({token.joined} \ {None}),
         NEW field \in SizeFields, GoodText(field, text)
  PROVE  Given(field, text) \in Nat
  <1>1. /\ field \notin FilterFields /\ field \notin PathFields /\ field # "mux_delimiter"
        /\ field \notin TypeFields \cup {"utc_offset_minutes", "log_level"}
        /\ field \notin BusFields \cup AddressFields \cup DOMAIN Ranges \cup DOMAIN Spellings
    BY DEF SizeFields, FilterFields, PathFields, TypeFields, BusFields, AddressFields, Ranges,
       Spellings
  <1>2. Len(text) = 1 /\ GoodAtom(field, text[1])
    BY <1>1 DEF GoodText
  <1>3. GoodSize(text[1])
    <2>1. GoodAtom(field, text[1]) <=> GoodSize(text[1])
      BY <1>1 DEF GoodAtom, SizeFields
    <2> QED
      BY <1>2, <2>1
  <1>4. 1 \in 1 .. Len(text)
    BY <1>2
  <1>5. PICK radix \in Radices : Is(radix, text[1]) /\ text[1][radix] >= 0
    BY <1>3 DEF GoodSize
  <1>6. DOMAIN text[1] = {radix} /\ text[1][radix] \in Int
    BY <1>4, <1>5 DEF WellFormed
  <1>7. Given(field, text) = Value(field, text[1])
    BY <1>1 DEF Given
  <1>8. Value(field, text[1]) = text[1][CHOOSE kind \in DOMAIN text[1] : TRUE]
    BY <1>1 DEF Value
  <1>9. (CHOOSE kind \in DOMAIN text[1] : TRUE) = radix
    BY <1>6
  <1> QED
    BY <1>5, <1>6, <1>7, <1>8, <1>9

\* The text of a value is that of a token, or joined to one.
LEMMA TextIsGiven ==
  ASSUME ArgvInv, at <= Len(argv), HasValue(at)
  PROVE  \E i \in DOMAIN argv : TextOf(at) \in {argv[i].text} \cup ({argv[i].joined} \ {None})
  <1>1. CASE Bare(argv[at])
    <2>1. at < Len(argv)
      BY <1>1 DEF HasValue
    <2>2. at + 1 \in DOMAIN argv
      BY <2>1 DEF ArgvInv
    <2> QED
      BY <1>1, <2>2 DEF TextOf
  <1>2. CASE ~Bare(argv[at])
    <2>1. at \in DOMAIN argv
      BY DEF ArgvInv
    <2> QED
      BY <1>2, <2>1 DEF TextOf, Bare
  <1> QED
    BY <1>1, <1>2

\* Only a switch or a value changes what was given.
LEMMA ArgsTaken ==
  ASSUME ReadToken
  PROVE  args' = args \/ SetSwitch \/ TakeValue
  <1>1. CASE \/ NoCommand \/ GlobalHelp \/ GlobalVersion \/ GlobalWithoutValue
             \/ UnknownCommand \/ SecondPath \/ CommandHelp \/ RefuseValue
             \/ FlagWithoutValue \/ RefuseFlag \/ EndOfArguments
    BY <1>1
    DEF NoCommand, GlobalHelp, GlobalVersion, GlobalWithoutValue, UnknownCommand, SecondPath,
        CommandHelp, RefuseValue, FlagWithoutValue, RefuseFlag, EndOfArguments, Fail, Answer
  <1>2. CASE TakeGlobal \/ DeclineAdvisory \/ TakeCommand \/ EndOptions \/ TakePath
    BY <1>2 DEF TakeGlobal, DeclineAdvisory, TakeCommand, EndOptions, TakePath
  <1> QED
    BY <1>1, <1>2 DEF ReadToken

\* Reading a token keeps the sizes numbers.
LEMMA SizesKeep ==
  ASSUME ArgvInv, SizesInv, ReadToken
  PROVE  SizesInv'
  <1>1. argv' = argv
    BY ReadTokenArgv
  <1>2. \A i \in DOMAIN argv' : WellFormed(argv[i])'
    BY <1>1 DEF SizesInv, WellFormed
  <1>3. CASE args' = args
    BY <1>2, <1>3 DEF SizesInv
  <1>4. CASE SetSwitch
    <2>1. /\ reading \in Subcommands /\ Token.name \in DOMAIN Switches[reading]
          /\ args' = With(args, Switches[reading][Token.name][1], Switches[reading][Token.name][2])
      BY <1>4 DEF SetSwitch, SetsSwitch, AtFlag, InCommand
    <2>2. Switches[reading][Token.name][1] \notin SizeFields
      BY <2>1, TableFacts
    <2>3. \A field \in SizeFields \cap DOMAIN args' :
            field \in DOMAIN args /\ args'[field] = args[field]
      BY <2>1, <2>2 DEF With
    <2> QED
      BY <1>2, <2>3 DEF SizesInv
  <1>5. CASE TakeValue
    <2> DEFINE taken == ValueFlags[reading][Token.name]
    <2>1. /\ at <= Len(argv) /\ HasValue(at) /\ GoodText(taken, TextOf(at))
          /\ args' = With(args, taken, Given(taken, TextOf(at)))
      BY <1>5 DEF TakeValue, AtFlag
    <2>2. \E i \in DOMAIN argv : TextOf(at) \in {argv[i].text} \cup ({argv[i].joined} \ {None})
      BY <2>1, TextIsGiven
    <2>3. taken \in SizeFields => Given(taken, TextOf(at)) \in Nat
      <3>1. PICK i \in DOMAIN argv : TextOf(at) \in {argv[i].text} \cup ({argv[i].joined} \ {None})
        BY <2>2
      <3>2. WellFormed(argv[i])
        BY DEF SizesInv
      <3> QED
        BY <2>1, <3>1, <3>2, GoodSizeGiven
    <2> HIDE DEF taken
    <2>4. \A field \in SizeFields \cap DOMAIN args' : args'[field] \in Nat
      BY <2>1, <2>3 DEF SizesInv, With
    <2> QED
      BY <1>2, <2>4 DEF SizesInv
  <1> QED
    BY <1>3, <1>4, <1>5, ArgsTaken

\* Which steps can change what a dump has shown, or end a run.
LEMMA DumpingSteps ==
  ASSUME reading \in {"globals"} \cup Subcommands, Next
  PROVE  /\ disk' = disk
         /\ \/ Dumping \/ Exited
            \/ /\ stage \notin {"dumping", "exited"} /\ stage' # "dumping"
               /\ dumped' = dumped
               /\ outcome' = outcome \/ stage' = "exited"
  <1> DEFINE Other ==
        /\ disk' = disk
        /\ stage \notin {"dumping", "exited"} /\ stage' # "dumping"
        /\ dumped' = dumped
        /\ outcome' = outcome \/ stage' = "exited"
  <1>1. CASE ReadArguments \/ PrintAnswer \/ RefuseArguments \/ RefuseLogLevel \/ ApplyLogLevel
    BY <1>1
    DEF ReadArguments, PrintAnswer, RefuseArguments, RefuseLogLevel, ApplyLogLevel,
        ExitAfterPrinting, Exit, Ended
  <1>2. CASE ReadConfig \/ RefuseConfig
    BY <1>2 DEF ReadConfig, RefuseConfig, Exit, Ended
  <1>3. CASE ResolveConfig
    BY <1>3 DEF ResolveConfig, Subcommands
  <1>4. CASE InputsUnreadable \/ InputsMiscounted \/ FindInputs \/ OpenInputs
    BY <1>4 DEF InputsUnreadable, InputsMiscounted, FindInputs, OpenInputs, Exit, Ended
  <1>5. CASE InputUnopened \/ RefuseCollision \/ RefuseRendering
    BY <1>5 DEF InputUnopened, RefuseCollision, RefuseRendering, Exit, Ended
  <1>6. CASE Begin
    BY <1>6 DEF Begin, PrimingFails, RefuseOutput, StartStream, Fails, Exit, Ended
  <1>7. CASE PullStream \/ WriteRow \/ RowUnrenderable \/ StreamEnds
    BY <1>7 DEF PullStream, WriteRow, RowUnrenderable, StreamEnds, Fails, Exit, Ended
  <1>8. CASE StdoutFails \/ StreamFailed
    BY <1>8 DEF StdoutFails, StreamFailed, Fails, Exit, Ended
  <1>9. CASE CommitMain \/ CommitErrors \/ CommitFails \/ Conclude
    BY <1>9 DEF CommitMain, CommitErrors, CommitFails, Conclude, Committing, Commit, Exit, Ended
  <1>10. CASE ChooseCounted \/ CountUnopened \/ OpenCounted
    BY <1>10 DEF ChooseCounted, CountUnopened, OpenCounted, Exit, Ended
  <1>11. CASE Count
    BY <1>11
    DEF Count, CountMessage, CountFails, PrintCount, Fails, ExitAfterPrinting, Exit, Ended
  <1>12. CASE DumpUnreadable
    BY <1>12 DEF DumpUnreadable, Exit, Ended
  <1>13. CASE Dumping
    BY <1>13
    DEF Dumping, DumpRaw, DumpRecords, DumpRecord, DumpDone, DumpStops, DumpCut, DumpEnds,
        DumpSteps
  <1>14. CASE Exited
    BY <1>14 DEF Exited, vars
  <1> QED
    BY <1>1, <1>2, <1>3, <1>4, <1>5, <1>6, <1>7, <1>8, <1>9, <1>10, <1>11, <1>12, <1>13, <1>14
    DEF Next, Decode

\* What is dumped goes with the line and the disk.
LEMMA DumpedKeep ==
  ASSUME UNCHANGED <<args, paths, disk>>
  PROVE  /\ OnePath' = OnePath /\ StartOffset' = StartOffset /\ DumpWords' = DumpWords
         /\ Parts(OnePath)' = Parts(OnePath)
         /\ Openable(OnePath)' <=> Openable(OnePath)
  <1>1. OnePath' = OnePath
    BY DEF OnePath
  <1>2. StartOffset' = StartOffset
    BY DEF StartOffset, Option
  <1>3. Canonical(OnePath)' = Canonical(OnePath)
    BY <1>1 DEF Canonical
  <1>4. DumpWords' = DumpWords /\ Parts(OnePath)' = Parts(OnePath)
    BY <1>3 DEF DumpWords, Parts
  <1>5. Openable(OnePath)' <=> Openable(OnePath)
    BY <1>3 DEF Openable, KindAt, Exists
  <1> QED
    BY <1>1, <1>2, <1>4, <1>5

\* A record that was shown stays as honest as it was.
LEMMA HonestKeeps ==
  ASSUME UNCHANGED <<args, paths, disk>>, NEW k \in Nat \ {0}, RecordHonest(k),
         \A j \in 1 .. k : dumped'.records[j] = dumped.records[j]
  PROVE  RecordHonest(k)'
  <1>1. /\ StartOffset' = StartOffset /\ DumpWords' = DumpWords
        /\ Parts(OnePath)' = Parts(OnePath)
    BY DumpedKeep
  <1>2. dumped'.records[k] = dumped.records[k]
    OBVIOUS
  <1>3. k # 1 => dumped'.records[k - 1] = dumped.records[k - 1]
    <2> SUFFICES ASSUME k # 1 PROVE dumped'.records[k - 1] = dumped.records[k - 1]
      OBVIOUS
    <2>1. k - 1 \in 1 .. k
      OBVIOUS
    <2> QED
      BY <2>1
  <1> QED
    BY <1>1, <1>2, <1>3 DEF RecordHonest

\* What a dump reads.
LEMMA DumpReads ==
  ASSUME RecordingsInv, SizesInv, Openable(OnePath)
  PROVE  /\ IsWords(DumpWords) /\ StartOffset \in Nat
         /\ \A n \in DOMAIN Parts(OnePath) :
              Parts(OnePath)[n].is = "record" /\ Parts(OnePath)[n].sent.clock = "irig" =>
                /\ Parts(OnePath)[n].at \in Nat
                /\ Holds(DumpWords, Parts(OnePath)[n].at, Parts(OnePath)[n].sent)
         /\ \A field \in {"length", "records"} : field \in DOMAIN args => args[field] \in Nat
  <1>1. Exists(OnePath) /\ disk[Canonical(OnePath)].kind = "recording"
    BY DEF Openable, KindAt
  <1>2. Canonical(OnePath) \in DOMAIN disk
    BY <1>1 DEF Exists, Canonical
  <1>3. StartOffset \in Nat
    BY DEF StartOffset, Option, SizesInv, SizeFields
  <1>4. \A field \in {"length", "records"} : field \in DOMAIN args => args[field] \in Nat
    BY DEF SizesInv, SizeFields
  <1> QED
    BY <1>1, <1>2, <1>3, <1>4 DEF RecordingsInv, DumpWords, Parts

\* The bytes of a raw dump are those that were asked for.
LEMMA RawIsHonest ==
  ASSUME RecordingsInv, SizesInv, Openable(OnePath), NEW range,
         range = RawRange(DumpWords, StartOffset, Option("length", None))
  PROVE  /\ range.from .. range.until - 1 =
              {b \in 0 .. Size(DumpWords) - 1 :
                 /\ b >= StartOffset
                 /\ "length" \in DOMAIN args => b < StartOffset + args["length"]}
         /\ range.from <= range.until /\ range.until <= Size(DumpWords)
  <1> DEFINE size == Size(DumpWords)
             from == IF StartOffset <= size THEN StartOffset ELSE size
             stop == IF "length" \notin DOMAIN args THEN size
                     ELSE IF StartOffset + args["length"] <= size
                       THEN StartOffset + args["length"] ELSE size
             until == IF from >= stop THEN from ELSE stop
  <1>1. /\ size \in Nat /\ StartOffset \in Nat
        /\ "length" \in DOMAIN args => args["length"] \in Nat
    BY DumpReads DEF IsWords, Size
  <1>2. Min({StartOffset, size}) = from
    BY <1>1, MinOfTwo
  <1>3. stop = IF Option("length", None) = None THEN size
               ELSE Min({StartOffset + Option("length", None), size})
    <2>1. CASE "length" \in DOMAIN args
      <3>1. Option("length", None) = args["length"] /\ args["length"] # None
        BY <1>1, <2>1, NoneAssumption DEF Option
      <3>2. Min({StartOffset + args["length"], size}) = stop
        BY <1>1, <2>1, MinOfTwo
      <3> QED
        BY <3>1, <3>2
    <2>2. CASE "length" \notin DOMAIN args
      BY <2>2 DEF Option
    <2> QED
      BY <2>1, <2>2
  <1>4. from \in Nat /\ stop \in Nat /\ from <= size /\ stop <= size
    BY <1>1
  <1>5. Max({from, stop}) = until
    <2> HIDE DEF from, stop
    <2> QED
      BY <1>4, MaxOfTwo
  <1>6. range = [from |-> from, until |-> until]
    <2> HIDE DEF from, stop, until, size
    <2> QED
      BY <1>2, <1>3, <1>5 DEF RawRange, size
  <1>7. from .. until - 1 = {b \in 0 .. size - 1 :
                               /\ b >= StartOffset
                               /\ "length" \in DOMAIN args => b < StartOffset + args["length"]}
    BY <1>1
  <1>8. from <= until /\ until <= size
    BY <1>1
  <1>9. range.from = from /\ range.until = until
    BY <1>6
  <1> HIDE DEF from, stop, until
  <1> QED
    BY <1>7, <1>8, <1>9

\* One more record, where the last one ended.
LEMMA RecordIsHonest ==
  ASSUME RecordingsInv, SizesInv, ShowingInv, DumpRecord
  PROVE  ShowingInv'
  <1> DEFINE records == dumped.records
             record == Annotation(DumpWords, Upcoming)
             last == Len(records) + 1
  <1>1. /\ ~Exhausted /\ Note(DumpWords, Upcoming) = "none"
        /\ dumped' = [dumped EXCEPT !.records = Append(@, record)]
        /\ UNCHANGED <<args, paths, disk>>
    BY DEF DumpRecord, DumpSteps, cliVars
  <1>2. /\ Openable(OnePath) /\ "raw" \notin DOMAIN args
        /\ dumped = [records |-> records, note |-> "none"]
        /\ Len(records) \in Nat /\ DOMAIN records = 1 .. Len(records)
        /\ \A k \in DOMAIN records : records[k].until \in Nat /\ RecordHonest(k)
        /\ "records" \in DOMAIN args => Len(records) <= args["records"]
    BY DEF ShowingInv
  <1>3. /\ IsWords(DumpWords) /\ StartOffset \in Nat
        /\ "records" \in DOMAIN args => args["records"] \in Nat
    BY <1>2, DumpReads
  <1>4. /\ dumped' = [records |-> Append(records, record), note |-> "none"]
        /\ dumped'.records = Append(records, record)
    <2> HIDE DEF record, records
    <2>1. dumped' = [[records |-> records, note |-> "none"] EXCEPT !.records = Append(@, record)]
      BY <1>1, <1>2
    <2> QED
      BY <2>1
  <1>5. /\ Len(dumped'.records) = last
        /\ DOMAIN dumped'.records = 1 .. last
        /\ \A k \in 1 .. Len(records) : dumped'.records[k] = records[k]
        /\ dumped'.records[last] = record
    <2> HIDE DEF record
    <2> QED
      BY <1>2, <1>4, AppendFacts
  <1>6. Upcoming = (IF last = 1 THEN StartOffset ELSE records[last - 1].until) /\ Upcoming \in Nat
    <2>1. last - 1 = Len(records) /\ (last = 1 <=> Len(records) = 0)
      BY <1>2
    <2>2. records = <<>> <=> Len(records) = 0
      <3>1. CASE Len(records) = 0
        <4>1. DOMAIN records = {}
          BY <1>2, <3>1
        <4> QED
          BY <1>3, <3>1, <4>1
      <3>2. CASE Len(records) # 0
        BY <3>2
      <3> QED
        BY <3>1, <3>2
    <2>3. Upcoming = IF records = <<>> THEN StartOffset ELSE records[Len(records)].until
      BY DEF Upcoming, NextOffset
    <2>4. Len(records) # 0 => records[Len(records)].until \in Nat
      BY <1>2
    <2> QED
      BY <1>3, <2>1, <2>2, <2>3, <2>4
  <1>7. /\ Upcoming + MinRecordBytes <= Size(DumpWords)
        /\ "records" \in DOMAIN args => Len(records) < args["records"]
    <2>1. Upcoming = NextOffset(records, StartOffset)
      BY DEF Upcoming
    <2>2. ~(Upcoming + MinRecordBytes > Size(DumpWords))
      BY <1>1, <2>1 DEF Exhausted, DumpExhausted
    <2>3. "records" \in DOMAIN args => ~(Len(records) >= args["records"])
      BY <1>1, <1>3, NoneAssumption DEF Exhausted, DumpExhausted, Option
    <2>4. Size(DumpWords) \in Nat /\ MinRecordBytes = 10
      BY <1>3 DEF IsWords, Size, MinRecordBytes
    <2> QED
      BY <1>2, <1>3, <1>6, <2>2, <2>3, <2>4
  <1>8. /\ record.from = Upcoming /\ record.until \in Nat
        /\ record.until >= Upcoming + MinRecordBytes /\ record.until <= Size(DumpWords)
    BY <1>1, <1>3, <1>6, <1>7, WholeIsTold
  <1>9. ASSUME NEW n \in DOMAIN Parts(OnePath), Parts(OnePath)[n].is = "record",
               Parts(OnePath)[n].sent.clock = "irig", 2 * Parts(OnePath)[n].at = record.from
        PROVE  Tells(record, Parts(OnePath)[n].sent)
    <2>1. /\ Parts(OnePath)[n].at \in Nat
          /\ Holds(DumpWords, Parts(OnePath)[n].at, Parts(OnePath)[n].sent)
      BY <1>2, <1>9, DumpReads
    <2>2. Upcoming = 2 * Parts(OnePath)[n].at
      BY <1>8, <1>9
    <2> HIDE DEF record
    <2>3. record = Annotation(DumpWords, 2 * Parts(OnePath)[n].at)
      BY <2>2 DEF record
    <2> QED
      BY <1>1, <1>3, <1>7, <2>1, <2>2, <2>3, SentIsTold
  <1> HIDE DEF record
  <1>10. ASSUME NEW k \in 1 .. last
         PROVE  dumped'.records[k].until \in Nat /\ RecordHonest(k)'
    <2>1. CASE k = last
      <3>1. /\ StartOffset' = StartOffset /\ DumpWords' = DumpWords
            /\ Parts(OnePath)' = Parts(OnePath)
        BY <1>1, DumpedKeep
      <3>2. dumped'.records[k] = record
        BY <1>5, <2>1
      <3>3. k # 1 => dumped'.records[k - 1] = records[last - 1]
        <4> SUFFICES ASSUME k # 1 PROVE dumped'.records[k - 1] = records[last - 1]
          OBVIOUS
        <4>1. k - 1 \in 1 .. Len(records) /\ k - 1 = last - 1
          BY <1>2, <2>1
        <4> QED
          BY <1>5, <4>1
      <3>4. record.from = IF k = 1 THEN StartOffset ELSE dumped'.records[k - 1].until
        BY <1>6, <1>8, <2>1, <3>3
      <3> QED
        BY <1>8, <1>9, <3>1, <3>2, <3>4 DEF RecordHonest
    <2>2. CASE k # last
      <3>1. k \in 1 .. Len(records) /\ k \in Nat \ {0}
        BY <1>2, <2>2
      <3>2. RecordHonest(k) /\ records[k].until \in Nat
        BY <1>2, <3>1
      <3>3. \A j \in 1 .. k : dumped'.records[j] = dumped.records[j]
        <4> TAKE j \in 1 .. k
        <4>1. j \in 1 .. Len(records)
          BY <1>2, <3>1
        <4> QED
          BY <1>5, <4>1
      <3>4. RecordHonest(k)'
        BY <1>1, <3>1, <3>2, <3>3, HonestKeeps
      <3> QED
        BY <1>5, <3>1, <3>2, <3>4
    <2> QED
      BY <2>1, <2>2
  <1>11. Openable(OnePath)' /\ "raw" \notin DOMAIN args'
    BY <1>1, <1>2, DumpedKeep
  <1>12. "records" \in DOMAIN args' => Len(dumped'.records) <= args'["records"]
    BY <1>1, <1>2, <1>3, <1>5, <1>7
  <1>13. Len(dumped'.records) \in Nat /\ DOMAIN dumped'.records = 1 .. Len(dumped'.records)
    BY <1>2, <1>5
  <1>14. \A k \in DOMAIN dumped'.records : dumped'.records[k].until \in Nat /\ RecordHonest(k)'
    BY <1>5, <1>10
  <1> QED
    BY <1>4, <1>11, <1>12, <1>13, <1>14 DEF ShowingInv

\* A dump that ends without a note has shown all that it was asked for.
LEMMA DoneIsHonest ==
  ASSUME RecordingsInv, SizesInv, ShowingInv, Exhausted
  PROVE  LET shown == Len(dumped.records)
             rest == IF shown = 0 THEN StartOffset ELSE dumped.records[shown].until
         IN  \/ rest + MinRecordBytes > Size(DumpWords)
             \/ "records" \in DOMAIN args /\ shown = args["records"]
  <1> DEFINE shown == Len(dumped.records)
             rest == IF shown = 0 THEN StartOffset ELSE dumped.records[shown].until
  <1>1. /\ shown \in Nat /\ DOMAIN dumped.records = 1 .. shown
        /\ "records" \in DOMAIN args => shown <= args["records"]
    BY DEF ShowingInv
  <1>2. "records" \in DOMAIN args => args["records"] \in Nat
    BY DumpReads DEF ShowingInv
  <1>3. NextOffset(dumped.records, StartOffset) = rest
    <2>1. dumped.records = <<>> <=> shown = 0
      BY <1>1
    <2> QED
      BY <2>1 DEF NextOffset
  <1>4. \/ rest + MinRecordBytes > Size(DumpWords)
        \/ Option("records", None) # None /\ shown >= Option("records", None)
    BY <1>3 DEF Exhausted, DumpExhausted
  <1> HIDE DEF rest, shown
  <1>5. Option("records", None) # None =>
          "records" \in DOMAIN args /\ Option("records", None) = args["records"]
    BY DEF Option
  <1>6. \/ rest + MinRecordBytes > Size(DumpWords)
        \/ "records" \in DOMAIN args /\ shown = args["records"]
    BY <1>1, <1>2, <1>4, <1>5
  <1> QED
    BY <1>6 DEF rest, shown

\* While records are shown, a dump is honest; and still when it has ended.
LEMMA ShowingIsHonest ==
  ASSUME RecordingsInv, SizesInv, ShowingInv,
         DumpDone \/ DumpStops \/ DumpCut
  PROVE  DumpHonest'
  <1>1. /\ UNCHANGED <<args, paths, disk, sink>>
        /\ dumped' = [dumped EXCEPT !.note = dumped'.note]
        /\ dumped'.note = "none" => dumped' = dumped /\ (Exhausted \/ sink # "open")
    <2>1. CASE DumpDone \/ DumpCut
      <3>1. UNCHANGED <<args, paths, disk, sink, dumped>> /\ (Exhausted \/ sink # "open")
        BY <2>1 DEF DumpDone, DumpCut, DumpEnds, cliVars
      <3>2. dumped = [dumped EXCEPT !.note = dumped.note]
        BY DEF ShowingInv
      <3> QED
        BY <3>1, <3>2
    <2>2. CASE DumpStops
      <3>1. /\ UNCHANGED <<args, paths, disk, sink>>
            /\ Note(DumpWords, Upcoming) # "none"
            /\ dumped' = [dumped EXCEPT !.note = Note(DumpWords, Upcoming)]
        BY <2>2 DEF DumpStops, DumpEnds, cliVars
      <3>2. dumped = [records |-> dumped.records, note |-> "none"]
        BY DEF ShowingInv
      <3>3. dumped'.note = Note(DumpWords, Upcoming)
        BY <3>1, <3>2
      <3> QED
        BY <3>1, <3>3
    <2> QED
      BY <2>1, <2>2
  <1>2. dumped'.records = dumped.records
    <2>1. dumped = [records |-> dumped.records, note |-> "none"]
      BY DEF ShowingInv
    <2> QED
      BY <1>1, <2>1
  <1>3. /\ StartOffset' = StartOffset /\ DumpWords' = DumpWords
    BY <1>1, DumpedKeep
  <1>4. \A k \in DOMAIN dumped'.records : RecordHonest(k)'
    <2> TAKE k \in DOMAIN dumped'.records
    <2>1. k \in 1 .. Len(dumped.records) /\ Len(dumped.records) \in Nat /\ RecordHonest(k)
      BY <1>2 DEF ShowingInv
    <2>2. k \in Nat \ {0}
      BY <2>1
    <2> QED
      BY <1>1, <1>2, <2>1, <2>2, HonestKeeps
  <1>5. "records" \in DOMAIN args' => Len(dumped'.records) <= args'["records"]
    BY <1>1, <1>2 DEF ShowingInv
  <1>6. EndHonest'
    <2> SUFFICES ASSUME sink = "open", dumped'.note = "none"
                 PROVE  LET shown == Len(dumped.records)
                            rest == IF shown = 0 THEN StartOffset ELSE dumped.records[shown].until
                        IN  \/ rest + MinRecordBytes > Size(DumpWords)
                            \/ "records" \in DOMAIN args /\ shown = args["records"]
      BY <1>1, <1>2, <1>3 DEF EndHonest
    <2>1. Exhausted
      BY <1>1
    <2> QED
      BY <2>1, DoneIsHonest
  <1>7. "raw" \notin DOMAIN args'
    BY <1>1 DEF ShowingInv
  <1> QED
    BY <1>4, <1>5, <1>6, <1>7 DEF DumpHonest, RecordsHonest

\* A step that changes nothing keeps it too.
LEMMA DumpStays ==
  ASSUME DumpInv, UNCHANGED vars
  PROVE  DumpInv'
  <1>1. /\ UNCHANGED <<argv, args, paths, disk, sink, stage, dumped, outcome>>
    BY DEF vars, cliVars
  <1>2. /\ StartOffset' = StartOffset /\ DumpWords' = DumpWords
        /\ Openable(OnePath)' <=> Openable(OnePath)
    BY <1>1, DumpedKeep
  <1>3. ASSUME NEW k PROVE RecordHonest(k) => RecordHonest(k)'
    BY <1>1, DumpedKeep DEF RecordHonest
  <1>4. ShowingInv => ShowingInv'
    BY <1>1, <1>2, <1>3 DEF ShowingInv
  <1>5. DumpHonest => DumpHonest'
    BY <1>1, <1>2, <1>3 DEF DumpHonest, RawHonest, RecordsHonest, EndHonest
  <1>6. RecordingsInv' /\ SizesInv'
    BY <1>1 DEF DumpInv, RecordingsInv, SizesInv, WellFormed
  <1> QED
    BY <1>1, <1>4, <1>5, <1>6 DEF DumpInv

\* Every step keeps the invariant of the dumps.
LEMMA DumpingKeeps ==
  ASSUME ArgvInv, reading \in {"globals"} \cup Subcommands, DumpInv, Next
  PROVE  DumpInv'
  <1>0. /\ RecordingsInv /\ SizesInv /\ DumpHonest
        /\ stage # "exited" => outcome = None
        /\ stage \notin {"dumping", "exited"} => dumped = None
        /\ stage = "dumping" => ShowingInv
    BY DEF DumpInv
  <1>1. disk' = disk
    BY DumpingSteps
  <1>2. RecordingsInv'
    BY <1>0, <1>1 DEF RecordingsInv
  <1>3. SizesInv'
    <2>1. CASE ReadArguments
      BY <1>0, <2>1, SizesKeep DEF ReadArguments
    <2>2. CASE UNCHANGED cliVars
      BY <1>0, <2>2 DEF cliVars, SizesInv, WellFormed
    <2> QED
      BY <2>1, <2>2, OnlyReadingReads
  <1>4. CASE /\ stage \notin {"dumping", "exited"} /\ stage' # "dumping"
             /\ dumped' = dumped
             /\ outcome' = outcome \/ stage' = "exited"
    <2>1. dumped' = None
      BY <1>0, <1>4
    <2>2. DumpHonest'
      BY <2>1 DEF DumpHonest
    <2>3. stage' # "exited" => outcome' = None
      BY <1>0, <1>4
    <2> QED
      BY <1>2, <1>3, <1>4, <2>1, <2>2, <2>3 DEF DumpInv
  <1>5. CASE DumpRaw
    <2>1. /\ stage = "dump" /\ Openable(OnePath) /\ "raw" \in DOMAIN args
          /\ dumped' = RawRange(DumpWords, StartOffset, Option("length", None))
          /\ stage' = "exited" /\ UNCHANGED <<args, paths, disk>>
      BY <1>5 DEF DumpRaw, DumpEnds, Ended, cliVars
    <2>2. /\ StartOffset' = StartOffset /\ DumpWords' = DumpWords
          /\ Openable(OnePath)' <=> Openable(OnePath)
      BY <2>1, DumpedKeep
    <2>3. RawHonest'
      <3>1. /\ dumped'.from .. dumped'.until - 1 =
                 {b \in 0 .. Size(DumpWords) - 1 :
                    /\ b >= StartOffset
                    /\ "length" \in DOMAIN args => b < StartOffset + args["length"]}
            /\ dumped'.from <= dumped'.until /\ dumped'.until <= Size(DumpWords)
        BY <1>0, <2>1, RawIsHonest
      <3> QED
        BY <2>1, <2>2, <3>1 DEF RawHonest
    <2>4. DumpHonest'
      BY <2>1, <2>3 DEF DumpHonest
    <2> QED
      BY <1>2, <1>3, <2>1, <2>4 DEF DumpInv
  <1>6. CASE DumpRecords
    <2>1. /\ stage = "dump" /\ Openable(OnePath) /\ "raw" \notin DOMAIN args
          /\ dumped' = [records |-> <<>>, note |-> "none"] /\ stage' = "dumping"
          /\ UNCHANGED <<args, paths, disk, outcome>>
      BY <1>6 DEF DumpRecords, DumpStarted, DumpSteps, cliVars
    <2>2. outcome' = None
      BY <1>0, <2>1
    <2>3. /\ dumped'.records = <<>> /\ dumped'.note = "none"
          /\ Len(dumped'.records) = 0 /\ DOMAIN dumped'.records = {}
          /\ DOMAIN dumped'.records = 1 .. Len(dumped'.records)
      BY <2>1
    <2>4. "records" \in DOMAIN args' => Len(dumped'.records) <= args'["records"]
      BY <1>3, <2>3 DEF SizesInv, SizeFields
    <2>5. Openable(OnePath)' /\ "raw" \notin DOMAIN args'
      BY <2>1, DumpedKeep
    <2>6. ShowingInv'
      BY <2>1, <2>3, <2>4, <2>5 DEF ShowingInv
    <2>7. DumpHonest'
      BY <2>2, <2>3, <2>4, <2>5 DEF DumpHonest, RecordsHonest, EndHonest
    <2> QED
      BY <1>2, <1>3, <2>1, <2>2, <2>6, <2>7 DEF DumpInv
  <1>7. CASE DumpRecord
    <2>1. stage = "dumping" /\ stage' = stage /\ outcome' = outcome
      BY <1>7 DEF DumpRecord, DumpSteps
    <2>2. ShowingInv' /\ outcome' = None
      BY <1>0, <1>7, <2>1, RecordIsHonest
    <2>3. DumpHonest'
      BY <2>2 DEF ShowingInv, DumpHonest, RecordsHonest, EndHonest
    <2> QED
      BY <1>2, <1>3, <2>1, <2>2, <2>3 DEF DumpInv
  <1>8. CASE DumpDone \/ DumpStops \/ DumpCut
    <2>1. stage = "dumping" /\ stage' = "exited"
      BY <1>8 DEF DumpDone, DumpStops, DumpCut, DumpEnds, Ended
    <2>2. DumpHonest'
      BY <1>0, <1>8, <2>1, ShowingIsHonest
    <2> QED
      BY <1>2, <1>3, <2>1, <2>2 DEF DumpInv
  <1>9. CASE Exited
    BY <1>2, <1>3, <1>0, <1>9, DumpStays DEF Exited, DumpInv
  <1> QED
    BY <1>4, <1>5, <1>6, <1>7, <1>8, <1>9, DumpingSteps DEF Dumping

\* The invariant of the dumps.
LEMMA DumpInvariance == Spec => []DumpInv
  <1>1. Init => DumpInv
    <2> SUFFICES ASSUME Init PROVE DumpInv
      OBVIOUS
    <2>1. PICK family \in Families :
            \E given \in family : StartReading(given.argv) /\ disk = given.disk
      BY DEF Init
    <2>2. PICK given \in family : StartReading(given.argv) /\ disk = given.disk
      BY <2>1
    <2>3. RecordingsInv
      BY <2>2, RecordingsAssumption DEF RecordingsInv
    <2>4. argv = given.argv /\ DOMAIN args = {}
      BY <2>2 DEF StartReading, Nothing
    <2>5. SizesInv
      BY <2>2, <2>4, ArgumentsAssumption DEF SizesInv
    <2>6. stage = "arguments" /\ dumped = None /\ outcome = None
      BY DEF Init
    <2> QED
      BY <2>3, <2>5, <2>6 DEF DumpInv, DumpHonest
  <1>2. ReadInv /\ PublishInv /\ DumpInv /\ [Next]_vars => DumpInv'
    <2> SUFFICES ASSUME ReadInv, PublishInv, DumpInv, [Next]_vars PROVE DumpInv'
      OBVIOUS
    <2>1. CASE Next
      BY <2>1, DumpingKeeps DEF ReadInv, PublishInv
    <2>2. CASE UNCHANGED vars
      BY <2>2, DumpStays
    <2> QED
      BY <2>1, <2>2
  <1> QED
    BY <1>1, <1>2, ReadInvariance, PublishInvariance, PTL DEF Spec

\* L2-CLI-013, L2-WRT-018: a dump shows exactly the bytes that were asked for
\* and exist; record by record it skips none, never reads past the end, stops
\* early only with a note, and says of a record what was recorded.
THEOREM DumpsAreHonest == Spec => []DumpHonest
  <1>1. DumpInv => DumpHonest
    BY DEF DumpInv
  <1> QED
    BY <1>1, DumpInvariance, PTL
===============================================================================
