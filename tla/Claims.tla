------------------------------- MODULE Claims -------------------------------
(***************************************************************************)
(* What a whole run of mie-decoder must do, stated from what it was given: *)
(* the tokens and the lines by their positions, and each recording by the  *)
(* parts that were put into it.                                            *)
(*                                                                         *)
(* A part is where it stands (at, in words) and what it is: a "record" as  *)
(* it was sent, a "broken" one, "noise" a scan can pass, a "wreck" that    *)
(* none can, the "end" of the records, or a "pad" of one repeated record.  *)
(***************************************************************************)
EXTENDS Program

-----------------------------------------------------------------------------
(* What the settings should be, line by line of the file and flag by flag. *)

ConfigGiven == "config" \in DOMAIN globals

Pairs == {n \in DOMAIN configFile.lines : configFile.lines[n].form = "pair"}

Headers(n) == {m \in 1 .. n : configFile.lines[m].form = "header"}
SectionOf(n) ==
  IF Headers(n) = {} THEN "" ELSE configFile.lines[Max(Headers(n))].name

PlaceOf(n) == <<SectionOf(n), configFile.lines[n].key>>
FieldSetBy(n) == Schema[SectionOf(n)][configFile.lines[n].key]
SetsField(n) == KnownKey(SectionOf(n), configFile.lines[n].key)

BadPair(n) ==
  \/ configFile.lines[n].flaw # "none"
  \/ ~IsLiteral(configFile.lines[n].literal)
  \/ \E m \in Pairs : m < n /\ PlaceOf(m) = PlaceOf(n)
  \/ PlaceOf(n) = <<"decode", "time_format">>
  \/ PlaceOf(n) \in {<<"", name>> : name \in Sections}
  \/ /\ SetsField(n)
     /\ ~GoodValue(FieldSetBy(n), LiteralValue(configFile.lines[n].literal))

BadHeader(n) ==
  \/ configFile.lines[n].flaw # "none"
  \/ \E m \in Headers(n - 1) : configFile.lines[m].name = configFile.lines[n].name

BadConfigFile ==
  /\ ConfigGiven
  /\ \/ configFile.state # "text"
     \/ \E n \in Pairs : BadPair(n)
     \/ \E n \in Headers(Len(configFile.lines)) : BadHeader(n)

FromFile(field) ==
  LET lines == {n \in Pairs : SetsField(n) /\ FieldSetBy(n) = field}
  IN  IF ~ConfigGiven \/ lines = {} THEN Defaults[field]
      ELSE ValueIn(field, LiteralValue(configFile.lines[Max(lines)].literal))

FromLine(field) ==
  LET flags == {i \in FlagPositions : FieldAt(i) = field}
  IN  IF flags = {} THEN FromFile(field)
      ELSE IF field \in FilterFields
        THEN FromFile(field) \cup UNION {FilterValuesAt(i) : i \in flags}
      ELSE ValueAt(Max(flags))

GlobalPositions(name) ==
  {i \in 1 .. CommandPosition - 1 :
     argv[i].name = name /\ ~IsValueOf(DOMAIN GlobalValues, i)}

WantedLevel ==
  LET flags == GlobalPositions("--log-level")
  IN  IF flags = {} THEN FromFile("log_level")
      ELSE Value("log_level", TextOf(Max(flags))[1])

WantedAdvisory ==
  IF GlobalPositions("--no-irig-day-advisory") # {} THEN FALSE
  ELSE FromFile("irig_day_advisory")

\* L2-CFG-003, L2-CFG-009, L2-CFG-010: the run has the settings of its last
\* flags, then of the file, then the defaults, and filters are joined; a file
\* with one bad line or value is refused whole, wherever in it that stands,
\* and a key the schema does not know changes nothing.
SettingsHonoured ==
  /\ loading = "refused" => BadConfigFile
  /\ config # None =>
       /\ ~BadConfigFile
       /\ \A field \in DOMAIN Defaults : config[field] = FromFile(field)
  /\ settings # None =>
       /\ level = WantedLevel /\ advisory = WantedAdvisory
       /\ \A field \in DOMAIN Defaults \ {"log_level", "irig_day_advisory"} :
            settings[field] = FromLine(field)

-----------------------------------------------------------------------------
(* The inputs a decode is asked for.                                       *)

\* A pattern against a name, in every way its stars can be filled.
NameFits(pattern, name) ==
  LET fits[p \in Nat, t \in Nat] ==
        IF p > Len(pattern) THEN t > Len(name)
        ELSE IF pattern[p] = "*" THEN \E u \in t .. Len(name) + 1 : fits[p + 1, u]
        ELSE /\ t <= Len(name)
             /\ pattern[p] \in {"?", name[t]}
             /\ fits[p + 1, t + 1]
  IN  fits[1, 1]

\* The text of a manifest's line names the path, but for what surrounds it.
Names(raw, path) ==
  LET text == (IF path.dir = "" THEN <<>> ELSE <<path.dir, "/">>) \o path.name
  IN  /\ text # <<>> /\ {Head(text), Last(text)} \cap Blanks = {}
      /\ \E n \in 0 .. Len(raw) - Len(text) :
           /\ SubSeq(raw, n + 1, n + Len(text)) = text
           /\ \A i \in 1 .. n : raw[i] \in Blanks
           /\ \A i \in n + Len(text) + 1 .. Len(raw) :
                raw[i] \in Blanks \/ (raw[i] = "\r" /\ i = Len(raw))

\* A comment, or nothing.
NamesNothing(raw) ==
  \E n \in 1 .. Len(raw) + 1 :
    /\ n <= Len(raw) => raw[n] = "#" \/ (raw[n] = "\r" /\ n = Len(raw))
    /\ \A i \in 1 .. n - 1 : raw[i] \in Blanks

InputsAreNamed ==
  CASE "manifest" \in DOMAIN args ->
         LET lines == disk[Canonical(args["manifest"])].lines
             used == SetToSortSeq({n \in DOMAIN lines : ~NamesNothing(lines[n])}, <)
         IN  /\ Len(inputs) = Len(used)
             /\ \A k \in DOMAIN inputs : Names(lines[used[k]], inputs[k])
    [] "glob" \in DOMAIN args ->
         LET pattern == args["glob"]
         IN  /\ ToSet(inputs) =
                  {path \in [dir : {Directory(pattern)},
                             name : {place.name : place \in DOMAIN disk}] :
                     IsFile(path) /\ NameFits(pattern.name, path.name)}
             /\ \A j, k \in DOMAIN inputs :
                  j < k => NameBefore(inputs[j].name, inputs[k].name)
    [] DOMAIN args \cap {"manifest", "glob"} = {} -> inputs = Positional

-----------------------------------------------------------------------------
(* The rows of a recording.                                                *)

Parts(path) == disk[Canonical(path)].parts

\* The parts a lenient decode gets to.
Reached(parts) ==
  {n \in DOMAIN parts :
     \A m \in DOMAIN parts : m < n => parts[m].is \notin {"end", "wreck", "pad"}}

Sent(path) == {n \in Reached(Parts(path)) : Parts(path)[n].is = "record"}

RtOf(sent) == IF sent.command = None THEN {} ELSE {sent.command.rt}
SubaddressOf(sent) == IF sent.command = None THEN {} ELSE {sent.command.subaddress}

Passes(sent) ==
  /\ Types[sent.type] \notin settings.exclude_types
  /\ sent.bus \notin settings.exclude_buses
  /\ RtOf(sent) \cap settings.exclude_rts = {}
  /\ SubaddressOf(sent) \cap settings.exclude_subaddresses = {}
  /\ settings.include_types = {} \/ Types[sent.type] \in settings.include_types
  /\ settings.include_buses = {} \/ sent.bus \in settings.include_buses
  /\ settings.include_rts = {} \/ RtOf(sent) \cap settings.include_rts # {}
  /\ \/ settings.include_subaddresses = {}
     \/ SubaddressOf(sent) \cap settings.include_subaddresses # {}

CommandBits(command) ==
  2048 * command.rt + (IF command.transmits THEN 1024 ELSE 0)
    + 32 * command.subaddress + (command.words % 32)

DaysOf(month) ==
  CASE month = 2 ->
         IF \/ settings.year % 400 = 0
            \/ settings.year % 4 = 0 /\ settings.year % 100 # 0
           THEN 29 ELSE 28
    [] month \in {4, 6, 9, 11}         -> 30
    [] month \notin {2, 4, 6, 9, 11}   -> 31

YearDay(month, day) == day + MapThenSumSet(DaysOf, 1 .. month - 1)

DateOf(yearDay) ==
  CHOOSE date \in (1 .. 12) \X (1 .. 31) :
    date[2] <= DaysOf(date[1]) /\ YearDay(date[1], date[2]) = yearDay

\* The offset from UTC as a sign, hours and minutes; none is Z.
OffsetShown(shown) ==
  IF settings.utc_offset_minutes = 0 THEN shown = <<"Z">>
  ELSE /\ Len(shown) = 3
       /\ shown[1] = IF settings.utc_offset_minutes < 0 THEN "-" ELSE "+"
       /\ shown[2] \in 0 .. 23 /\ shown[3] \in 0 .. 59
       /\ 60 * shown[2] + shown[3]
            \in {settings.utc_offset_minutes, -settings.utc_offset_minutes}

TimeShown(time, shown) ==
  LET clock == SubSeq(time, 2, 5)
  IN  CASE settings.output_time_format = "doy" -> shown = time
        [] settings.output_time_format = "iso" ->
             /\ SubSeq(shown, 1, 7) = <<settings.year>> \o DateOf(time[1]) \o clock
             /\ OffsetShown(SubSeq(shown, 8, Len(shown)))
        [] settings.output_time_format = "dom" ->
             shown = <<DateOf(time[1])[2]>> \o clock

\* What stands between two delimiters of the name, counted from either end.
MuxShown(name) ==
  LET cuts == SetToSortSeq({0, Len(name) + 1}
                 \cup {i \in DOMAIN name : name[i] = settings.mux_delimiter}, <)
      k == IF settings.mux_field < 0 THEN Len(cuts) + settings.mux_field
                                     ELSE settings.mux_field + 1
      text == IF k \in 1 .. Len(cuts) - 1
                THEN Trimmed(SubSeq(name, cuts[k] + 1, cuts[k + 1] - 1), Whitespace) ELSE <<>>
  IN  IF settings.mux_enabled /\ text # <<>> THEN text ELSE None

\* The label and the code: a record of stray words continues the errored one
\* that the recording has right before it, whatever the filters let through.
LabelOf(sent) ==
  IF sent.error # None THEN "ERROR"
  ELSE IF sent.type = "SpuriousData" THEN "SPURIOUS" ELSE ""

CodeOf(parts, n) ==
  IF parts[n].sent.type # "SpuriousData" THEN parts[n].sent.error
  ELSE IF n > 1 /\ parts[n - 1].is = "record" /\ parts[n - 1].sent.error # None
    THEN Continuation ELSE Standalone

Shows(row, path, n) ==
  LET parts == Parts(path)
      sent == parts[n].sent
  IN  /\ row.offset = parts[n].at
      /\ TimeShown(sent.time, row.time)
      /\ row.command = IF sent.command = None THEN None ELSE CommandBits(sent.command)
      /\ row.data = sent.data /\ row.status = sent.status /\ row.bus = sent.bus
      /\ row.mux = MuxShown(path.name)
      /\ row.label = LabelOf(sent) /\ row.code = CodeOf(parts, n)

Rows == written.main \o written.errors

\* The records of the i-th opened input that have a row to come.
Wanted(i) == {n \in Sent(readers[i].path) : Passes(Parts(readers[i].path)[n].sent)}

OffsetsOf(i) == {Parts(readers[i].path)[n].at : n \in Wanted(i)}

ForwardInTime(path) ==
  \A m, n \in Sent(path) :
    m < n => ~Earlier(Parts(path)[n].sent.time, Parts(path)[m].sent.time)

\* No record has two rows.
RowsOnce ==
  \A j, k \in DOMAIN Rows :
    j # k => <<Rows[j].input, Rows[j].offset>> # <<Rows[k].input, Rows[k].offset>>

\* Where there is an errors CSV, it has the rows with a label and no others.
RowsPlaced ==
  /\ \A k \in DOMAIN written.errors : written.errors[k].label # ""
  /\ SplitErrors => \A k \in DOMAIN written.main : written.main[k].label = ""
  /\ ~SplitErrors => written.errors = <<>>

\* Each row is that of a message pulled, in the file it belongs to.  After a
\* success that shows its rows each of those messages has one, and unless the
\* stream ended with an error no reader and no merge has one left.
RowsKept ==
  /\ \A part \in {"main", "errors"} : \A k \in DOMAIN written[part] :
       \E m \in ToSet(arrived) : PartFor(m) = part /\ written[part][k] = RowOf(m)
  /\ outcome.exit = Success /\ (ToFile \/ sink = "open") =>
       /\ \A m \in ToSet(arrived) :
            \E k \in DOMAIN written[PartFor(m)] : written[PartFor(m)][k] = RowOf(m)
       /\ result = "none" => Waiting = {} /\ \A i \in DOMAIN readers : readers[i].ended

\* The part of RowsExact that needs no look at what was sent.
RowsHonest ==
  reading = "decode" /\ outcome # None /\ settings # None =>
    RowsOnce /\ RowsPlaced /\ RowsKept

\* A message is what its recording says where it lies, in the clock that the
\* reader took it for.
Decodes(message) ==
  LET reader == readers[message.input]
      words == disk[Canonical(reader.path)].words
      next == message.offset + TypeWord(words[message.offset + 1]).count
      record == SubSeq(words, message.offset + 1, next)
  IN  \E prevError \in BOOLEAN :
        LET said == MessageOf(record, reader.format, prevError)
        IN  \A field \in DOMAIN said : message[field] = said[field]

\* A row tells what the card wrote down of the record it stands for.
RowTells(row, sent) ==
  /\ row.bus = sent.bus /\ row.label = LabelOf(sent)
  /\ sent.command # None => CommandWord(row.command) = sent.command
  /\ sent.command # None /\ sent.error # None => row.code = sent.error
  /\ settings.output_time_format = "doy" => row.time = sent.time

\* No row is of a message that the filters hold back; each message is what the
\* words of its recording say; and the row of a place where a record was sent
\* tells of that record.
RowsTrue ==
  /\ \A m \in ToSet(arrived) : Decodes(m) /\ ~Excluded(m)
  /\ \A part \in {"main", "errors"} : \A k \in DOMAIN written[part] :
       LET row == written[part][k]
           reader == readers[row.input]
           parts == Parts(reader.path)
       IN  \A n \in DOMAIN parts :
             /\ parts[n].is = "record" /\ parts[n].at = row.offset
             /\ parts[n].sent.clock = "irig" /\ reader.format = "irig"
             => Passes(parts[n].sent) /\ RowTells(row, parts[n].sent)

\* The part of RowsExact that looks at the words alone.
RowsFaithful ==
  reading = "decode" /\ outcome # None /\ settings # None => RowsTrue

\* L1-OUT-001, L1-OUT-002, L2-FLT-001, L2-MRG-001, L2-WRT-019, L2-WRT-020:
\* every row is a record some input was given, shown as it was sent and put
\* in the file of its kind; none has two; after a success every record that
\* the filters let through has one, however the recordings were found, walked,
\* resynchronised and merged; and a merge shows them in time order.
RowsExact ==
  outcome # None /\ reading = "decode" /\ inputs # <<>> =>
    /\ InputsAreNamed
    /\ \A k \in DOMAIN Rows :
         \E n \in Wanted(Rows[k].input) :
           Shows(Rows[k], readers[Rows[k].input].path, n)
    /\ RowsOnce /\ RowsPlaced /\ RowsKept /\ RowsTrue
    /\ outcome.exit = 0 /\ (ToFile \/ sink = "open") =>
         \A i \in DOMAIN readers :
           {Rows[k].offset : k \in {j \in DOMAIN Rows : Rows[j].input = i}} = OffsetsOf(i)
    /\ settings.output_time_format = "doy"
         /\ (\A i \in DOMAIN readers : ForwardInTime(readers[i].path)) =>
           \A j, k \in DOMAIN written.main :
             j < k => ~Earlier(written.main[k].time, written.main[j].time)

-----------------------------------------------------------------------------
(* What has become of each input.                                          *)

Has(path, is) == \E n \in Reached(Parts(path)) : Parts(path)[n].is = is

Unusable(path) ==
  \/ ~Openable(path)
  \/ Has(path, "pad")
  \/ Sent(path) = {} /\ ~Has(path, "end")

Wrecked(path) == Openable(path) /\ Has(path, "wreck")

IsEmpty(path) == Parts(path)[1].is = "end"

\* Words between two records, or behind the last one, that are no record.
HasGap(path) ==
  \E n \in Reached(Parts(path)) :
    Parts(path)[n].is = "noise" /\ \E m \in Sent(path) : m < n

FirstSent(path) == Parts(path)[Min(Sent(path))].sent

Undated(path) ==
  /\ Openable(path) /\ Sent(path) # {}
  /\ FirstSent(path).clock = "std" \/ FirstSent(path).freerun

InputPaths == ToSet(inputs)
OpenPaths == {path \in InputPaths : Openable(path)}

SomethingLost == \E path \in InputPaths : Unusable(path) \/ Wrecked(path)

DeservedClass ==
  IF SomethingLost THEN "partial-unrecoverable"
  ELSE IF \A path \in OpenPaths : IsEmpty(path) THEN "empty-recording"
  ELSE IF \E path \in OpenPaths : HasGap(path) THEN "partial-recovered"
  ELSE "complete"

\* A row that the calendar of the chosen year has no date for.
Undatable(path, n) ==
  LET sent == Parts(path)[n].sent
  IN  /\ settings.output_time_format # "doy"
      /\ \/ sent.clock = "std" \/ sent.freerun
         \/ sent.time[1] = 366 /\ DaysOf(2) = 28

UndatableRow == \E path \in OpenPaths : \E n \in Sent(path) : Undatable(path, n)

PathOrPartial(path) == IF IsPartial THEN PartialPathFor(path) ELSE path
FilesDue ==
  LET main == Located(PathOrPartial(Output))
      errors == Located(PathOrPartial(ErrorPathFor(Output)))
  IN  [path \in {main} \cup (IF written.errors = <<>> THEN {} ELSE {errors}) |->
         IF path = main THEN written.main ELSE written.errors]

\* Inputs that a lenient decode has nothing to object to.
Sound(path) ==
  /\ ~Unusable(path) /\ ~Wrecked(path) /\ ~Undated(path)

\* All files or none, but for a main one whose errors CSV could not be placed.
FilesHonest ==
  /\ outcome.exit = Success /\ ToFile => published = FilesDue
  /\ outcome.exit # Success /\ published # Nothing =>
       /\ written.errors # <<>>
       /\ published = [path \in {Located(PathOrPartial(Output))} |-> written.main]

HonestDecode ==
  /\ outcome.exit = Success /\ (ToFile \/ sink = "open") =>
       /\ outcome.class = DeservedClass
       /\ SomethingLost => ToFile /\ settings.allow_partial
       /\ settings.strict /\ ~SomethingLost =>
            \A path \in OpenPaths : ~HasGap(path) /\ ~Has(path, "broken")
  /\ FilesHonest
  /\ outcome.exit = SyncLoss =>
       SomethingLost /\ ~(ToFile /\ settings.allow_partial)
  /\ outcome.exit = MergeIncompatible =>
       Merging /\ \E path \in InputPaths : Undated(path)
  /\ outcome.exit = NoRecords =>
       \/ settings.strict \/ UndatableRow
       \/ \E path \in InputPaths : Unusable(path)
  /\ outcome.class = "non-monotonic-input" =>
       settings.strict /\ \E path \in OpenPaths : ~ForwardInTime(path)
  /\ /\ ~settings.strict /\ ~ToFile /\ sink = "open"
     /\ settings.output_time_format = "doy"
     /\ \A path \in InputPaths : Sound(path)
     => outcome.exit = Success

HonestCount ==
  /\ outcome.exit = Success =>
       /\ ~Unusable(OnePath) /\ ~Wrecked(OnePath)
       /\ counted = Cardinality({n \in Sent(OnePath) : Passes(Parts(OnePath)[n].sent)})
  /\ outcome.exit = Panic => sink # "open"

\* L1-EXIT-002 to L1-EXIT-010, L2-CLI-011: a code and a class say what became
\* of the inputs: a success counts every gap that was passed and hides no
\* input that was cut short, a failure names one that is, and files are
\* published by a success alone (or, if the errors CSV could not be placed,
\* the main one before it).
ExitHonest ==
  outcome # None /\ settings # None =>
    /\ reading = "decode" => HonestDecode
    /\ reading = "count" => HonestCount

\* L2-WRT-014, L2-WRT-017: whatever is derived from the output's name, no
\* file committed takes the place of a recording the run was given, nor under
\* --no-clobber of anything.
InputsSurvive ==
  \A path \in DOMAIN published :
    /\ \A i \in DOMAIN inputs : Exists(inputs[i]) => path # Canonical(inputs[i])
    /\ settings.no_clobber => path \notin DOMAIN disk

-----------------------------------------------------------------------------
(* Dumps.                                                                  *)

RawHonest ==
  LET asked == {b \in 0 .. Size(DumpWords) - 1 :
                  /\ b >= StartOffset
                  /\ "length" \in DOMAIN args => b < StartOffset + args["length"]}
  IN  /\ dumped.from .. dumped.until - 1 = asked
      /\ dumped.from <= dumped.until /\ dumped.until <= Size(DumpWords)

\* An annotation says of a whole record what was sent.
Tells(record, sent) ==
  /\ record.word.type = Types[sent.type] /\ record.word.bus = sent.bus
  /\ record.time.parts = sent.time /\ record.time.freerun = sent.freerun
  /\ sent.command # None => record.command = sent.command
  /\ record.code = sent.error

\* The k-th record shown begins where the one before it ended, is whole, and
\* is annotated with what was sent if a record was sent from there.
RecordHonest(k) ==
  LET record == dumped.records[k]
  IN  /\ record.from = IF k = 1 THEN StartOffset ELSE dumped.records[k - 1].until
      /\ record.until >= record.from + MinRecordBytes
      /\ record.until <= Size(DumpWords)
      /\ \A n \in DOMAIN Parts(OnePath) :
           /\ Parts(OnePath)[n].is = "record"
           /\ Parts(OnePath)[n].sent.clock = "irig"
           /\ 2 * Parts(OnePath)[n].at = record.from
           => Tells(record, Parts(OnePath)[n].sent)

\* A dump that stops without a note, on a stdout that takes it all, has shown
\* all that it was asked for.
EndHonest ==
  outcome # None /\ sink = "open" /\ dumped.note = "none" =>
    LET shown == Len(dumped.records)
        rest == IF shown = 0 THEN StartOffset ELSE dumped.records[shown].until
    IN  \/ rest + MinRecordBytes > Size(DumpWords)
        \/ "records" \in DOMAIN args /\ shown = args["records"]

RecordsHonest ==
  /\ \A k \in DOMAIN dumped.records : RecordHonest(k)
  /\ "records" \in DOMAIN args => Len(dumped.records) <= args["records"]
  /\ EndHonest

\* L2-CLI-013, L2-WRT-018: a dump shows exactly the bytes that were asked for
\* and exist; record by record it skips none, never reads past the end,
\* stops early only with a note, and says of a record what was recorded.
DumpHonest ==
  dumped # None => IF "raw" \in DOMAIN args THEN RawHonest ELSE RecordsHonest
=============================================================================
