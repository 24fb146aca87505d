------------------------------- MODULE Program -------------------------------
(***************************************************************************)
(* A whole run of mie-decoder: run() of src/rust/src/cli.rs, from the      *)
(* arguments to the exit code, over the modules of the parts it calls.     *)
(*                                                                         *)
(* A run is one process without threads; what it is given (the arguments,  *)
(* the configuration file, the files on disk and the state of stdout) is   *)
(* chosen at the start.  The faults of the output files, and the other     *)
(* processes in their directory, are those of the module OutputCommit and  *)
(* do not occur here.                                                      *)
(***************************************************************************)
EXTENDS CommandLine, Settings, Pipeline, Dump

CONSTANT Families   \* sets of what runs are given: argv, configFile, disk, sink

\* The arguments are a list, and the marks of a token go with its spelling.
ASSUME ArgumentsAssumption ==
  \A family \in Families : \A given \in family :
    /\ Len(given.argv) \in Nat
    /\ DOMAIN given.argv = 1 .. Len(given.argv)
    /\ \A i \in DOMAIN given.argv :
         WellMarked(given.argv[i]) /\ WellFormed(given.argv[i])

\* The lines of a configuration file are a list.
ASSUME ConfigFilesAssumption ==
  \A family \in Families : \A given \in family :
    /\ Len(given.configFile.lines) \in Nat
    /\ DOMAIN given.configFile.lines = 1 .. Len(given.configFile.lines)

\* Canonical follows one link: no link leads to another one.
ASSUME LinksAssumption ==
  \A family \in Families : \A given \in family : \A place \in DOMAIN given.disk :
    given.disk[place].kind = "link" =>
      LET target == Located(given.disk[place].to)
      IN  target \in DOMAIN given.disk => given.disk[target].kind # "link"

\* What an IRIG record that was sent leaves in the words, n of them before it.
Holds(words, n, sent) ==
  LET type == TypeWord(words[n + 1])
      time == IrigTime(words[n + 2], words[n + 3], words[n + 4])
  IN  /\ sent.type \in DOMAIN Types
      /\ type.type = Types[sent.type] /\ type.bus = sent.bus
      /\ type.error = (sent.error # None)
      /\ time.parts = sent.time /\ time.freerun = sent.freerun
      /\ (sent.command = None) = (sent.type = "SpuriousData")
      /\ sent.command # None => CommandWord(words[n + 5]) = sent.command
      /\ sent.error # None => words[n + type.count] = sent.error

\* A list of 16-bit words.
IsWords(words) ==
  words \in Seq(Nat) /\ \A i \in DOMAIN words : words[i] < 65536

\* A recording is such a list, and its IRIG records stand in it.
ASSUME RecordingsAssumption ==
  \A family \in Families : \A given \in family : \A place \in DOMAIN given.disk :
    given.disk[place].kind = "recording" =>
      LET words == given.disk[place].words
          parts == given.disk[place].parts
      IN  /\ IsWords(words)
          /\ \A n \in DOMAIN parts :
               parts[n].is = "record" /\ parts[n].sent.clock = "irig" =>
                 parts[n].at \in Nat /\ Holds(words, parts[n].at, parts[n].sent)

VARIABLES
  sink,        \* stdout: "open", a closed "pipe" or a "full" device
  stage,       \* where run() has got to
  level,       \* log::set_level
  advisory,    \* log::set_irig_day_advisory
  openDropped, \* an input was dropped at open time
  written,     \* the rows given to the main and to the errors CSV
  published,   \* the rows of each file committed, by its path
  counted,     \* run_count: the messages so far
  dumped,      \* what a dump has shown, or None
  outcome      \* the exit code and the exit class, or None

vars == <<cliVars, loadVars, disk, pipelineVars, sink, stage, level, advisory,
          openDropped, written, published, counted, dumped, outcome>>

-----------------------------------------------------------------------------
(* Exit codes.                                                             *)

Success == 0
Runtime == 1
NoRecords == 2
SyncLoss == 3
Usage == 4
BadConfig == 5
MergeIncompatible == 6
Panic == 101

WrongFileErrors == {"NoValidRecords", "HomogeneousPayload",
                    "TimestampFormatMismatch", "CalendarUnavailable"}

\* classify_decode_exit, its Err arms.
FailureOf(error) ==
  CASE error \in WrongFileErrors ->
         [exit |-> NoRecords, class |-> "no-records"]
    [] error = "UnrecoverableSyncLoss" ->
         [exit |-> SyncLoss, class |-> "partial-unrecoverable"]
    [] error = "IncompatibleMergeInputs" ->
         [exit |-> MergeIncompatible, class |-> "merge-incompatible"]
    [] error = "NonMonotonicInput" ->
         [exit |-> Runtime, class |-> "non-monotonic-input"]
    [] OTHER -> [exit |-> Runtime, class |-> None]

\* from_decode_error: count knows fewer classes than decode.
CountFailureOf(error) ==
  [exit |-> IF error \in WrongFileErrors THEN NoRecords ELSE Runtime,
   class |-> None]

Ended(how) == outcome' = how /\ stage' = "exited"

\* The run ends without a further change.
Exit(code, class) ==
  /\ Ended([exit |-> code, class |-> class])
  /\ UNCHANGED <<cliVars, loadVars, disk, pipelineVars, sink, level, advisory,
                 openDropped, written, published, counted, dumped>>

Fails(how) == Exit(how.exit, how.class)

\* print! to a stdout that takes nothing panics.
ExitAfterPrinting == Exit(IF sink = "open" THEN Success ELSE Panic, None)

-----------------------------------------------------------------------------
(* run: the arguments, the log level, the configuration.                   *)

ReadArguments ==
  /\ stage = "arguments"
  /\ ReadToken
  /\ UNCHANGED <<loadVars, disk, pipelineVars, sink, stage, level, advisory,
                 openDropped, written, published, counted, dumped, outcome>>

PrintAnswer ==
  /\ stage = "arguments" /\ verdict \in {"help", "version"}
  /\ ExitAfterPrinting

RefuseArguments ==
  /\ stage = "arguments" /\ verdict = "usage"
  /\ Exit(Usage, None)

LevelGiven == "log_level" \in DOMAIN globals
GoodLevel(text) ==
  Len(text) = 1 /\ Is("word", text[1]) /\ text[1].word \in Spellings.log_level

RefuseLogLevel ==
  /\ stage = "arguments" /\ verdict = "parsed"
  /\ LevelGiven /\ ~GoodLevel(globals["log_level"])
  /\ Exit(Usage, None)

ApplyLogLevel ==
  /\ stage = "arguments" /\ verdict = "parsed"
  /\ LevelGiven => GoodLevel(globals["log_level"])
  /\ level' = IF LevelGiven THEN Value("log_level", globals["log_level"][1])
                            ELSE "warning"
  /\ stage' = "config"
  /\ UNCHANGED <<cliVars, loadVars, disk, pipelineVars, sink, advisory,
                 openDropped, written, published, counted, dumped, outcome>>

ReadConfig ==
  /\ stage = "config"
  /\ LoadConfig("config" \in DOMAIN globals)
  /\ UNCHANGED <<cliVars, disk, pipelineVars, sink, stage, level, advisory,
                 openDropped, written, published, counted, dumped, outcome>>

RefuseConfig ==
  /\ stage = "config" /\ loading = "refused"
  /\ Exit(BadConfig, None)

\* Mutant of ResolveConfig: the level of the file outranks --log-level.
ResolveConfigOver ==
  /\ stage = "config" /\ loading = "loaded"
  /\ level' = config.log_level
  /\ advisory' = config.irig_day_advisory
  /\ stage' = reading
  /\ UNCHANGED <<cliVars, loadVars, disk, pipelineVars, sink, openDropped,
                 written, published, counted, dumped, outcome>>

\* resolve_config: the file over the defaults, the command line over both.
ResolveConfig ==
  /\ stage = "config" /\ loading = "loaded"
  /\ level' = IF LevelGiven THEN level ELSE config.log_level
  /\ advisory' = IF "irig_day_advisory" \in DOMAIN globals
                   THEN globals["irig_day_advisory"] ELSE config.irig_day_advisory
  /\ stage' = reading
  /\ UNCHANGED <<cliVars, loadVars, disk, pipelineVars, sink, openDropped,
                 written, published, counted, dumped, outcome>>

-----------------------------------------------------------------------------
(* run_decode: before the first record.                                    *)

Positional == [i \in DOMAIN paths |-> PathIn(paths[i])]

InputsUnreadable ==
  /\ stage = "decode"
  /\ Unresolvable(args)
  /\ Exit(Runtime, None)

InputsMiscounted ==
  /\ stage = "decode"
  /\ ~Unresolvable(args)
  /\ WrongNumber(ResolvedInputs(args, Positional))
  /\ Exit(Usage, None)

\* build_config_overrides: a flag that is absent overrides nothing.
Overrides ==
  [field \in (DOMAIN args \cap DOMAIN Defaults) \cup (DOMAIN globals \ {"config"}) |->
     IF field = "log_level" THEN level
     ELSE IF field \in DOMAIN globals THEN globals[field] ELSE args[field]]

FindInputs ==
  /\ stage = "decode"
  /\ ~Unresolvable(args)
  /\ ~WrongNumber(ResolvedInputs(args, Positional))
  /\ inputs' = ResolvedInputs(args, Positional)
  /\ settings' = WithOverrides(config, Overrides)
  /\ stage' = "open"
  /\ UNCHANGED <<cliVars, loadVars, disk, readers, mergeVars, failure, orderVars,
                 sink, level, advisory, openDropped, written, published, counted,
                 dumped, outcome>>

Openable(path) == KindAt(path) = "recording"

DropsUnopened == Merging /\ settings.allow_partial

\* open_all_readers: each input in turn.
Opened ==
  LET opened[n \in 0 .. Len(inputs)] ==
        IF n = 0 THEN <<>>
        ELSE IF Openable(inputs[n]) THEN Append(opened[n - 1], inputs[n])
        ELSE opened[n - 1]
  IN  opened[Len(inputs)]

OpenInputs ==
  /\ stage = "open"
  /\ Opened = inputs \/ DropsUnopened
  /\ readers' = [i \in DOMAIN Opened |-> NewReader(Opened[i])]
  /\ openDropped' = (Opened # inputs)
  /\ stage' = "check"
  /\ UNCHANGED <<cliVars, loadVars, disk, settings, inputs, mergeVars, failure,
                 orderVars, sink, level, advisory, written, published, counted,
                 dumped, outcome>>

InputUnopened ==
  /\ stage = "open"
  /\ ~DropsUnopened
  /\ \E i \in DOMAIN inputs : ~Openable(inputs[i])
  /\ Exit(Runtime, None)

Output == IF "output" \in DOMAIN args THEN args["output"] ELSE None
ToFile == Output # None
SplitErrors == settings.error_mode = "separate" /\ ToFile

Targets == CommitTargets(Output, SplitErrors, settings.allow_partial)

\* check_output_collision, made for a merge only.
OverwritesMerged ==
  /\ Merging /\ ToFile
  /\ \E target \in Targets, i \in DOMAIN inputs : CollidesWithMerge(target, inputs[i])

RefuseCollision ==
  /\ stage = "check" /\ OverwritesMerged
  /\ Exit(Runtime, None)

\* resolve_time_render.
RefuseRendering ==
  /\ stage = "check" /\ ~OverwritesMerged
  /\ LacksYear(settings)
  /\ Exit(Usage, None)

PrimingFails(primed) ==
  /\ primed.error # None
  /\ Fails(FailureOf(primed.error))

\* preflight_output, then the temp file, which needs the directory.
OutputRefused ==
  /\ ToFile
  /\ \/ /\ ~Merging
        /\ \E target \in Targets, i \in DOMAIN inputs :
             RefersToSameFile(inputs[i], target)
     \/ settings.no_clobber /\ Exists(Output)
     \/ settings.no_clobber /\ SplitErrors /\ Exists(ErrorPathFor(Output))
     \/ ~DirectoryExists(Directory(Output))

RefuseOutput(primed) ==
  /\ primed.error = None /\ OutputRefused
  /\ Exit(Runtime, None)

\* execute_decode_or_merge, up to the first pull.
StartStream(primed) ==
  /\ primed.error = None /\ ~OutputRefused
  /\ Become(primed)
  /\ cap' = Order!Clamp(settings.max_sort_group)
  /\ stage' = "stream"
  /\ UNCHANGED <<cliVars, loadVars, disk, settings, inputs, failure, arrived, buf,
                 out, pending, done, emitted, result, sink, level, advisory,
                 openDropped, written, published, counted, dumped, outcome>>

Begin ==
  /\ stage = "check" /\ ~OverwritesMerged /\ ~LacksYear(settings)
  /\ \E primed \in {Primed} :
       PrimingFails(primed) \/ RefuseOutput(primed) \/ StartStream(primed)

-----------------------------------------------------------------------------
(* write_csv and write_csv_split.                                          *)

PullStream ==
  /\ stage = "stream"
  /\ Pull
  /\ UNCHANGED <<cliVars, loadVars, disk, sink, stage, level, advisory, openDropped,
                 written, published, counted, dumped, outcome>>

Render ==
  [format |-> settings.output_time_format, year |-> settings.year,
   offset |-> settings.utc_offset_minutes, missing |-> None]

ErrorLabel(message) ==
  IF message.word.error THEN "ERROR"
  ELSE IF message.word.type = Types.SpuriousData THEN "SPURIOUS" ELSE ""

\* write_row; the input and the offset are history.
RowOf(message) ==
  [input |-> message.input, offset |-> message.offset,
   time |-> Rendered(message.time, Render), command |-> message.command,
   data |-> message.data, status |-> message.status, mux |-> message.mux,
   bus |-> message.word.bus, label |-> ErrorLabel(message), code |-> message.code]

\* Mutant of PartFor: the label is that of the error bit alone.
PartForFlagged(message) ==
  IF SplitErrors /\ message.word.error THEN "errors" ELSE "main"

PartFor(message) ==
  IF SplitErrors /\ ErrorLabel(message) # "" THEN "errors" ELSE "main"

WriteRow ==
  /\ stage = "stream" /\ out # <<>>
  /\ LET message == Last(out)
     IN  /\ Renders(message.time, Render)
         /\ written' = [written EXCEPT ![PartFor(message)] =
                          Append(@, RowOf(message))]
  /\ Order!Drain
  /\ UNCHANGED <<cliVars, loadVars, disk, settings, inputs, readers, mergeVars,
                 failure, sink, stage, level, advisory, openDropped, published,
                 counted, dumped, outcome>>

\* The rendering is resolved before any byte of the row is written.
RowUnrenderable ==
  /\ stage = "stream" /\ out # <<>>
  /\ ~Renders(Last(out).time, Render)
  /\ Fails(FailureOf("CalendarUnavailable"))

\* The ordered stream ends, or yields its error.
StreamEnds ==
  /\ stage = "stream"
  /\ Order!Surface \/ Order!Finish
  /\ stage' = "ended"
  /\ UNCHANGED <<cliVars, loadVars, disk, settings, inputs, readers, mergeVars,
                 failure, sink, level, advisory, openDropped, written, published,
                 counted, dumped, outcome>>

\* The error the writer stops at.  The one that stands for an input dropped
\* at open time is chained behind the stream.
StreamError ==
  IF failure # None THEN failure
  ELSE IF openDropped THEN "UnrecoverableSyncLoss" ELSE None

IsPartial ==
  ToFile /\ settings.allow_partial /\ StreamError = "UnrecoverableSyncLoss"

\* A buffer of rows reaches stdout at some row, or at the final flush.
StdoutFails ==
  /\ ~ToFile /\ sink # "open"
  /\ \/ stage = "stream" /\ out # <<>> /\ Renders(Last(out).time, Render)
     \/ stage = "ended" /\ StreamError = None
  /\ IF sink = "pipe" THEN Exit(Success, "complete") ELSE Exit(Runtime, None)

StreamFailed ==
  /\ stage = "ended"
  /\ StreamError # None /\ ~IsPartial
  /\ Fails(FailureOf(StreamError))

-----------------------------------------------------------------------------
(* commit_split_outputs and classify_decode_exit.                          *)

CommitPath(target) == IF IsPartial THEN PartialPathFor(target) ELSE target

\* A link is replaced and not followed; nothing replaces a directory.
MayCommit(path) ==
  Located(path) \in DOMAIN disk =>
    ~settings.no_clobber /\ disk[Located(path)].kind # "directory"

Commit(path, rows) ==
  /\ published' = With(published, Located(path), rows)
  /\ UNCHANGED <<cliVars, loadVars, disk, pipelineVars, sink, level, advisory,
                 openDropped, written, counted, dumped, outcome>>

Committing ==
  stage = "ended" /\ ToFile /\ (StreamError = None \/ IsPartial)

CommitMain ==
  /\ Committing
  /\ MayCommit(CommitPath(Output))
  /\ Commit(CommitPath(Output), written.main)
  /\ stage' = IF written.errors = <<>> THEN "committed" ELSE "errors"

CommitErrors ==
  /\ stage = "errors"
  /\ MayCommit(CommitPath(ErrorPathFor(Output)))
  /\ Commit(CommitPath(ErrorPathFor(Output)), written.errors)
  /\ stage' = "committed"

CommitFails ==
  /\ \/ Committing /\ ~MayCommit(CommitPath(Output))
     \/ stage = "errors" /\ ~MayCommit(CommitPath(ErrorPathFor(Output)))
  /\ Exit(Runtime, None)

TotalLosses == FoldFunction(LAMBDA reader, sum : sum + reader.losses, 0, readers)

ExitClass ==
  IF IsPartial THEN "partial-unrecoverable"
  ELSE IF /\ readers # <<>> /\ \A i \in DOMAIN readers : readers[i].empty
          /\ written.main = <<>> /\ written.errors = <<>>
    THEN "empty-recording"
  ELSE IF TotalLosses > 0 THEN "partial-recovered"
  ELSE "complete"

Conclude ==
  /\ \/ stage = "committed"
     \/ stage = "ended" /\ ~ToFile /\ sink = "open" /\ StreamError = None
  /\ Exit(Success, ExitClass)

-----------------------------------------------------------------------------
(* run_count.                                                              *)

OnePath == PathIn(paths[1])

ChooseCounted ==
  /\ stage = "count"
  /\ inputs' = <<OnePath>>
  /\ settings' = config
  /\ stage' = "counting"
  /\ UNCHANGED <<cliVars, loadVars, disk, readers, mergeVars, failure, orderVars,
                 sink, level, advisory, openDropped, written, published, counted,
                 dumped, outcome>>

CountUnopened ==
  /\ stage = "counting" /\ ~Openable(OnePath)
  /\ Exit(Runtime, None)

OpenCounted ==
  /\ stage = "counting" /\ readers = <<>>
  /\ Openable(OnePath)
  /\ readers' = <<Iterated(NewReader(OnePath))>>
  /\ UNCHANGED <<cliVars, loadVars, disk, settings, inputs, mergeVars, failure,
                 orderVars, sink, stage, level, advisory, openDropped, written,
                 published, counted, dumped, outcome>>

CountMessage(pulled) ==
  /\ HasMessage(pulled.item)
  /\ counted' = IF Excluded(pulled.item.message) THEN counted ELSE counted + 1
  /\ Become(pulled.state)
  /\ UNCHANGED <<cliVars, loadVars, disk, settings, inputs, failure, orderVars,
                 sink, stage, level, advisory, openDropped, written, published,
                 dumped, outcome>>

CountFails(pulled) ==
  /\ HasError(pulled.item)
  /\ Fails(CountFailureOf(pulled.item.error))

PrintCount(pulled) ==
  /\ pulled.item = Over
  /\ ExitAfterPrinting

Count ==
  /\ stage = "counting" /\ readers # <<>>
  /\ \E pulled \in {Pulled} :
       CountMessage(pulled) \/ CountFails(pulled) \/ PrintCount(pulled)

-----------------------------------------------------------------------------
(* run_dump.                                                               *)

Option(field, default) == IF field \in DOMAIN args THEN args[field] ELSE default

DumpUnreadable ==
  /\ stage = "dump" /\ ~Openable(OnePath)
  /\ Exit(Runtime, None)

DumpWords == disk[Canonical(OnePath)].words
StartOffset == Option("offset", 0)
Exhausted == DumpExhausted(DumpWords, dumped.records, StartOffset, Option("records", None))
Upcoming == NextOffset(dumped.records, StartOffset)

\* finish_dump: a closed pipe ends a dump cleanly.
DumpEnds ==
  /\ Ended([exit |-> IF sink = "full" THEN Runtime ELSE Success, class |-> None])
  /\ UNCHANGED <<cliVars, loadVars, disk, pipelineVars, sink, level, advisory,
                 openDropped, written, published, counted>>

DumpRaw ==
  /\ stage = "dump" /\ Openable(OnePath) /\ "raw" \in DOMAIN args
  /\ dumped' = RawRange(DumpWords, StartOffset, Option("length", None))
  /\ DumpEnds

DumpSteps ==
  UNCHANGED <<cliVars, loadVars, disk, pipelineVars, sink, level, advisory,
              openDropped, written, published, counted, outcome>>

DumpRecords ==
  /\ stage = "dump" /\ Openable(OnePath) /\ "raw" \notin DOMAIN args
  /\ dumped' = DumpStarted
  /\ stage' = "dumping"
  /\ DumpSteps

DumpRecord ==
  /\ stage = "dumping" /\ ~Exhausted
  /\ Note(DumpWords, Upcoming) = "none"
  /\ dumped' = [dumped EXCEPT !.records = Append(@, Annotation(DumpWords, Upcoming))]
  /\ DumpSteps /\ UNCHANGED stage

DumpDone ==
  /\ stage = "dumping" /\ Exhausted
  /\ UNCHANGED dumped
  /\ DumpEnds

\* The note is written before the scan stops.
DumpStops ==
  /\ stage = "dumping" /\ ~Exhausted
  /\ Note(DumpWords, Upcoming) # "none"
  /\ dumped' = [dumped EXCEPT !.note = Note(DumpWords, Upcoming)]
  /\ DumpEnds

\* A buffer of text reaches a stdout that takes none of it.
DumpCut ==
  /\ stage = "dumping" /\ sink # "open"
  /\ UNCHANGED dumped
  /\ DumpEnds

Dumping == DumpRaw \/ DumpRecords \/ DumpRecord \/ DumpDone \/ DumpStops \/ DumpCut

-----------------------------------------------------------------------------
Init ==
  /\ \E family \in Families : \E given \in family :
       /\ StartReading(given.argv)
       /\ StartLoading(given.configFile)
       /\ disk = given.disk
       /\ sink = given.sink
  /\ StartPipeline
  /\ stage = "arguments"
  /\ level = "warning" /\ advisory = TRUE
  /\ openDropped = FALSE
  /\ written = [main |-> <<>>, errors |-> <<>>]
  /\ published = [path \in {} |-> <<>>]
  /\ counted = 0
  /\ dumped = None
  /\ outcome = None

Exited == stage = "exited" /\ UNCHANGED vars

Decode ==
  \/ InputsUnreadable \/ InputsMiscounted \/ FindInputs
  \/ OpenInputs \/ InputUnopened \/ RefuseCollision \/ RefuseRendering
  \/ Begin
  \/ PullStream \/ WriteRow \/ RowUnrenderable \/ StreamEnds
  \/ StdoutFails \/ StreamFailed
  \/ CommitMain \/ CommitErrors \/ CommitFails \/ Conclude

Next ==
  \/ ReadArguments \/ PrintAnswer \/ RefuseArguments
  \/ RefuseLogLevel \/ ApplyLogLevel
  \/ ReadConfig \/ RefuseConfig \/ ResolveConfig
  \/ Decode
  \/ ChooseCounted \/ CountUnopened \/ OpenCounted
  \/ Count
  \/ DumpUnreadable \/ Dumping
  \/ Exited

Spec == Init /\ [][Next]_vars
=============================================================================
