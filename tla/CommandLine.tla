----------------------------- MODULE CommandLine -----------------------------
(***************************************************************************)
(* How run() of src/rust/src/cli.rs reads its arguments: the global flags, *)
(* the subcommand, the subcommand's own flags and paths, and when help     *)
(* outranks a diagnostic.  One action per kind of token; the cursor at is  *)
(* the iterator of the code, and everything before it is consumed.         *)
(*                                                                         *)
(* A token is what Arg::split and the tests on the raw token see in it:    *)
(*   name    everything before the first = of a -- token, else all of it   *)
(*   joined  the text after that =, or None                                *)
(*   text    the token itself read as a value: its comma-separated atoms   *)
(*   marks   "dash" if it starts with -, "lone" if it is only that,        *)
(*           "space" if it contains one, "digit" if it begins as a number  *)
(***************************************************************************)
EXTENDS Vocabulary

VARIABLES
  argv,        \* the arguments after the program's name
  at,          \* the position of the next token
  reading,     \* "globals", "decode", "count" or "dump"
  ended,       \* end_of_options: the separator -- has been consumed
  globals,     \* GlobalArgs: the values given, by field
  args,        \* DecodeArgs or DumpArgs: the values given, by field
  paths,       \* the positional arguments, in order
  verdict      \* "reading", "help", "version", "usage" or "parsed"

cliVars == <<argv, at, reading, ended, globals, args, paths, verdict>>

Nothing == [field \in {} |-> None]

Subcommands == {"decode", "count", "dump"}

Bare(token) == token.joined = None
IsSeparator(token) == token.name = "--" /\ Bare(token)
IsHelp(token) == token.name \in {"-h", "--help"} /\ Bare(token)
IsVersion(token) == token.name \in {"-V", "-v", "--version"} /\ Bare(token)

\* A lone dash, a number and a token with a space in it are values.
LooksLikeOption(token) ==
  "dash" \in token.marks /\ token.marks \cap {"lone", "space", "digit"} = {}

-----------------------------------------------------------------------------
(* The flags, and the field each one sets.                                 *)

\* A table of the parsers: what stands for each flag.
Table(rows) ==
  [flag \in {row[1] : row \in rows} |-> (CHOOSE row \in rows : row[1] = flag)[2]]

GlobalValues == Table({<<"--log-level", "log_level">>, <<"--config", "config">>})

DecodeValues == Table({
  <<"-o", "output">>, <<"--output", "output">>,
  <<"--input-time-format", "input_time_format">>,
  <<"--output-time-format", "output_time_format">>,
  <<"--year", "year">>, <<"--utc-offset", "utc_offset_minutes">>,
  <<"--detect-records", "detect_records">>,
  <<"--lookahead-records", "lookahead_records">>,
  <<"--standard-tick-rate-hz", "standard_tick_rate_hz">>,
  <<"--format", "output_format">>, <<"--mux-delimiter", "mux_delimiter">>,
  <<"--mux-field", "mux_field">>, <<"--max-sort-group", "max_sort_group">>,
  <<"--delta-scope", "delta_scope">>,
  <<"--collapse-window-us", "collapse_window_us">>,
  <<"--max-collapse-survivors", "max_collapse_survivors">>,
  <<"--manifest", "manifest">>, <<"--glob", "glob">>,
  <<"--exclude-types", "exclude_types">>, <<"--include-types", "include_types">>,
  <<"--exclude-rts", "exclude_rts">>, <<"--include-rts", "include_rts">>,
  <<"--exclude-buses", "exclude_buses">>, <<"--include-buses", "include_buses">>,
  <<"--exclude-subaddresses", "exclude_subaddresses">>,
  <<"--include-subaddresses", "include_subaddresses">>})

\* Value-less flags: the field, and the override its presence stands for.
Switches ==
  [decode |-> Table({<<"--separate-errors", <<"error_mode", "separate">>>>,
                     <<"--no-clobber", <<"no_clobber", TRUE>>>>,
                     <<"--allow-partial", <<"allow_partial", TRUE>>>>,
                     <<"--strict", <<"strict", TRUE>>>>,
                     <<"--no-mux", <<"mux_enabled", FALSE>>>>,
                     <<"--collapse-duplicates", <<"collapse_duplicates", TRUE>>>>}),
   count  |-> Table({}),
   dump   |-> Table({<<"--raw", <<"raw", TRUE>>>>})]

ValueFlags ==
  [decode |-> DecodeValues,
   count  |-> Table({}),
   dump   |-> Table({<<"--offset", "offset">>, <<"--length", "length">>,
                     <<"--records", "records">>})]

\* Every name that a parser looks for.
FlagNames ==
  {"--", "-h", "--help", "-V", "-v", "--version", "--no-irig-day-advisory"}
    \cup DOMAIN GlobalValues
    \cup UNION {DOMAIN Switches[command] \cup DOMAIN ValueFlags[command] :
                 command \in Subcommands}

\* The marks of a token go with its spelling; a value joined to a flag may
\* have a space in it.
WellMarked(token) ==
  /\ token.name \in FlagNames => "dash" \in token.marks
  /\ token.name \in FlagNames /\ Bare(token) => LooksLikeOption(token)
  /\ token.name \in Subcommands => "dash" \notin token.marks

\* A list is what its elements make it.
IsList(s) == s \in Seq({s[i] : i \in 1 .. Len(s)})

\* A directory, and a list of characters.
IsPath(path) == path = [dir |-> path.dir, name |-> path.name] /\ IsList(path.name)

\* How parse_int_value finds a number spelled: in decimal, or after 0x.
Radices == {"int", "hex"}

\* A text is a list, and a number has no other field.
WellFormed(token) ==
  \A text \in {token.text} \cup ({token.joined} \ {None}) :
    /\ IsList(text)
    /\ \A i \in 1 .. Len(text) :
         /\ \A radix \in Radices : Is(radix, text[i]) =>
              DOMAIN text[i] = {radix} /\ text[i][radix] \in Int
         /\ Is("path", text[i]) => IsPath(text[i].path)

-----------------------------------------------------------------------------
(* The validators.                                                         *)

\* An address given here may be any byte: only the file's loader, and not
\* parse_u8_value, holds it to 0..31.
GoodByte(atom) == \E radix \in Radices : Is(radix, atom) /\ atom[radix] \in 0 .. 255
GoodSize(atom) == \E radix \in Radices : Is(radix, atom) /\ atom[radix] >= 0

GoodNumber(field, atom) ==
  \/ Is("int", atom) /\ atom.int \in Ranges[field]
  \/ /\ field = "standard_tick_rate_hz"
     /\ Is("float", atom)
     /\ atom.float > 0

\* One value of a field that takes a number, a keyword, or a list of either.
GoodAtom(field, atom) ==
  CASE field = "utc_offset_minutes"              -> GoodOffset(atom)
    [] field \in {"offset", "length", "records"} -> GoodSize(atom)
    [] field \in TypeFields                      -> GoodType(atom)
    [] field \in BusFields                       -> GoodBus(atom)
    [] field \in AddressFields                   -> GoodByte(atom)
    [] field \in DOMAIN Ranges                   -> GoodNumber(field, atom)
    [] field \in DOMAIN Spellings                ->
         Is("word", atom) /\ atom.word \in Spellings[field]

PathFields == {"output", "manifest", "glob"}

GoodText(field, text) ==
  CASE field \in PathFields      -> TRUE
    [] field = "mux_delimiter"   -> text # <<>>
    [] field \in FilterFields    -> \A i \in DOMAIN text : GoodAtom(field, text[i])
    [] field \notin PathFields \cup FilterFields \cup {"mux_delimiter"} ->
         Len(text) = 1 /\ GoodAtom(field, text[1])

\* A token that is no path of a file on disk is the path of none.
PathIn(text) ==
  IF text # <<>> /\ Is("path", text[1]) THEN text[1].path
                                         ELSE [dir |-> "", name |-> <<"?">>]

\* Filter values accumulate over the flags that repeat; others are replaced.
Given(field, text) ==
  CASE field \in FilterFields ->
         {Value(field, text[i]) : i \in DOMAIN text}
           \cup (IF field \in DOMAIN args THEN args[field] ELSE {})
    [] field \in PathFields -> PathIn(text)
    [] field \notin FilterFields \cup PathFields -> Value(field, text[1])

-----------------------------------------------------------------------------
(* The cursor.                                                             *)

Token == argv[at]
Consumed == Len(argv) + 1

\* Mutant of HasValue: any token that follows is the value.
HasValueAny(i) == ~Bare(argv[i]) \/ i < Len(argv)

\* Whether, and where, the flag at i finds its value: joined to it, or in
\* the next token if that one does not look like an option.
HasValue(i) ==
  \/ ~Bare(argv[i])
  \/ i < Len(argv) /\ ~LooksLikeOption(argv[i + 1])

TextOf(i) == IF Bare(argv[i]) THEN argv[i + 1].text ELSE argv[i].joined
After(i) == IF Bare(argv[i]) THEN i + 2 ELSE i + 1

\* Mutant of HelpPending: only the next token is looked at.
HelpPendingNext(i) == i <= Len(argv) /\ IsHelp(argv[i])

HelpPending(i) ==
  \E k \in i .. Len(argv) :
    IsHelp(argv[k]) /\ \A j \in i .. k : ~IsSeparator(argv[j])

Answer(outcome) ==
  /\ verdict' = outcome
  /\ at' = Consumed
  /\ UNCHANGED <<argv, reading, ended, globals, args, paths>>

\* A deferred diagnostic: a help request still to be read outranks it.
Fail(rest) == Answer(IF HelpPending(rest) THEN "help" ELSE "usage")

Proceed(next) ==
  /\ at' = next
  /\ UNCHANGED <<argv, verdict>>

-----------------------------------------------------------------------------
(* parse_global_flags and parse_subcommand.                                *)

InGlobals == verdict = "reading" /\ reading = "globals"
AtGlobal == InGlobals /\ at <= Len(argv)

NoCommand ==
  /\ InGlobals
  /\ \/ at > Len(argv)
     \/ at = Len(argv) /\ IsSeparator(Token)
  /\ Answer("usage")

GlobalHelp == AtGlobal /\ IsHelp(Token) /\ Answer("help")

GlobalVersion == AtGlobal /\ IsVersion(Token) /\ Answer("version")

TakeGlobal ==
  /\ AtGlobal
  /\ Token.name \in DOMAIN GlobalValues
  /\ HasValue(at)
  /\ globals' = With(globals, GlobalValues[Token.name], TextOf(at))
  /\ Proceed(After(at))
  /\ UNCHANGED <<reading, ended, args, paths>>

\* Not a deferred diagnostic: nothing after the flag is interpreted.
GlobalWithoutValue ==
  /\ AtGlobal
  /\ Token.name \in DOMAIN GlobalValues
  /\ ~HasValue(at)
  /\ Answer("usage")

DeclineAdvisory ==
  /\ AtGlobal
  /\ Token.name = "--no-irig-day-advisory" /\ Bare(Token)
  /\ globals' = With(globals, "irig_day_advisory", FALSE)
  /\ Proceed(at + 1)
  /\ UNCHANGED <<reading, ended, args, paths>>

\* After a separator the next token is the subcommand, however it is spelled.
CommandAt ==
  IF IsSeparator(Token) THEN at + 1 ELSE at

ReachesCommand ==
  /\ AtGlobal
  /\ ~IsHelp(Token) /\ ~IsVersion(Token)
  /\ Token.name \notin DOMAIN GlobalValues
  /\ ~(Token.name = "--no-irig-day-advisory" /\ Bare(Token))
  /\ CommandAt <= Len(argv)

TakeCommand ==
  /\ ReachesCommand
  /\ argv[CommandAt].name \in Subcommands
  /\ reading' = argv[CommandAt].name
  /\ Proceed(CommandAt + 1)
  /\ UNCHANGED <<ended, globals, args, paths>>

UnknownCommand ==
  /\ ReachesCommand
  /\ argv[CommandAt].name \notin Subcommands
  /\ Fail(CommandAt + 1)

-----------------------------------------------------------------------------
(* parse_decode, parse_count and parse_dump.                               *)

InCommand == verdict = "reading" /\ reading \in Subcommands
AtFlag == InCommand /\ at <= Len(argv) /\ ~ended

SetsSwitch == Token.name \in DOMAIN Switches[reading] /\ Bare(Token)
TakesValue == Token.name \in DOMAIN ValueFlags[reading]

\* The first separator ends the options; a later one is a path.
EndOptions ==
  /\ AtFlag
  /\ IsSeparator(Token)
  /\ ended' = TRUE
  /\ Proceed(at + 1)
  /\ UNCHANGED <<reading, globals, args, paths>>

AtPath ==
  /\ InCommand
  /\ at <= Len(argv)
  /\ ended \/ "dash" \notin Token.marks

TakePath ==
  /\ AtPath
  /\ reading = "decode" \/ paths = <<>>
  /\ paths' = Append(paths, Token.text)
  /\ Proceed(at + 1)
  /\ UNCHANGED <<reading, ended, globals, args>>

\* count and dump read one file.
SecondPath ==
  /\ AtPath
  /\ reading # "decode" /\ paths # <<>>
  /\ Fail(at + 1)

CommandHelp == AtFlag /\ IsHelp(Token) /\ Answer("help")

SetSwitch ==
  /\ AtFlag
  /\ SetsSwitch
  /\ LET switch == Switches[reading][Token.name]
     IN  args' = With(args, switch[1], switch[2])
  /\ Proceed(at + 1)
  /\ UNCHANGED <<reading, ended, globals, paths>>

TakeValue ==
  /\ AtFlag
  /\ TakesValue
  /\ HasValue(at)
  /\ LET field == ValueFlags[reading][Token.name]
     IN  /\ GoodText(field, TextOf(at))
         /\ args' = With(args, field, Given(field, TextOf(at)))
  /\ Proceed(After(at))
  /\ UNCHANGED <<reading, ended, globals, paths>>

RefuseValue ==
  /\ AtFlag
  /\ TakesValue
  /\ HasValue(at)
  /\ ~GoodText(ValueFlags[reading][Token.name], TextOf(at))
  /\ Fail(After(at))

\* next_value drains the iterator, so no help request is pending any more.
FlagWithoutValue ==
  /\ AtFlag
  /\ TakesValue
  /\ ~HasValue(at)
  /\ Fail(Consumed)

\* An unknown flag, the retired --time-format, a value joined to a switch.
RefuseFlag ==
  /\ AtFlag
  /\ "dash" \in Token.marks
  /\ ~IsSeparator(Token) /\ ~IsHelp(Token)
  /\ ~SetsSwitch /\ ~TakesValue
  /\ Fail(at + 1)

\* decode takes its inputs in exactly one way.
InputMethods ==
  (DOMAIN args \cap {"manifest", "glob"})
    \cup (IF paths = <<>> THEN {} ELSE {"paths"})

EndOfArguments ==
  /\ InCommand
  /\ at > Len(argv)
  /\ Answer(IF Cardinality(InputMethods) = 1 THEN "parsed" ELSE "usage")

-----------------------------------------------------------------------------
ReadToken ==
  \/ NoCommand \/ GlobalHelp \/ GlobalVersion \/ TakeGlobal
  \/ GlobalWithoutValue \/ DeclineAdvisory \/ TakeCommand \/ UnknownCommand
  \/ EndOptions \/ TakePath \/ SecondPath \/ CommandHelp \/ SetSwitch
  \/ TakeValue \/ RefuseValue \/ FlagWithoutValue \/ RefuseFlag
  \/ EndOfArguments

StartReading(arguments) ==
  /\ argv = arguments
  /\ at = 1
  /\ reading = "globals"
  /\ ended = FALSE
  /\ globals = Nothing
  /\ args = Nothing
  /\ paths = <<>>
  /\ verdict = "reading"

-----------------------------------------------------------------------------
(* A second reading of an accepted line, by positions instead of a cursor. *)

\* The token at i is the value of the separated flag before it.
IsValueOf(flags, i) ==
  i > 1 /\ argv[i - 1].name \in flags /\ Bare(argv[i - 1])

Least(positions) ==
  CHOOSE i \in positions : \A j \in positions : i <= j

CommandPosition ==
  Least({i \in DOMAIN argv :
           \/ i > 1 /\ IsSeparator(argv[i - 1])
           \/ /\ "dash" \notin argv[i].marks
              /\ ~IsValueOf(DOMAIN GlobalValues, i)})

EndPosition ==
  Least({i \in DOMAIN argv : i > CommandPosition /\ IsSeparator(argv[i])}
          \cup {Consumed})

FlagPositions ==
  {i \in CommandPosition + 1 .. EndPosition - 1 :
     /\ "dash" \in argv[i].marks
     /\ ~IsValueOf(DOMAIN ValueFlags[reading], i)}

PathPositions ==
  {i \in CommandPosition + 1 .. EndPosition - 1 :
     /\ "dash" \notin argv[i].marks
     /\ ~IsValueOf(DOMAIN ValueFlags[reading], i)}
  \cup EndPosition + 1 .. Len(argv)

FieldAt(i) ==
  IF argv[i].name \in DOMAIN Switches[reading]
    THEN Switches[reading][argv[i].name][1]
    ELSE ValueFlags[reading][argv[i].name]

ValueAt(i) ==
  IF argv[i].name \in DOMAIN Switches[reading]
    THEN Switches[reading][argv[i].name][2]
    ELSE IF FieldAt(i) \in PathFields THEN PathIn(TextOf(i))
    ELSE Value(FieldAt(i), TextOf(i)[1])

FilterValuesAt(i) ==
  {Value(FieldAt(i), TextOf(i)[n]) : n \in DOMAIN TextOf(i)}

\* Every flag before the separator takes effect, in the command that runs,
\* and no flag is taken for the value of another one or for a path: each
\* field has the value its last flag gives (a filter, those of all of its
\* flags), no other field is set, and the paths are the other tokens and
\* all those after the separator, in order (L2-CLI-015, L2-CLI-016).
NoTokenSwallowed ==
  verdict = "parsed" =>
    /\ DOMAIN args = {FieldAt(i) : i \in FlagPositions}
    /\ \A field \in DOMAIN args :
         LET positions == {i \in FlagPositions : FieldAt(i) = field}
             last == CHOOSE i \in positions : \A j \in positions : j <= i
         IN  args[field] = IF field \in FilterFields
                             THEN UNION {FilterValuesAt(i) : i \in positions}
                             ELSE ValueAt(last)
    /\ Len(paths) = Cardinality(PathPositions)
    /\ \A i \in PathPositions :
         paths[Cardinality({j \in PathPositions : j <= i})] = argv[i].text

\* Who asks for help gets it, whatever else is wrong with the line, unless
\* an earlier flag has no value, after which nothing is interpreted, or the
\* version was asked for first (L2-CLI-017).
HelpIsAnswered ==
  \A help \in DOMAIN argv :
    /\ verdict # "reading"
    /\ IsHelp(argv[help])
    /\ \A i \in 1 .. help - 1 :
         /\ ~IsSeparator(argv[i]) /\ ~IsVersion(argv[i])
         /\ argv[i].name \in DOMAIN GlobalValues \cup DOMAIN DecodeValues
                              \cup DOMAIN ValueFlags["dump"]
              => HasValue(i)
    => verdict = "help"
=============================================================================
