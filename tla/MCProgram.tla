------------------------------ MODULE MCProgram ------------------------------
(* Runs of the whole program: families of command lines, configuration     *)
(* files, sets of input files and recordings.                              *)
EXTENDS Claims

-----------------------------------------------------------------------------
(* Tokens.                                                                 *)

At_(dir, name) == [dir |-> dir, name |-> name]
Here(name) == At_("", name)

PathText(path) == <<[path |-> path]>>
Numbers(list) == [i \in DOMAIN list |-> Number(list[i])]
WordText(w) == <<Spelled(w)>>

Token_(name, text, marks) ==
  [name |-> name, joined |-> None, text |-> text, marks |-> marks]
Flag(name) == Token_(name, PathText(Here(<<name>>)), {"dash"})
Joined(name, text) == [Flag(name) EXCEPT !.joined = text]
PathToken(path) == Token_("path", PathText(path), {})
Plain(w) == Token_(w, WordText(w), {})
Hex(n) == [hex |-> n]
Num(n) == Token_("n", <<Number(n)>>, IF n < 0 THEN {"dash", "digit"} ELSE {})

-----------------------------------------------------------------------------
(* Recordings, as the card writes them.                                    *)

TypeBits(sent, len) ==
  Types[sent.type] + (IF sent.bus = "b" THEN 128 ELSE 0) + 256 * len
    + IF sent.error = None THEN 0 ELSE 16384

TimeBits(sent) ==
  LET t == sent.time
  IN  IF sent.clock = "std" THEN t
      ELSE <<(IF sent.freerun THEN 32768 ELSE 0) + 32 * t[1] + t[2],
             1024 * t[3] + 16 * t[4] + (t[5] \div 65536), t[5] % 65536>>

OnTheBus(sent) ==
  LET status == IF sent.status = None THEN <<>> ELSE <<sent.status>>
  IN  CASE sent.error # None -> sent.data \o <<sent.error>>
        [] sent.error = None /\ sent.second # None ->
             <<CommandBits(sent.second)>> \o status \o sent.data
               \o IF sent.type = "RtToRt" THEN status ELSE <<>>
        [] sent.error = None /\ sent.second = None ->
             IF sent.command # None /\ sent.command.transmits
               THEN status \o sent.data ELSE sent.data \o status

Encoded(sent) ==
  LET tail == TimeBits(sent)
                \o (IF sent.command = None THEN <<>> ELSE <<CommandBits(sent.command)>>)
                \o OnTheBus(sent)
  IN  <<TypeBits(sent, Len(tail) + 1)>> \o tail

Cmd(rt, transmits, subaddress, words) ==
  [rt |-> rt, transmits |-> transmits, subaddress |-> subaddress, words |-> words]

Message(type, command, status, data) ==
  [type |-> type, bus |-> "a", clock |-> "irig", freerun |-> FALSE,
   time |-> <<1, 1, 1, 1, 3>>, command |-> command, second |-> None,
   status |-> status, data |-> data, error |-> None]

ToRt == Message("BcToRt", Cmd(1, FALSE, 1, 1), 2048, <<3>>)
FromRt == [Message("RtToBc", Cmd(2, TRUE, 1, 2), 4096, <<3, 5>>) EXCEPT !.bus = "b"]
Errored == [Message("BcToRt", Cmd(1, FALSE, 1, 2), None, <<7>>) EXCEPT !.error = 286]
Stray == Message("SpuriousData", None, None, <<3, 5>>)

\* A part of a recording, and the words it takes.
Whole(sent) == [is |-> "record", sent |-> sent, words |-> Encoded(sent)]
Other(is, words) == [is |-> is, words |-> words]
Broken == Other("broken", Encoded([ToRt EXCEPT !.command.transmits = TRUE]))
Noise == Other("noise", <<3, 3, 3, 3>>)
Window == 20
Wreck == Other("wreck", [i \in 1 .. Window |-> 3])
EndMark == Other("end", <<0>>)
Pad == Other("pad", FlattenSeq([i \in 1 .. 4 |-> Encoded(ToRt)]))

WordsBefore(parts, n) == FlattenSeq([m \in 1 .. n - 1 |-> parts[m].words])

\* Records are sent one second apart.
Timed(parts, second) ==
  [n \in DOMAIN parts |->
     IF parts[n].is # "record" \/ parts[n].sent.clock # "irig" THEN parts[n]
     ELSE Whole([parts[n].sent EXCEPT !.time[4] = second + n])]

Recording(given) ==
  [kind  |-> "recording",
   words |-> FlattenSeq([n \in DOMAIN given |-> given[n].words]),
   parts |-> [n \in DOMAIN given |->
                ("at" :> Len(WordsBefore(given, n)))
                  @@ [field \in DOMAIN given[n] \ {"words"} |-> given[n][field]]]]

Recorded(parts) == Recording(Timed(parts, 1))

\* A scan takes a record only if another, or the end of the file, follows.
Findable(parts) ==
  /\ parts[1].is \notin {"noise", "broken"}
  /\ \A n \in 1 .. Len(parts) - 1 :
       /\ parts[n].is \in {"end", "wreck"} => FALSE
       /\ parts[n].is = "noise" => parts[n + 1].is \in {"record", "broken"}
       /\ n > 1 /\ parts[n - 1].is = "noise" => parts[n + 1].is \in {"record", "broken"}
       /\ n = 1 => parts[2].is \in {"record", "broken", "end"}

PartKinds == {Whole(ToRt), Whole(FromRt), Whole(Errored), Whole(Stray), Broken,
              Noise, Wreck, EndMark}

ShortRecordings ==
  {parts \in UNION {[1 .. n -> PartKinds] : n \in 1 .. 3} : Findable(parts)}

-----------------------------------------------------------------------------
NoFile == [state |-> "missing", lines |-> <<>>]
Given_(argv_, disk_) ==
  [argv |-> argv_, disk |-> disk_, configFile |-> NoFile, sink |-> "open"]

R == At_(".", <<"r">>)
OutFlag == <<Flag("-o"), PathToken(Here(<<"c">>))>>

Ways ==
  {<<Plain("decode"), PathToken(R)>> \o rest :
     rest \in {<<>>, OutFlag,
               OutFlag \o <<Flag("--separate-errors"), Flag("--allow-partial")>>,
               <<Flag("--strict")>>,
               <<Flag("--exclude-rts"), Num(1)>>}}
    \cup {<<Plain("count"), PathToken(R)>>}

Walks == {Given_(way, R :> Recorded(parts)) : way \in Ways, parts \in ShortRecordings}


-----------------------------------------------------------------------------
(* Merges: two or three recordings under the options that matter to them.  *)

Decode_(tokens) == <<Plain("decode")>> \o tokens
Paths_(list) == [i \in DOMAIN list |-> PathToken(list[i])]

At1(sent, second, us) == Whole([sent EXCEPT !.time = <<1, 1, 1, second, us>>])

Std(sent, count) == Whole([sent EXCEPT !.clock = "std", !.time = <<0, count>>])
Freerun(sent) == [sent EXCEPT !.freerun = TRUE, !.time[1] = 0]

Early == Recorded(<<Whole(ToRt), Whole(FromRt)>>)
Interleaved == Recording(<<At1(FromRt, 2, 1), At1(ToRt, 3, 1), At1(Stray, 5, 1)>>)
Gapped == Recorded(<<Whole(FromRt), Whole(Errored), Noise, Whole(ToRt), Whole(Stray)>>)
Wrecked_ == Recorded(<<Whole(ToRt), Whole(Stray), Wreck>>)
Empty_ == Recording(<<EndMark>>)
Padded == Recording(<<Pad>>)
Backward == Recording(<<At1(ToRt, 4, 1), At1(FromRt, 1, 1), At1(ToRt, 4, 1)>>)
Standard == Recording(<<Std(ToRt, 5), Std(FromRt, 6)>>)
Unlocked == Recording(<<Whole(Freerun(ToRt)), Whole(FromRt)>>)
LateUnlocked == Recording(<<At1(ToRt, 1, 1), Whole(Freerun(FromRt))>>)
Locked == [kind |-> "locked"]

Kinds_ == {Early, Interleaved, Gapped, Wrecked_, Empty_, Padded, Backward, Standard,
           Unlocked, LateUnlocked, Locked}

A == At_(".", <<"a">>)
B == At_(".", <<"b">>)
M == At_(".", <<"m">>)

MergeWays ==
  {<<>>, OutFlag, OutFlag \o <<Flag("--allow-partial")>>,
   OutFlag \o <<Flag("--separate-errors"), Flag("--allow-partial")>>,
   <<Flag("--strict")>>}

Pairs_ == {Given_(Decode_(Paths_(<<A, B>>) \o way), A :> first @@ B :> second) :
             way \in MergeWays, first \in Kinds_, second \in Kinds_}

Absent == {Given_(Decode_(Paths_(<<A, B>>) \o way), B :> second) :
             way \in MergeWays, second \in Kinds_}

Triples ==
  {Given_(Decode_(Paths_(<<A, B, M>>) \o way), A :> first @@ B :> second @@ M :> Gapped) :
     way \in MergeWays, first \in {Early, Wrecked_, Locked},
     second \in {Interleaved, Backward}}
  \cup {Given_(Decode_(Paths_(<<A, A, B>>)), A :> Early @@ B :> Gapped),
        Given_(Decode_(Paths_(<<A, B, A, M>>)), A :> Early)}



-----------------------------------------------------------------------------
(* Outputs: what the name of an output, or one derived from it, may hit.   *)

Csv == Here(<<"c", ".", "x">>)
OutputTo(path) == <<Flag("-o"), PathToken(path)>>

Bystander == Recorded(<<Whole(FromRt)>>)

\* What stands at the output's name, at the names derived from it, or links
\* to the input.
Neighbours ==
  {Csv, ErrorPathFor(Csv), PartialPathFor(Csv), PartialPathFor(ErrorPathFor(Csv))}

OutputWays ==
  {way \o rest : way \in {<<>>, <<Flag("--no-clobber")>>},
     rest \in {<<>>, <<Flag("--separate-errors")>>,
               <<Flag("--separate-errors"), Flag("--allow-partial")>>}}

\* The input is the neighbour itself, or a link makes it so.
Overwrites ==
  {Given_(Decode_(<<PathToken(path)>> \o rest \o OutputTo(Csv) \o way),
          Located(path) :> Gapped @@ B :> Early) :
     path \in Neighbours, way \in OutputWays, rest \in {<<>>, Paths_(<<B>>)}}
  \cup
  {Given_(Decode_(Paths_(<<R>>) \o rest \o OutputTo(Csv) \o way),
          R :> Wrecked_ @@ B :> Early @@ Located(path) :> [kind |-> "link", to |-> R]) :
     path \in Neighbours, way \in OutputWays, rest \in {<<>>, Paths_(<<B>>)}}

Standing ==
  {Given_(Decode_(Paths_(<<R>>) \o OutputTo(Csv) \o way),
          R :> recording @@ Located(path) :> there) :
     path \in Neighbours, way \in OutputWays, recording \in {Gapped, Wrecked_},
     there \in {Bystander, [kind |-> "directory"],
                [kind |-> "link", to |-> Here(<<"k">>)]}}

Elsewhere ==
  {Given_(Decode_(Paths_(<<R>>) \o OutputTo(At_(dir, name)) \o <<Flag("--separate-errors")>>),
          R :> Gapped @@ At_("d", <<"k">>) :> Bystander) :
     dir \in {"", "d", "t"}, name \in {<<"c">>, <<".", "c">>, <<"c", ".">>}}


-----------------------------------------------------------------------------
(* Records of every format, every rendering and both clocks.               *)

Mode(rt, transmits, status, data) ==
  Message("ModeCommand", Cmd(rt, transmits, 0, 17), status, data)

BetweenRts ==
  [Message("RtToRt", Cmd(2, TRUE, 3, 1), 4096, <<3>>) EXCEPT
     !.second = Cmd(3, FALSE, 1, 1)]
BroadcastRts ==
  [Message("BroadcastRtToRt", Cmd(2, TRUE, 3, 1), 4096, <<3>>) EXCEPT
     !.second = Cmd(31, FALSE, 1, 1)]

FormatsSent ==
  {Message("BroadcastBcToRt", Cmd(31, FALSE, 1, 2), None, <<3, 5>>),
   BetweenRts, BroadcastRts,
   Mode(1, TRUE, 2048, <<3>>), Mode(1, FALSE, 2048, <<3>>), Mode(1, TRUE, 2048, <<>>),
   Mode(31, FALSE, None, <<3>>), Mode(31, FALSE, None, <<>>),
   Message("BcToRt", Cmd(30, FALSE, 1, 32), 61440, [i \in 1 .. 32 |-> 3]),
   [Stray EXCEPT !.data = <<3>>],
   [Errored EXCEPT !.data = <<>>], [Errored EXCEPT !.bus = "b"], [Errored EXCEPT !.error = 5]}

AnchoredBy(sent) == Recorded(<<Whole(ToRt), Whole(sent), Whole(FromRt)>>)

FilterTokens ==
  {<<>>} \cup
  {<<Flag(name), Token_("n", Numbers(list), {})>> :
     name \in {"--exclude-rts", "--include-rts", "--exclude-subaddresses",
               "--include-subaddresses"}, list \in {<<1, 31>>, <<3>>, <<0, 1>>}}
  \cup {<<Flag("--exclude-types"), Token_("w", <<Spelled("rt_to_rt"), Hex(1)>>, {})>>,
        <<Flag("--exclude-types"), Token_("w", <<Spelled("rt_to_rt"), Number(1)>>, {})>>,
        <<Flag("--include-types"), Token_("h", <<Hex(256)>>, {})>>,
        <<Flag("--exclude-subaddresses"), Token_("h", <<Hex(1), Number(3)>>, {})>>,
        <<Flag("--include-types"), Token_("w", <<Spelled("broadcast_rt_to_rt")>>, {}),
          Joined("--include-buses", WordText("a"))>>,
        <<Flag("--exclude-buses"), Plain("b")>>,
        <<Flag("--include-rts"), Num(200)>>}

Formats_ ==
  {Given_(Decode_(Paths_(<<R>>) \o way), R :> AnchoredBy(sent)) :
     way \in FilterTokens, sent \in FormatsSent}
  \cup {Given_(Decode_(Paths_(<<R>>) \o <<Flag("--strict")>>), R :> AnchoredBy(sent)) :
          sent \in FormatsSent}

Day(sent, day) == Whole([sent EXCEPT !.time = <<day, 23, 59, 59, 999999>>])

Dated == {Recording(<<Day(ToRt, day), Day(FromRt, day)>>) :
            day \in {1, 31, 32, 59, 60, 61, 90, 91, 335, 365, 366}}
         \cup {Unlocked, LateUnlocked, Standard, Early}

Year(n) == <<Flag("--year"), Num(n)>>
Rendering(w) == <<Flag("--output-time-format"), Plain(w)>>
OffsetToken(sign, hours, minutes) ==
  <<Flag("--utc-offset"),
    Token_("z", <<[hours |-> hours, minutes |-> minutes, sign |-> sign]>>,
           {"dash", "digit"})>>

Renderings ==
  {Rendering(w) \o Year(n) : w \in {"iso", "dom"}, n \in {1900, 2000, 2023, 2024}}
  \cup {Rendering("iso"), Rendering("doy") \o Year(2023),
        Rendering("iso") \o Year(2024) \o OffsetToken(-1, 1, 30),
        Rendering("iso") \o Year(2024) \o OffsetToken(1, 0, 45),
        OutFlag \o Rendering("dom") \o Year(2023)}

Dates == {Given_(Decode_(Paths_(<<R>>) \o way), R :> recording) :
            way \in Renderings, recording \in Dated}

OfClock ==
  [standard |-> {Recording(<<Std(ToRt, 5), Std(FromRt, 6), Std(ToRt, 7)>>),
                 Recording(<<Std(ToRt, 5)>>)},
   irig     |-> {Recorded(<<Whole(Errored), Whole(Stray)>>), Early}]

\* The wrong format is forced in strict mode only, and on records that tell
\* the two apart.
Clocks ==
  {Given_(Decode_(Paths_(<<R>>) \o <<Flag("--input-time-format"), Plain(pair[1])>> \o rest),
          R :> pair[2]) :
     pair \in ({"irig", "auto"} \X OfClock.irig) \cup ({"standard", "auto"} \X OfClock.standard),
     rest \in {<<>>, <<Flag("--strict")>>}}
  \cup
  {Given_(Decode_(Paths_(<<R>>) \o <<Flag("--strict"), Flag("--input-time-format"),
                                     Plain(pair[1])>>),
          R :> pair[2]) :
     pair \in ({"irig"} \X OfClock.standard) \cup {<<"standard", Early>>}}

\* The MUX column: the name's field, from either end.
MuxNames == {<<"a", ".", "m", ".", " ", "2">>, <<"x", ".", ".", "a">>, <<"m">>,
             <<"a", ".", "\r">>}

Muxes ==
  {Given_(Decode_(<<PathToken(Here(name)), Flag("--mux-field"), Num(n)>> \o rest),
          At_(".", name) :> Early) :
     name \in MuxNames, n \in {-4, -3, -2, -1, 0, 1, 2, 3},
     rest \in {<<>>, <<Flag("--mux-delimiter"), Plain("m")>>,
               <<Flag("--mux-delimiter"), Num(2)>>}}
  \cup {Given_(Decode_(<<PathToken(Here(name)), Flag("--no-mux")>>), At_(".", name) :> Early) :
          name \in MuxNames}


-----------------------------------------------------------------------------
(* How the inputs are named: manifests and patterns.                       *)

Named == [kind |-> "recording", words |-> Early.words, parts |-> Early.parts]
Text(lines) == [kind |-> "text", lines |-> lines]

InputFiles ==
  At_(".", <<"a">>) :> Named @@ At_(".", <<"a", " ", "b">>) :> Padded
    @@ At_("d", <<"a">>) :> Interleaved @@ At_(".", <<"a", "\r">>) :> Gapped

ManifestLines ==
  {<<"a">>, <<" ", "a", "\t">>, <<"a", "\r">>, <<"#", "a">>, <<" ", "#">>, <<>>,
   <<"\r">>, <<" ", "\r">>, <<"d", "/", "a">>, <<"a", " ", "b", "\r">>,
   <<"a", "\r", "\r">>, <<"x">>, <<"a", "#">>}

ManifestTexts ==
  {<<first, second>> : first \in ManifestLines, second \in ManifestLines}
    \cup {<<only>> : only \in ManifestLines}
    \cup {<< <<"a">>, <<"#">>, <<"d", "/", "a">>, <<"\r">>, <<"a">> >>,
          [n \in 1 .. 4 |-> <<"a">>]}

ByManifest == Decode_(<<Flag("--manifest"), PathToken(Here(<<"l">>))>>)

Manifests ==
  {Given_(ByManifest, At_(".", <<"l">>) :> Text(lines) @@ InputFiles) :
     lines \in ManifestTexts}
  \cup {Given_(ByManifest, At_(".", <<"l">>) :> [kind |-> kind] @@ InputFiles) :
          kind \in {"empty", "locked", "directory"}}
  \cup {Given_(ByManifest, InputFiles)}

ByPattern(pattern) == Decode_(<<Flag("--glob"), PathToken(pattern)>>)

PatternNames == UNION {[1 .. n -> {"a", "b", "*", "?"}] : n \in 1 .. 3}
                  \cup {<<"*", "a", "b", "*">>, <<"a", "*", "a", "b">>,
                        <<"*", "a", "*", "b">>, <<"a", "*", "*", "b">>}

PatternFiles ==
  At_("t", <<"a", "b">>) :> Named @@ At_("t", <<"b", "a">>) :> Named
    @@ At_("t", <<"a", "a", "b">>) :> Named
    @@ At_("t", <<"a", "b", "a", "b">>) :> Interleaved
    @@ At_("t", <<"b">>) :> [kind |-> "directory"]
    @@ At_("t", <<"a">>) :> [kind |-> "link", to |-> At_("t", <<"b", "a">>)]
    @@ At_("t", <<"b", "b">>) :> [kind |-> "link", to |-> At_("t", <<"c">>)]

Patterns == {Given_(ByPattern(At_(dir, name)), PatternFiles) :
               dir \in {"t"}, name \in PatternNames}
            \cup {Given_(ByPattern(At_("d", <<"*">>)), PatternFiles)}


-----------------------------------------------------------------------------
(* Lines of arguments, token by token.                                     *)

OnR(argv_) == Given_(argv_, R :> Early)
Lines(tokens, n) == UNION {[1 .. m -> tokens] : m \in 0 .. n}

DecodeTokens ==
  {Flag("-h"), Flag("--"), Flag("-v"), Flag("--strict"), Flag("--mux-field"),
   Num(2), Num(-5), Flag("-o"),
   Joined("--year", Numbers(<<0>>)), Joined("--strict", WordText("x")),
   Joined("--help", WordText("x")),
   Flag("--bogus"), Token_("-", WordText("-"), {"dash", "lone"}),
   Token_("-a b", WordText("-a b"), {"dash", "space"}),
   PathToken(R), Flag("--exclude-rts")}

CountTokens ==
  {Flag("-h"), Flag("--"), Flag("--strict"), Flag("--bogus"), PathToken(R), Num(2)}

DumpTokens ==
  {Flag("--help"), Flag("--"), Flag("--raw"), Flag("--offset"), Num(2), Num(-3),
   Joined("--length", Numbers(<<5>>)), Flag("--records"), PathToken(R)}

GlobalTokens ==
  {Flag("-h"), Flag("-V"), Flag("--"), Flag("--log-level"), Plain("debug"),
   Plain("critical"), Plain("loud"), Joined("--log-level", WordText("warn")),
   Flag("--no-irig-day-advisory"), Joined("--no-irig-day-advisory", WordText("x")),
   Flag("--config"), PathToken(Here(<<"l">>)), Flag("--bogus"), Num(-5)}

Commands ==
  {<<>>, <<Plain("decode"), PathToken(R)>>, <<Plain("count"), PathToken(R)>>,
   <<Plain("dump"), PathToken(R), Flag("-h")>>, <<Plain("bogus"), Flag("--help")>>,
   <<Plain("decode"), Flag("--bogus"), Flag("--"), Flag("-h")>>}

DecodeLines == {OnR(<<Plain("decode")>> \o rest) : rest \in Lines(DecodeTokens, 3)}
CountLines == {OnR(<<Plain("count")>> \o rest) : rest \in Lines(CountTokens, 3)}
DumpLines == {OnR(<<Plain("dump")>> \o rest) : rest \in Lines(DumpTokens, 3)}
GlobalLines == {OnR(first \o rest) : first \in Lines(GlobalTokens, 2), rest \in Commands}

-----------------------------------------------------------------------------
(* Configuration files.                                                    *)

Blank_ == [form |-> "blank"]
Header(name) == [form |-> "header", name |-> name, flaw |-> "none"]
Pair_(key, literal) ==
  [form |-> "pair", key |-> key, literal |-> literal, flaw |-> "none"]

Str(w) == [kind |-> "string", atom |-> Spelled(w)]
HexStr(n) == [kind |-> "string", atom |-> Hex(n)]
Hours(sign, hours, minutes) ==
  [kind |-> "string", atom |-> [hours |-> hours, minutes |-> minutes, sign |-> sign]]
Bool(value) == [kind |-> "bool", value |-> value]
IntegerOf(n) == [kind |-> "number", value |-> n, whole |-> "digits",
                 fraction |-> "none", exponent |-> "none"]
Array(pieces) == [kind |-> "array", pieces |-> pieces]

Literals_ ==
  {Str("auto"), Str("separate"), Str("debug"), Str("critical"), Str("iso"), Str("global"),
   Str("csv"), Str("."), Str(""), Str("z"), Hours(-1, 5, 30), Hours(1, 24, 0),
   Bool(TRUE), Bool(FALSE),
   [kind |-> "bare"],
   IntegerOf(0), IntegerOf(1), IntegerOf(32), IntegerOf(33), IntegerOf(-3),
   IntegerOf(2024), IntegerOf(9999), IntegerOf(10000), IntegerOf(1048577),
   [IntegerOf(0) EXCEPT !.whole = "leading zero"],
   [IntegerOf(1) EXCEPT !.fraction = "digits"],
   [IntegerOf(0) EXCEPT !.exponent = "digits"],
   [IntegerOf(1) EXCEPT !.fraction = "missing"],
   Array(<<>>), Array(<<IntegerOf(1)>>), Array(<<IntegerOf(32)>>),
   Array(<<IntegerOf(255), [kind |-> "empty"]>>),
   Array(<<[kind |-> "empty"], IntegerOf(1)>>),
   Array(<<Str("rt_to_bc"), IntegerOf(2)>>), Array(<<Str("b")>>), Array(<<Bool(TRUE)>>),
   HexStr(1), Array(<<HexStr(8), Str("bc_to_rt")>>), Array(<<HexStr(256)>>)}

Keys_ == UNION {{<<where, key>> : key \in DOMAIN Schema[where]} : where \in Sections}

TextFile(lines) == [state |-> "text", lines |-> lines]

UnderConfig(tokens, rest, file) ==
  [Given_(<<Flag("--config"), PathToken(Here(<<"l">>))>> \o tokens \o rest, R :> Early)
     EXCEPT !.configFile = file]

DecodeR == <<Plain("decode"), PathToken(R)>>

Valued ==
  {UnderConfig(<<>>, DecodeR,
               TextFile(<<Header(place[1]), Pair_(place[2], literal)>>)) :
     place \in Keys_, literal \in Literals_}

FileLines ==
  {Blank_, Header("filter"), Header("decode"), Header("other"),
   [Header("mux") EXCEPT !.flaw = "malformed"],
   Pair_("strict", Bool(TRUE)), Pair_("strict", Bool(FALSE)),
   Pair_("exclude_rts", Array(<<IntegerOf(1)>>)),
   Pair_("exclude_rts", Str("x")), Pair_("filter", IntegerOf(1)),
   Pair_("time_format", Str("irig")), Pair_("bogus", IntegerOf(1)),
   [Pair_("allow_partial", Bool(TRUE)) EXCEPT !.flaw = "malformed"]}

Structured ==
  {UnderConfig(<<>>, DecodeR, TextFile(lines)) : lines \in Lines(FileLines, 3)}
  \cup {UnderConfig(<<>>, DecodeR,
                    TextFile(<<Header("filter"), Pair_("exclude_rts", Array(<<IntegerOf(1)>>)),
                               Header("decode"), second>> \o third)) :
          second \in FileLines, third \in Lines(FileLines, 1)}
  \cup {UnderConfig(<<>>, DecodeR, [state |-> state, lines |-> <<>>]) :
          state \in {"missing", "directory", "unreadable"}}

\* The file says one thing, and the command line another.
Settled ==
  TextFile(<<Header("logging"), Pair_("level", Str("debug")),
             Pair_("irig_day_advisory", Bool(TRUE)),
             Header("decode"), Pair_("strict", Bool(TRUE)),
             Pair_("error_mode", Str("separate")), Pair_("allow_partial", Bool(TRUE)),
             Header("output"), Pair_("no_clobber", Bool(TRUE)), Pair_("year", IntegerOf(2024)),
             Pair_("output_time_format", Str("iso")), Pair_("max_sort_group", IntegerOf(1)),
             Header("mux"), Pair_("enabled", Bool(FALSE)),
             Header("filter"), Pair_("exclude_rts", Array(<<IntegerOf(1)>>)),
             Pair_("exclude_types", Array(<<Str("spurious_data")>>))>>)

GlobalWays ==
  {<<>>, <<Flag("--log-level"), Plain("error")>>,
   <<Flag("--no-irig-day-advisory")>>,
   <<Flag("--log-level"), Plain("info"), Flag("--log-level"), Plain("off")>>}

OverWays ==
  {<<>>, <<Flag("--exclude-rts"), Num(2)>>,
   <<Flag("--exclude-rts"), Num(2), Flag("--exclude-rts"), Num(3)>>,
   <<Flag("--year"), Num(2023)>>, <<Flag("--output-time-format"), Plain("doy")>>,
   <<Flag("--output-time-format"), Plain("dom"), Flag("--output-time-format"), Plain("doy")>>,
   <<Flag("--include-types"), Plain("bc_to_rt")>>, OutputTo(Csv)}

Overridden ==
  {[UnderConfig(tokens, DecodeR \o rest, Settled) EXCEPT !.disk = R :> recording] :
     tokens \in GlobalWays, rest \in OverWays, recording \in {Early, Gapped, Wrecked_}}
  \cup {[UnderConfig(tokens, <<Plain("count"), PathToken(R)>>, file) EXCEPT
           !.disk = R :> recording] :
          tokens \in GlobalWays, file \in {Settled, TextFile(SubSeq(Settled.lines, 14, 16))},
          recording \in {Early, Gapped, Wrecked_, Padded, Empty_, Locked}}
  \cup {UnderConfig(tokens, <<Plain("dump"), PathToken(R)>>, Settled) : tokens \in GlobalWays}


-----------------------------------------------------------------------------
(* Dumps, and a stdout that takes nothing.                                 *)

Cut == Recording(<<Whole(ToRt), Whole(FromRt), Other("noise", SubSeq(Encoded(ToRt), 1, 4)),
                   Other("noise", <<3, 3>>)>>)
Zeroed == Recording(<<Whole(ToRt), EndMark, Other("noise", <<1, 1, 1, 1, 1>>)>>)

Dumpable == {Recorded(<<Whole(ToRt), Whole(Errored), Whole(Stray), Whole(FromRt)>>),
             Cut, Zeroed, Empty_, Standard, Gapped}

Amount(name, n) == Joined(name, Numbers(<<n>>))

DumpWays ==
  {<<Flag("--raw")>>} \cup {<<>>}
  \cup {<<Amount("--offset", n)>> : n \in {0, 1, 6, 16, 17, 200}}
  \cup {<<Joined("--offset", <<Hex(16)>>)>>}
  \cup {<<Amount("--records", n)>> : n \in 0 .. 3}
  \cup {<<Amount("--offset", n), Amount("--records", 1)>> : n \in {0, 16, 30}}
  \cup {<<Flag("--raw"), Amount("--offset", n)>> : n \in {0, 7, 16, 60, 61, 200}}
  \cup {<<Flag("--raw"), Amount("--length", n)>> : n \in {0, 1, 7, 200}}
  \cup {<<Flag("--raw"), Amount("--offset", n), Amount("--length", m)>> :
          n \in {3, 16, 200}, m \in {0, 5, 200}}

DumpR == <<Plain("dump"), PathToken(R)>>

Dumps ==
  {Given_(DumpR \o way, R :> recording) : way \in DumpWays, recording \in Dumpable}
  \cup {Given_(DumpR, R :> Locked), Given_(DumpR, <<>>)}

Sinks ==
  {[Given_(argv_, R :> recording) EXCEPT !.sink = sink_] :
     argv_ \in {DecodeR, DecodeR \o OutFlag, DecodeR \o Rendering("iso") \o Year(2023),
                <<Plain("count"), PathToken(R)>>, DumpR, <<Flag("-h")>>,
                <<Flag("--version")>>},
     recording \in {Early, Gapped, Wrecked_, Empty_, Padded, LateUnlocked},
     sink_ \in {"pipe", "full"}}

\* A group of the canonical order that never grows past one or two rows.
Capped ==
  {Given_(DecodeR \o <<Flag("--max-sort-group"), Num(n)>>, R :> recording) :
     n \in 1 .. 2, recording \in {Early, Gapped, Interleaved, Wrecked_}}

AllFamilies ==
  {Walks, Pairs_, Absent, Triples, Overwrites, Standing, Elsewhere, Formats_, Dates,
   Muxes, Clocks, Manifests, Patterns, DecodeLines, CountLines, DumpLines, GlobalLines,
   Valued, Structured, Overridden, Dumps, Sinks, Capped}
=============================================================================
