------------------------------ MODULE Settings ------------------------------
(***************************************************************************)
(* The configuration of a run (src/rust/src/config.rs): the file that      *)
(* --config names is parsed line by line as a flat subset of TOML, every   *)
(* key is checked against the schema, and the values of the command line   *)
(* are laid over the result.                                               *)
(*                                                                         *)
(* The file is what stands at its path: its state, and its lines.  A line  *)
(* is blank (a comment too), a header or a pair, each with its flaw if it  *)
(* is malformed; a literal is a record of the parts the grammar tells      *)
(* apart.                                                                  *)
(***************************************************************************)
EXTENDS Vocabulary

VARIABLES
  configFile,   \* what stands at the path of --config
  loading,      \* "idle", "lines", "loaded" or "refused"
  line,         \* the position of the next line
  section,      \* the section the next pair belongs to
  seenSections, \* the sections declared so far
  entries,      \* TomlDoc: the values by section and key
  warned,       \* the unknown keys that have been reported
  config        \* DecoderConfig as loaded, or None

loadVars ==
  <<configFile, loading, line, section, seenSections, entries, warned, config>>

Defaults ==
  [log_level |-> "warning", irig_day_advisory |-> TRUE,
   input_time_format |-> "auto", strict |-> FALSE, error_mode |-> "inline",
   output_format |-> "csv", no_clobber |-> FALSE, output_time_format |-> "doy",
   year |-> None, utc_offset_minutes |-> 0, allow_partial |-> FALSE,
   detect_records |-> 8, lookahead_records |-> 2,
   standard_tick_rate_hz |-> None, mux_enabled |-> TRUE, mux_delimiter |-> ".",
   mux_field |-> 4, collapse_duplicates |-> FALSE, collapse_window_us |-> 0,
   delta_scope |-> "per-file", max_sort_group |-> 4096,
   max_collapse_survivors |-> 4096,
   exclude_types |-> {}, exclude_rts |-> {}, exclude_buses |-> {},
   exclude_subaddresses |-> {}, include_types |-> {}, include_rts |-> {},
   include_buses |-> {}, include_subaddresses |-> {}]

\* The schema: the field behind each key.
Sections == {"logging", "decode", "output", "mux", "merge", "filter"}

Schema ==
  [logging |-> [level |-> "log_level",
                irig_day_advisory |-> "irig_day_advisory"],
   decode  |-> [input_time_format |-> "input_time_format",
                strict |-> "strict", error_mode |-> "error_mode",
                allow_partial |-> "allow_partial",
                detect_records |-> "detect_records",
                lookahead_records |-> "lookahead_records",
                standard_tick_rate_hz |-> "standard_tick_rate_hz"],
   output  |-> [format |-> "output_format", no_clobber |-> "no_clobber",
                output_time_format |-> "output_time_format",
                year |-> "year", utc_offset |-> "utc_offset_minutes",
                max_sort_group |-> "max_sort_group"],
   mux     |-> [enabled |-> "mux_enabled", delimiter |-> "mux_delimiter",
                field |-> "mux_field"],
   merge   |-> [collapse_duplicates |-> "collapse_duplicates",
                collapse_window_us |-> "collapse_window_us",
                max_collapse_survivors |-> "max_collapse_survivors",
                delta_scope |-> "delta_scope"],
   filter  |-> [exclude_types |-> "exclude_types",
                exclude_rts |-> "exclude_rts",
                exclude_buses |-> "exclude_buses",
                exclude_subaddresses |-> "exclude_subaddresses"]]

KnownKey(where, key) ==
  where \in DOMAIN Schema /\ key \in DOMAIN Schema[where]

-----------------------------------------------------------------------------
(* Literals.                                                               *)

\* No leading zero, and digits after a point and after an exponent mark.
IsNumberLiteral(literal) ==
  /\ literal.whole \in {"zero", "digits"}
  /\ literal.fraction \in {"none", "digits"}
  /\ literal.exponent \in {"none", "digits"}

\* split_array_items keeps an empty piece between commas and drops a last one.
Pieces(literal) ==
  LET pieces == literal.pieces
  IN  IF pieces # <<>> /\ pieces[Len(pieces)].kind = "empty"
        THEN SubSeq(pieces, 1, Len(pieces) - 1) ELSE pieces

IsScalarLiteral(literal) ==
  \/ literal.kind \in {"string", "bool"}
  \/ literal.kind = "number" /\ IsNumberLiteral(literal)

IsLiteral(literal) ==
  \/ IsScalarLiteral(literal)
  \/ /\ literal.kind = "array"
     /\ \A i \in DOMAIN Pieces(literal) : IsScalarLiteral(Pieces(literal)[i])

ScalarOf(literal) ==
  CASE literal.kind = "string" -> literal.atom
    [] literal.kind = "bool"   -> [bool |-> literal.value]
    [] literal.kind = "number" ->
         IF literal.fraction = "none" /\ literal.exponent = "none"
           THEN [int |-> literal.value] ELSE [float |-> literal.value]

LiteralValue(literal) ==
  IF literal.kind = "array"
    THEN [items |-> [i \in DOMAIN Pieces(literal) |->
                       ScalarOf(Pieces(literal)[i])]]
    ELSE ScalarOf(literal)

-----------------------------------------------------------------------------
(* The schema's checks.                                                    *)

Flags == {"irig_day_advisory", "strict", "allow_partial", "no_clobber",
          "mux_enabled", "collapse_duplicates"}

\* An integer of the file may be a type's code; its strings are the names.
GoodTypeValue(atom) == GoodType(atom) \/ (Is("int", atom) /\ atom.int \in 0 .. 255)

\* An address that no record can have is refused here.
GoodAddress(atom) == Is("int", atom) /\ atom.int \in 0 .. 31

GoodItem(field, atom) ==
  CASE field \in TypeFields    -> GoodTypeValue(atom)
    [] field \in BusFields     -> GoodBus(atom)
    [] field \in AddressFields -> GoodAddress(atom)

GoodValue(field, value) ==
  CASE field \in Flags                -> Is("bool", value)
    [] field = "utc_offset_minutes"   -> GoodOffset(value)
    [] field = "mux_delimiter"        ->
         \/ Is("word", value) /\ value.word # ""
         \/ Is("hex", value) \/ Is("hours", value)
    [] field = "standard_tick_rate_hz" ->
         \/ Is("int", value) /\ value.int > 0
         \/ Is("float", value) /\ value.float > 0
    [] field \in DOMAIN Spellings     ->
         Is("word", value) /\ value.word \in Spellings[field]
    [] field \in DOMAIN Ranges \ {"standard_tick_rate_hz"} ->
         Is("int", value) /\ value.int \in Ranges[field]
    [] field \in FilterFields         ->
         /\ Is("items", value)
         /\ \A i \in DOMAIN value.items : GoodItem(field, value.items[i])

\* The renamed key is refused by its presence, whatever its value.
UsesRetiredKey == <<"decode", "time_format">> \in DOMAIN entries

\* A section's name used as a key before any header.
UsesSectionAsScalar == \E name \in Sections : <<"", name>> \in DOMAIN entries

KnownEntries == {entry \in DOMAIN entries : KnownKey(entry[1], entry[2])}
FieldOf(entry) == Schema[entry[1]][entry[2]]

SchemaHolds ==
  /\ ~UsesSectionAsScalar
  /\ ~UsesRetiredKey
  /\ \A entry \in KnownEntries : GoodValue(FieldOf(entry), entries[entry])

ValueIn(field, value) ==
  IF field \in FilterFields
    THEN {Value(field, value.items[i]) : i \in DOMAIN value.items}
    ELSE Value(field, value)

Loaded ==
  LET given == {FieldOf(entry) : entry \in KnownEntries}
      entryOf(field) == CHOOSE entry \in KnownEntries : FieldOf(entry) = field
  IN  [field \in DOMAIN Defaults |->
         IF field \in given THEN ValueIn(field, entries[entryOf(field)])
                            ELSE Defaults[field]]

-----------------------------------------------------------------------------
(* load_config.                                                            *)

\* Without --config the defaults are used; the path of --config must name a
\* regular file that can be read.
OpenConfig(given) ==
  /\ loading = "idle"
  /\ loading' = IF given /\ configFile.state # "text" THEN "refused"
                ELSE IF given THEN "lines" ELSE "loaded"
  /\ config' = IF given THEN config ELSE Defaults
  /\ UNCHANGED <<configFile, line, section, seenSections, entries, warned>>

ReadingLines == loading = "lines" /\ line <= Len(configFile.lines)
Line == configFile.lines[line]

NextLine == line' = line + 1 /\ UNCHANGED <<configFile, loading, warned, config>>

SkipLine ==
  /\ ReadingLines
  /\ Line.form = "blank"
  /\ NextLine
  /\ UNCHANGED <<section, seenSections, entries>>

GoodHeader == Line.flaw = "none" /\ Line.name \notin seenSections

OpenSection ==
  /\ ReadingLines
  /\ Line.form = "header"
  /\ GoodHeader
  /\ section' = Line.name
  /\ seenSections' = seenSections \cup {Line.name}
  /\ NextLine
  /\ UNCHANGED entries

GoodPair ==
  /\ Line.flaw = "none"
  /\ IsLiteral(Line.literal)
  /\ <<section, Line.key>> \notin DOMAIN entries

TakePair ==
  /\ ReadingLines
  /\ Line.form = "pair"
  /\ GoodPair
  /\ entries' = With(entries, <<section, Line.key>>, LiteralValue(Line.literal))
  /\ NextLine
  /\ UNCHANGED <<section, seenSections>>

\* A line outside the subset, a second declaration of a section or a key.
RefuseLine ==
  /\ ReadingLines
  /\ \/ Line.form = "header" /\ ~GoodHeader
     \/ Line.form = "pair" /\ ~GoodPair
  /\ loading' = "refused"
  /\ UNCHANGED <<configFile, line, section, seenSections, entries, warned, config>>

ApplySchema ==
  /\ loading = "lines"
  /\ line > Len(configFile.lines)
  /\ loading' = IF SchemaHolds THEN "loaded" ELSE "refused"
  /\ config' = IF SchemaHolds THEN Loaded ELSE None
  /\ warned' = IF SchemaHolds THEN DOMAIN entries \ KnownEntries ELSE {}
  /\ UNCHANGED <<configFile, line, section, seenSections, entries>>

LoadConfig(given) ==
  \/ OpenConfig(given) \/ SkipLine \/ OpenSection \/ TakePair \/ RefuseLine
  \/ ApplySchema

StartLoading(file) ==
  /\ configFile = file
  /\ loading = "idle"
  /\ line = 1
  /\ section = ""
  /\ seenSections = {}
  /\ entries = [entry \in {} |-> None]
  /\ warned = {}
  /\ config = None

-----------------------------------------------------------------------------
(* The command line over the file.                                         *)

\* Filters accumulate; any other field that was given replaces the file's.
WithOverrides(loaded, given) ==
  [field \in DOMAIN loaded |->
     IF field \notin DOMAIN given THEN loaded[field]
     ELSE IF field \in FilterFields THEN loaded[field] \cup given[field]
     ELSE given[field]]

NeedsCalendar(settings) == settings.output_time_format \in {"iso", "dom"}

\* Asked of the resolved pair: either source may give either of the two.
LacksYear(settings) == NeedsCalendar(settings) /\ settings.year = None
=============================================================================
