----------------------------- MODULE Vocabulary -----------------------------
(***************************************************************************)
(* The values a user can give to mie-decoder, on the command line          *)
(* (src/rust/src/cli.rs) or in the configuration file                      *)
(* (src/rust/src/config.rs), and what the program reads in them.  Both     *)
(* sources name the same fields of DecoderConfig and share the tables      *)
(* below; where they differ, the module of the source says so.             *)
(*                                                                         *)
(* A value is an atom: a record with the one field "int", "hex" (the text  *)
(* 0x and digits), "float", "bool" or "word", or with those of a signed    *)
(* HH:MM, "hours" among them.  A number that no integer type holds, and    *)
(* any spelling no table knows, are words.                                 *)
(***************************************************************************)
EXTENDS Integers, Sequences, FiniteSets, TLC

CONSTANT None   \* Option::None

ASSUME NoneAssumption == None \notin Int

Number(n) == [int |-> n]
Spelled(w) == [word |-> w]
Is(kind, atom) == kind \in DOMAIN atom

\* The map f with the key bound to the value, as an insert leaves it.
With(f, key, value) ==
  [k \in DOMAIN f \cup {key} |-> IF k = key THEN value ELSE f[k]]

\* The spellings with a meaning, lower case standing for any case.
Spellings ==
  [input_time_format  |-> {"auto", "irig", "standard"},
   output_time_format |-> {"doy", "iso", "dom"},
   delta_scope        |-> {"per-file", "global"},
   error_mode         |-> {"separate", "inline"},
   output_format      |-> {"csv"},
   log_level          |-> {"debug", "info", "warning", "warn", "error",
                           "critical", "off"}]

\* CRITICAL is Off, WARN is WARNING.
LevelOf(word) == CASE word = "warn"     -> "warning"
                   [] word = "critical" -> "off"
                   [] OTHER             -> word

Years == 1 .. 9999
GroupSizes == 1 .. 1048576

\* The numbers each numeric field may have (L2-CFG-010, L1-EXIT-007).
Ranges ==
  [year                   |-> Years,
   detect_records         |-> 1 .. 32,
   lookahead_records      |-> 1 .. 32,
   max_sort_group         |-> GroupSizes,
   max_collapse_survivors |-> GroupSizes,
   collapse_window_us     |-> Nat,
   standard_tick_rate_hz  |-> Nat \ {0},
   mux_field              |-> Int]

\* Message types by name; a type may also be given by its code.
TypeCodes == [mode_command       |-> 1,  bc_to_rt           |-> 2,
              rt_to_bc           |-> 4,  rt_to_rt           |-> 8,
              broadcast_bc_to_rt |-> 16, broadcast_rt_to_rt |-> 24,
              spurious_data      |-> 32]

TypeFields == {"exclude_types", "include_types"}
BusFields == {"exclude_buses", "include_buses"}
AddressFields == {"exclude_rts", "include_rts",
                  "exclude_subaddresses", "include_subaddresses"}
FilterFields == TypeFields \cup BusFields \cup AddressFields

\* parse_type_name: the name, or the code after 0x and never in decimal.
GoodType(atom) == \/ Is("word", atom) /\ atom.word \in DOMAIN TypeCodes
                  \/ Is("hex", atom) /\ atom.hex \in 0 .. 255
GoodBus(atom) == Is("word", atom) /\ atom.word \in {"a", "b"}

\* Z, or a sign and HH:MM, each part within its bound.
GoodOffset(atom) ==
  \/ atom = Spelled("z")
  \/ Is("hours", atom) /\ atom.hours \in 0 .. 23 /\ atom.minutes \in 0 .. 59

\* A delimiter that is spelled as an offset or as 0x and digits: a text of
\* several characters that the names of the model do not hold.
LongText == "0x"

\* What is read from an atom that is good for the field.
Value(field, atom) ==
  CASE field = "utc_offset_minutes" ->
         IF Is("word", atom) THEN 0
         ELSE atom.sign * (atom.hours * 60 + atom.minutes)
    [] field = "log_level" -> LevelOf(atom.word)
    [] field = "mux_delimiter" ->
         IF Is("word", atom) THEN atom.word
         ELSE IF Is("int", atom) THEN ToString(atom.int) ELSE LongText
    [] field \in TypeFields /\ Is("word", atom) -> TypeCodes[atom.word]
    [] /\ field \notin {"utc_offset_minutes", "log_level", "mux_delimiter"}
       /\ field \in TypeFields => ~Is("word", atom) ->
         atom[CHOOSE kind \in DOMAIN atom : TRUE]
=============================================================================
