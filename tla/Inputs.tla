------------------------------- MODULE Inputs -------------------------------
(***************************************************************************)
(* The files of a run: how the inputs are found (resolve_inputs of         *)
(* src/rust/src/cli.rs with read_manifest, glob_match and expand_glob of   *)
(* merge.rs), what their names say (mux_from_filename of decode.rs), and   *)
(* which files the run may write (src/rust/src/writer.rs).                 *)
(*                                                                         *)
(* A path is a directory, "" for none, and a name: a sequence of           *)
(* characters.  The suffixes that the program appends, "_errors" and       *)
(* ".partial", count as one character each.                                *)
(***************************************************************************)
EXTENDS Vocabulary, FiniteSetsExt, SequencesExt

CONSTANT MaxMergeFiles   \* MAX_MERGE_FILES

ASSUME MaxMergeFilesAssumption == MaxMergeFiles \in Nat \ {0}

\* What stands at each path when the run starts: a "recording" with its
\* words, a "text" with its lines, an "empty" or a "locked" file, a
\* "directory", or a "link" to another path.  It does not change; what the
\* run itself publishes is in another variable.
VARIABLE disk

-----------------------------------------------------------------------------
(* Paths.                                                                  *)

\* The order of a byte-wise sort.
Alphabet == <<"\t", "\r", " ", "#", "*", ".", ".partial", "/", "1", "2", "?",
              "_errors", "a", "b", "c", "d", "k", "l", "m", "r", "t", "x">>
Rank(character) == CHOOSE i \in DOMAIN Alphabet : Alphabet[i] = character

NameBefore(a, b) ==
  \E i \in 1 .. Len(b) :
    /\ \A j \in 1 .. i - 1 : j <= Len(a) /\ a[j] = b[j]
    /\ i > Len(a) \/ Rank(a[i]) < Rank(b[i])

Directory(path) == IF path.dir = "" THEN "." ELSE path.dir
Located(path) == [dir |-> Directory(path), name |-> path.name]

DirectoryExists(dir) == dir = "." \/ \E place \in DOMAIN disk : place.dir = dir

\* fs::canonicalize; None if nothing is there, or a link leads nowhere.
Canonical(path) ==
  LET place == Located(path)
      target == IF place \in DOMAIN disk /\ disk[place].kind = "link"
                  THEN Located(disk[place].to) ELSE place
  IN  IF target \in DOMAIN disk THEN target ELSE None

Exists(path) == Canonical(path) # None
KindAt(path) == IF Exists(path) THEN disk[Canonical(path)].kind ELSE "missing"

\* Path::is_file, after following a link.
IsFile(path) == KindAt(path) \in {"recording", "text", "empty", "locked"}

-----------------------------------------------------------------------------
(* read_manifest.                                                          *)

\* What is trimmed from a line, and what str::trim takes besides.
Blanks == {" ", "\t"}
Whitespace == Blanks \cup {"\r"}

Trimmed(line, blanks) ==
  LET kept == {i \in DOMAIN line : line[i] \notin blanks}
  IN  IF kept = {} THEN <<>> ELSE SubSeq(line, Min(kept), Max(kept))

\* One carriage return, on the last line too; any other one is kept.
WithoutReturn(raw) ==
  IF raw # <<>> /\ Last(raw) = "\r" THEN Front(raw) ELSE raw

\* The part of a line before its /, if any, is a directory of one letter.
PathOf(text) ==
  IF Len(text) > 2 /\ text[2] = "/"
    THEN [dir |-> text[1], name |-> SubSeq(text, 3, Len(text))]
    ELSE [dir |-> "", name |-> text]

ReadManifest(lines) ==
  LET texts == [i \in DOMAIN lines |-> Trimmed(WithoutReturn(lines[i]), Blanks)]
      used == SelectSeq(texts, LAMBDA text : text # <<>> /\ Head(text) # "#")
  IN  [i \in DOMAIN used |-> PathOf(used[i])]

-----------------------------------------------------------------------------
(* glob_match and expand_glob.                                             *)

\* The matcher backtracks to the last * only, giving it one more character.
\* A character of the name that is itself a * is first taken literally.
GlobMatch(pattern, name) ==
  LET match[p \in Nat, t \in Nat, star \in Nat, mark \in Nat] ==
        CASE t > Len(name) -> \A i \in p .. Len(pattern) : pattern[i] = "*"
          [] t <= Len(name) ->
               IF p <= Len(pattern) /\ pattern[p] \in {"?", name[t]}
                 THEN match[p + 1, t + 1, star, mark]
               ELSE IF p <= Len(pattern) /\ pattern[p] = "*"
                 THEN match[p + 1, t, p, t]
               ELSE star # 0 /\ match[star + 1, mark + 1, star, mark + 1]
  IN  match[1, 1, 0, 0]

\* The pattern's directory itself has no wildcard; "" reads as "./".
ExpandGlob(pattern) ==
  LET there == {place.name : place \in {q \in DOMAIN disk : q.dir = Directory(pattern)}}
      matching == {name \in there :
                     /\ GlobMatch(pattern.name, name)
                     /\ IsFile([dir |-> Directory(pattern), name |-> name])}
      sorted == SetToSortSeq(matching, NameBefore)
  IN  [i \in DOMAIN sorted |-> [dir |-> Directory(pattern), name |-> sorted[i]]]

-----------------------------------------------------------------------------
(* resolve_inputs: what a decode is given, by its only input method.       *)

\* The manifest cannot be read as text, or the directory not at all.
Unresolvable(given) ==
  \/ /\ "manifest" \in DOMAIN given
     /\ KindAt(given["manifest"]) \notin {"text", "empty"}
  \/ /\ "glob" \in DOMAIN given
     /\ ~DirectoryExists(Directory(given["glob"]))

ResolvedInputs(given, positional) ==
  IF "manifest" \in DOMAIN given
    THEN IF KindAt(given["manifest"]) = "empty" THEN <<>>
         ELSE ReadManifest(disk[Canonical(given["manifest"])].lines)
  ELSE IF "glob" \in DOMAIN given THEN ExpandGlob(given["glob"])
  ELSE positional

WrongNumber(inputs) == Len(inputs) \notin 1 .. MaxMergeFiles

-----------------------------------------------------------------------------
(* mux_from_filename.                                                      *)

Split(name, delimiter) ==
  FoldLeft(LAMBDA parts, c :
             IF c = delimiter THEN Append(parts, <<>>)
             ELSE [parts EXCEPT ![Len(parts)] = Append(@, c)],
           << <<>> >>, name)

\* The field counts from 0, or from the end if it is negative.
MuxOf(name, delimiter, field) ==
  LET parts == Split(name, delimiter)
      index == 1 + IF field < 0 THEN Len(parts) + field ELSE field
      value == IF index \in DOMAIN parts THEN Trimmed(parts[index], Whitespace) ELSE <<>>
  IN  IF value = <<>> THEN None ELSE value

-----------------------------------------------------------------------------
(* The paths a run may commit.                                             *)

\* file_stem and extension: a dot that begins the name begins no extension.
LastDot(name) == Max({0} \cup {i \in 2 .. Len(name) : name[i] = "."})

ErrorPathFor(output) ==
  LET dot == LastDot(output.name)
      stem == IF dot = 0 THEN output.name ELSE SubSeq(output.name, 1, dot - 1)
      extension == IF dot \in {0, Len(output.name)} THEN <<>>
                   ELSE SubSeq(output.name, dot, Len(output.name))
  IN  [output EXCEPT !.name = Append(stem, "_errors") \o extension]

PartialPathFor(output) == [output EXCEPT !.name = Append(@, ".partial")]

\* Mutant of CommitTargets: only the path the operator named.
CommitTargetsNamed(output, splitErrors, allowPartial) == {output}

CommitTargets(output, splitErrors, allowPartial) ==
  LET final == {output} \cup (IF splitErrors THEN {ErrorPathFor(output)} ELSE {})
  IN  final \cup (IF allowPartial THEN {PartialPathFor(target) : target \in final}
                                  ELSE {})

\* check_output_collision, against the inputs of a merge.
CollidesWithMerge(target, input) ==
  IF Exists(target) /\ Exists(input)
    THEN Canonical(target) = Canonical(input)
    ELSE target = input

\* paths_refer_to_same_file: a target that is not there yet is looked for
\* in its directory.
RefersToSameFile(input, target) ==
  /\ Exists(input)
  /\ IF Exists(target) THEN Canonical(target) = Canonical(input)
     ELSE DirectoryExists(Directory(target)) /\ Located(target) = Canonical(input)
=============================================================================
