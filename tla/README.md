# A TLA+ model of mie-decoder

`mie-decoder` turns DDC MIE recordings of a MIL-STD-1553 bus into CSV. It exists
three times, in Rust, Python and C++, against one set of requirements
(`docs/L1-REQ.md`, `docs/L2-REQ.md`); the modules here follow the Rust crate
(`rust/src`), the reference the other two mirror stage by stage.

    argv --> run() --> configuration --> inputs
                                            |
    recording --> RecordIter --\            v
    recording --> RecordIter ---+--> MergedRecordIter --> Filtered --> Ordered --> CSV writer --> exit code
    recording --> RecordIter --/      (several inputs)                                |
                                                                             output directory

A run of the program is one thread that pulls records through a chain of
iterators. The only state it shares is the output directory, with other runs
and other programs. So the difficulty is of two kinds: a sequence of records
and errors that no test wrote down, through stages that buffer and look ahead;
and interleavings, failures and kills among the calls on the directory.

The modules look at the program twice. Four of them take one component each and
give it an environment as hostile as it can meet: every fault of the directory
(OutputCommit), every stream of records (RowOrder, Merge), every recording
(Reader). `Program` composes them all, with the argument parser, the
configuration and the decoder of single words that they leave abstract, into
one whole run, from `argv` to the exit code, over real 16-bit words.

## Inventory

| Component | State | Operations | Talks to | What makes it correct |
|---|---|---|---|---|
| record reader (`reader.rs`) | offset, resolved format, continuation flag, loss counter, deferred error | `iter`, `next`: find the first record, decode one, lose and recover sync, end | pulled by merge or filter; its loss counter is read by the CLI | rows are disjoint and in file order, no valid record reached is lost, every loss is counted, strict mode leaves nothing out, the walk ends |
| validation and scans (`sync.rs`, `decode.rs`) | none | six checks, look-ahead, three scans, homogeneity, timestamp probe | called by the reader | a scan never resumes inside a row |
| merge (`merge.rs`) | heap of one record per input, last time per input, two deferred errors, survivors of the collapsing window | prime, pop and advance, collapse | pulls the readers, is pulled by the filter | chronological order, no record lost, collapsing of witnessed copies only, failures visible |
| DELTA (`delta.rs`) | last time per RT/MSG key | `observe` | one tracker per reader, one for the merge | the gap to the last row of the key in the chosen scope |
| filters (`filter.rs`) | two counters | `should_exclude` | between merge and order | exactly the listed records go; errors of the stream pass |
| row order (`order.rs`) | current run, emission queue, deferred error | `accept`, `flush`, `flush_capped`, `next` | pulled by the writer | canonical order, bounded buffer, all rows before the error |
| CSV writer (`writer.rs`) | temp files, row counts, partial flag | pre-flight, create, stream, flush, commit, drop | the output directory | whole files only, honest outcome, no clobbering, no litter |
| command line (`cli.rs`) | cursor over the arguments, values given so far | `parse_global_flags`, `parse_decode`, `parse_count`, `parse_dump` | gives the settings their overrides | every token is a flag, a value or a path; none is swallowed; a help flag outranks a diagnostic |
| configuration (`config.rs`) | current line and section, entries, warnings | `parse`, `load_config`, `merge_overrides` | read by all stages | a bad line or value refuses the file; the last flag beats the file beats the default; filters join |
| inputs (`cli.rs`, `merge.rs`) | none | manifest, glob, limits, collision guards | names the readers and the commit targets | each named file is read once per naming, in order; no output takes the place of an input |
| words and formats (`models.rs`, `decode.rs`) | none | bit fields, message formats, payload split, timestamps | called by the reader and the writer | a row shows what the card recorded |
| dump (`dump.rs`) | offset, records shown | `dump_raw`, `dump_records` | reads the file itself | exactly the bytes asked for, annotated with what they are |
| run (`cli.rs`) | outcome so far | `run_decode`, `run_count`, `run_dump`, `classify_decode_exit` | all of the above | the exit code and class tell what happened |
| log (`log.rs`), errors (`error.rs`) | level and advisory switch; none | set once, then read | all | modelled as the two settings and as the kinds of error that change the outcome |
| Python and C++ ports | | | | not modelled |

What is hard here, with the line where it bites and the properties that answer
it, is the `hazards` list of `PROJECT.json`.

## Modules

### OutputCommit: publishing the output

Several runs share a directory. `dest` maps each commit target (destination or
`_errors` file, either with `.partial`) to a file, `tmp` each temp name; a file
is absent, foreign, an empty reservation, or the CSV of one run's part with the
rows that have reached the disk. `pc[r]` is where run `r` stands in the writer;
`which`, `attempt`, `temp`, `rows`, `lost` are the writer's locals and fields.
`published` and `faults` are history: what a run has committed, and how many of
its `remove_file` calls failed.

One action is one call on the directory (or one decision before the first):

| Actions | Code |
|---|---|
| `RefuseCollision`, `PassCollision`, `PreflightTaken`, `PreflightFree` | `preflight_output`, and `check_output_collision` of `cli.rs` for a merge |
| `CreateTemp`, `RetryTemp`, `CreateFails` | `create_exclusive_temp`, for the main file and, at the first errored row, for the errors file |
| `WriteRow`, `FirstErrorRow`, `StreamEnds`, `PartialSyncLoss`, `StreamFails` | the loops of `write_csv` and `write_csv_split` |
| `Flush`, `FlushFails` | `CsvWriter::finish`, errors file first |
| `RenameOver`, `RenameFails` | `commit_onto`, `CommitMode::Replace` |
| `HardLink`, `LinkRefused`, `LinkUnavailable` | `commit_no_replace` |
| `Reserve` ... `UnreserveFails` | `reserve_then_rename` |
| `UnlinkTemp`, `UnlinkFails`, `RedropFails`, `Drop`, `DropFails`, `ReturnErr` | the unlink after a link, and `Drop` |
| `Crash`, `ForeignCreate` | a kill; another program |

A buffered writer may have written any prefix of its rows: `WriteRow` chooses.
The contents of a row are not modelled, only their number.

`AtomicPublish` is the abstract specification: outputs appear whole, in one
step, the main one first. `OutputRefinement` maps `OutputCommit` onto it: temp
files are forgotten, an empty reservation reads as a free name, and a file that
is not the complete output of its run is "torn", which no abstract state has.

### Reader: the walk over a recording

A recording is a sequence of words, and each word is described by what it
would be as the first word of a record, since a scan may take any word for a
Type Word: the terminator, an unknown type, a clean, errored or spurious
record, with its declared length and with what a record there would break (an
IRIG field range, a structural invariant, the set of known error codes).
`Valid` is the six checks of `validate_record_detailed_impl` in its two
variants, `FirstRecords`, `TruncatedRecords` and `Resumptions` are the three
scans, and an action is one turn of the loop in `RecordIter::next`. `seen`
records what the walk yielded or skipped.

Abstractions: the fate of a record is a field of its first word, where the code
reads the overlapping words behind it, so the model has more recordings than
there are; the scores of the timestamp probe are left open, so that any format
may be resolved under `auto`, and a strict reader may reject any file for it;
an odd trailing byte is left out.

### Merge: several recordings

The readers are the environment: each pull yields a record of any time and
content, the end, or one error of the kinds its mode allows. Priming takes one
input per action; after it, one action is one turn of the loop of
`Iterator::next`: `PopThenRecord` and `PopThenStop` pop the top, suppress or
emit it, and advance its input. `pulled`, `broken`, `emitted`, `collapsed` are
history. `lastUs[0]` is the merge's DELTA tracker, `lastUs[i]` that of reader
`i`. An `Option` is a set of at most one value. The content of a message stands for
everything `DedupKey` compares; the collapsing window is the set of its survivors,
each with the place of its row, where the code keeps one queue, oldest first; a content in `DeltaKeys` has an RT/MSG key of
its own, one outside (a spurious record) has none.

### RowOrder: canonical order

`buf`, `out`, `pending`, `done` are the fields of `Ordered`; one action is one
branch of `next`. A key is a number that stands for (RT, subaddress, R before
T), 0 for no Command Word. `SortRun` is `sort_run`: `ChunkOf` gives the chunk of a
place, `ChunkBefore` is what the stable sort of the chunks compares, and each
record comes out at its rank, the number of the records `Ahead` of it. The queue is
popped from its end, as in the code, so a flush puts a run on it reversed; `next`
pulls only when the queue is empty, and at a cap of 1 the buffer is empty whenever a
record arrives, so no two flushes ever share the queue. The properties do not use
`SortRun`: `Precedes` derives the order of two rows from the arrivals alone.

### Program: a whole run

`Program` is `run()`. Its variable `stage` says where the run has got to, and
each action is one step of the code between two points where the outcome may
change: a token read, a configuration line read, the inputs found, opened and
checked, the stream started, one pull, one row written, one file committed.
The variables of the parts are its own, by EXTENDS.

| Module | What it holds | Code |
|---|---|---|
| Vocabulary | the values a user can give, and the tables both sources of settings share | `cli.rs`, `config.rs` |
| CommandLine | one action per kind of token, over the cursor `at`; help and version; `--` | `parse_global_flags`, `parse_decode`, `parse_count`, `parse_dump` |
| Settings | `LoadConfig`: the file line by line, then the schema; `WithOverrides` | `config.rs` |
| Inputs | paths with links and directories, `glob_match` character by character, manifest lines, the MUX field of a name, the commit targets and when one collides with an input | `merge.rs`, `cli.rs`, `decode.rs`, `writer.rs` |
| Fields | Type, Command and Status Words, the message formats, their invariants, the payload split, the timestamp probe, the calendar | `models.rs`, `decode.rs`, `sync.rs`, `reader.rs` |
| Dump | the range of a raw dump, the annotation of a record, the guards of the scan | `dump.rs` |
| Pipeline | readers, filters, merge, canonical order, as one pull | `reader.rs`, `filter.rs`, `merge.rs`, `order.rs` |
| Program | `run`, `run_decode`, `run_count`, `run_dump`, writing, committing, the exit class | `cli.rs`, `writer.rs` |
| Claims | the properties | |
| MCProgram | what the runs are given | |

`Pipeline` does not repeat the walk of `Reader` or the ordering of `RowOrder`: it
takes their operators and actions by INSTANCE. `Walk(reader)` is Reader over
the words of that reader's file, each described (`Described` of Fields) by what
its bits make of it, so what is a free choice in Reader is computed here. A
reader is a record, since a merge has several.

Given to a run are its arguments, the configuration file, the disk and the
state of stdout, all at the start; a run is then deterministic but for one
choice, where a failing stdout is noticed. A token is split into what
`Arg::split` and the tests on the raw text see in it; a file's line is its form,
its literal and its flaw; a path is a directory and a sequence of characters.

A value keeps the radix it is spelled in, since the two sources read it
differently. A number after `0x` is a message type, an address or a size on the
command line, and a message type where it is a string of the file. A number in
decimal is an address or a size on the command line, where it is no message type
(`parse_type_name`); in the file it is a message type too (`parse_type_value`).

### Claims: a second reading

The properties of Program must not repeat its operators. `Claims` derives what
a run owes from what it was given. The settings come from the positions of the
flags in `argv` and of the pairs in the file, with no cursor and no section
variable. The rows come from the parts each recording was put together from
(a record as it was sent, a broken one, noise that a scan can pass, a wreck that
none can, the end), with no offset and no scan: `MCProgram` encodes the parts
into words and `Program` sees the words alone.

## Runs

| Run | What it shows | Bounds |
|---|---|---|
| `OutputCommitLink` | all guarantees where hard links work | two runs over one destination, in every pairing of four option sets; one foreign file, one stale temp per attempt, one row per run, two attempts, two failed unlinks per run (both that an unlink after a link may meet) |
| `OutputCommitFallback` | the guarantees of the reservation path, and that runs end | two `--no-clobber` runs, links may fail; no foreign file, one failed unlink per run, otherwise the same |
| `RowOrder` | order, bound, and rows before the result | all streams of up to 5 records over 2 timestamps, 2 keys and keyless records; caps 0, 2, 3, 9 |
| `Merge` | order, conservation, collapsing, failures, DELTA | 2 inputs, 4 records between them, 3 times, a keyed and a keyless content, 5 option sets |
| `Reader` | the walk, in both modes and every format | all recordings of up to 3 segments (9 words) out of 16: records of every kind and fate, lone words, records that may be truncated |
| `Program` | what a run reads, decodes, writes and reports is what it was given | 13 508 scenarios in 23 families, below; merges of up to 3 files, a scan window of 20 words, 12 rows |
| `OutputCommitMixedFallback`, `RowOrderContinuation`, `MergeStrictPriming`, `MergeRepeats`, `ReaderStrictTail`, `ReaderTruncatedTail` | the findings below | as above, or smaller |

Why these bounds are enough to be interesting. Two runs and two parts give every
interleaving of two commits at one name, and a run interrupted between its two
files. One row separates a flushed file from an unflushed one. Two attempts
exhaust the retries. Five records with a cap of 2 or 3 give a run that overflows,
starts again and falls short. Four records of two inputs give a backward clock
on one input while the other waits, a copy, a copy of a copy, and an error
behind both. A recording of three segments with a scan window of four words
gives corruption before, between and behind records, scans that fail inside
the file and at its end, and a truncated record with a plausible word inside.
The constants scale the code's down: minimal records of 3 and 2 words (5 and
4), a window of 4 words (64 KB), 3 sampled records (4); nothing in the code
depends on their values but on their order.

`Program` runs these families, each crossed with the options that matter to it.
Together they end in every exit code (0 to 6, and the 101 of a panic) and in every class.

| Families | What varies |
|---|---|
| `DecodeLines`, `CountLines`, `DumpLines`, `GlobalLines` | all lines of up to 3 tokens after a subcommand (2 before one): flags with and without a value, joined values, numbers, `--`, help, unknown flags |
| `Valued`, `Structured`, `Overridden` | every key with every kind of literal; files of up to 3 lines with repeats, malformed lines, retired keys, unknown sections; a file under flags |
| `Walks` | all recordings of up to 3 parts: four kinds of record, broken ones, noise, wrecks, an early end |
| `Pairs_`, `Absent`, `Triples` | merges of 2 and 3 inputs: interleaved, backward, gapped, wrecked, empty, of the wrong clock, unlocked, unreadable, absent, named twice, too many |
| `Overwrites`, `Standing`, `Elsewhere` | the output, or a name derived from it, is an input, a link to one, another file, a directory, a dangling link, in a directory that does not exist |
| `Formats_`, `Dates`, `Clocks`, `Muxes` | every message format under the filters; the days at the ends of months in leap and common years; both clocks, detected and forced; fields of a name counted from either end |
| `Manifests`, `Patterns` | two-line manifests with blanks, comments, CR and CRLF; all patterns of up to 3 of `a b * ?` |
| `Dumps`, `Sinks`, `Capped` | ranges and counts at and past the end; a closed or full stdout; a row order capped at 1 or 2 |

The bounds: `MaxMergeFiles` 3 stands for 256, `ScanWindow` 20 words for 64 KB and
`Sample` is the code's 4. A record of these families has at most 38 words, most
have 7; a wreck is a window of words that no scan can take for a record.

Deadlock is checked for `Program`, where a run that has exited may stutter and
every other must have a step: no state of it is forgotten by the actions. It is
not checked for the other runs: each of these components stops.

Fairness. `FairSpec` of OutputCommit asks weak fairness of each run's own steps:
a process that is not killed goes on. Kills and foreign programs have none.
`FairSpec` of Reader asks that the consumer keep pulling, as the writer's loop
does until an error. No other fairness is assumed. The specification of Program
states none: every action but the stutter after the exit consumes a token, a
line, a record, a row or a stage, so that the absence of deadlock says that a
run ends.

## Properties

Each property is stated in words above its definition, with the requirement it
answers. For OutputCommit: `WholeAtTargets`, `OutcomeHonest`, `TempsReclaimed`,
`NoClobber`, `InputUntouched`, `NoMixedPair`, `ReservationsAccounted`,
`Terminates`, and `PublishesAtomically`, the refinement. For Reader:
`RowsDisjoint`, `NoValidRecordLost`, `ContinuationHonest`, `LossesCounted`,
`StrictSurfaces`, `CleanEndNearEof`, `Terminates`. For Merge: `MergedInOrder`,
`NoRowLost`, `CollapsedIffWitnessed`, `SurvivorsBounded`, `FailureNeverSilent`,
`DeltaInScope`. For RowOrder: `BufferBounded`, `CanonicalOrder`,
`RowsBeforeResult`, `KeyOrderKept`, `PinsTravel`. Each of these four modules has
one `TypeOK`. For Program:

- `HelpIsAnswered`: a help flag is answered wherever it stands before `--`, also
  behind a mistake, unless that is a flag without its value, after which nothing
  is interpreted, or the version was asked for first.
- `NoTokenSwallowed`: of a line that is accepted, every token is a flag, the
  value of one, or a path, and each is kept.
- `SettingsHonoured`: a file is refused exactly when a line or a value in it is
  bad; otherwise each setting is that of the last flag, of the file or of the defaults.
- `RowsExact`: each row is one record of an input, shown as it was sent, in the
  right file and under the right label; after a success none that the filters
  let through is missing, and none that was pulled (`RowsKept`); a merge is in
  time order.
- `ExitHonest`: the exit code and class are those the inputs deserve, and what
  is published is exactly what was written.
- `InputsSurvive`: no file committed takes the place of an input, nor under
  `--no-clobber` of any file.
- `DumpHonest`: a raw dump shows exactly the bytes that were asked for and exist; a
  dump of records is a chain of whole records from the offset asked for, none past
  the end, says of each what was recorded, and stops early only with a note.

`RowsExact` is broken, among others, by a glob that matches greedily, a manifest
line cut at its first blank, a negative MUX field that is ignored, an input that
ends at a skipped record, a word count of 0 taken for none, and an input of a merge
that loses sync in silence.

Beside some definitions stands a mutant: the definition with a mistake its code
could well contain (a dropped guard, a swapped order, a missing reset).
Replacing the definition by its mutant makes TLC report the property that
`PROJECT.json` pairs it with.

## Proofs

### OutputCommitProofs

Proved for every set of runs, every set of options, every bound and every
outcome of the calls:

- `TypeCorrect`: `Spec => []TypeOK`
- `TargetsAreWhole`: `Spec => []WholeAtTargets`
- `OutcomesAreHonest`: `Spec => []OutcomeHonest`
- `NothingClobbered`: `~LinkMayFail /\ Spec => NoClobber`

They assume `ConstantsAssumption` of OutputCommit and nothing else. None of the
four is inductive. That a published file is whole needs that the temp was
flushed before the commit and that the temp under the run's name is its own;
that the outcome is honest needs to know at each place of the writer which
temps are open and what has been published. `IInv` says so: `RunInv`, for each
run, by the place where it stands (`StartingInv` before the first temp,
`FillingInv` to the last flush, `MainMoveInv` and `ErrsMoveInv` while a file is
moved, `EndingInv`), and `TempInv`, for each temp a run holds open.
`Invariance` is `Spec => []IInv`, from `InitIInv` and `NextIInv`; the step is
split by action and, in it, by conjunct (`StepTypeOK`, `StepRunInv`,
`StepTempInv`, `StepWhole`), and `StepFrame` says that a step of one run leaves
the private state of the others alone. `NothingClobbered` adds the invariant
`LinkPath`, that no run ever stands on the reservation path, and is an action
property proved from the conjunction. Without `~LinkMayFail` it is false, as
the run `OutputCommitMixedFallback` shows.

The module goes on with what a run leaves in the directory, and proves that the
commit implements `AtomicPublish`, from the same assumption:

- `TempsAreReclaimed`, `ReservationsAreAccounted`, `PairsAreNotMixed`:
  `Spec => []P` for `TempsReclaimed`, `ReservationsAccounted`, `NoMixedPair`
- `InputsAreUntouched`: `Spec => InputUntouched`
- `CooperativeRunsClobberNothing`: `Cooperative /\ Spec => NoClobber`
- `PublicationIsAtomic`: `Cooperative /\ Spec => PublishesAtomically`

`IInv` speaks of the temps a run holds open; what it may have left behind, and
what it stands on under a target, needs `DirInv` on top of it: `ReclaimInv` (each
temp of a run is one it holds, or `remove_file` has failed often enough for it to
leak), `ClearInv` (a run past the preflight has no input among the names it could
commit), and, while all runs refuse to replace a file, `ReservationStands` and
`PublishedStands` (what a run has reserved and published is still there).

`Cooperative` says that hard links work, or that every option set is a
`--no-clobber` one. It is the border of what the code guarantees and not a
convenience: the run `OutputCommitMixedFallback` lies on the other side of it
and finds `NoClobber` violated (the first finding). `NothingClobbered` is the half of
it that needs no `DirInv`.

The refinement has one lemma per kind of step: `PublishRefines` (a rename or a link
is the abstract `Publish`), `VerdictStep` (a run that ends, or is killed, says so once),
`PrivateRefines` (all else is a stutter: temps and reservations are invisible).
`ReservationsStand` is what makes the reservation path atomic for a reader: the
name its rename replaces is still the empty file it made.

### MergeProofs

Every property of Merge the run checks, for every number of inputs, all times,
contents and option sets, and streams of any length, from `ConstantsAssumption`
of Merge:

- `TypeCorrect`, `NoRecordIsLost`, `MergeFailureNeverSilent`: `Spec => []P` for
  `TypeOK`, `NoRowLost`, `FailureNeverSilent`
- `RowsAreMergedInOrder`, `CollapsingIsExact`, `SurvivorsAreBounded`, `DeltaIsInScope`:
  `Spec => []P` for `MergedInOrder`, `CollapsedIffWitnessed`,
  `SurvivorsBounded`, `DeltaInScope`

`FlowInv` follows each record: what an input has yielded is numbered (`PulledInv`),
the heap holds at most one record per input and it is the last one yielded
(`HeapInv`), rows and suppressed records were yielded (`KnownInv`), each once
(`OnceInv`), and none is forgotten (`SettledInv`). On it stand four invariants that
do not need each other. `VerdictInv`: a merge with nothing deferred has no
broken input. `OrderInv`: on chronological inputs all that waits in the heap comes
behind the rows. `CollapseInv`: survivors are rows, they are few
(`SurvivorsFew`), and a row that is no survivor any more is out of reach
of all records to come (`SurvivorsEnough`), which is what makes eviction lossless.
`DeltaInv`: each tracker holds the time of the last row of a key that it has seen.
Steps are grouped by what they move: `PrimeRecord`, `PopThenRecord`,
`PopThenStop`, and `QuietStep` for those that move no record.

### RowOrderProofs

Every property of RowOrder, for streams of any length, all timestamps and
keys and any cap, from `ConstantsAssumption` of RowOrder:

- `TypeCorrect`, `BufferStaysBounded`, `RowsAreCanonical`, `ResultIsLast`,
  `KeysStayInOrder`, `PinnedRowsTravel`: `Spec => []P` for `TypeOK`, `BufferBounded`,
  `CanonicalOrder`, `RowsBeforeResult`, `KeyOrderKept`, `PinsTravel`

The argument has three parts. Runs and blocks of the arrivals: each record is in
one run and one block (`RunExists`, `RunUnique`, `BlockPlace`), the next record is in
the same block or starts one (`NextBlock`), and what comes later changes neither
(`RunFixed`, `BlockFixed`) nor, once the block is closed, whether it is full
(`FullFixed`). The sort: `PlaceOrder` says that `sort_run` compares the keys of
the anchors, then the arrival; `SortFacts`, that its result holds each record of the
run once, at its rank, with a pin right behind the record it follows
(`PinIsNext`). The adapter: `OrdInv` says that the rows handed on and queued,
`Rows`, are the first records that came, in canonical order, all of closed
blocks, and that the buffer is the next block. A pull that ends a run sends the
block out sorted (`NewRunOrder`), one that fills it sends it out as it is
(`FullRunOrder`), any other lets it grow (`SameRunOrder`); the end and the error are
`LastFlushOrder`. `RowOrder`'s properties derive the order from the arrivals
alone, so that the theorem is about `sort_run` and not about itself.

`SequenceLemmas` holds the facts both components need: what `Append`, `\o`,
`Reverse` and `Front` return, the last of some places (`LastPlace`, by the
well-foundedness of finite sets, where the code has a loop), the blocks of `\div`, and
`Ranking`: in a strict total order of n places the number of places ahead of one
ranks them, so that a sort is a permutation.

### ReaderProofs

Every safety property of Reader, for every recording, every set of options and
every scan window, sample size and minimal lengths that `ConstantsAssumption`
of Reader allows:

- `TypeCorrect`, `RowsAreDisjoint`, `ValidRecordsAreKept`,
  `ContinuationsAreHonest`, `LossesAreCounted`, `StrictModeSurfaces`,
  `CleanEnds`: `Spec => []P` for `TypeOK`, `RowsDisjoint`,
  `NoValidRecordLost`, `ContinuationHonest`, `LossesCounted`, `StrictSurfaces`
  and `CleanEndNearEof`

The assumption that a minimal record fits in the scan window (10 bytes against
64 KB) is what `CleanEnds` needs: an end with no room for a record is then near
the end of the file. `ReaderInv` adds to the properties what they need to be
inductive: `EntriesStand` and `InOrder`, that the entries are records in order
that end before the offset; `NotBehind`, that the walk is never before the
first record; `FlagHonest`, what the continuation flag stands for; and
`Standing`, that a walk which does not stand where the last record ends stands
on a valid one, so that two losses are never counted for one place and no
record reached is given up. The step has one lemma per shape: `PassStep` (the
walk passes a record), `RecoverStep` (it resumes further on), `EndStep` and
`OpenStep`. Of the scans only this is used: the walk resumes past its offset,
on a valid record, in the file (`Resumption`, from `MinIsLeast`). What the
recursive look-ahead computes is never unfolded: at depth 1, the walk's own
depth, it asks nothing (`DepthOne`).

### ProgramProofs

Four properties of whole runs, for every command line, configuration file and
set of files the assumptions of Program allow:

- `HelpIsGiven`, `NothingSwallowed`, `SettingsAreHonoured`, `InputsAreSafe`:
  `Spec => []P` for `HelpIsAnswered`, `NoTokenSwallowed`, `SettingsHonoured`,
  `InputsSurvive`

`ArgumentsAssumption` says that the arguments are a list, that a token's text is a
list whose integers are integers and whose paths are a directory and a list of
characters (`WellFormed`), and that the marks of a token go with its spelling
(`WellMarked`): the names of flags start with a dash, those
of the subcommands do not, and a flag without a joined value looks like an option.
TLC evaluates it on every line of MCProgram. `ConfigFilesAssumption` says that the
lines of a configuration file are a list. `LinksAssumption` is a bound of the
model and not of the code: `Canonical` follows one link, so no link may lead to
another.

Help. `ReadInv`: while the line is read, the cursor has not passed a help flag
that is owed an answer, and afterwards it has been answered. The step is
`ReadTokenHelps`: a flag before the help finds its value before it too
(`ValueBeforeHelp`, since a help flag looks like an option and is never taken for
a value), and a diagnostic deferred before the help gives way to it
(`HelpOutranks`).

The line. `NoTokenSwallowed` reads an accepted line by positions, the code reads
it by a cursor; `LineInv` says that they agree on what the cursor has passed. Until
the subcommand is found, no place passed could stand for it (`GlobalsInv`), so
that the token read as the subcommand is the first that can (`CommandIsFound`,
with `LeastPlace`, by the well-foundedness of the naturals). Behind it
(`CommandInv`) the cursor is never on the value of a flag and has not passed the
separator unseen; each flag passed gives its field its value (`ArgsTake`) and each
path passed is the next one (`PathsTake`). There is a lemma for each action of the
command's parser: `OptionsEnd`, `PathIsTaken`, `SwitchIsSet`, `ValueIsTaken`,
`LineEnds`. They rest on `AfterValue`, that a value taken from the next token is
no separator and no flag: without the test in `next_value` the proof fails there.

The settings. `SettingsHonoured` reads the file as a whole and the flags by their
positions; the code reads both in order, and keeps only a section, the names
declared and the entries so far. Three invariants carry the proof. `LoadInv`: the
entries are exactly the pairs read so far, each at the place its last header gives
it, and none of the lines read is bad (`LinesRead`; one lemma per kind of line).
At the end of the file it follows that the schema refuses the entries exactly when
some pair is bad (`SchemaIsComplete`) and that a field is loaded from the one line
that sets it (`LoadedIsWanted`), which needs that no two keys of the schema set the
same field (`SchemaHomes`) and that no key occurs twice. `GivenInv`: the values of
the global flags are those of the last such flag the cursor has passed, and
`count` has no flag of its own. `SettledInv`: from stage to stage, what has been
resolved from the two is what was asked for, through `ResolveConfig`
(`ResolvedAsWanted`), `FindInputs` (`DecodeSettled`, over the line's invariant) and
`ChooseCounted` (`CountSettled`), and stays so to the end. Both `LoadInv` and
`SettledInv` were checked on the instance of Program.cfg before they were proved.

The inputs. `PublishInv`: nothing is committed before the stream, and once it
runs no name the run may commit, main, errors or partial, is that of an input.
Both checks establish it, the one of a merge and the one of the writer
(`ChecksClear`); nothing that the run changes afterwards can undo it, and the
names it commits are among those checked (`CommittedAreTargets`).

### DumpProofs

- `DumpsAreHonest`: `Spec => []DumpHonest`, for every command line, every recording
  and any state of stdout

A dump of records is a loop, one action per turn (`DumpRecord`), so that the number
of records it shows is an induction over steps and not over data. The scan knows
words alone; that it tells what was recorded needs the recording to hold what the
parts say. `RecordingsAssumption` states that: a recording is a list of 16-bit words,
and where a part says that the card wrote an IRIG record, the Type Word, the three
words of the time, the Command Word (every type but spurious data has one) and the
error code of that record stand there (`Holds`). TLC evaluates it on every recording of MCProgram, where the parts are
encoded into words.

`DumpInv` holds the property and what makes it inductive: the disk is one that was given
(`RecordingsInv`), the offset, the length and the limit are numbers (`SizesInv`, which
follows the parser: a value taken for `offset` is a `GoodSize`, from `WellFormed`
tokens), a dump that is not under way has shown nothing, and one under way has no note
(`ShowingInv`). `ReadsWord` is the arithmetic: a 16-bit
word read from an even byte offset is the word that stands there, so that the
annotation of a record that starts at a part is the annotation of that part
(`WholeIsTold`, `SentIsTold`). There is a lemma per step: `RawIsHonest` (the three
clamps of a raw dump meet exactly the bytes asked for), `RecordIsHonest`,
`DoneIsHonest` (the loop's guard is false only at the end or at the limit) and
`DumpReads` (what the scan reads is in the file).

### RunProofs

- `PublishingIsHonest`: `Spec => []PublishedHonest`: `FilesHonest`, the part of
  `ExitHonest` about what is published, for every decode
- `RowsAreHonest`: `Spec => []RowsHonest`, the part of `RowsExact` about what becomes of
  the messages the readers yield, for every decode
- `RowsAreFaithful`: `Spec => []RowsFaithful`, the part of `RowsExact` about what the
  rows say of the words they come from, for every decode

A decode that succeeds leaves the main CSV, and the errors CSV if it has rows, under
the names it owes them to, and one that fails leaves nothing, or the main CSV
alone where the second commit failed. `FilesInv` says from stage to stage what has been
published so far. Every step either ends the run without a change to it (`Ends`), goes
on before the first commit (`GoesOn`), reads the line, or commits (`FilesSteps`). That
two commits leave two files needs that their names differ, whatever the
output is called (`NamesDiffer`): `error_path_for` puts `_errors` before the last dot of
the name, so that the two differ in length, or, when the name ends with its only dot,
in their last character; and so do the names with `.partial` behind them.

The rows. `RowsHonest` says that no two rows name the same place of the same input
(`RowsOnce`), that each is in the file of its kind (`RowsPlaced`) and the row of a
message that was pulled, and that after a success every message pulled has its row
(`RowsKept`); and, if the stream met no error, that it ended because no reader and no
merge had anything left. Between a recording and a row stand a reader that skips and
resynchronises, a heap that holds one message per input, a filter, a buffer that is
sorted, cut at its cap and flushed, and two files. `RowsInv` says of all of them where
each message is, `StreamInv` while the stream runs:

- `ReadersOk`: each reader stands somewhere in its recording, and what the heap holds
  for an input came from that input, from before the place its reader has reached;
- `ArrivedOk`: the messages pulled so far are numbered in the order they came, and
  those of one input have increasing offsets, all below `DueAt`, the place from which
  that input still owes one: the message in the heap, or else the reader;
- `Placed`: each of them is in exactly one of three places, written, waiting to be
  written, or in the buffer, and a file has the rows of its kind, each once;
- `AllOver`: a stream that has ended has left nothing.

The reader's part is `NextItemLeads`: whatever `NextItem` returns, the reader has not
gone back, and a message lies where the reader was or after it, and before where it is
now. That is an induction over the turns of its loop, which a recursive function
computes; it needs only what a turn preserves (`TurnLeads`) and not how many there are,
so that the induction of the naturals over a fixed predicate does it. That a
loop of skipped records always ends with an item (`~Repeats`) is in it: each turn that
yields nothing takes the reader further, and it has at most as many turns as words.
`MergePulled` carries it to the merge: the message that leaves the heap is the oldest,
its reader fills the gap, and `DueAt` of no input goes back (`LeadsOn`), which is why
messages of one input cannot come twice or out of order. A flush turns a run round or
sorts it, and a sort loses nothing and doubles nothing (`SortReorders`), since the
messages differ in their numbers (`CarriesFlushed`). Every step of the run keeps the invariant
(`RowsInvariance`, with a lemma for each action that moves a message: `PullRows`,
`FlushPlaces`, `WriteRows`, `StreamEndsRows`). `RowsInv` was checked on the instance of
Program.cfg before it was proved.

What the rows say. `RowsFaithful` says that each message pulled is what the words of its
recording say at its offset, in the clock its reader settled on (`Decodes`), and not one
that the filters hold back; and where a part says that an IRIG record was sent from the
place a row names, in a recording read as IRIG, that record passes the filters and the
row has its bus, its label, its Command Word, its error code and, written as the day of
the year, its time (`RowTells`). It is proved with the same `RowsInv`: `ReadersOk` has
each reader hold the words of the recording at its path (`OnDisk`), the message in the
heap for an input and each one in `ArrivedOk` say what those words say (`Says`), and
`Admitted` is the filters' part. A message gains its input, its number and its key on
the way and changes in nothing else (`SaysWith`, `OrderedAlike`); a merge hands a
message on with the reader of another state, so that `LeadsOn` keeps words and clock of
every reader; and `SaysAsSent` turns the words back into what was sent, by the kind of
the record: spurious, in error or normal. What is not in it: the payload, a date of the
calendar and the text of the MUX column.

Two assumptions on constants enter besides `RecordingsAssumption`: `ScanWindow`, the number of words a scan looks
ahead (`ScanWindowAssumption`), is a natural number, and the value that stands for no
error is not the name of one (`NoErrorAssumption`).

### Only model-checked

Two properties of Program as wholes: `RowsExact` and `ExitHonest`. RunProofs has the
parts of them that speak of messages, rows and files, and of what a row tells of a
record that was sent from its place. The others speak of all the parts a recording was
put together from: that a row stands where a record was sent and shows its payload, that
no record sent is missing, that a merge of recordings that go forward in time does so, and which exit
class the inputs deserve. They rest on recursive functions and folds of Fields, Inputs
and Pipeline (the look-ahead of a scan, `glob_match`, the encoding of the parts): the
induction theorems of the library take an operator as a parameter, which the provers
cannot instantiate, and what a turn preserves (`NextItemLeads`) is as far as induction
over a set of numbers (`Upward`) has been taken here.
Liveness (`Terminates` of OutputCommit and of Reader), which is beyond the prover.

## Findings

Six places where the code does not do what the documents say, each with a run
that finds the trace; `PROJECT.json` quotes the lines.

1. `OutputCommitMixedFallback`: where hard links fail, a `--no-clobber` run can
   destroy the output of a run without that option (`writer.rs:138`).
2. `RowOrderContinuation`: the row above a `0x2000` continuation need not be the
   error it continues, if the two differ in timestamp (`order.rs:108`).
3. `MergeStrictPriming`: `--strict --allow-partial` lets a merge end as a
   `.partial` with exit code 0 when an input's first record is rejected
   (`merge.rs:454`).
4. `MergeRepeats`: repeats of one recorder are collapsed onto one copy of
   another recorder (`merge.rs:331`).
5. `ReaderStrictTail`: strict mode ends cleanly when fewer than 8 bytes of a
   truncated record are left (`reader.rs:726`).
6. `ReaderTruncatedTail`: lenient mode scans into a truncated final record and
   may yield a row from it (`reader.rs:865`).

Seen while reading, not the subject of a run of their own: `diagnose_no_records` ends
a lenient decode of a truncated first record cleanly, where L2-RDR-004
(`docs/L2-REQ.md:374`) asks for exit code 2 and `docs/USER-GUIDE.md` for 0; a
kill between the reservation and the rename leaves an empty destination, which
`docs/USER-GUIDE.md` does not expect of an atomic write; the cap of the
row order WARNs once per flush, not once per run of timestamps; a scan after
corruption does not honour the terminator, so that a last valid record right
before it is skipped, as L2-SYN-028 says.

Seen while composing `Program`, which models the code as it is:

- a help flag behind `--` is answered with help by `count` and `dump` when
  something else is wrong with the line, although L2-CLI-017 (`docs/L2-REQ.md:1087`)
  says it is a path: the search for a pending help flag starts behind the `--` that
  was consumed. `HelpIsAnswered` asks for help only where it is owed;
- the address filters of the command line take 0 to 255, those of the file 0 to 31;
- `CalendarUnavailable` is documented in `error.rs` as refused before any row is
  written, but a freerun record in the middle of a recording fails after earlier
  rows have gone to stdout;
- `glob_match` compares characters before it looks for a star, so that a name with
  a literal `*` is matched character by character (`merge.rs:93`);
- the `println!` of `count`, help and version panics (exit code 101) where stdout
  is closed, which `decode` and `dump` treat as a clean end;
- the manifest and the configuration file are not among the inputs that the
  collision guard protects.

## Not modelled

- Text: log lines, help, the layout of a dump and of a row, escapes and comments
  inside a configuration line. A log line changes no other state; the advisory of
  the IRIG day and `detect_record_anomalies` only log.
- Numbers beyond TLC's: the tick of the standard clock is kept as its two words
  and its conversion to microseconds, a product of floats, is not computed; the
  microseconds of IRIG time stay a tuple.
- DELTA and collapsing are in Merge and not in Pipeline; faults of the
  output directory are in OutputCommit and not in Program, and stdout has no commit.
- The memory map is taken as fixed: what another process does to a recording
  during the run (`reader.rs:184`) has no defined outcome that a model could check.
- The look-ahead of a scan accepts a record only if another or the end of the
  file follows. The recordings of MCProgram put a second record behind noise;
  Reader has the others. A forced wrong clock is given in strict mode only, on
  records that tell the clocks apart: in lenient mode what it yields is not owed to anyone.
- The Python and C++ ports, which mirror the Rust crate and have their own tests.

## Plan

1. OutputCommit with AtomicPublish and the refinement, 2. RowOrder, 3. Merge,
4. Reader, 5. Program: done.
6. Abstract specifications: of the merge, a bag of records delivered in time
   order with one verdict; of the reader, a walk over the valid records.
7. Proofs: the safety properties and the refinement of OutputCommit, all
properties of Merge and of RowOrder, the safety properties of Reader, and
`HelpIsAnswered`, `NoTokenSwallowed`, `SettingsHonoured`, `InputsSurvive` and
`DumpHonest` of Program, and the parts of `RowsExact` and `ExitHonest` about
rows and files: done.
