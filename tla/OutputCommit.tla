---------------------------- MODULE OutputCommit ----------------------------
(***************************************************************************)
(* How decoder runs publish their CSV files (src/rust/src/writer.rs).      *)
(*                                                                         *)
(* Several runs of the program, each single-threaded, share one output     *)
(* directory.  A run streams rows into an exclusively created temp file    *)
(* beside the destination, flushes it, and only then moves it onto its     *)
(* name: a replacing rename by default; under --no-clobber a hard link     *)
(* plus an unlink, or, where links fail, an exclusively created empty      *)
(* reservation that a rename then replaces.  With --separate-errors a run  *)
(* has two such files; with --allow-partial a lost sync commits them under *)
(* `.partial` names.  Every call on the directory is one step, so the      *)
(* steps of runs interleave; each may fail; a run may be killed anywhere.  *)
(***************************************************************************)
EXTENDS Naturals, FiniteSets

CONSTANTS
  Runs,            \* the decoder processes that share the directory
  Nobody,          \* the owner of a file no run wrote
  Configs,         \* the option records a run may be started with
  ForeignTargets,  \* targets other programs leave or create in the directory
  StaleTemps,      \* temp names a killed run may have left in the directory
  LinkMayFail,     \* hard_link may fail for a reason other than EEXIST
  MaxRows,         \* bound: rows in one run's stream
  MaxAttempts,     \* TEMP_CREATE_MAX_ATTEMPTS
  MaxUnlinkFaults  \* bound: remove_file calls of one run that fail

Kinds == {"main", "errs"}

\* A name a run may commit: the destination or the derived `_errors` file,
\* either of them possibly with `.partial` appended.
Targets == [part : Kinds, partial : BOOLEAN]

\* <destination>.mie-decoder.tmp.<pid>.<counter>.<nanos>: the names one run
\* tries for one of its files, numbered by attempt.
Temps == Runs \X Kinds \X (0 .. MaxAttempts - 1)

\* WriteOptions and the error mode.  `inputs` are the targets that resolve to
\* an input of the run: any other input cannot be hit by a commit.
OptionRecords == [split : BOOLEAN, noClobber : BOOLEAN, allowPartial : BOOLEAN,
                  inputs : SUBSET Targets]

ASSUME ConstantsAssumption ==
  /\ Nobody \notin Runs
  /\ Configs \subseteq OptionRecords
  /\ ForeignTargets \subseteq Targets
  /\ StaleTemps \subseteq Temps
  /\ LinkMayFail \in BOOLEAN
  /\ MaxRows \in Nat
  /\ MaxAttempts \in Nat \ {0}
  /\ MaxUnlinkFaults \in Nat

-----------------------------------------------------------------------------
(* Files.  `rows` is what has reached the disk.                            *)

Tags == {"absent", "foreign", "reserved", "csv"}

File == [tag : Tags, by : Runs \union {Nobody}, part : Kinds, rows : Nat]

Absent == [tag |-> "absent", by |-> Nobody, part |-> "main", rows |-> 0]

\* A file some other program wrote: an input, an older result, a stale temp.
Foreign == [tag |-> "foreign", by |-> Nobody, part |-> "main", rows |-> 0]

\* The zero-byte file create_new leaves under the destination's name.
Reservation(r, k) == [tag |-> "reserved", by |-> r, part |-> k, rows |-> 0]

Csv(r, k, n) == [tag |-> "csv", by |-> r, part |-> k, rows |-> n]

Exists(f) == f.tag # "absent"

Terminal == {"ok", "failed", "crashed"}

PCs == Terminal \union
  {"preflight", "exists", "create", "stream", "finish", "commit", "reserve",
   "renameReserved", "unreserve", "unlink", "redrop", "failing"}

VARIABLES
  opts,       \* [run |-> its options], fixed for the run
  pc,         \* [run |-> where its writer stands]
  which,      \* [run |-> the file it is creating, flushing or committing]
  attempt,    \* [run |-> create_exclusive_temp's loop counter]
  temp,       \* [run |-> [kind |-> the attempt that made its live temp]]
  rows,       \* [run |-> [kind |-> CsvWriter::rows_written]]
  lost,       \* [run |-> partial_info is Some]
  dest,       \* [target |-> file]
  tmp,        \* [temp name |-> file]
  published,  \* history: [run |-> the targets it has committed]
  faults      \* [run |-> remove_file calls that failed], bounded

vars == <<opts, pc, which, attempt, temp, rows, lost, dest, tmp, published, faults>>

-----------------------------------------------------------------------------
(* Names a run derives from its options.                                   *)

\* An AtomicCsvFile that is not open: no attempt has this number.
NoTemp == MaxAttempts

Open(r, k) == temp[r][k] # NoTemp

TempOf(r, k) == <<r, k, temp[r][k]>>

\* Mutant of CommitTargets: the derived paths are taken as checked.
DestinationOnly(o) == {[part |-> "main", partial |-> FALSE]}

\* commit_targets: every path a run with these options could commit.
CommitTargets(o) ==
  {t \in Targets : (t.part = "errs" => o.split) /\ (t.partial => o.allowPartial)}

\* The name commit or commit_partial moves the file onto.
Destination(r, k) == [part |-> k, partial |-> lost[r]]

\* Mutant of FirstPart: the partial path commits the errors output first.
PartialErrorsFirst(r) == IF lost[r] /\ Open(r, "errs") THEN "errs" ELSE "main"

\* The main output commits before the errors output, on every path.
FirstPart(r) == "main"

OtherPart(k) == IF k = "main" THEN "errs" ELSE "main"

Goto(r, l) == pc' = [pc EXCEPT ![r] = l]

\* `?` in the writer: the function returns and its AtomicCsvFiles are dropped.
Fail(r) == Goto(r, "failing")

-----------------------------------------------------------------------------
(* Start: the directory holds the inputs, whatever other programs left     *)
(* there, and temps of killed runs whose process id has come round again.  *)

Init ==
  /\ opts \in [Runs -> Configs]
  /\ pc = [r \in Runs |-> "preflight"]
  /\ which = [r \in Runs |-> "main"]
  /\ attempt = [r \in Runs |-> 0]
  /\ temp = [r \in Runs |-> [k \in Kinds |-> NoTemp]]
  /\ rows = [r \in Runs |-> [k \in Kinds |-> 0]]
  /\ lost = [r \in Runs |-> FALSE]
  /\ published = [r \in Runs |-> {}]
  /\ faults = [r \in Runs |-> 0]
  /\ \E left \in SUBSET ForeignTargets :
       dest = [t \in Targets |->
                 IF t \in left \union UNION {opts[r].inputs : r \in Runs}
                 THEN Foreign ELSE Absent]
  /\ \E stale \in SUBSET StaleTemps :
       tmp = [n \in Temps |-> IF n \in stale THEN Foreign ELSE Absent]

-----------------------------------------------------------------------------
(* preflight_output: reads only, before any file is opened.                *)

RefuseCollision(r) ==
  /\ pc[r] = "preflight"
  /\ CommitTargets(opts[r]) \intersect opts[r].inputs # {}
  /\ Goto(r, "failed")
  /\ UNCHANGED <<opts, which, attempt, temp, rows, lost, dest, tmp, published, faults>>

PassCollision(r) ==
  /\ pc[r] = "preflight"
  /\ CommitTargets(opts[r]) \intersect opts[r].inputs = {}
  /\ Goto(r, IF opts[r].noClobber THEN "exists" ELSE "create")
  /\ UNCHANGED <<opts, which, attempt, temp, rows, lost, dest, tmp, published, faults>>

\* The early no-clobber report covers the two destinations, no `.partial`.
PreflightTaken(r) ==
  /\ pc[r] = "exists"
  /\ Exists(dest[[part |-> which[r], partial |-> FALSE]])
  /\ Goto(r, "failed")
  /\ UNCHANGED <<opts, which, attempt, temp, rows, lost, dest, tmp, published, faults>>

PreflightFree(r) ==
  /\ pc[r] = "exists"
  /\ ~Exists(dest[[part |-> which[r], partial |-> FALSE]])
  /\ IF opts[r].split /\ which[r] = "main"
     THEN which' = [which EXCEPT ![r] = "errs"] /\ UNCHANGED pc
     ELSE which' = [which EXCEPT ![r] = "main"] /\ Goto(r, "create")
  /\ UNCHANGED <<opts, attempt, temp, rows, lost, dest, tmp, published, faults>>

-----------------------------------------------------------------------------
(* create_exclusive_temp: O_CREAT|O_EXCL under a fresh name per attempt.   *)

\* The temp is ours.  The errors temp is created for an errored row, which is
\* buffered at once; the header is buffered with either.
CreateTemp(r) ==
  LET k == which[r]
      n == <<r, k, attempt[r]>>
  IN /\ pc[r] = "create"
     /\ ~Exists(tmp[n])
     /\ tmp' = [tmp EXCEPT ![n] = Csv(r, k, 0)]
     /\ temp' = [temp EXCEPT ![r][k] = attempt[r]]
     /\ rows' = [rows EXCEPT ![r][k] = IF k = "errs" THEN 1 ELSE 0]
     /\ attempt' = [attempt EXCEPT ![r] = 0]
     /\ Goto(r, "stream")
     /\ UNCHANGED <<opts, which, lost, dest, published, faults>>

\* Mutant of RetryTemp: the loop has no bound.
RetryUnbounded(r) ==
  /\ pc[r] = "create"
  /\ Exists(tmp[<<r, which[r], attempt[r]>>])
  /\ attempt' = [attempt EXCEPT ![r] = @ + 1]
  /\ UNCHANGED <<opts, pc, which, temp, rows, lost, dest, tmp, published, faults>>

\* Mutant of RetryTemp: the counter wraps, and with it the loop.
RetryWraps(r) ==
  /\ pc[r] = "create"
  /\ Exists(tmp[<<r, which[r], attempt[r]>>])
  /\ attempt' = [attempt EXCEPT ![r] = (@ + 1) % MaxAttempts]
  /\ UNCHANGED <<opts, pc, which, temp, rows, lost, dest, tmp, published, faults>>

\* The name is taken: the next attempt has another.
RetryTemp(r) ==
  /\ pc[r] = "create"
  /\ Exists(tmp[<<r, which[r], attempt[r]>>])
  /\ attempt[r] + 1 < MaxAttempts
  /\ attempt' = [attempt EXCEPT ![r] = @ + 1]
  /\ UNCHANGED <<opts, pc, which, temp, rows, lost, dest, tmp, published, faults>>

\* The attempts are exhausted, or open fails for another reason.
CreateFails(r) ==
  /\ pc[r] = "create"
  /\ Fail(r)
  /\ UNCHANGED <<opts, which, attempt, temp, rows, lost, dest, tmp, published, faults>>

-----------------------------------------------------------------------------
(* The streaming loop of write_csv and write_csv_split.                    *)

Streaming(r) == pc[r] = "stream"
MoreRows(r) == rows[r]["main"] + rows[r]["errs"] < MaxRows

\* A row goes into the BufWriter of file k; any part of what was buffered may
\* reach the disk.
WriteRow(r, k) ==
  /\ Streaming(r) /\ MoreRows(r) /\ Open(r, k)
  /\ rows' = [rows EXCEPT ![r][k] = @ + 1]
  /\ \E n \in tmp[TempOf(r, k)].rows .. rows[r][k] + 1 :
       tmp' = [tmp EXCEPT ![TempOf(r, k)] = Csv(r, k, n)]
  /\ UNCHANGED <<opts, pc, which, attempt, temp, lost, dest, published, faults>>

\* Separate mode creates the errors file at the first errored row.
FirstErrorRow(r) ==
  /\ Streaming(r) /\ MoreRows(r) /\ opts[r].split /\ ~Open(r, "errs")
  /\ which' = [which EXCEPT ![r] = "errs"]
  /\ Goto(r, "create")
  /\ UNCHANGED <<opts, attempt, temp, rows, lost, dest, tmp, published, faults>>

\* Mutant of Finishing: only the main writer is finished.
FinishMainOnly(r) ==
  /\ which' = [which EXCEPT ![r] = "main"]
  /\ Goto(r, "finish")

\* The errors writer is finished before the main writer.
Finishing(r) ==
  /\ which' = [which EXCEPT ![r] = IF Open(r, "errs") THEN "errs" ELSE "main"]
  /\ Goto(r, "finish")

StreamEnds(r) ==
  /\ Streaming(r)
  /\ Finishing(r)
  /\ UNCHANGED <<opts, attempt, temp, rows, lost, dest, tmp, published, faults>>

\* UnrecoverableSyncLoss under --allow-partial ends the loop, not the run.
PartialSyncLoss(r) ==
  /\ Streaming(r) /\ opts[r].allowPartial
  /\ lost' = [lost EXCEPT ![r] = TRUE]
  /\ Finishing(r)
  /\ UNCHANGED <<opts, attempt, temp, rows, dest, tmp, published, faults>>

\* Any other Err item, or a row that cannot be rendered or written.
StreamFails(r) ==
  /\ Streaming(r)
  /\ Fail(r)
  /\ UNCHANGED <<opts, which, attempt, temp, rows, lost, dest, tmp, published, faults>>

\* Mutant of Flush: rows still buffered are not written out.
FlushForgotten(r) ==
  /\ pc[r] = "finish"
  /\ IF which[r] = "errs"
     THEN which' = [which EXCEPT ![r] = "main"] /\ UNCHANGED pc
     ELSE which' = [which EXCEPT ![r] = FirstPart(r)] /\ Goto(r, "commit")
  /\ UNCHANGED <<opts, attempt, temp, rows, lost, dest, tmp, published, faults>>

\* CsvWriter::finish: the final flush.  commit_onto flushes again, with an
\* empty buffer.
Flush(r) ==
  LET k == which[r]
  IN /\ pc[r] = "finish"
     /\ tmp' = [tmp EXCEPT ![TempOf(r, k)] = Csv(r, k, rows[r][k])]
     /\ IF k = "errs"
        THEN which' = [which EXCEPT ![r] = "main"] /\ UNCHANGED pc
        ELSE which' = [which EXCEPT ![r] = FirstPart(r)] /\ Goto(r, "commit")
     /\ UNCHANGED <<opts, attempt, temp, rows, lost, dest, published, faults>>

FlushFails(r) ==
  /\ pc[r] = "finish"
  /\ Fail(r)
  /\ UNCHANGED <<opts, which, attempt, temp, rows, lost, dest, tmp, published, faults>>

-----------------------------------------------------------------------------
(* commit_onto.  A committed AtomicCsvFile is consumed: its temp is gone.  *)

\* After one file's commit: the next one's, or Ok.
NextCommit(r) ==
  LET k == which[r]
      o == OtherPart(k)
  IN /\ temp' = [temp EXCEPT ![r][k] = NoTemp]
     /\ IF k = FirstPart(r) /\ Open(r, o)
        THEN which' = [which EXCEPT ![r] = o] /\ Goto(r, "commit")
        ELSE Goto(r, "ok") /\ UNCHANGED which

Target(r) == Destination(r, which[r])

\* The file that stands under this run's current temp name appears at Target.
PublishTemp(r) ==
  /\ dest' = [dest EXCEPT ![Target(r)] = tmp[TempOf(r, which[r])]]
  /\ published' = [published EXCEPT ![r] = @ \union {Target(r)}]

DropTempFile(r, k) == tmp' = [tmp EXCEPT ![TempOf(r, k)] = Absent]

\* CommitMode::Replace.
RenameOver(r) ==
  /\ pc[r] = "commit" /\ ~opts[r].noClobber
  /\ PublishTemp(r)
  /\ DropTempFile(r, which[r])
  /\ NextCommit(r)
  /\ UNCHANGED <<opts, attempt, rows, lost, faults>>

RenameFails(r) ==
  /\ pc[r] = "commit" /\ ~opts[r].noClobber
  /\ Fail(r)
  /\ UNCHANGED <<opts, which, attempt, temp, rows, lost, dest, tmp, published, faults>>

\* Mutant of HardLink: the early existence test is taken for the guarantee.
LinkOver(r) ==
  /\ pc[r] = "commit" /\ opts[r].noClobber
  /\ PublishTemp(r)
  /\ Goto(r, "unlink")
  /\ UNCHANGED <<opts, which, attempt, temp, rows, lost, tmp, faults>>

\* CommitMode::NoReplace: link(2) publishes the complete file in one step ...
HardLink(r) ==
  /\ pc[r] = "commit" /\ opts[r].noClobber
  /\ ~Exists(dest[Target(r)])
  /\ PublishTemp(r)
  /\ Goto(r, "unlink")
  /\ UNCHANGED <<opts, which, attempt, temp, rows, lost, tmp, faults>>

\* ... refuses a taken name ...
LinkRefused(r) ==
  /\ pc[r] = "commit" /\ opts[r].noClobber
  /\ Exists(dest[Target(r)])
  /\ Fail(r)
  /\ UNCHANGED <<opts, which, attempt, temp, rows, lost, dest, tmp, published, faults>>

\* Mutant of LinkUnavailable: the fallback renames without a reservation.
RenameUnreserved(r) ==
  /\ pc[r] = "commit" /\ opts[r].noClobber /\ LinkMayFail
  /\ Goto(r, "renameReserved")
  /\ UNCHANGED <<opts, which, attempt, temp, rows, lost, dest, tmp, published, faults>>

\* ... or is not available here.
LinkUnavailable(r) ==
  /\ pc[r] = "commit" /\ opts[r].noClobber /\ LinkMayFail
  /\ Goto(r, "reserve")
  /\ UNCHANGED <<opts, which, attempt, temp, rows, lost, dest, tmp, published, faults>>

\* Mutant of Reserve: create and truncate in place of create_new.
ReserveTruncating(r) ==
  /\ pc[r] = "reserve"
  /\ dest' = [dest EXCEPT ![Target(r)] = Reservation(r, which[r])]
  /\ Goto(r, "renameReserved")
  /\ UNCHANGED <<opts, which, attempt, temp, rows, lost, tmp, published, faults>>

\* reserve_then_rename: create_new claims the name with an empty file ...
Reserve(r) ==
  /\ pc[r] = "reserve"
  /\ ~Exists(dest[Target(r)])
  /\ dest' = [dest EXCEPT ![Target(r)] = Reservation(r, which[r])]
  /\ Goto(r, "renameReserved")
  /\ UNCHANGED <<opts, which, attempt, temp, rows, lost, tmp, published, faults>>

\* ... or fails: the name is taken, or cannot be created.
ReserveFails(r) ==
  /\ pc[r] = "reserve"
  /\ Fail(r)
  /\ UNCHANGED <<opts, which, attempt, temp, rows, lost, dest, tmp, published, faults>>

\* The rename replaces whatever stands under the name now.
RenameReserved(r) ==
  /\ pc[r] = "renameReserved"
  /\ PublishTemp(r)
  /\ DropTempFile(r, which[r])
  /\ Goto(r, "unlink")
  /\ UNCHANGED <<opts, which, attempt, temp, rows, lost, faults>>

\* Mutant of RenameReservedFails: the reservation is left in place.
ReservationKept(r) ==
  /\ pc[r] = "renameReserved"
  /\ Fail(r)
  /\ UNCHANGED <<opts, which, attempt, temp, rows, lost, dest, tmp, published, faults>>

RenameReservedFails(r) ==
  /\ pc[r] = "renameReserved"
  /\ Goto(r, "unreserve")
  /\ UNCHANGED <<opts, which, attempt, temp, rows, lost, dest, tmp, published, faults>>

\* remove_file(dest), and the error of a remove_file that fails is ignored.
Unreserve(r) ==
  /\ pc[r] = "unreserve"
  /\ dest' = [dest EXCEPT ![Target(r)] = Absent]
  /\ Fail(r)
  /\ UNCHANGED <<opts, which, attempt, temp, rows, lost, tmp, published, faults>>

UnreserveFails(r) ==
  /\ pc[r] = "unreserve"
  /\ faults[r] < MaxUnlinkFaults
  /\ faults' = [faults EXCEPT ![r] = @ + 1]
  /\ Fail(r)
  /\ UNCHANGED <<opts, which, attempt, temp, rows, lost, dest, tmp, published>>

\* `committed = remove_file(temp).is_ok()`; when the rename of the fallback
\* has taken the temp away, this call and Drop's both find nothing.
UnlinkTemp(r) ==
  /\ pc[r] \in {"unlink", "redrop"}
  /\ DropTempFile(r, which[r])
  /\ NextCommit(r)
  /\ UNCHANGED <<opts, attempt, rows, lost, dest, published, faults>>

\* Mutant of UnlinkFails: `committed` is set whatever remove_file returned.
UnlinkFaultIgnored(r) ==
  /\ pc[r] = "unlink"
  /\ Exists(tmp[TempOf(r, which[r])])
  /\ faults[r] < MaxUnlinkFaults
  /\ faults' = [faults EXCEPT ![r] = @ + 1]
  /\ NextCommit(r)
  /\ UNCHANGED <<opts, attempt, rows, lost, dest, tmp, published>>

\* The first failure leaves `committed` false, so Drop tries once more ...
UnlinkFails(r) ==
  /\ pc[r] = "unlink"
  /\ Exists(tmp[TempOf(r, which[r])])
  /\ faults[r] < MaxUnlinkFaults
  /\ faults' = [faults EXCEPT ![r] = @ + 1]
  /\ Goto(r, "redrop")
  /\ UNCHANGED <<opts, which, attempt, temp, rows, lost, dest, tmp, published>>

\* ... and gives up.
RedropFails(r) ==
  /\ pc[r] = "redrop"
  /\ faults[r] < MaxUnlinkFaults
  /\ faults' = [faults EXCEPT ![r] = @ + 1]
  /\ NextCommit(r)
  /\ UNCHANGED <<opts, attempt, rows, lost, dest, tmp, published>>

-----------------------------------------------------------------------------
(* Drop on the failure path: each open temp is unlinked, best effort.  The *)
(* order in which the two files drop is left open.                         *)

Drop(r, k) ==
  /\ pc[r] = "failing" /\ Open(r, k)
  /\ DropTempFile(r, k)
  /\ temp' = [temp EXCEPT ![r][k] = NoTemp]
  /\ UNCHANGED <<opts, pc, which, attempt, rows, lost, dest, published, faults>>

DropFails(r, k) ==
  /\ pc[r] = "failing" /\ Open(r, k)
  /\ faults[r] < MaxUnlinkFaults
  /\ faults' = [faults EXCEPT ![r] = @ + 1]
  /\ temp' = [temp EXCEPT ![r][k] = NoTemp]
  /\ UNCHANGED <<opts, pc, which, attempt, rows, lost, dest, tmp, published>>

ReturnErr(r) ==
  /\ pc[r] = "failing" /\ \A k \in Kinds : ~Open(r, k)
  /\ Goto(r, "failed")
  /\ UNCHANGED <<opts, which, attempt, temp, rows, lost, dest, tmp, published, faults>>

-----------------------------------------------------------------------------
\* A kill leaves the directory as it stands.
Crash(r) ==
  /\ pc[r] \notin Terminal
  /\ Goto(r, "crashed")
  /\ UNCHANGED <<opts, which, attempt, temp, rows, lost, dest, tmp, published, faults>>

\* Some other program creates a file under a target that is free.
ForeignCreate(t) ==
  /\ ~Exists(dest[t])
  /\ dest' = [dest EXCEPT ![t] = Foreign]
  /\ UNCHANGED <<opts, pc, which, attempt, temp, rows, lost, tmp, published, faults>>

RunStep(r) ==
  \/ RefuseCollision(r) \/ PassCollision(r)
  \/ PreflightTaken(r) \/ PreflightFree(r)
  \/ CreateTemp(r) \/ RetryTemp(r) \/ CreateFails(r)
  \/ \E k \in Kinds : WriteRow(r, k)
  \/ FirstErrorRow(r) \/ StreamEnds(r) \/ PartialSyncLoss(r) \/ StreamFails(r)
  \/ Flush(r) \/ FlushFails(r)
  \/ RenameOver(r) \/ RenameFails(r)
  \/ HardLink(r) \/ LinkRefused(r) \/ LinkUnavailable(r)
  \/ Reserve(r) \/ ReserveFails(r)
  \/ RenameReserved(r) \/ RenameReservedFails(r)
  \/ Unreserve(r) \/ UnreserveFails(r)
  \/ UnlinkTemp(r) \/ UnlinkFails(r) \/ RedropFails(r)
  \/ \E k \in Kinds : Drop(r, k) \/ DropFails(r, k)
  \/ ReturnErr(r)

Next ==
  \/ \E r \in Runs : RunStep(r) \/ Crash(r)
  \/ \E t \in ForeignTargets : ForeignCreate(t)

Spec == Init /\ [][Next]_vars

\* The process keeps running: every run that can take a step does.
Fairness == \A r \in Runs : WF_vars(RunStep(r))

FairSpec == Spec /\ Fairness

-----------------------------------------------------------------------------
(* Properties.                                                             *)

\* Every variable keeps its type.
TypeOK ==
  /\ opts \in [Runs -> Configs]
  /\ pc \in [Runs -> PCs]
  /\ which \in [Runs -> Kinds]
  /\ attempt \in [Runs -> 0 .. MaxAttempts - 1]
  /\ temp \in [Runs -> [Kinds -> 0 .. MaxAttempts]]
  /\ rows \in [Runs -> [Kinds -> Nat]]
  /\ lost \in [Runs -> BOOLEAN]
  /\ dest \in [Targets -> File]
  /\ tmp \in [Temps -> File]
  /\ published \in [Runs -> SUBSET Targets]
  /\ faults \in [Runs -> 0 .. MaxUnlinkFaults]

\* A file of run r for part k, whole: it holds every row the run wrote.
Whole(r, k) == Csv(r, k, rows[r][k])

\* L2-WRT-015: no consumer of the directory, at any moment and whoever is
\* killed when, finds a decoder's file under a commit target that is not the
\* complete file of one run, of the right part, committed by that run.
WholeAtTargets ==
  \A t \in Targets : dest[t].tag = "csv" =>
    \E r \in Runs : dest[t] = Whole(r, t.part) /\ t \in published[r]

\* The outputs run r owes when it returns Ok: its destination, and the errors
\* file when it saw an errored row, both `.partial` or neither.
Owed(r) ==
  {t \in Targets : t.partial = lost[r]
                     /\ (t.part = "errs" => opts[r].split /\ rows[r]["errs"] > 0)}

\* L2-WRT-019, L1-EXIT-004: at every step a run has published only outputs it
\* owes, and the errors file only after the main one; it returns Ok exactly
\* when it has published all it owes.
OutcomeHonest ==
  \A r \in Runs :
    /\ published[r] \subseteq Owed(r)
    /\ published[r] # {} => Destination(r, "main") \in published[r]
    /\ pc[r] = "ok" => published[r] = Owed(r)
    /\ pc[r] = "failed" => published[r] # Owed(r)

\* L2-WRT-024: a run that returns leaves no temp file behind, whatever failed,
\* unless remove_file itself did; and one failed remove_file after a commit is
\* made good by Drop.
TempsReclaimed ==
  \A r \in Runs :
    ((pc[r] = "ok" /\ faults[r] <= 1) \/ (pc[r] = "failed" /\ faults[r] = 0)) =>
      \A n \in Temps : tmp[n].by # r

\* L2-WRT-023: a step of a --no-clobber run never changes or removes a file
\* that stands under a commit target, except the reservation it made itself.
\* Only a step of run r changes pc[r], and every step of a run on the targets
\* does.
NoClobber ==
  [][\A r \in Runs : opts[r].noClobber /\ pc'[r] # pc[r] =>
       \A t \in Targets :
         \/ dest'[t] = dest[t]
         \/ ~Exists(dest[t])
         \/ dest[t].tag = "reserved" /\ dest[t].by = r]_vars

\* L2-WRT-014: no step of a run touches a file that is one of its inputs.
InputUntouched ==
  [][\A r \in Runs : \A t \in opts[r].inputs :
       dest'[t] # dest[t] => pc'[r] = pc[r]]_vars

\* When every run refuses to clobber, an errors file stands beside the main
\* file of the same decode: two runs over one destination never leave a pair
\* made of halves of both.
NoMixedPair ==
  (\A r \in Runs : opts[r].noClobber) =>
    \A t \in Targets : dest[t].tag = "csv" /\ t.part = "errs" =>
      dest[[t EXCEPT !.part = "main"]].by = dest[t].by

\* An empty reservation stands under a target only while its run is between
\* the reservation and the rename, or was killed there, or could not take it
\* back: any other end leaves the name as it was.
ReservationsAccounted ==
  \A t \in Targets : dest[t].tag = "reserved" =>
    LET r == dest[t].by
    IN \/ t = Target(r) /\ pc[r] \in {"renameReserved", "unreserve", "crashed"}
       \/ faults[r] > 0 /\ pc[r] \in {"failing", "failed", "crashed"}

\* Every run ends: creation retries are bounded, and so is the stream.
Terminates == \A r \in Runs : <>(pc[r] \in Terminal)
=============================================================================
