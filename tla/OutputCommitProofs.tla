-------------------------- MODULE OutputCommitProofs --------------------------
(***************************************************************************)
(* Proofs about OutputCommit, for any number of runs, any options, any     *)
(* bounds and any outcome of every call on the directory: what a consumer  *)
(* may see, and what the runs leave in the directory.  Temps are           *)
(* reclaimed, inputs are not touched, reservations are accounted for, and  *)
(* runs that refuse to clobber keep each other's files, also on the        *)
(* reservation path; and OutputCommit implements AtomicPublish in a        *)
(* directory that is cooperative: hard links work there, or no run         *)
(* replaces files.                                                         *)
(***************************************************************************)
EXTENDS OutputRefinement, TLAPS

-----------------------------------------------------------------------------
(* The inductive invariant.  For each place a run can stand: which temps   *)
(* it holds open, what it owes and what it has published; and what the     *)
(* temp files hold.                                                        *)

Moving == {"commit", "reserve", "renameReserved", "unreserve"}
Moved == {"unlink", "redrop"}

\* Before the first temp exists.
Starting(r) ==
  pc[r] \in {"preflight", "exists"} \/ (pc[r] = "create" /\ which[r] = "main")

\* From the first temp to the last flush.
Filling(r) ==
  pc[r] \in {"stream", "finish"} \/ (pc[r] = "create" /\ which[r] = "errs")

OwesErrs(r) == opts[r].split /\ rows[r]["errs"] > 0

Main(r) == Destination(r, "main")
Errs(r) == Destination(r, "errs")

StartingInv(r) == Starting(r) =>
  /\ ~Open(r, "main") /\ ~Open(r, "errs")
  /\ rows[r]["errs"] = 0
  /\ published[r] = {}
  /\ pc[r] = "preflight" => which[r] = "main"

FillingInv(r) == Filling(r) =>
  /\ Open(r, "main")
  /\ Open(r, "errs") => OwesErrs(r)
  /\ ~Open(r, "errs") => rows[r]["errs"] = 0
  /\ published[r] = {}
  /\ pc[r] = "create" => opts[r].split /\ ~Open(r, "errs")
  /\ pc[r] = "finish" => Open(r, which[r])

MainMoveInv(r) == pc[r] \in Moving \union Moved /\ which[r] = "main" =>
  /\ Open(r, "main")
  /\ Open(r, "errs") => OwesErrs(r)
  /\ ~Open(r, "errs") => rows[r]["errs"] = 0
  /\ published[r] = IF pc[r] \in Moved THEN {Main(r)} ELSE {}

ErrsMoveInv(r) == pc[r] \in Moving \union Moved /\ which[r] = "errs" =>
  /\ ~Open(r, "main") /\ Open(r, "errs")
  /\ OwesErrs(r)
  /\ published[r] = IF pc[r] \in Moved THEN {Main(r), Errs(r)} ELSE {Main(r)}

EndingInv(r) ==
  /\ pc[r] = "ok" =>
       published[r] = IF OwesErrs(r) THEN {Main(r), Errs(r)} ELSE {Main(r)}
  /\ pc[r] \in {"failing", "failed"} =>
       published[r] = {} \/ (published[r] = {Main(r)} /\ OwesErrs(r))
  /\ pc[r] = "crashed" =>
       \/ published[r] \in {{}, {Main(r)}}
       \/ published[r] = {Main(r), Errs(r)} /\ OwesErrs(r)

RunInv(r) ==
  StartingInv(r) /\ FillingInv(r) /\ MainMoveInv(r) /\ ErrsMoveInv(r) /\ EndingInv(r)

\* Run r is filling its temp for part k or is yet to move it.
Held(r, k) ==
  Open(r, k) /\ (Filling(r) \/ pc[r] \in Moving \/ (pc[r] \in Moved /\ which[r] # k))

\* Such a temp is the run's own, and whole once it is flushed.
TempInv(r, k) ==
  Held(r, k) =>
    /\ tmp[TempOf(r, k)].tag = "csv"
    /\ tmp[TempOf(r, k)].by = r
    /\ tmp[TempOf(r, k)].part = k
    /\ \/ pc[r] \in Moving \union Moved
       \/ pc[r] = "finish" /\ which[r] # k /\ k = "errs"
       => tmp[TempOf(r, k)] = Whole(r, k)

IInv ==
  /\ TypeOK
  /\ \A r \in Runs : RunInv(r)
  /\ \A r \in Runs, k \in Kinds : TempInv(r, k)
  /\ WholeAtTargets


-----------------------------------------------------------------------------
(* Files and temp names.                                                   *)

\* What a step may leave under a name is a file.
LEMMA FileTypes ==
  /\ Absent \in File
  /\ Foreign \in File
  /\ \A r \in Runs, k \in Kinds : Reservation(r, k) \in File
  /\ \A r \in Runs, k \in Kinds, n \in Nat : Csv(r, k, n) \in File
  BY DEF File, Tags, Kinds, Absent, Foreign, Reservation, Csv

\* An open temp has a name of the directory.
LEMMA TempNames ==
  ASSUME TypeOK, NEW r \in Runs, NEW k \in Kinds, Open(r, k)
  PROVE  TempOf(r, k) \in Temps
  <1>1. temp[r][k] \in 0 .. MaxAttempts - 1
    <2>1. temp[r][k] \in 0 .. MaxAttempts
      BY DEF TypeOK
    <2> QED
      BY <2>1, ConstantsAssumption DEF ConstantsAssumption, Open, NoTemp
  <1> QED
    BY <1>1 DEF TempOf, Temps

\* What a step has published for the file it moves, and where it moves it.
LEMMA TargetType ==
  ASSUME TypeOK, NEW r \in Runs
  PROVE  Target(r) \in Targets
  BY DEF TypeOK, Target, Destination, Targets, Kinds

\* A run whose writer moves or has moved a file holds that file's temp open.
LEMMA MovingOpen ==
  ASSUME TypeOK, NEW r \in Runs, RunInv(r), pc[r] \in Moving \union Moved
  PROVE  Open(r, which[r])
  <1>1. which[r] \in {"main", "errs"}
    BY DEF TypeOK, Kinds
  <1> QED
    BY <1>1 DEF RunInv, MainMoveInv, ErrsMoveInv

-----------------------------------------------------------------------------
(* Type correctness.  TypeOK alone is not inductive: that the commit moves *)
(* an existing temp needs RunInv.                                          *)

\* Going on to the next part, or to the end, keeps the types.
LEMMA NextCommitTypes ==
  ASSUME TypeOK, NEW r \in Runs, NextCommit(r)
  PROVE  /\ temp' \in [Runs -> [Kinds -> 0 .. MaxAttempts]]
         /\ pc' \in [Runs -> PCs]
         /\ which' \in [Runs -> Kinds]
  <1>1. which[r] \in Kinds /\ MaxAttempts \in 0 .. MaxAttempts
    BY ConstantsAssumption DEF TypeOK, ConstantsAssumption
  <1>2. temp' \in [Runs -> [Kinds -> 0 .. MaxAttempts]]
    BY <1>1 DEF NextCommit, TypeOK, NoTemp
  <1> QED
    BY <1>2 DEF NextCommit, TypeOK, PCs, Goto, Terminal, OtherPart, Kinds

\* A step of one run keeps the types.
LEMMA StepTypeOK ==
  ASSUME TypeOK, NEW r \in Runs, RunInv(r), RunStep(r) \/ Crash(r)
  PROVE  TypeOK'
  <1>0. TypeOK /\ which[r] \in Kinds /\ (\A k \in Kinds : rows[r][k] \in Nat)
    BY DEF TypeOK
  <1>1. CASE RefuseCollision(r) \/ PassCollision(r) \/ PreflightTaken(r) \/ PreflightFree(r)
    BY <1>0, <1>1
    DEF RefuseCollision, PassCollision, PreflightTaken, PreflightFree, TypeOK, Goto, PCs,
        Terminal, Kinds
  <1>2. CASE CreateTemp(r)
    <2>1. attempt[r] \in 0 .. MaxAttempts - 1
      BY DEF TypeOK
    <2>2. /\ attempt' \in [Runs -> 0 .. MaxAttempts - 1]
          /\ temp' \in [Runs -> [Kinds -> 0 .. MaxAttempts]]
      BY <1>0, <1>2, <2>1, ConstantsAssumption DEF CreateTemp, TypeOK, ConstantsAssumption
    <2>3. rows' \in [Runs -> [Kinds -> Nat]]
      BY <1>0, <1>2 DEF CreateTemp, TypeOK
    <2>4. tmp' \in [Temps -> File]
      BY <1>0, <1>2, FileTypes DEF CreateTemp, TypeOK
    <2> QED
      BY <1>2, <2>2, <2>3, <2>4 DEF CreateTemp, TypeOK, Goto, PCs
  <1>3. CASE RetryTemp(r)
    BY <1>3, ConstantsAssumption DEF RetryTemp, TypeOK, ConstantsAssumption
  <1>4. CASE CreateFails(r) \/ StreamFails(r) \/ FlushFails(r) \/ RenameFails(r)
             \/ LinkRefused(r) \/ ReserveFails(r) \/ ReturnErr(r) \/ Crash(r)
    BY <1>4
    DEF CreateFails, StreamFails, FlushFails, RenameFails, LinkRefused, ReserveFails,
        ReturnErr, Crash, Fail, TypeOK, Goto, PCs, Terminal
  <1>5. ASSUME NEW k \in Kinds, WriteRow(r, k) PROVE TypeOK'
    <2>1. rows[r][k] \in Nat /\ tmp[TempOf(r, k)].rows \in Nat
      BY <1>5, TempNames DEF TypeOK, WriteRow, File
    <2>2. rows' \in [Runs -> [Kinds -> Nat]]
      BY <1>5, <2>1 DEF WriteRow, TypeOK
    <2>3. PICK n \in tmp[TempOf(r, k)].rows .. rows[r][k] + 1 :
                 tmp' = [tmp EXCEPT ![TempOf(r, k)] = Csv(r, k, n)]
      BY <1>5 DEF WriteRow
    <2>4. tmp' \in [Temps -> File]
      <3>1. n \in Nat
        BY <2>1
      <3>2. Csv(r, k, n) \in File
        BY <3>1, FileTypes
      <3> QED
        BY <2>3, <3>2 DEF TypeOK
    <2> QED
      BY <1>5, <2>2, <2>4 DEF WriteRow, TypeOK
  <1>6. CASE FirstErrorRow(r) \/ StreamEnds(r) \/ PartialSyncLoss(r)
    BY <1>0, <1>6
    DEF FirstErrorRow, StreamEnds, PartialSyncLoss, Finishing, TypeOK, Goto, PCs, Kinds
  <1>7. CASE Flush(r)
    <2>1. tmp' \in [Temps -> File]
      BY <1>0, <1>7, FileTypes DEF Flush, TypeOK
    <2> QED
      BY <1>7, <2>1 DEF Flush, TypeOK, Goto, PCs, Kinds, FirstPart
  <1>8. ASSUME PublishTemp(r), pc[r] \in Moving
        PROVE  dest' \in [Targets -> File] /\ published' \in [Runs -> SUBSET Targets]
    <2>1. tmp[TempOf(r, which[r])] \in File
      BY <1>0, <1>8, MovingOpen, TempNames DEF TypeOK
    <2> QED
      BY <1>8, <2>1, TargetType DEF PublishTemp, TypeOK
  <1>9. CASE RenameOver(r)
    BY <1>8, <1>9, NextCommitTypes, FileTypes DEF RenameOver, TypeOK, DropTempFile, Moving
  <1>10. CASE HardLink(r)
    BY <1>8, <1>10 DEF HardLink, TypeOK, Moving, Goto, PCs
  <1>18. CASE RenameReserved(r)
    BY <1>8, <1>18, FileTypes DEF RenameReserved, TypeOK, DropTempFile, Moving, Goto, PCs
  <1>11. CASE LinkUnavailable(r) \/ RenameReservedFails(r)
    BY <1>11 DEF LinkUnavailable, RenameReservedFails, TypeOK, Goto, PCs
  <1>12. CASE Reserve(r) \/ Unreserve(r)
    <2>1. dest' \in [Targets -> File]
      <3>1. Reservation(r, which[r]) \in File /\ Absent \in File
        BY <1>0, FileTypes
      <3>2. PICK f \in File : dest' = [dest EXCEPT ![Target(r)] = f]
        BY <1>12, <3>1 DEF Reserve, Unreserve
      <3> QED
        BY <3>2 DEF TypeOK
    <2> QED
      BY <1>12, <2>1 DEF Reserve, Unreserve, Fail, TypeOK, Goto, PCs
  <1>13. ASSUME faults' = [faults EXCEPT ![r] = @ + 1], faults[r] < MaxUnlinkFaults
         PROVE  faults' \in [Runs -> 0 .. MaxUnlinkFaults]
    <2>1. faults[r] \in Nat /\ faults[r] + 1 \in 0 .. MaxUnlinkFaults
      BY <1>13, ConstantsAssumption DEF TypeOK, ConstantsAssumption
    <2> QED
      BY <1>13, <2>1 DEF TypeOK
  <1>14. CASE UnreserveFails(r) \/ UnlinkFails(r)
    BY <1>13, <1>14 DEF UnreserveFails, UnlinkFails, Fail, TypeOK, Goto, PCs
  <1>15. CASE UnlinkTemp(r)
    BY <1>15, NextCommitTypes, FileTypes DEF UnlinkTemp, TypeOK, DropTempFile
  <1>16. CASE RedropFails(r)
    BY <1>13, <1>16, NextCommitTypes DEF RedropFails, TypeOK
  <1>17. ASSUME NEW k \in Kinds, Drop(r, k) \/ DropFails(r, k) PROVE TypeOK'
    <2>1. MaxAttempts \in 0 .. MaxAttempts
      BY ConstantsAssumption DEF ConstantsAssumption
    <2>2. temp' \in [Runs -> [Kinds -> 0 .. MaxAttempts]]
      <3>1. temp' = [temp EXCEPT ![r][k] = MaxAttempts]
        BY <1>17 DEF Drop, DropFails, NoTemp
      <3> QED
        BY <2>1, <3>1 DEF TypeOK
    <2>3. CASE Drop(r, k)
      BY <2>2, <2>3, FileTypes DEF Drop, DropTempFile, TypeOK
    <2>4. CASE DropFails(r, k)
      BY <1>13, <2>2, <2>4 DEF DropFails, TypeOK
    <2> QED
      BY <1>17, <2>3, <2>4
  <1> QED
    BY <1>1, <1>2, <1>3, <1>4, <1>5, <1>6, <1>7, <1>9, <1>10, <1>11, <1>12, <1>14, <1>15,
       <1>16, <1>17, <1>18
    DEF RunStep

-----------------------------------------------------------------------------
(* A step of one run leaves the others where they stand, their temps too.  *)

SameRun(q) ==
  /\ opts'[q] = opts[q] /\ pc'[q] = pc[q] /\ which'[q] = which[q]
  /\ temp'[q] = temp[q] /\ rows'[q] = rows[q] /\ lost'[q] = lost[q]
  /\ published'[q] = published[q]
  /\ \A k \in Kinds, n \in 0 .. MaxAttempts - 1 : tmp'[<<q, k, n>>] = tmp[<<q, k, n>>]

\* A step of one run leaves another run's state and temps alone.
LEMMA StepFrame ==
  ASSUME TypeOK, NEW r \in Runs, RunStep(r) \/ Crash(r), NEW q \in Runs, q # r
  PROVE  SameRun(q)
  <1>0. TypeOK
    OBVIOUS
  <1>1. ASSUME NEW k, NEW f, tmp' = [tmp EXCEPT ![TempOf(r, k)] = f]
        PROVE  \A j \in Kinds, n \in 0 .. MaxAttempts - 1 : tmp'[<<q, j, n>>] = tmp[<<q, j, n>>]
    BY <1>1 DEF TypeOK, Temps, TempOf
  <1>2. CASE RefuseCollision(r) \/ PassCollision(r) \/ PreflightTaken(r) \/ PreflightFree(r)
    BY <1>0, <1>2
    DEF RefuseCollision, PassCollision, PreflightTaken, PreflightFree, TypeOK, Goto, SameRun
  <1>3. CASE CreateTemp(r)
    BY <1>3 DEF CreateTemp, TypeOK, Temps, Goto, SameRun
  <1>4. CASE RetryTemp(r) \/ FirstErrorRow(r) \/ StreamEnds(r) \/ PartialSyncLoss(r)
    BY <1>4
    DEF RetryTemp, FirstErrorRow, StreamEnds, PartialSyncLoss, Finishing, TypeOK, Goto, SameRun
  <1>5. CASE CreateFails(r) \/ StreamFails(r) \/ FlushFails(r) \/ RenameFails(r)
             \/ LinkRefused(r) \/ ReserveFails(r) \/ ReturnErr(r) \/ Crash(r)
    BY <1>5
    DEF CreateFails, StreamFails, FlushFails, RenameFails, LinkRefused, ReserveFails,
        ReturnErr, Crash, Fail, TypeOK, Goto, SameRun
  <1>6. ASSUME NEW k \in Kinds, WriteRow(r, k) PROVE SameRun(q)
    BY <1>1, <1>6 DEF WriteRow, TypeOK, SameRun
  <1>7. CASE Flush(r)
    BY <1>1, <1>7 DEF Flush, TypeOK, Goto, SameRun
  <1>8. CASE RenameOver(r)
    BY <1>1, <1>8 DEF RenameOver, PublishTemp, DropTempFile, NextCommit, TypeOK, Goto, SameRun
  <1>12. CASE UnlinkTemp(r)
    BY <1>1, <1>12 DEF UnlinkTemp, DropTempFile, NextCommit, TypeOK, Goto, SameRun
  <1>13. CASE RedropFails(r)
    BY <1>1, <1>13 DEF RedropFails, NextCommit, TypeOK, Goto, SameRun
  <1>9. CASE HardLink(r) \/ RenameReserved(r)
    BY <1>1, <1>9 DEF HardLink, RenameReserved, PublishTemp, DropTempFile, TypeOK, Goto, SameRun
  <1>10. CASE LinkUnavailable(r) \/ RenameReservedFails(r) \/ Reserve(r) \/ Unreserve(r)
              \/ UnreserveFails(r) \/ UnlinkFails(r)
    BY <1>10
    DEF LinkUnavailable, RenameReservedFails, Reserve, Unreserve, UnreserveFails, UnlinkFails,
        Fail, TypeOK, Goto, SameRun
  <1>11. ASSUME NEW k \in Kinds, Drop(r, k) \/ DropFails(r, k) PROVE SameRun(q)
    BY <1>1, <1>11 DEF Drop, DropFails, DropTempFile, TypeOK, SameRun
  <1> QED
    BY <1>2, <1>3, <1>4, <1>5, <1>6, <1>7, <1>8, <1>9, <1>10, <1>11, <1>12, <1>13 DEF RunStep

-----------------------------------------------------------------------------
(* What a run has published fits where it stands.                          *)

\* A step of a run keeps what its place in the program says of it.
LEMMA StepRunInv ==
  ASSUME TypeOK, NEW r \in Runs, RunInv(r), RunStep(r) \/ Crash(r)
  PROVE  RunInv(r)'
  <1> USE DEF RunInv, StartingInv, FillingInv, MainMoveInv, ErrsMoveInv, EndingInv, OwesErrs,
              Main, Errs, Destination, Starting, Filling, Moving, Moved, Open, Goto, Fail
  <1>0. TypeOK /\ which[r] \in {"main", "errs"}
    BY DEF TypeOK, Kinds
  <1>1. CASE RefuseCollision(r) \/ PassCollision(r) \/ PreflightTaken(r) \/ PreflightFree(r)
    BY <1>0, <1>1 DEF RefuseCollision, PassCollision, PreflightTaken, PreflightFree, TypeOK
  <1>2. CASE CreateTemp(r)
    BY <1>0, <1>2, ConstantsAssumption
    DEF CreateTemp, TypeOK, NoTemp, Kinds, ConstantsAssumption
  <1>3. CASE RetryTemp(r)
    BY <1>3 DEF RetryTemp, TypeOK
  <1>4. CASE CreateFails(r) \/ StreamFails(r) \/ FlushFails(r)
    BY <1>0, <1>4 DEF CreateFails, StreamFails, FlushFails, TypeOK, Streaming
  <1>5. CASE RenameFails(r) \/ LinkRefused(r) \/ ReserveFails(r) \/ Unreserve(r)
             \/ UnreserveFails(r)
    BY <1>0, <1>5 DEF RenameFails, LinkRefused, ReserveFails, Unreserve, UnreserveFails, TypeOK
  <1>6. ASSUME NEW k \in Kinds, WriteRow(r, k) PROVE RunInv(r)'
    BY <1>0, <1>6 DEF WriteRow, TypeOK, Streaming, Kinds
  <1>7. CASE FirstErrorRow(r) \/ StreamEnds(r) \/ PartialSyncLoss(r)
    BY <1>0, <1>7 DEF FirstErrorRow, StreamEnds, PartialSyncLoss, Finishing, TypeOK, Streaming
  <1>8. CASE Flush(r)
    BY <1>0, <1>8 DEF Flush, TypeOK, FirstPart
  <1>9. CASE RenameOver(r)
    BY <1>0, <1>9
    DEF RenameOver, PublishTemp, Target, NextCommit, NoTemp, FirstPart, OtherPart, TypeOK, Kinds
  <1>10. ASSUME PublishTemp(r), Goto(r, "unlink"), pc[r] \in Moving,
                UNCHANGED <<opts, which, temp, rows, lost>>
         PROVE  RunInv(r)'
    <2>1. published'[r] = published[r] \union {Destination(r, which[r])}
      BY <1>10 DEF PublishTemp, Target, TypeOK
    <2>2. pc'[r] = "unlink"
      BY <1>10 DEF TypeOK
    <2> QED
      BY <1>0, <1>10, <2>1, <2>2
  <1>11. CASE LinkUnavailable(r) \/ Reserve(r) \/ RenameReservedFails(r)
    BY <1>0, <1>11 DEF LinkUnavailable, Reserve, RenameReservedFails, TypeOK
  <1>12. CASE UnlinkTemp(r) \/ RedropFails(r)
    <2>1. pc[r] \in Moved /\ NextCommit(r) /\ UNCHANGED <<opts, rows, lost, published>>
      BY <1>12 DEF UnlinkTemp, RedropFails
    <2> QED
      BY <1>0, <2>1 DEF NextCommit, NoTemp, FirstPart, OtherPart, TypeOK, Kinds
  <1>13. CASE UnlinkFails(r)
    BY <1>0, <1>13 DEF UnlinkFails, TypeOK
  <1>14. ASSUME NEW k \in Kinds, Drop(r, k) \/ DropFails(r, k) PROVE RunInv(r)'
    BY <1>0, <1>14 DEF Drop, DropFails, TypeOK
  <1>15. CASE ReturnErr(r)
    BY <1>15 DEF ReturnErr, TypeOK
  <1>16. CASE Crash(r)
    BY <1>0, <1>16 DEF Crash, TypeOK, Terminal, PCs
  <1> HIDE DEF RunInv
  <1> QED
    BY <1>1, <1>2, <1>3, <1>4, <1>5, <1>6, <1>7, <1>8, <1>9, <1>10, <1>11, <1>12, <1>13,
       <1>14, <1>15, <1>16
    DEF RunStep, HardLink, RenameReserved

-----------------------------------------------------------------------------
(* The temp files hold what their run wrote.                               *)

\* What TempInv says of one file, with the run's rows made explicit.
OwnFile(f, r, k) == f.tag = "csv" /\ f.by = r /\ f.part = k

\* Held temps whose rows are all on disk.
Flushed(r, k) ==
  pc[r] \in Moving \union Moved \/ (pc[r] = "finish" /\ which[r] # k /\ k = "errs")

\* A step that leaves a temp and the run's row count alone keeps TempInv, if
\* it puts the run nowhere new.
LEMMA TempKept ==
  ASSUME TypeOK, NEW r \in Runs, NEW k \in Kinds, TempInv(r, k),
         Held(r, k)' => Held(r, k),
         Held(r, k)' /\ Flushed(r, k)' => Flushed(r, k),
         Held(r, k)' => temp'[r][k] = temp[r][k] /\ rows'[r][k] = rows[r][k]
                          /\ tmp'[TempOf(r, k)] = tmp[TempOf(r, k)]
  PROVE  TempInv(r, k)'
  BY DEF TempInv, Flushed, TempOf, Whole

\* Writing one temp leaves the run's other temp alone.
LEMMA TempUpdate ==
  ASSUME TypeOK, NEW r \in Runs, NEW j \in Kinds, Open(r, j), NEW f,
         tmp' = [tmp EXCEPT ![TempOf(r, j)] = f]
  PROVE  \A k \in Kinds \ {j} : tmp'[TempOf(r, k)] = tmp[TempOf(r, k)]
  <1>1. TempOf(r, j) \in Temps
    BY TempNames
  <1>2. \A k \in Kinds \ {j} : TempOf(r, k) # TempOf(r, j)
    BY DEF TempOf
  <1> QED
    BY <1>1, <1>2 DEF TypeOK

\* A step of a run keeps what is known of its temps.
LEMMA StepTempInv ==
  ASSUME TypeOK, NEW r \in Runs, RunInv(r), RunStep(r) \/ Crash(r),
         \A k \in Kinds : TempInv(r, k),
         NEW k \in Kinds
  PROVE  TempInv(r, k)'
  <1>0. TypeOK /\ which[r] \in {"main", "errs"} /\ k \in {"main", "errs"} /\ TempInv(r, k)
    BY DEF TypeOK, Kinds
  <1>1. ASSUME ~Held(r, k)' PROVE TempInv(r, k)'
    BY <1>1 DEF TempInv
  <1>2. CASE RefuseCollision(r) \/ PassCollision(r) \/ PreflightTaken(r) \/ PreflightFree(r)
             \/ CreateFails(r) \/ StreamFails(r) \/ FlushFails(r)
             \/ RenameFails(r) \/ LinkRefused(r) \/ ReserveFails(r) \/ ReturnErr(r) \/ Crash(r)
    <2>1. ~Held(r, k)'
      BY <1>0, <1>2
      DEF RefuseCollision, PassCollision, PreflightTaken, PreflightFree, CreateFails,
          StreamFails, FlushFails, RenameFails, LinkRefused, ReserveFails, ReturnErr, Crash,
          Fail, Goto, Held, Filling, Moving, Moved, TypeOK, Terminal, RunInv, StartingInv,
          Starting, Open
    <2> QED
      BY <1>1, <2>1
  <1>3. CASE CreateTemp(r)
    <2>1. CASE which[r] = k
      <3>1. temp'[r][k] = attempt[r] /\ <<r, k, attempt[r]>> \in Temps
        BY <1>3, <2>1 DEF CreateTemp, TypeOK, Temps
      <3>2. tmp'[TempOf(r, k)'] = Csv(r, k, 0)
        BY <1>3, <2>1, <3>1 DEF CreateTemp, TypeOK, TempOf
      <3>3. ~Flushed(r, k)'
        BY <1>3 DEF CreateTemp, Flushed, Goto, TypeOK, Moving, Moved
      <3> QED
        BY <3>2, <3>3 DEF TempInv, Flushed, Csv
    <2>2. CASE which[r] # k
      <3>1. temp'[r][k] = temp[r][k] /\ rows'[r][k] = rows[r][k] /\ pc'[r] = "stream"
        BY <1>3, <2>2 DEF CreateTemp, TypeOK, Goto
      <3>2. tmp'[TempOf(r, k)] = tmp[TempOf(r, k)]
        BY <1>3, <2>2 DEF CreateTemp, TypeOK, TempOf, Temps
      <3>3. Held(r, k)' => Held(r, k)
        BY <1>0, <1>3, <2>2, <3>1
        DEF CreateTemp, Held, Open, Filling, RunInv, StartingInv, Starting
      <3>4. ~Flushed(r, k)'
        BY <3>1 DEF Flushed, Moving, Moved
      <3> QED
        BY <1>0, <3>1, <3>2, <3>3, <3>4, TempKept
    <2> QED
      BY <2>1, <2>2
  <1>4. CASE RetryTemp(r) \/ FirstErrorRow(r) \/ StreamEnds(r) \/ PartialSyncLoss(r)
    <2>1. UNCHANGED <<temp, rows, tmp>>
      BY <1>4 DEF RetryTemp, FirstErrorRow, StreamEnds, PartialSyncLoss
    <2>2. Held(r, k)' => Held(r, k)
      BY <1>0, <1>4, <2>1
      DEF RetryTemp, FirstErrorRow, StreamEnds, PartialSyncLoss, Streaming, Finishing, Goto,
          Held, Open, Filling, Moving, Moved, TypeOK
    <2>3. Held(r, k)' => ~Flushed(r, k)'
      BY <1>0, <1>4, <2>1
      DEF RetryTemp, FirstErrorRow, StreamEnds, PartialSyncLoss, Streaming, Finishing, Goto,
          Held, Open, Flushed, Moving, Moved, TypeOK
    <2> QED
      BY <1>0, <2>1, <2>2, <2>3, TempKept
  <1>5. ASSUME NEW j \in Kinds, WriteRow(r, j) PROVE TempInv(r, k)'
    <2>1. PICK n \in tmp[TempOf(r, j)].rows .. rows[r][j] + 1 :
                 tmp' = [tmp EXCEPT ![TempOf(r, j)] = Csv(r, j, n)]
      BY <1>5 DEF WriteRow
    <2>2. Open(r, j) /\ pc'[r] = "stream" /\ UNCHANGED <<pc, which, temp>>
      BY <1>5 DEF WriteRow, Streaming
    <2>3. ~Flushed(r, k)'
      BY <2>2 DEF Flushed, Moving, Moved
    <2>4. CASE j = k
      <3>1. tmp'[TempOf(r, k)'] = Csv(r, k, n)
        <4>1. tmp'[TempOf(r, j)] = Csv(r, j, n)
          BY <1>0, <2>1, <2>2, TempNames DEF TypeOK
        <4> QED
          BY <2>2, <2>4, <4>1 DEF TempOf
      <3> QED
        BY <2>3, <3>1 DEF TempInv, Flushed, Csv
    <2>5. CASE j # k
      <3>1. tmp'[TempOf(r, k)] = tmp[TempOf(r, k)] /\ rows'[r][k] = rows[r][k]
        <4>1. tmp'[TempOf(r, k)] = tmp[TempOf(r, k)]
          BY <1>0, <1>5, <2>1, <2>2, <2>5, TempUpdate DEF Kinds
        <4> QED
          BY <1>5, <2>5, <4>1 DEF WriteRow, TypeOK
      <3>2. Held(r, k)' => Held(r, k)
        BY <2>2 DEF Held, Open, Filling
      <3> QED
        BY <1>0, <2>2, <2>3, <3>1, <3>2, TempKept
    <2> QED
      BY <2>4, <2>5
  <1>6. CASE Flush(r)
    <2>1. Open(r, which[r])
      BY <1>6 DEF Flush, RunInv, FillingInv, Filling
    <2>2. /\ tmp' = [tmp EXCEPT ![TempOf(r, which[r])] = Csv(r, which[r], rows[r][which[r]])]
          /\ UNCHANGED <<temp, rows>>
      BY <1>6 DEF Flush
    <2>3. CASE which[r] = k
      <3>1. tmp'[TempOf(r, k)'] = Whole(r, k)'
        <4>1. tmp'[TempOf(r, which[r])] = Csv(r, which[r], rows[r][which[r]])
          BY <1>0, <2>1, <2>2, TempNames DEF TypeOK
        <4> QED
          BY <2>2, <2>3, <4>1 DEF TempOf, Whole
      <3> QED
        BY <3>1 DEF TempInv, Whole, Csv
    <2>4. CASE which[r] # k
      <3>1. tmp'[TempOf(r, k)] = tmp[TempOf(r, k)]
        BY <1>0, <2>1, <2>2, <2>4, TempUpdate DEF Kinds
      <3>2. Held(r, k)' => Held(r, k)
        BY <1>0, <1>6, <2>2 DEF Flush, Held, Open, Filling
      <3>3. Held(r, k)' /\ Flushed(r, k)' => Flushed(r, k)
        BY <1>0, <1>6, <2>4 DEF Flush, Flushed, Goto, TypeOK, Moving, Moved
      <3> QED
        BY <1>0, <2>2, <3>1, <3>2, <3>3, TempKept
    <2> QED
      BY <2>3, <2>4
  <1>7. CASE LinkUnavailable(r) \/ Reserve(r) \/ RenameReservedFails(r) \/ UnlinkFails(r)
             \/ HardLink(r)
    <2>1. UNCHANGED <<temp, rows, tmp, which>> /\ pc[r] \in Moving \union Moved
      BY <1>7 DEF LinkUnavailable, Reserve, RenameReservedFails, UnlinkFails, HardLink, Moving, Moved
    <2>2. Held(r, k)' => Held(r, k)
      BY <1>0, <1>7, <2>1
      DEF LinkUnavailable, Reserve, RenameReservedFails, UnlinkFails, HardLink, Goto,
          Held, Open, Filling, Moving, Moved, TypeOK
    <2>3. Flushed(r, k)
      BY <2>1 DEF Flushed
    <2> QED
      BY <1>0, <2>1, <2>2, <2>3, TempKept
  <1>8. CASE Unreserve(r) \/ UnreserveFails(r)
    <2>1. ~Held(r, k)'
      BY <1>0, <1>8
      DEF Unreserve, UnreserveFails, Fail, Goto, Held, Filling, Moving, Moved, TypeOK
    <2> QED
      BY <1>1, <2>1
  <1>9. CASE RenameReserved(r)
    <2>1. pc'[r] = "unlink" /\ pc[r] \in Moving /\ UNCHANGED <<which, temp, rows>>
      BY <1>9 DEF RenameReserved, Goto, TypeOK, Moving
    <2>2. CASE which[r] = k
      BY <1>1, <2>1, <2>2 DEF Held, Filling, Moving
    <2>3. CASE which[r] # k
      <3>1. tmp'[TempOf(r, k)] = tmp[TempOf(r, k)]
        BY <1>0, <1>9, <2>1, <2>3, TempUpdate, MovingOpen DEF RenameReserved, DropTempFile, Kinds
      <3>2. Flushed(r, k) /\ (Held(r, k)' => Held(r, k))
        BY <2>1 DEF Flushed, Held, Open
      <3> QED
        BY <1>0, <2>1, <3>1, <3>2, TempKept
    <2> QED
      BY <2>2, <2>3
  <1>10. CASE RenameOver(r) \/ UnlinkTemp(r) \/ RedropFails(r)
    <2>1. NextCommit(r) /\ pc[r] \in Moving \union Moved /\ rows' = rows
      BY <1>10 DEF RenameOver, UnlinkTemp, RedropFails, Moving, Moved
    <2>2. CASE which[r] = k
      <3>1. ~Open(r, k)'
        BY <2>1, <2>2 DEF NextCommit, Open, TypeOK
      <3> QED
        BY <1>1, <3>1 DEF Held
    <2>3. CASE which[r] # k
      <3>1. tmp'[TempOf(r, k)] = tmp[TempOf(r, k)]
        BY <1>0, <1>10, <2>1, <2>3, TempUpdate, MovingOpen
        DEF RenameOver, UnlinkTemp, RedropFails, DropTempFile, Kinds
      <3>2. temp'[r][k] = temp[r][k]
        BY <2>1, <2>3 DEF NextCommit, TypeOK
      <3>3. Flushed(r, k) /\ (Held(r, k)' => Held(r, k))
        BY <2>1, <2>3, <3>2 DEF Flushed, Held, Open
      <3> QED
        BY <1>0, <2>1, <3>1, <3>2, <3>3, TempKept
    <2> QED
      BY <2>2, <2>3
  <1>11. ASSUME NEW j \in Kinds, Drop(r, j) \/ DropFails(r, j) PROVE TempInv(r, k)'
    <2>1. ~Held(r, k)'
      BY <1>0, <1>11 DEF Drop, DropFails, Held, Filling, Moving, Moved, TypeOK
    <2> QED
      BY <1>1, <2>1
  <1> QED
    BY <1>2, <1>3, <1>4, <1>5, <1>6, <1>7, <1>8, <1>9, <1>10, <1>11 DEF RunStep

-----------------------------------------------------------------------------
(* Commit targets hold whole files.                                        *)

\* A run that has published writes no more rows, and nothing is unpublished.
LEMMA RowsSettled ==
  ASSUME TypeOK, NEW r \in Runs, RunInv(r), RunStep(r) \/ Crash(r)
  PROVE  /\ published[r] \subseteq published'[r]
         /\ published[r] # {} => rows'[r] = rows[r]
  <1>0. TypeOK
    OBVIOUS
  <1>1. CASE CreateTemp(r)
    BY <1>0, <1>1 DEF CreateTemp, TypeOK, Kinds, RunInv, StartingInv, FillingInv, Starting, Filling
  <1>2. ASSUME NEW k \in Kinds, WriteRow(r, k)
        PROVE  published[r] \subseteq published'[r] /\ published[r] = {}
    BY <1>2 DEF WriteRow, Streaming, RunInv, FillingInv, Filling
  <1>3. CASE RenameOver(r) \/ HardLink(r) \/ RenameReserved(r)
    BY <1>0, <1>3 DEF RenameOver, HardLink, RenameReserved, PublishTemp, TypeOK
  <1>4. ASSUME NEW k \in Kinds, Drop(r, k) \/ DropFails(r, k)
        PROVE  UNCHANGED <<published, rows>>
    BY <1>4 DEF Drop, DropFails
  <1> QED
    BY <1>1, <1>2, <1>3, <1>4
    DEF RunStep, RefuseCollision, PassCollision, PreflightTaken, PreflightFree, RetryTemp,
        CreateFails, FirstErrorRow, StreamEnds, PartialSyncLoss, StreamFails, Flush, FlushFails,
        RenameFails, LinkRefused, LinkUnavailable, Reserve, ReserveFails, RenameReservedFails,
        Unreserve, UnreserveFails, UnlinkTemp, UnlinkFails, RedropFails, ReturnErr, Crash

\* The steps of a run that change the directory's targets.
TouchesTarget(r) ==
  RenameOver(r) \/ HardLink(r) \/ Reserve(r) \/ RenameReserved(r) \/ Unreserve(r)

\* Only the publishing steps change a target.
LEMMA TargetsStep ==
  ASSUME NEW r \in Runs, RunStep(r) \/ Crash(r)
  PROVE  dest' = dest \/ TouchesTarget(r)
  <1>1. ASSUME NEW k \in Kinds, WriteRow(r, k) \/ Drop(r, k) \/ DropFails(r, k) PROVE dest' = dest
    BY <1>1 DEF WriteRow, Drop, DropFails
  <1> QED
    BY <1>1
    DEF RunStep, TouchesTarget, RefuseCollision, PassCollision, PreflightTaken, PreflightFree,
        CreateTemp, RetryTemp, CreateFails, FirstErrorRow, StreamEnds, PartialSyncLoss,
        StreamFails, Flush, FlushFails, RenameFails, LinkRefused, LinkUnavailable, ReserveFails,
        RenameReservedFails, UnreserveFails, UnlinkTemp, UnlinkFails, RedropFails, ReturnErr,
        Crash

\* Such a step changes one target, the one the run is committing.
LEMMA OneTarget ==
  ASSUME TypeOK, NEW r \in Runs, TouchesTarget(r)
  PROVE  /\ pc[r] \in Moving
         /\ \A t \in Targets : t # Target(r) => dest'[t] = dest[t]
         /\ PublishTemp(r) \/ dest'[Target(r)].tag # "csv"
         /\ UNCHANGED <<rows, lost, opts>>
  <1>0. TypeOK /\ Target(r) \in Targets
    BY TargetType
  <1>1. CASE RenameOver(r) \/ HardLink(r) \/ RenameReserved(r)
    BY <1>0, <1>1 DEF RenameOver, HardLink, RenameReserved, PublishTemp, TypeOK, Moving
  <1>2. CASE Reserve(r) \/ Unreserve(r)
    BY <1>0, <1>2 DEF Reserve, Unreserve, Reservation, Absent, TypeOK, Moving
  <1> QED
    BY <1>1, <1>2 DEF TouchesTarget

\* A step publishes whole files only.
LEMMA StepWhole ==
  ASSUME IInv, NEW r \in Runs, RunStep(r) \/ Crash(r)
  PROVE  WholeAtTargets'
  <1>0. TypeOK /\ RunInv(r) /\ (\A k \in Kinds : TempInv(r, k)) /\ WholeAtTargets
    BY DEF IInv
  <1> SUFFICES ASSUME NEW t \in Targets, dest'[t].tag = "csv"
               PROVE  \E q \in Runs : dest'[t] = Whole(q, t.part)' /\ t \in published'[q]
    BY DEF WholeAtTargets
  <1>1. CASE dest'[t] = dest[t]
    <2>1. PICK q \in Runs : dest[t] = Whole(q, t.part) /\ t \in published[q]
      BY <1>0, <1>1 DEF WholeAtTargets
    <2>2. published[q] \subseteq published'[q] /\ rows'[q] = rows[q]
      BY <1>0, <2>1, RowsSettled, StepFrame DEF SameRun
    <2> QED
      BY <1>1, <2>1, <2>2 DEF Whole
  <1>2. CASE dest'[t] # dest[t]
    <2>1. TouchesTarget(r)
      BY <1>2, TargetsStep
    <2>2. pc[r] \in Moving /\ t = Target(r) /\ PublishTemp(r) /\ rows' = rows
      BY <1>0, <1>2, <2>1, OneTarget
    <2>3. which[r] \in Kinds /\ t.part = which[r]
      BY <1>0, <2>2 DEF TypeOK, Target, Destination
    <2>4. Open(r, which[r])
      BY <1>0, <2>2, MovingOpen
    <2>5. tmp[TempOf(r, which[r])] = Whole(r, which[r])
      BY <1>0, <2>2, <2>3, <2>4 DEF TempInv, Held
    <2>6. dest'[t] = Whole(r, t.part)' /\ t \in published'[r]
      BY <1>0, <2>2, <2>3, <2>5 DEF PublishTemp, Whole, TypeOK
    <2> QED
      BY <2>6
  <1> QED
    BY <1>1, <1>2

-----------------------------------------------------------------------------
(* The invariant and what follows from it.                                 *)

\* The initial state: nothing is begun.
LEMMA InitIInv == Init => IInv
  <1> SUFFICES ASSUME Init PROVE IInv
    OBVIOUS
  <1>1. TypeOK
    BY ConstantsAssumption, FileTypes
    DEF Init, TypeOK, PCs, Terminal, Kinds, NoTemp, ConstantsAssumption
  <1>2. \A r \in Runs : RunInv(r)
    BY DEF Init, RunInv, StartingInv, FillingInv, MainMoveInv, ErrsMoveInv, EndingInv, Starting,
           Filling, Moving, Moved, Open, NoTemp, Kinds
  <1>3. \A r \in Runs, k \in Kinds : TempInv(r, k)
    BY DEF Init, TempInv, Held, Open, NoTemp
  <1>4. WholeAtTargets
    BY DEF Init, WholeAtTargets, Foreign, Absent
  <1> QED
    BY <1>1, <1>2, <1>3, <1>4 DEF IInv

\* Every step keeps the invariant.
LEMMA NextIInv == IInv /\ [Next]_vars => IInv'
  <1> SUFFICES ASSUME IInv, [Next]_vars PROVE IInv'
    OBVIOUS
  <1>0. TypeOK /\ (\A r \in Runs : RunInv(r)) /\ (\A r \in Runs, k \in Kinds : TempInv(r, k))
          /\ WholeAtTargets
    BY DEF IInv
  <1>1. ASSUME NEW r \in Runs, RunStep(r) \/ Crash(r) PROVE IInv'
    <2>1. TypeOK'
      BY <1>0, <1>1, StepTypeOK
    <2>2. ASSUME NEW q \in Runs, q # r
          PROVE  RunInv(q)' /\ \A k \in Kinds : TempInv(q, k)'
      <3>1. SameRun(q) /\ RunInv(q) /\ \A k \in Kinds : TempInv(q, k)
        BY <1>0, <1>1, <2>2, StepFrame
      <3>2. RunInv(q)'
        BY <3>1
        DEF SameRun, RunInv, StartingInv, FillingInv, MainMoveInv, ErrsMoveInv, EndingInv,
            Starting, Filling, OwesErrs, Main, Errs, Destination, Open, Kinds
      <3>3. ASSUME NEW k \in Kinds PROVE TempInv(q, k)'
        <4>1. Open(q, k)' = Open(q, k) /\ Held(q, k)' = Held(q, k)
          BY <3>1 DEF SameRun, Open, Held, Filling
        <4>2. ASSUME Held(q, k) PROVE tmp'[TempOf(q, k)'] = tmp[TempOf(q, k)]
          <5>1. TempOf(q, k) \in Temps
            BY <1>0, <4>2, TempNames DEF Held
          <5> QED
            BY <3>1, <5>1 DEF SameRun, TempOf, Temps
        <4> QED
          BY <3>1, <4>1, <4>2 DEF SameRun, TempInv, Whole
      <3> QED
        BY <3>2, <3>3
    <2>3. RunInv(r)'
      BY <1>0, <1>1, StepRunInv
    <2>4. \A k \in Kinds : TempInv(r, k)'
      BY <1>0, <1>1, StepTempInv
    <2>5. WholeAtTargets'
      BY <1>1, StepWhole
    <2> QED
      BY <2>1, <2>2, <2>3, <2>4, <2>5 DEF IInv
  <1>2. ASSUME UNCHANGED <<opts, pc, which, attempt, temp, rows, lost, tmp, published, faults>>
        PROVE  /\ \A r \in Runs : RunInv(r)'
               /\ \A r \in Runs, k \in Kinds : TempInv(r, k)'
    <2>1. ASSUME NEW r \in Runs PROVE RunInv(r)'
      <3>1. RunInv(r)
        BY <1>0
      <3> QED
        BY <1>2, <3>1
        DEF RunInv, StartingInv, FillingInv, MainMoveInv, ErrsMoveInv, EndingInv, Starting,
            Filling, OwesErrs, Main, Errs, Destination, Open
    <2>2. \A r \in Runs, k \in Kinds : TempInv(r, k)'
      BY <1>0, <1>2 DEF TempInv, Held, Filling, Open, TempOf, Whole
    <2> QED
      BY <2>1, <2>2
  <1>3. ASSUME NEW t \in ForeignTargets, ForeignCreate(t) PROVE IInv'
    <2>1. TypeOK'
      BY <1>0, <1>3, FileTypes DEF ForeignCreate, TypeOK
    <2>2. WholeAtTargets'
      BY <1>0, <1>3 DEF ForeignCreate, WholeAtTargets, Whole, Foreign, TypeOK
    <2> QED
      BY <1>2, <1>3, <2>1, <2>2 DEF IInv, ForeignCreate
  <1>4. CASE UNCHANGED vars
    <2>1. TypeOK' /\ WholeAtTargets'
      BY <1>0, <1>4 DEF vars, TypeOK, WholeAtTargets, Whole
    <2> QED
      BY <1>2, <1>4, <2>1 DEF IInv, vars
  <1> QED
    BY <1>1, <1>3, <1>4 DEF Next

\* What each run holds open, owes and has published fits where it stands, its
\* temps are its own, and the targets hold whole files.
THEOREM Invariance == Spec => []IInv
  BY InitIInv, NextIInv, PTL DEF Spec

\* Every variable keeps its type, so no commit moves a temp that is not there.
THEOREM TypeCorrect == Spec => []TypeOK
  <1>1. IInv => TypeOK
    BY DEF IInv
  <1> QED
    BY <1>1, Invariance, PTL

\* L2-WRT-015: whatever interleaves, fails or is killed, a commit target never
\* shows a decoder's file that is not the complete output of one run.
THEOREM TargetsAreWhole == Spec => []WholeAtTargets
  <1>1. IInv => WholeAtTargets
    BY DEF IInv
  <1> QED
    BY <1>1, Invariance, PTL

\* L2-WRT-019: a run publishes only what it owes, its main output first, and
\* returns Ok exactly when it has published everything.
THEOREM OutcomesAreHonest == Spec => []OutcomeHonest
  <1>1. ASSUME IInv PROVE OutcomeHonest
    <2> SUFFICES ASSUME NEW r \in Runs
                 PROVE  /\ published[r] \subseteq Owed(r)
                        /\ published[r] # {} => Main(r) \in published[r]
                        /\ pc[r] = "ok" => published[r] = Owed(r)
                        /\ pc[r] = "failed" => published[r] # Owed(r)
      BY DEF OutcomeHonest, Main
    <2>1. /\ Main(r) \in Owed(r)
          /\ Owed(r) \subseteq {Main(r), Errs(r)}
          /\ Errs(r) \in Owed(r) <=> OwesErrs(r)
          /\ Errs(r) # Main(r)
      <3>1. lost[r] \in BOOLEAN
        BY <1>1 DEF IInv, TypeOK
      <3> QED
        BY <3>1 DEF Main, Errs, Owed, OwesErrs, Destination, Targets, Kinds
    <2>2. RunInv(r) /\ pc[r] \in PCs /\ which[r] \in {"main", "errs"}
      BY <1>1 DEF IInv, TypeOK, Kinds
    <2>3. \/ published[r] \in {{}, {Main(r)}}
          \/ published[r] = {Main(r), Errs(r)} /\ OwesErrs(r)
      BY <2>2
      DEF RunInv, StartingInv, FillingInv, MainMoveInv, ErrsMoveInv, EndingInv, Starting, Filling,
          Moving, Moved, PCs, Terminal
    <2>4. /\ pc[r] = "ok" => published[r] = IF OwesErrs(r) THEN {Main(r), Errs(r)} ELSE {Main(r)}
          /\ pc[r] = "failed" => published[r] = {} \/ (published[r] = {Main(r)} /\ OwesErrs(r))
      BY <2>2 DEF RunInv, EndingInv
    <2> QED
      BY <2>1, <2>3, <2>4
  <1> QED
    BY <1>1, Invariance, PTL

-----------------------------------------------------------------------------
(* Where hard links work, nothing is clobbered.                            *)

\* No run is in the fallback of commit_no_replace.
LinkPath == \A r \in Runs : pc[r] \notin {"reserve", "renameReserved", "unreserve"}

\* Where hard links work no run falls back to a reservation.
LEMMA StepLinkPath ==
  ASSUME ~LinkMayFail, TypeOK, LinkPath, [Next]_vars
  PROVE  LinkPath'
  <1>1. ASSUME NEW r \in Runs, RunStep(r) \/ Crash(r) PROVE LinkPath'
    <2>1. pc'[r] \notin {"reserve", "renameReserved", "unreserve"}
      <3>0. pc \in [Runs -> PCs] /\ pc[r] \notin {"reserve", "renameReserved", "unreserve"}
        BY DEF TypeOK, LinkPath
      <3>1. ASSUME NEW k \in Kinds, WriteRow(r, k) \/ Drop(r, k) \/ DropFails(r, k)
            PROVE  pc' = pc
        BY <3>1 DEF WriteRow, Drop, DropFails
      <3> QED
        BY <1>1, <3>0, <3>1
        DEF RunStep, RefuseCollision, PassCollision, PreflightTaken, PreflightFree, CreateTemp,
            RetryTemp, CreateFails, FirstErrorRow, StreamEnds, PartialSyncLoss, Finishing,
            StreamFails, Flush, FlushFails, RenameOver, RenameFails, HardLink, LinkRefused,
            LinkUnavailable, Reserve, ReserveFails, RenameReserved, RenameReservedFails,
            Unreserve, UnreserveFails, UnlinkTemp, UnlinkFails, RedropFails, ReturnErr, Crash,
            NextCommit, Fail, Goto
    <2>2. \A q \in Runs : q # r => pc'[q] = pc[q]
      BY <1>1, StepFrame DEF SameRun
    <2> QED
      BY <2>1, <2>2 DEF LinkPath
  <1>2. CASE UNCHANGED pc
    BY <1>2 DEF LinkPath
  <1> QED
    BY <1>1, <1>2 DEF Next, vars, ForeignCreate

\* L2-WRT-023 for every number of runs: where link(2) fails only on a taken
\* name, no step of a --no-clobber run changes or removes a file that stands
\* under a commit target.
THEOREM NothingClobbered == ~LinkMayFail /\ Spec => NoClobber
  <1> DEFINE Kept == \A r \in Runs : opts[r].noClobber /\ pc'[r] # pc[r] =>
                       \A t \in Targets :
                         \/ dest'[t] = dest[t]
                         \/ ~Exists(dest[t])
                         \/ dest[t].tag = "reserved" /\ dest[t].by = r
  <1>1. ASSUME ~LinkMayFail, IInv, LinkPath, [Next]_vars PROVE Kept \/ UNCHANGED vars
    <2>0. TypeOK /\ \A r \in Runs : RunInv(r)
      BY <1>1 DEF IInv
    <2>1. ASSUME NEW q \in Runs, RunStep(q) \/ Crash(q) PROVE Kept
      <3> SUFFICES ASSUME NEW r \in Runs, opts[r].noClobber, pc'[r] # pc[r],
                          NEW t \in Targets, dest'[t] # dest[t]
                   PROVE  ~Exists(dest[t])
        OBVIOUS
      <3>1. q = r
        BY <2>0, <2>1, StepFrame DEF SameRun
      <3>2. TouchesTarget(r)
        BY <2>1, <3>1, TargetsStep
      <3>3. HardLink(r)
        BY <1>1, <3>2 DEF TouchesTarget, LinkPath, RenameOver, Reserve, RenameReserved, Unreserve
      <3>4. t = Target(r)
        BY <2>0, <3>2, OneTarget
      <3> QED
        BY <3>3, <3>4 DEF HardLink
    <2>2. ASSUME NEW t \in ForeignTargets, ForeignCreate(t) PROVE Kept
      BY <2>2 DEF ForeignCreate
    <2> QED
      BY <1>1, <2>1, <2>2 DEF Next
  <1>2. Init => LinkPath
    BY DEF Init, LinkPath
  <1>3. ~LinkMayFail /\ IInv /\ LinkPath /\ [Next]_vars => LinkPath'
    BY StepLinkPath DEF IInv
  <1>4. ~LinkMayFail /\ IInv /\ LinkPath /\ [Next]_vars => [Kept]_vars
    BY <1>1
  <1>5. CASE ~LinkMayFail
    <2>1. IInv /\ LinkPath /\ [Next]_vars => LinkPath'
      BY <1>3, <1>5
    <2>2. IInv /\ LinkPath /\ [Next]_vars => [Kept]_vars
      BY <1>4, <1>5
    <2> QED
      BY <1>2, <2>1, <2>2, Invariance, PTL DEF Spec, NoClobber
  <1> QED
    BY <1>5


-----------------------------------------------------------------------------
(* The inductive invariant, on top of IInv.                                *)

\* remove_file has failed often enough for a temp of run r to be left behind.
MayLeak(r) ==
  \/ faults[r] >= 2
  \/ faults[r] >= 1 /\ pc[r] \in {"failing", "failed", "crashed"}

\* The file under temp name n is one that run r still holds open.
HeldName(r, n) == \E k \in Kinds : Open(r, k) /\ n = TempOf(r, k)

ReclaimInv(r) ==
  /\ \A n \in Temps : tmp[n].by = r => HeldName(r, n) \/ MayLeak(r)
  /\ pc[r] = "redrop" => faults[r] >= 1
  /\ pc[r] \in {"ok", "failed"} => \A k \in Kinds : ~Open(r, k)

\* A run past the preflight has no input among the names it could commit.
ClearInv(r) ==
  /\ pc[r] \notin {"preflight", "failed", "crashed"} =>
       CommitTargets(opts[r]) \intersect opts[r].inputs = {}
  /\ lost[r] => opts[r].allowPartial

ReservedByRuns == \A t \in Targets : dest[t].tag = "reserved" => dest[t].by \in Runs

AllRefuse == \A r \in Runs : opts[r].noClobber

\* Run r between its reservation and the rename finds the reservation there.
ReservationStands(r) ==
  pc[r] \in {"renameReserved", "unreserve"} =>
    dest[Target(r)].tag = "reserved" /\ dest[Target(r)].by = r

\* What run r has published is there, and its own.
PublishedStands(r) == \A t \in published[r] : dest[t].tag = "csv" /\ dest[t].by = r

DirInv ==
  /\ \A r \in Runs : ReclaimInv(r)
  /\ \A r \in Runs : ClearInv(r)
  /\ ReservedByRuns /\ ReservationsAccounted
  /\ AllRefuse => \A r \in Runs : ReservationStands(r) /\ PublishedStands(r)

-----------------------------------------------------------------------------
(* What a step of run r does to the temp names and the fault counters.     *)

\* A step of run r leaves the options alone and puts no file of another run
\* under a temp name.
LEMMA TempWrites ==
  ASSUME TypeOK, NEW r \in Runs, RunStep(r) \/ Crash(r)
  PROVE  /\ opts' = opts
         /\ \A q \in Runs \ {r} :
              /\ faults'[q] = faults[q]
              /\ \A n \in Temps : tmp'[n].by = q => tmp[n].by = q
  <1>0. TypeOK /\ which[r] \in Kinds
    BY DEF TypeOK
  <1>1. ASSUME NEW m, NEW f, f.by \in {r, Nobody}, tmp' = [tmp EXCEPT ![m] = f]
        PROVE  \A q \in Runs \ {r} : \A n \in Temps : tmp'[n].by = q => tmp[n].by = q
    BY <1>1, ConstantsAssumption DEF TypeOK, ConstantsAssumption
  <1>2. Absent.by = Nobody /\ \A k, n : Csv(r, k, n).by = r
    BY DEF Absent, Csv
  <1>3. ASSUME NEW k \in Kinds, DropTempFile(r, k)
        PROVE  \A q \in Runs \ {r} : \A n \in Temps : tmp'[n].by = q => tmp[n].by = q
    <2>1. tmp' = [tmp EXCEPT ![TempOf(r, k)] = Absent] /\ Absent.by \in {r, Nobody}
      BY <1>2, <1>3 DEF DropTempFile
    <2> QED
      BY <1>0, <2>1, ConstantsAssumption DEF TypeOK, ConstantsAssumption
  <1>4. ASSUME NEW k \in Kinds, WriteRow(r, k)
        PROVE  /\ UNCHANGED <<opts, faults>>
               /\ \A q \in Runs \ {r} : \A n \in Temps : tmp'[n].by = q => tmp[n].by = q
    <2>1. PICK m, n : tmp' = [tmp EXCEPT ![m] = Csv(r, k, n)]
      BY <1>4 DEF WriteRow
    <2> QED
      BY <1>1, <1>2, <1>4, <2>1 DEF WriteRow
  <1>5. CASE CreateTemp(r) \/ Flush(r)
    <2>1. PICK m, n : tmp' = [tmp EXCEPT ![m] = Csv(r, which[r], n)]
      BY <1>5 DEF CreateTemp, Flush
    <2> QED
      BY <1>1, <1>2, <1>5, <2>1 DEF CreateTemp, Flush
  <1>6. CASE RenameOver(r) \/ RenameReserved(r) \/ UnlinkTemp(r)
    BY <1>0, <1>3, <1>6 DEF RenameOver, RenameReserved, UnlinkTemp
  <1>7. ASSUME NEW k \in Kinds, Drop(r, k) \/ DropFails(r, k)
        PROVE  /\ opts' = opts
               /\ \A q \in Runs \ {r} :
                    /\ faults'[q] = faults[q]
                    /\ \A n \in Temps : tmp'[n].by = q => tmp[n].by = q
    BY <1>0, <1>3, <1>7 DEF Drop, DropFails, TypeOK
  <1>8. CASE UnreserveFails(r) \/ UnlinkFails(r) \/ RedropFails(r)
    BY <1>0, <1>8 DEF UnreserveFails, UnlinkFails, RedropFails, TypeOK
  <1> QED
    BY <1>4, <1>5, <1>6, <1>7, <1>8
    DEF RunStep, RefuseCollision, PassCollision, PreflightTaken, PreflightFree, RetryTemp,
        CreateFails, FirstErrorRow, StreamEnds, PartialSyncLoss, StreamFails, FlushFails,
        RenameFails, HardLink, LinkRefused, LinkUnavailable, Reserve, ReserveFails,
        RenameReservedFails, Unreserve, ReturnErr, Crash

\* Failed unlinks are never forgotten, and a failing run only goes on to end.
LEMMA LeakStays ==
  ASSUME TypeOK, NEW r \in Runs, RunStep(r) \/ Crash(r), MayLeak(r)
  PROVE  MayLeak(r)'
  <1>0. TypeOK /\ faults[r] \in Nat
    BY DEF TypeOK
  <1>1. CASE UnreserveFails(r) \/ UnlinkFails(r) \/ RedropFails(r)
    BY <1>0, <1>1
    DEF UnreserveFails, UnlinkFails, RedropFails, MayLeak, TypeOK, Fail, Goto, NextCommit
  <1>2. ASSUME NEW k \in Kinds, Drop(r, k) \/ DropFails(r, k) \/ WriteRow(r, k)
        PROVE  MayLeak(r)'
    BY <1>0, <1>2 DEF Drop, DropFails, WriteRow, MayLeak, TypeOK
  <1>3. CASE ReturnErr(r) \/ Crash(r)
    BY <1>0, <1>3 DEF ReturnErr, Crash, MayLeak, TypeOK, Goto
  <1>4. ASSUME pc[r] \notin {"failing", "failed", "crashed"}, UNCHANGED faults
        PROVE  MayLeak(r)'
    BY <1>4 DEF MayLeak
  <1> QED
    BY <1>1, <1>2, <1>3, <1>4
    DEF RunStep, RefuseCollision, PassCollision, PreflightTaken, PreflightFree, CreateTemp,
        RetryTemp, CreateFails, FirstErrorRow, StreamEnds, PartialSyncLoss, StreamFails, Flush,
        FlushFails, Streaming, RenameOver, RenameFails, HardLink, LinkRefused, LinkUnavailable,
        Reserve, ReserveFails, RenameReserved, RenameReservedFails, Unreserve, UnlinkTemp

-----------------------------------------------------------------------------
(* Temps are reclaimed.                                                    *)

\* A step after which run r holds what it held leaks nothing.
LEMMA NamesKept ==
  ASSUME TypeOK, NEW r \in Runs, RunStep(r) \/ Crash(r), ReclaimInv(r),
         temp'[r] = temp[r],
         \A n \in Temps : tmp'[n].by = r => tmp[n].by = r \/ HeldName(r, n)
  PROVE  \A n \in Temps : tmp'[n].by = r => HeldName(r, n)' \/ MayLeak(r)'
  <1>1. \A n \in Temps : tmp'[n].by = r => HeldName(r, n) \/ MayLeak(r)
    BY DEF ReclaimInv
  <1>2. \A n : HeldName(r, n) => HeldName(r, n)'
    BY DEF HeldName, Open, TempOf
  <1> QED
    BY <1>1, <1>2, LeakStays

\* A step after which run r no longer holds its file k leaks at most that one.
LEMMA NameDropped ==
  ASSUME TypeOK, NEW r \in Runs, RunStep(r) \/ Crash(r), ReclaimInv(r),
         NEW k \in Kinds, Open(r, k),
         temp' = [temp EXCEPT ![r][k] = NoTemp],
         DropTempFile(r, k) \/ (UNCHANGED tmp /\ MayLeak(r)')
  PROVE  \A n \in Temps : tmp'[n].by = r => HeldName(r, n)' \/ MayLeak(r)'
  <1> SUFFICES ASSUME NEW n \in Temps, tmp'[n].by = r, ~MayLeak(r)'
               PROVE  HeldName(r, n)'
    OBVIOUS
  <1>1. DropTempFile(r, k) /\ TempOf(r, k) \in Temps
    BY TempNames
  <1>2. n # TempOf(r, k) /\ tmp[n].by = r
    <2>1. tmp' = [tmp EXCEPT ![TempOf(r, k)] = Absent] /\ Absent.by # r
      BY <1>1, ConstantsAssumption DEF DropTempFile, Absent, ConstantsAssumption
    <2> QED
      BY <1>1, <2>1 DEF TypeOK
  <1>3. HeldName(r, n)
    BY <1>2, LeakStays DEF ReclaimInv
  <1>4. PICK j \in Kinds : Open(r, j) /\ n = TempOf(r, j)
    BY <1>3 DEF HeldName
  <1>5. j # k /\ temp'[r][j] = temp[r][j]
    BY <1>2, <1>4 DEF TypeOK
  <1> QED
    BY <1>4, <1>5 DEF HeldName, Open, TempOf

\* After a step of a run, the temps it owns are the ones it holds, or it may
\* leak them.
LEMMA StepNames ==
  ASSUME TypeOK, NEW r \in Runs, RunInv(r), ReclaimInv(r), RunStep(r) \/ Crash(r)
  PROVE  \A n \in Temps : tmp'[n].by = r => HeldName(r, n)' \/ MayLeak(r)'
  <1> DEFINE Goal == \A n \in Temps : tmp'[n].by = r => HeldName(r, n)' \/ MayLeak(r)'
  <1>0. TypeOK /\ which[r] \in Kinds
    BY DEF TypeOK
  <1>1. CASE CreateTemp(r)
    <2> DEFINE k == which[r]
               m == <<r, k, attempt[r]>>
    <2>1. ~Open(r, k)
      BY <1>1 DEF CreateTemp, RunInv, StartingInv, FillingInv, Starting, Filling, TypeOK, Kinds
    <2>2. temp'[r] = [temp[r] EXCEPT ![k] = attempt[r]] /\ attempt[r] # NoTemp
      BY <1>1, ConstantsAssumption DEF CreateTemp, TypeOK, NoTemp, ConstantsAssumption
    <2>3. ASSUME NEW n, n = m PROVE HeldName(r, n)'
      <3>1. temp'[r][k] = attempt[r]
        BY <1>0, <2>2 DEF TypeOK
      <3> QED
        BY <1>0, <2>2, <2>3, <3>1 DEF HeldName, Open, TempOf
    <2>4. ASSUME NEW n \in Temps, tmp'[n].by = r, n # m, HeldName(r, n) PROVE HeldName(r, n)'
      <3>1. PICK j \in Kinds : Open(r, j) /\ n = TempOf(r, j)
        BY <2>4 DEF HeldName
      <3>2. j # k /\ temp'[r][j] = temp[r][j]
        BY <2>1, <2>2, <3>1 DEF TypeOK
      <3> QED
        BY <3>1, <3>2 DEF HeldName, Open, TempOf
    <2>5. \A n \in Temps : n # m => tmp'[n] = tmp[n]
      BY <1>1 DEF CreateTemp, TypeOK
    <2>6. ASSUME NEW n \in Temps, tmp'[n].by = r, n # m PROVE HeldName(r, n)' \/ MayLeak(r)'
      <3>1. HeldName(r, n) \/ MayLeak(r)
        BY <2>5, <2>6 DEF ReclaimInv
      <3> QED
        BY <2>4, <2>6, <3>1, LeakStays
    <2> QED
      BY <2>3, <2>6
  <1>2. ASSUME NEW k \in Kinds, Open(r, k), temp' = temp,
               NEW f, tmp' = [tmp EXCEPT ![TempOf(r, k)] = f]
        PROVE  Goal
    <2>1. HeldName(r, TempOf(r, k))
      BY <1>2 DEF HeldName
    <2>2. \A n \in Temps : tmp'[n].by = r => tmp[n].by = r \/ HeldName(r, n)
      BY <1>2, <2>1 DEF TypeOK
    <2> QED
      BY <1>2, <2>2, NamesKept
  <1>3. ASSUME NEW k \in Kinds, WriteRow(r, k) PROVE Goal
    <2>1. Open(r, k) /\ temp' = temp /\ \E n : tmp' = [tmp EXCEPT ![TempOf(r, k)] = Csv(r, k, n)]
      BY <1>3 DEF WriteRow
    <2> QED
      BY <1>2, <2>1
  <1>4. CASE Flush(r) \/ RenameReserved(r)
    <2>1. Open(r, which[r])
      BY <1>4, MovingOpen DEF Flush, RenameReserved, RunInv, FillingInv, Filling, Moving
    <2>2. temp' = temp /\ \E f : tmp' = [tmp EXCEPT ![TempOf(r, which[r])] = f]
      BY <1>4 DEF Flush, RenameReserved, DropTempFile
    <2> QED
      BY <1>0, <1>2, <2>1, <2>2
  <1>5. CASE RenameOver(r) \/ UnlinkTemp(r) \/ RedropFails(r)
    <2>1. Open(r, which[r]) /\ temp' = [temp EXCEPT ![r][which[r]] = NoTemp]
      BY <1>5, MovingOpen
      DEF RenameOver, UnlinkTemp, RedropFails, NextCommit, Moving, Moved
    <2>2. DropTempFile(r, which[r]) \/ (UNCHANGED tmp /\ MayLeak(r)')
      <3>1. CASE RedropFails(r)
        BY <3>1 DEF RedropFails, ReclaimInv, MayLeak, TypeOK
      <3> QED
        BY <1>5, <3>1 DEF RenameOver, UnlinkTemp
    <2> QED
      BY <1>0, <2>1, <2>2, NameDropped
  <1>6. ASSUME NEW k \in Kinds, Drop(r, k) \/ DropFails(r, k) PROVE Goal
    <2>1. Open(r, k) /\ temp' = [temp EXCEPT ![r][k] = NoTemp]
      BY <1>6 DEF Drop, DropFails
    <2>2. DropTempFile(r, k) \/ (UNCHANGED tmp /\ MayLeak(r)')
      BY <1>6 DEF Drop, DropFails, MayLeak, TypeOK
    <2> QED
      BY <2>1, <2>2, NameDropped
  <1>7. ASSUME UNCHANGED <<temp, tmp>> PROVE Goal
    BY <1>7, NamesKept
  <1> QED
    BY <1>1, <1>3, <1>4, <1>5, <1>6, <1>7
    DEF RunStep, RefuseCollision, PassCollision, PreflightTaken, PreflightFree, RetryTemp,
        CreateFails, FirstErrorRow, StreamEnds, PartialSyncLoss, StreamFails, FlushFails,
        RenameFails, HardLink, LinkRefused, LinkUnavailable, Reserve, ReserveFails,
        RenameReservedFails, Unreserve, UnreserveFails, UnlinkFails, ReturnErr, Crash

\* A step of a run keeps its temps accounted for.
LEMMA StepReclaim ==
  ASSUME TypeOK, NEW r \in Runs, RunInv(r), ReclaimInv(r), RunStep(r) \/ Crash(r)
  PROVE  ReclaimInv(r)'
  <1>0. TypeOK /\ which[r] \in {"main", "errs"}
    BY DEF TypeOK, Kinds
  <1>1. pc'[r] = "redrop" => faults'[r] >= 1
    <2>1. ASSUME NEW k \in Kinds, WriteRow(r, k) \/ Drop(r, k) \/ DropFails(r, k)
          PROVE  pc'[r] # "redrop"
      BY <2>1 DEF WriteRow, Drop, DropFails, Streaming
    <2>2. CASE UnlinkFails(r)
      BY <1>0, <2>2 DEF UnlinkFails, TypeOK
    <2> QED
      BY <1>0, <2>1, <2>2
      DEF RunStep, RefuseCollision, PassCollision, PreflightTaken, PreflightFree, CreateTemp,
          RetryTemp, CreateFails, FirstErrorRow, StreamEnds, PartialSyncLoss, Finishing,
          StreamFails, Flush, FlushFails, RenameOver, RenameFails, HardLink, LinkRefused,
          LinkUnavailable, Reserve, ReserveFails, RenameReserved, RenameReservedFails,
          Unreserve, UnreserveFails, UnlinkTemp, RedropFails, ReturnErr, Crash,
          NextCommit, Fail, Goto, Streaming, TypeOK
  <1>2. ASSUME pc'[r] \in {"ok", "failed"} PROVE \A k \in Kinds : ~Open(r, k)'
    <2>1. CASE RenameOver(r) \/ UnlinkTemp(r) \/ RedropFails(r)
      <3>1. NextCommit(r) /\ pc[r] \in Moving \union Moved
        BY <2>1 DEF RenameOver, UnlinkTemp, RedropFails, Moving, Moved
      <3> QED
        BY <1>0, <1>2, <3>1
        DEF NextCommit, Goto, FirstPart, OtherPart, RunInv, ErrsMoveInv, Open, NoTemp, TypeOK, Kinds
    <2>2. CASE RefuseCollision(r) \/ PreflightTaken(r) \/ ReturnErr(r)
      BY <2>2
      DEF RefuseCollision, PreflightTaken, ReturnErr, RunInv, StartingInv, Starting, Open, Kinds
    <2>3. ASSUME NEW k \in Kinds, WriteRow(r, k) \/ Drop(r, k) \/ DropFails(r, k)
          PROVE  pc'[r] \notin {"ok", "failed"}
      BY <2>3 DEF WriteRow, Drop, DropFails, Streaming
    <2> QED
      BY <1>0, <1>2, <2>1, <2>2, <2>3
      DEF RunStep, PassCollision, PreflightFree, CreateTemp,
          RetryTemp, CreateFails, FirstErrorRow, StreamEnds, PartialSyncLoss, Finishing,
          StreamFails, Flush, FlushFails, RenameFails, HardLink, LinkRefused,
          LinkUnavailable, Reserve, ReserveFails, RenameReserved, RenameReservedFails,
          Unreserve, UnreserveFails, UnlinkFails, Crash, Fail, Goto, Streaming, TypeOK
  <1> QED
    BY <1>1, <1>2, StepNames DEF ReclaimInv

-----------------------------------------------------------------------------
(* Inputs are not touched.                                                 *)

\* A step of a run keeps its inputs clear of the names it could commit, and loses
\* records only where a partial result is allowed.
LEMMA StepClear ==
  ASSUME TypeOK, NEW r \in Runs, ClearInv(r), RunStep(r) \/ Crash(r)
  PROVE  ClearInv(r)'
  <1>0. TypeOK /\ opts' = opts
    BY TempWrites
  <1>1. ASSUME NEW k \in Kinds, WriteRow(r, k) \/ Drop(r, k) \/ DropFails(r, k)
        PROVE  UNCHANGED <<pc, lost>> /\ pc[r] \notin {"preflight", "failed", "crashed"}
    BY <1>1 DEF WriteRow, Drop, DropFails, Streaming
  <1>2. CASE PartialSyncLoss(r)
    BY <1>0, <1>2 DEF PartialSyncLoss, Streaming, ClearInv, TypeOK
  <1>3. CASE RefuseCollision(r) \/ PassCollision(r) \/ Crash(r)
    BY <1>0, <1>3 DEF RefuseCollision, PassCollision, Crash, Goto, ClearInv, TypeOK
  <1>4. ASSUME lost' = lost, pc[r] \notin {"preflight", "failed", "crashed"} PROVE ClearInv(r)'
    BY <1>0, <1>4 DEF ClearInv
  <1> QED
    BY <1>1, <1>2, <1>3, <1>4
    DEF RunStep, PreflightTaken, PreflightFree, CreateTemp, RetryTemp, CreateFails,
        FirstErrorRow, StreamEnds, StreamFails, Flush, FlushFails, Streaming, RenameOver,
        RenameFails, HardLink, LinkRefused, LinkUnavailable, Reserve, ReserveFails,
        RenameReserved, RenameReservedFails, Unreserve, UnreserveFails, UnlinkTemp,
        UnlinkFails, RedropFails, ReturnErr

\* Where a run puts a file is a name its preflight compared with its inputs.
LEMMA TargetChecked ==
  ASSUME TypeOK, NEW r \in Runs, RunInv(r), ClearInv(r), pc[r] \in Moving
  PROVE  Target(r) \in CommitTargets(opts[r]) /\ Target(r) \notin opts[r].inputs
  <1>1. Target(r) \in Targets /\ Target(r).part = which[r] /\ Target(r).partial = lost[r]
    BY TargetType DEF Target, Destination
  <1>2. which[r] = "errs" => opts[r].split
    BY DEF RunInv, ErrsMoveInv, OwesErrs
  <1>3. Target(r) \in CommitTargets(opts[r])
    BY <1>1, <1>2 DEF CommitTargets, ClearInv
  <1>4. pc[r] \notin {"preflight", "failed", "crashed"}
    BY DEF Moving
  <1> QED
    BY <1>3, <1>4 DEF ClearInv

-----------------------------------------------------------------------------
(* Reservations.                                                           *)

\* What the step that touches a target leaves there.
LEMMA TouchedFile ==
  ASSUME IInv, NEW r \in Runs, TouchesTarget(r)
  PROVE  \/ /\ Reserve(r)
            /\ dest'[Target(r)].tag = "reserved" /\ dest'[Target(r)].by = r
         \/ Unreserve(r) /\ dest'[Target(r)].tag = "absent"
         \/ /\ RenameOver(r) \/ HardLink(r) \/ RenameReserved(r)
            /\ PublishTemp(r)
            /\ dest'[Target(r)] = Whole(r, which[r]) /\ dest'[Target(r)].tag = "csv"
  <1>0. TypeOK /\ RunInv(r) /\ which[r] \in Kinds /\ (\A k \in Kinds : TempInv(r, k))
    BY DEF IInv, TypeOK
  <1>1. Target(r) \in Targets /\ pc[r] \in Moving
    BY <1>0, TargetType, OneTarget
  <1>2. CASE Reserve(r)
    BY <1>0, <1>1, <1>2 DEF Reserve, Reservation, TypeOK
  <1>3. CASE Unreserve(r)
    BY <1>0, <1>1, <1>3 DEF Unreserve, Absent, TypeOK
  <1>4. CASE RenameOver(r) \/ HardLink(r) \/ RenameReserved(r)
    <2>1. PublishTemp(r)
      BY <1>4 DEF RenameOver, HardLink, RenameReserved
    <2>2. tmp[TempOf(r, which[r])] = Whole(r, which[r])
      BY <1>0, <1>1, MovingOpen DEF TempInv, Held
    <2>3. dest'[Target(r)] = Whole(r, which[r])
      BY <1>0, <1>1, <2>1, <2>2 DEF PublishTemp, TypeOK
    <2> QED
      BY <1>4, <2>1, <2>3 DEF Whole, Csv
  <1> QED
    BY <1>2, <1>3, <1>4 DEF TouchesTarget

\* What ReservationsAccounted says of the reservation of run q under target t.
AccountedFor(t, q) ==
  \/ t = Target(q) /\ pc[q] \in {"renameReserved", "unreserve", "crashed"}
  \/ faults[q] > 0 /\ pc[q] \in {"failing", "failed", "crashed"}

\* A reservation is renamed away or taken back by the run that made it; a run
\* that fails to take it back has counted the failure and only goes on to end.
LEMMA StepReservations ==
  ASSUME IInv, NEW r \in Runs, RunStep(r) \/ Crash(r), ReservedByRuns, ReservationsAccounted
  PROVE  ReservedByRuns' /\ ReservationsAccounted'
  <1>0. TypeOK /\ pc[r] \in PCs /\ faults[r] \in Nat
    BY DEF IInv, TypeOK
  <1> SUFFICES ASSUME NEW t \in Targets, dest'[t].tag = "reserved", NEW q, q = dest'[t].by
               PROVE  q \in Runs /\ AccountedFor(t, q)'
    BY DEF ReservedByRuns, ReservationsAccounted, AccountedFor
  <1>1. CASE dest'[t] # dest[t]
    <2>1. TouchesTarget(r) /\ t = Target(r)
      BY <1>0, <1>1, TargetsStep, OneTarget
    <2>2. Reserve(r) /\ q = r
      BY <2>1, TouchedFile
    <2>3. pc'[r] = "renameReserved" /\ UNCHANGED <<which, lost>>
      BY <1>0, <2>2 DEF Reserve, Goto, TypeOK
    <2> QED
      BY <2>1, <2>2, <2>3 DEF Target, Destination, AccountedFor
  <1>2. CASE dest'[t] = dest[t] /\ q # r
    <2>1. q \in Runs /\ AccountedFor(t, q)
      BY <1>2 DEF ReservedByRuns, ReservationsAccounted, AccountedFor
    <2>2. SameRun(q) /\ faults'[q] = faults[q]
      BY <1>0, <1>2, <2>1, StepFrame, TempWrites
    <2> QED
      BY <2>1, <2>2 DEF SameRun, Target, Destination, AccountedFor
  <1>3. CASE dest'[t] = dest[t] /\ q = r
    <2>1. CASE faults[r] > 0 /\ pc[r] \in {"failing", "failed", "crashed"}
      <3>1. faults'[r] > 0 /\ pc'[r] \in {"failing", "failed", "crashed"}
        <4>1. ASSUME NEW k \in Kinds, WriteRow(r, k) \/ Drop(r, k) \/ DropFails(r, k)
              PROVE  faults'[r] > 0 /\ pc' = pc
          BY <1>0, <2>1, <4>1 DEF WriteRow, Drop, DropFails, TypeOK
        <4>2. CASE ReturnErr(r) \/ Crash(r)
          BY <1>0, <2>1, <4>2 DEF ReturnErr, Crash, Goto, TypeOK
        <4> QED
          BY <2>1, <4>1, <4>2
          DEF RunStep, RefuseCollision, PassCollision, PreflightTaken, PreflightFree,
              CreateTemp, RetryTemp, CreateFails, FirstErrorRow, StreamEnds, PartialSyncLoss,
              StreamFails, Flush, FlushFails, Streaming, RenameOver, RenameFails, HardLink,
              LinkRefused, LinkUnavailable, Reserve, ReserveFails, RenameReserved,
              RenameReservedFails, Unreserve, UnreserveFails, UnlinkTemp, UnlinkFails,
              RedropFails
      <3> QED
        BY <1>3, <3>1 DEF AccountedFor
    <2>2. CASE t = Target(r) /\ pc[r] \in {"renameReserved", "unreserve", "crashed"}
      <3>1. ~RenameReserved(r) /\ ~Unreserve(r)
        <4>1. ~Reserve(r)
          BY <2>2 DEF Reserve
        <4>2. ~TouchesTarget(r)
          BY <2>2, <4>1, TouchedFile
        <4> QED
          BY <4>2 DEF TouchesTarget
      <3>2. CASE RenameReservedFails(r) \/ Crash(r)
        <4>1. pc'[r] \in {"unreserve", "crashed"} /\ UNCHANGED <<which, lost>>
          BY <1>0, <3>2 DEF RenameReservedFails, Crash, Goto, TypeOK
        <4> QED
          BY <1>3, <2>2, <4>1 DEF Target, Destination, AccountedFor
      <3>3. CASE UnreserveFails(r)
        BY <1>0, <1>3, <3>3 DEF UnreserveFails, Fail, Goto, TypeOK, AccountedFor
      <3>4. ASSUME NEW k \in Kinds PROVE ~WriteRow(r, k) /\ ~Drop(r, k) /\ ~DropFails(r, k)
        BY <2>2 DEF WriteRow, Drop, DropFails, Streaming
      <3> QED
        BY <2>2, <3>1, <3>2, <3>3, <3>4
        DEF RunStep, RefuseCollision, PassCollision, PreflightTaken, PreflightFree,
            CreateTemp, RetryTemp, CreateFails, FirstErrorRow, StreamEnds, PartialSyncLoss,
            StreamFails, Flush, FlushFails, Streaming, RenameOver, RenameFails, HardLink,
            LinkRefused, LinkUnavailable, Reserve, ReserveFails, UnlinkTemp, UnlinkFails,
            RedropFails, ReturnErr
    <2> QED
      BY <1>3, <2>1, <2>2 DEF ReservationsAccounted, AccountedFor
  <1> QED
    BY <1>1, <1>2, <1>3

-----------------------------------------------------------------------------
(* Runs that refuse to clobber.                                            *)

\* A refusing run that finds its reservation standing changes a target only
\* where no file is, or where the reservation is.
LEMMA RefusalKeeps ==
  ASSUME TypeOK, NEW r \in Runs, opts[r].noClobber, ReservationStands(r),
         RunStep(r) \/ Crash(r), NEW t \in Targets, dest'[t] # dest[t]
  PROVE  /\ TouchesTarget(r) /\ t = Target(r)
         /\ ~Exists(dest[t]) \/ (dest[t].tag = "reserved" /\ dest[t].by = r)
  <1>1. TouchesTarget(r) /\ t = Target(r)
    BY TargetsStep, OneTarget
  <1>2. CASE HardLink(r) \/ Reserve(r)
    BY <1>1, <1>2 DEF HardLink, Reserve
  <1>3. CASE RenameReserved(r) \/ Unreserve(r)
    BY <1>1, <1>3 DEF RenameReserved, Unreserve, ReservationStands
  <1> QED
    BY <1>1, <1>2, <1>3 DEF TouchesTarget, RenameOver

\* Only moving a file publishes it.
LEMMA PublishedStep ==
  ASSUME NEW r \in Runs, RunStep(r) \/ Crash(r)
  PROVE  \/ published' = published
         \/ RenameOver(r) \/ HardLink(r) \/ RenameReserved(r)
  <1>1. ASSUME NEW k \in Kinds, WriteRow(r, k) \/ Drop(r, k) \/ DropFails(r, k)
        PROVE  published' = published
    BY <1>1 DEF WriteRow, Drop, DropFails
  <1> QED
    BY <1>1
    DEF RunStep, RefuseCollision, PassCollision, PreflightTaken, PreflightFree, CreateTemp,
        RetryTemp, CreateFails, FirstErrorRow, StreamEnds, PartialSyncLoss, StreamFails, Flush,
        FlushFails, RenameFails, LinkRefused, LinkUnavailable, Reserve, ReserveFails,
        RenameReservedFails, Unreserve, UnreserveFails, UnlinkTemp, UnlinkFails, RedropFails,
        ReturnErr, Crash

\* A run is in the fallback's last two places because it has just reserved, or
\* because its rename has just failed.
LEMMA FallbackStep ==
  ASSUME TypeOK, NEW r \in Runs, RunStep(r) \/ Crash(r),
         pc'[r] \in {"renameReserved", "unreserve"}
  PROVE  Reserve(r) \/ (RenameReservedFails(r) /\ pc[r] = "renameReserved")
  <1>0. pc \in [Runs -> PCs]
    BY DEF TypeOK
  <1>1. ASSUME NEW k \in Kinds, WriteRow(r, k) \/ Drop(r, k) \/ DropFails(r, k) PROVE FALSE
    BY <1>1 DEF WriteRow, Drop, DropFails, Streaming
  <1> QED
    BY <1>0, <1>1
    DEF RunStep, RefuseCollision, PassCollision, PreflightTaken, PreflightFree, CreateTemp,
        RetryTemp, CreateFails, FirstErrorRow, StreamEnds, PartialSyncLoss, Finishing,
        StreamFails, Flush, FlushFails, Streaming, RenameOver, RenameFails, HardLink,
        LinkRefused, LinkUnavailable, ReserveFails, RenameReserved, RenameReservedFails,
        Unreserve, UnreserveFails, UnlinkTemp, UnlinkFails, RedropFails, ReturnErr, Crash,
        NextCommit, Fail, Goto

\* While all runs refuse to replace a file, a step of one leaves the
\* reservations and the published files of all standing.
LEMMA StepStands ==
  ASSUME IInv, NEW r \in Runs, RunStep(r) \/ Crash(r), AllRefuse,
         \A q \in Runs : ReservationStands(q) /\ PublishedStands(q),
         NEW q \in Runs
  PROVE  ReservationStands(q)' /\ PublishedStands(q)'
  <1>0. TypeOK /\ published \in [Runs -> SUBSET Targets] /\ Target(q) \in Targets
    BY TargetType DEF IInv, TypeOK
  <1>1. ReservationStands(r) /\ opts[r].noClobber
    BY DEF AllRefuse
  <1>2. ASSUME NEW t \in Targets, dest[t].tag = "csv" PROVE dest'[t] = dest[t]
    BY <1>0, <1>1, <1>2, RefusalKeeps DEF Exists
  <1>3. CASE q # r
    <2>1. SameRun(q) /\ Target(q)' = Target(q)
      BY <1>0, <1>3, StepFrame DEF SameRun, Target, Destination
    <2>2. ASSUME pc[q] \in {"renameReserved", "unreserve"}
          PROVE  dest'[Target(q)] = dest[Target(q)]
      <3>1. dest[Target(q)].tag = "reserved" /\ dest[Target(q)].by = q
        BY <2>2 DEF ReservationStands
      <3> QED
        BY <1>0, <1>1, <1>3, <3>1, RefusalKeeps DEF Exists
    <2>3. PublishedStands(q)'
      BY <1>0, <1>2, <2>1 DEF SameRun, PublishedStands
    <2> QED
      BY <2>1, <2>2, <2>3 DEF SameRun, ReservationStands
  <1>4. CASE q = r
    <2>1. CASE Reserve(r)
      <3>1. dest'[Target(r)].tag = "reserved" /\ dest'[Target(r)].by = r
        BY <2>1, TouchedFile DEF TouchesTarget, Reserve, Unreserve, RenameOver, HardLink,
                                 RenameReserved
      <3>2. Target(r)' = Target(r) /\ published' = published
        BY <2>1 DEF Reserve, Target, Destination
      <3> QED
        BY <1>0, <1>2, <1>4, <3>1, <3>2 DEF ReservationStands, PublishedStands
    <2>2. CASE RenameReservedFails(r)
      BY <1>0, <1>4, <2>2
      DEF RenameReservedFails, ReservationStands, PublishedStands, Target, Destination
    <2>3. CASE ~Reserve(r) /\ ~RenameReservedFails(r)
      <3>1. ReservationStands(r)'
        BY <1>0, <2>3, FallbackStep DEF ReservationStands
      <3>2. PublishedStands(r)'
        <4>1. CASE published' = published
          BY <1>0, <1>2, <4>1 DEF PublishedStands
        <4>2. CASE RenameOver(r) \/ HardLink(r) \/ RenameReserved(r)
          <5>1. /\ PublishTemp(r)
                /\ dest'[Target(r)] = Whole(r, which[r]) /\ dest'[Target(r)].tag = "csv"
            BY <2>3, <4>2, TouchedFile
            DEF TouchesTarget, Reserve, Unreserve, RenameOver, HardLink, RenameReserved
          <5>2. dest'[Target(r)].by = r
            BY <5>1 DEF Whole, Csv
          <5>3. published'[r] = published[r] \union {Target(r)}
            BY <1>0, <5>1 DEF PublishTemp
          <5> QED
            BY <1>0, <1>2, <5>1, <5>2, <5>3 DEF PublishedStands
        <4> QED
          BY <4>1, <4>2, PublishedStep
      <3> QED
        BY <1>4, <3>1, <3>2
    <2> QED
      BY <2>1, <2>2, <2>3
  <1> QED
    BY <1>3, <1>4

-----------------------------------------------------------------------------
(* The invariant and what follows from it.                                 *)

\* The initial state: no run owns anything.
LEMMA InitDirInv == Init => DirInv
  <1> SUFFICES ASSUME Init PROVE DirInv
    OBVIOUS
  <1>1. TypeOK
    BY InitIInv DEF IInv
  <1>2. \A r \in Runs : ReclaimInv(r)
    BY ConstantsAssumption
    DEF Init, ReclaimInv, Foreign, Absent, Open, NoTemp, ConstantsAssumption
  <1>3. \A r \in Runs : ClearInv(r)
    BY DEF Init, ClearInv
  <1>4. \A t \in Targets : dest[t] \in {Foreign, Absent}
    BY DEF Init
  <1>5. ReservedByRuns /\ ReservationsAccounted
    BY <1>4 DEF ReservedByRuns, ReservationsAccounted, Foreign, Absent
  <1>6. \A r \in Runs : ReservationStands(r) /\ PublishedStands(r)
    BY DEF Init, ReservationStands, PublishedStands
  <1> QED
    BY <1>2, <1>3, <1>5, <1>6 DEF DirInv

\* Every step keeps the invariant.
LEMMA NextDirInv == IInv /\ DirInv /\ [Next]_vars => DirInv'
  <1> SUFFICES ASSUME IInv, DirInv, [Next]_vars PROVE DirInv'
    OBVIOUS
  <1>0. /\ TypeOK /\ \A r \in Runs : RunInv(r)
        /\ \A r \in Runs : ReclaimInv(r) /\ ClearInv(r)
        /\ ReservedByRuns /\ ReservationsAccounted
    BY DEF IInv, DirInv
  <1>1. ASSUME NEW r \in Runs, RunStep(r) \/ Crash(r) PROVE DirInv'
    <2>1. ASSUME NEW q \in Runs PROVE ReclaimInv(q)' /\ ClearInv(q)'
      <3>1. CASE q = r
        BY <1>0, <1>1, <3>1, StepReclaim, StepClear
      <3>2. CASE q # r
        <4>1. /\ SameRun(q) /\ opts' = opts /\ faults'[q] = faults[q]
              /\ \A n \in Temps : tmp'[n].by = q => tmp[n].by = q
          BY <1>0, <1>1, <3>2, StepFrame, TempWrites
        <4>2. ClearInv(q)'
          BY <1>0, <4>1 DEF SameRun, ClearInv
        <4>3. MayLeak(q)' = MayLeak(q) /\ \A n \in Temps : HeldName(q, n)' = HeldName(q, n)
          BY <4>1 DEF SameRun, MayLeak, HeldName, Open, TempOf
        <4>4. ReclaimInv(q)'
          BY <1>0, <4>1, <4>3 DEF SameRun, ReclaimInv, Open
        <4> QED
          BY <4>2, <4>4
      <3> QED
        BY <3>1, <3>2
    <2>2. ReservedByRuns' /\ ReservationsAccounted'
      BY <1>0, <1>1, StepReservations
    <2>3. AllRefuse' => \A q \in Runs : ReservationStands(q)' /\ PublishedStands(q)'
      <3>1. AllRefuse' => AllRefuse
        BY <1>0, <1>1, TempWrites DEF AllRefuse
      <3>2. AllRefuse => \A q \in Runs : ReservationStands(q) /\ PublishedStands(q)
        BY DEF DirInv
      <3> QED
        BY <1>1, <3>1, <3>2, StepStands
    <2> QED
      BY <2>1, <2>2, <2>3 DEF DirInv
  <1>2. ASSUME UNCHANGED <<opts, pc, which, attempt, temp, rows, lost, tmp, published, faults>>,
               \A t \in Targets : dest'[t] # dest[t] => dest[t].tag = "absent" /\ dest'[t].tag = "foreign"
        PROVE  DirInv'
    <2>1. \A r \in Runs : ReclaimInv(r)' /\ ClearInv(r)'
      BY <1>0, <1>2 DEF ReclaimInv, ClearInv, MayLeak, HeldName, Open, TempOf
    <2>2. \A t \in Targets : dest[t].tag # "absent" => dest'[t] = dest[t]
      BY <1>2
    <2>3. ReservedByRuns' /\ ReservationsAccounted'
      BY <1>0, <1>2, <2>2 DEF ReservedByRuns, ReservationsAccounted, Target, Destination
    <2>4. ASSUME AllRefuse', NEW r \in Runs PROVE ReservationStands(r)' /\ PublishedStands(r)'
      <3>1. ReservationStands(r) /\ PublishedStands(r)
        BY <1>2, <2>4 DEF DirInv, AllRefuse
      <3>2. Target(r)' = Target(r) /\ Target(r) \in Targets /\ published[r] \subseteq Targets
        BY <1>0, <1>2, TargetType DEF Target, Destination, TypeOK
      <3> QED
        BY <1>2, <2>2, <3>1, <3>2 DEF ReservationStands, PublishedStands
    <2> QED
      BY <2>1, <2>3, <2>4 DEF DirInv
  <1>3. ASSUME NEW t \in ForeignTargets, ForeignCreate(t) PROVE DirInv'
    BY <1>0, <1>2, <1>3 DEF ForeignCreate, Exists, Foreign, TypeOK
  <1>4. CASE UNCHANGED vars
    BY <1>2, <1>4 DEF vars
  <1> QED
    BY <1>1, <1>3, <1>4 DEF Next

\* What the runs leave in the directory fits where they stand.
THEOREM DirInvariance == Spec => [](IInv /\ DirInv)
  <1>1. Init => IInv /\ DirInv
    BY InitIInv, InitDirInv
  <1>2. (IInv /\ DirInv) /\ [Next]_vars => (IInv /\ DirInv)'
    BY NextIInv, NextDirInv
  <1> QED
    BY <1>1, <1>2, PTL DEF Spec

\* L2-WRT-024: a run that returns leaves no temp file behind, unless
\* remove_file failed as often as Drop could not make good.
THEOREM TempsAreReclaimed == Spec => []TempsReclaimed
  <1>1. IInv /\ DirInv => TempsReclaimed
    <2> SUFFICES ASSUME IInv, DirInv, NEW r \in Runs,
                        (pc[r] = "ok" /\ faults[r] <= 1) \/ (pc[r] = "failed" /\ faults[r] = 0),
                        NEW n \in Temps
                 PROVE  tmp[n].by # r
      BY DEF TempsReclaimed
    <2>1. ~MayLeak(r)
      BY DEF MayLeak, IInv, TypeOK
    <2>2. ~HeldName(r, n)
      BY DEF DirInv, ReclaimInv, HeldName
    <2> QED
      BY <2>1, <2>2 DEF DirInv, ReclaimInv
  <1> QED
    BY <1>1, DirInvariance, PTL

\* An empty reservation stands only while its run is between the two calls, or
\* was killed there, or could not take it back.
THEOREM ReservationsAreAccounted == Spec => []ReservationsAccounted
  <1>1. IInv /\ DirInv => ReservationsAccounted
    BY DEF DirInv
  <1> QED
    BY <1>1, DirInvariance, PTL

\* Runs that all refuse to clobber, however many, never leave the errors file
\* of one decode beside the main file of another.
THEOREM PairsAreNotMixed == Spec => []NoMixedPair
  <1>1. IInv /\ DirInv => NoMixedPair
    <2> SUFFICES ASSUME IInv, DirInv, AllRefuse, NEW t \in Targets,
                        dest[t].tag = "csv", t.part = "errs"
                 PROVE  dest[[t EXCEPT !.part = "main"]].by = dest[t].by
      BY DEF NoMixedPair, AllRefuse
    <2>1. PICK r \in Runs : dest[t] = Whole(r, t.part) /\ t \in published[r]
      BY DEF IInv, WholeAtTargets
    <2>2. dest[t].by = r
      BY <2>1 DEF Whole, Csv
    <2>3. published[r] \subseteq {Main(r), Errs(r)} /\ Main(r) \in published[r]
      <3>1. RunInv(r) /\ pc[r] \in PCs /\ which[r] \in {"main", "errs"}
        BY DEF IInv, TypeOK, Kinds
      <3> QED
        BY <2>1, <3>1
        DEF RunInv, StartingInv, FillingInv, MainMoveInv, ErrsMoveInv, EndingInv, Starting,
            Filling, Moving, Moved, PCs, Terminal
    <2>4. [t EXCEPT !.part = "main"] = Main(r)
      BY <2>1, <2>3 DEF Main, Errs, Destination, Targets
    <2>5. dest[Main(r)].by = r
      BY <2>3 DEF DirInv, PublishedStands
    <2> QED
      BY <2>2, <2>4, <2>5
  <1> QED
    BY <1>1, DirInvariance, PTL

\* L2-WRT-014: no step of a run touches a file that is one of its inputs,
\* under any of the names it could commit.
THEOREM InputsAreUntouched == Spec => InputUntouched
  <1> DEFINE Untouched == \A r \in Runs : \A t \in opts[r].inputs :
                            dest'[t] # dest[t] => pc'[r] = pc[r]
  <1>1. IInv /\ DirInv /\ [Next]_vars => [Untouched]_vars
    <2> SUFFICES ASSUME IInv, DirInv, Next PROVE Untouched
      OBVIOUS
    <2>0. TypeOK /\ \A r \in Runs : opts[r].inputs \subseteq Targets
      BY ConstantsAssumption DEF IInv, TypeOK, ConstantsAssumption, OptionRecords
    <2>1. ASSUME NEW q \in Runs, RunStep(q) \/ Crash(q) PROVE Untouched
      <3> SUFFICES ASSUME NEW r \in Runs, NEW t \in opts[r].inputs, dest'[t] # dest[t]
                   PROVE  pc'[r] = pc[r]
        OBVIOUS
      <3>1. TouchesTarget(q) /\ t = Target(q) /\ pc[q] \in Moving
        BY <2>0, <2>1, TargetsStep, OneTarget
      <3>2. Target(q) \notin opts[q].inputs
        BY <2>0, <3>1, TargetChecked DEF IInv, DirInv
      <3>3. q # r
        BY <3>1, <3>2
      <3> QED
        BY <2>0, <2>1, <3>3, StepFrame DEF SameRun
    <2>2. ASSUME NEW t \in ForeignTargets, ForeignCreate(t) PROVE Untouched
      BY <2>2 DEF ForeignCreate
    <2> QED
      BY <2>1, <2>2 DEF Next
  <1> QED
    BY <1>1, DirInvariance, PTL DEF Spec, InputUntouched

\* The two ways to share a directory that writer.rs serves: hard links work, or
\* no run replaces files.
Cooperative == ~LinkMayFail \/ \A c \in Configs : c.noClobber

\* L2-WRT-023: in a cooperative directory, the link path and the reservation
\* path alike, no step of a --no-clobber run changes or removes a file under a
\* commit target but the reservation it made itself.
THEOREM CooperativeRunsClobberNothing == Cooperative /\ Spec => NoClobber
  <1> DEFINE Kept == \A r \in Runs : opts[r].noClobber /\ pc'[r] # pc[r] =>
                       \A t \in Targets :
                         \/ dest'[t] = dest[t]
                         \/ ~Exists(dest[t])
                         \/ dest[t].tag = "reserved" /\ dest[t].by = r
  <1>1. CASE ~LinkMayFail
    BY <1>1, NothingClobbered
  <1>2. CASE \A c \in Configs : c.noClobber
    <2>1. IInv /\ DirInv /\ [Next]_vars => [Kept]_vars
      <3> SUFFICES ASSUME IInv, DirInv, Next PROVE Kept
        OBVIOUS
      <3>0. TypeOK /\ \A r \in Runs : ReservationStands(r)
        BY <1>2 DEF IInv, DirInv, AllRefuse, TypeOK
      <3>1. ASSUME NEW q \in Runs, RunStep(q) \/ Crash(q) PROVE Kept
        <4> SUFFICES ASSUME NEW r \in Runs, opts[r].noClobber, pc'[r] # pc[r],
                            NEW t \in Targets, dest'[t] # dest[t]
                     PROVE  ~Exists(dest[t]) \/ (dest[t].tag = "reserved" /\ dest[t].by = r)
          OBVIOUS
        <4>1. q = r
          BY <3>0, <3>1, StepFrame DEF SameRun
        <4> QED
          BY <3>0, <3>1, <4>1, RefusalKeeps
      <3>2. ASSUME NEW t \in ForeignTargets, ForeignCreate(t) PROVE Kept
        BY <3>2 DEF ForeignCreate
      <3> QED
        BY <3>1, <3>2 DEF Next
    <2> QED
      BY <2>1, DirInvariance, PTL DEF Spec, NoClobber
  <1> QED
    BY <1>1, <1>2 DEF Cooperative

-----------------------------------------------------------------------------
(* The directory as AtomicPublish sees it.                                 *)

\* Seen without the question whether a decoder's file is whole.
Shown(f, t) ==
  IF f.tag = "foreign" THEN [tag |-> "foreign", by |-> Nobody, part |-> "main"]
  ELSE IF f.tag = "csv" THEN [tag |-> "output", by |-> f.by, part |-> t.part]
  ELSE [tag |-> "none", by |-> Nobody, part |-> "main"]

\* Where targets hold whole files, only the tag and the owner count.
LEMMA SeenIsShown ==
  /\ WholeAtTargets => \A t \in Targets : Seen(dest[t], t) = Shown(dest[t], t)
  /\ WholeAtTargets' => \A t \in Targets : Seen(dest[t], t)' = Shown(dest'[t], t)
  <1>1. ASSUME WholeAtTargets, NEW t \in Targets
        PROVE  Seen(dest[t], t) = Shown(dest[t], t)
    <2>1. CASE dest[t].tag = "csv"
      <3>1. PICK r \in Runs : dest[t] = Whole(r, t.part)
        BY <1>1, <2>1 DEF WholeAtTargets
      <3>2. dest[t].by = r /\ dest[t].part = t.part
        BY <3>1 DEF Whole, Csv
      <3> QED
        BY <2>1, <3>1, <3>2 DEF Seen, Shown
    <2> QED
      BY <2>1 DEF Seen, Shown
  <1>2. ASSUME WholeAtTargets', NEW t \in Targets
        PROVE  Seen(dest[t], t)' = Shown(dest'[t], t)
    <2>1. CASE dest'[t].tag = "csv"
      <3>1. PICK r \in Runs : dest'[t] = Whole(r, t.part)'
        BY <1>2, <2>1 DEF WholeAtTargets
      <3>2. dest'[t].by = r /\ dest'[t].part = t.part
        BY <3>1 DEF Whole, Csv
      <3> QED
        BY <2>1, <3>1, <3>2 DEF Seen, Shown
    <2> QED
      BY <2>1 DEF Seen, Shown
  <1> QED
    BY <1>1, <1>2

\* A run's place as a verdict.
Verdict(r) == IF pc[r] \in Terminal THEN pc[r] ELSE "running"

Standing == \A r \in Runs : ReservationStands(r)

\* In a cooperative directory a reservation is not replaced by another run.
THEOREM ReservationsStand == Cooperative /\ Spec => []Standing
  <1>1. CASE ~LinkMayFail
    <2>1. Init => LinkPath
      BY DEF Init, LinkPath
    <2>2. IInv /\ LinkPath /\ [Next]_vars => LinkPath'
      BY <1>1, StepLinkPath DEF IInv
    <2>3. LinkPath => Standing
      BY DEF LinkPath, Standing, ReservationStands
    <2> QED
      BY <2>1, <2>2, <2>3, Invariance, PTL DEF Spec
  <1>2. CASE \A c \in Configs : c.noClobber
    <2>1. IInv /\ DirInv => Standing
      BY <1>2 DEF IInv, DirInv, AllRefuse, Standing, TypeOK
    <2> QED
      BY <2>1, DirInvariance, PTL
  <1> QED
    BY <1>1, <1>2 DEF Cooperative

-----------------------------------------------------------------------------
(* Initial states.                                                         *)

\* The initial states of the commit are initial states of the publication.
LEMMA InitRefines == Init => Abstract!Init
  <1> SUFFICES ASSUME Init PROVE Abstract!Init
    OBVIOUS
  <1>1. \A t \in Targets : Seen(dest[t], t) \in {Abstract!None, Abstract!Foreign}
    BY DEF Init, Seen, Absent, Foreign, Abstract!None, Abstract!Foreign
  <1>2. \A r \in Runs : opts[r].noClobber \in BOOLEAN
    BY ConstantsAssumption DEF Init, ConstantsAssumption, OptionRecords
  <1>3. published = [r \in Runs |-> {}]
    BY DEF Init
  <1>4. \A r \in Runs : pc[r] \notin Terminal
    BY DEF Init, Terminal
  <1> QED
    BY <1>1, <1>2, <1>3, <1>4 DEF Abstract!Init

-----------------------------------------------------------------------------
(* Steps.                                                                  *)

\* Moving a file onto its name publishes it; the last file may bring the run
\* to its end in the same step.
LEMMA PublishRefines ==
  ASSUME IInv, IInv', Standing, NEW r \in Runs,
         RenameOver(r) \/ HardLink(r) \/ RenameReserved(r),
         NEW t \in Targets, t = Target(r)
  PROVE  Abstract!Publish(r, t)
  <1>0. /\ TypeOK /\ RunInv(r) /\ which[r] \in {"main", "errs"}
        /\ Target(r) \in Targets /\ pc[r] \in Moving
    BY TargetType DEF IInv, TypeOK, Kinds, RenameOver, HardLink, RenameReserved, Moving
  <1>1. /\ PublishTemp(r) /\ dest'[Target(r)].tag = "csv" /\ dest'[Target(r)].by = r
        /\ opts' = opts
    <2>1. TouchesTarget(r) /\ ~Reserve(r) /\ ~Unreserve(r)
      BY DEF TouchesTarget, RenameOver, HardLink, RenameReserved, Reserve, Unreserve
    <2>2. PublishTemp(r) /\ dest'[Target(r)] = Whole(r, which[r]) /\ dest'[Target(r)].tag = "csv"
      BY <2>1, TouchedFile
    <2> QED
      BY <1>0, <2>1, <2>2, OneTarget DEF Whole, Csv
  <1>2. pc[r] \notin Terminal
    BY <1>0 DEF Moving, Terminal
  <1>3. opts[r].noClobber => Seen(dest[t], t) = Abstract!None
    <2>1. opts[r].noClobber =>
            dest[t].tag \notin {"foreign", "csv"}
      BY DEF RenameOver, HardLink, RenameReserved, Exists, Standing, ReservationStands
    <2> QED
      BY <2>1 DEF Seen, Abstract!None
  <1>4. IF t.part = "main" THEN published[r] = {}
        ELSE published[r] = {[t EXCEPT !.part = "main"]}
    BY <1>0 DEF RunInv, MainMoveInv, ErrsMoveInv, Moving, Moved, Target, Main, Destination
  <1>5. \A u \in Targets :
          Seen(dest[u], u)' = IF u = t THEN Abstract!Output(r, t.part) ELSE Seen(dest[u], u)
    <2>1. WholeAtTargets /\ WholeAtTargets'
      BY DEF IInv
    <2>2. \A u \in Targets : u # t => dest'[u] = dest[u]
      BY <1>0, OneTarget DEF TouchesTarget
    <2>3. \A u \in Targets : u # t => Seen(dest[u], u)' = Seen(dest[u], u)
      BY <2>1, <2>2, SeenIsShown
    <2>4. Shown(dest'[t], t) = Abstract!Output(r, t.part)
      BY <1>1 DEF Shown, Abstract!Output
    <2> QED
      BY <2>1, <2>3, <2>4, SeenIsShown
  <1>6. /\ \A q \in Runs \ {r} : Verdict(q)' = Verdict(q)
        /\ Verdict(r)' \in {"running", "ok"}
    <2>1. pc' = pc \/ pc' = [pc EXCEPT ![r] = "ok"] \/ pc' = [pc EXCEPT ![r] = "commit"]
            \/ pc' = [pc EXCEPT ![r] = "unlink"]
      BY DEF RenameOver, HardLink, RenameReserved, NextCommit, Goto
    <2> QED
      BY <1>0, <1>2, <2>1 DEF Verdict, TypeOK, Terminal
  <1>7. Verdict(r) = "running"
    BY <1>2 DEF Verdict
  <1> DEFINE dir == [u \in Targets |-> Seen(dest[u], u)]
             verdict == [q \in Runs |-> Verdict(q)]
  <1>8. dir' = [dir EXCEPT ![t] = Abstract!Output(r, t.part)]
    BY <1>0, <1>5
  <1>9. verdict' \in {verdict, [verdict EXCEPT ![r] = "ok"]}
    BY <1>6, <1>7
  <1>10. published' = [published EXCEPT ![r] = @ \union {t}]
    BY <1>1 DEF PublishTemp
  <1> QED
    BY <1>0, <1>1, <1>2, <1>3, <1>4, <1>8, <1>9, <1>10 DEF Abstract!Publish, Verdict

\* A run that has ended takes no step, and a step of its own tells no one but
\* it the verdict.
LEMMA VerdictStep ==
  ASSUME TypeOK, NEW r \in Runs, RunStep(r) \/ Crash(r)
  PROVE  /\ Verdict(r) = "running"
         /\ \A q \in Runs \ {r} : Verdict(q)' = Verdict(q)
         /\ Verdict(r)' \in Terminal \union {"running"}
  <1>1. pc[r] \notin Terminal
    <2>1. ASSUME NEW k \in Kinds, WriteRow(r, k) \/ Drop(r, k) \/ DropFails(r, k)
          PROVE  pc[r] \notin Terminal
      BY <2>1 DEF WriteRow, Drop, DropFails, Streaming, Terminal
    <2> QED
      BY <2>1
      DEF RunStep, RefuseCollision, PassCollision, PreflightTaken, PreflightFree, CreateTemp,
          RetryTemp, CreateFails, FirstErrorRow, StreamEnds, PartialSyncLoss, StreamFails,
          Flush, FlushFails, Streaming, RenameOver, RenameFails, HardLink, LinkRefused,
          LinkUnavailable, Reserve, ReserveFails, RenameReserved, RenameReservedFails,
          Unreserve, UnreserveFails, UnlinkTemp, UnlinkFails, RedropFails, ReturnErr, Crash,
          Terminal
  <1>2. \A q \in Runs \ {r} : pc'[q] = pc[q]
    BY StepFrame DEF SameRun
  <1> QED
    BY <1>1, <1>2 DEF Verdict

\* Every other step of a run changes nothing AtomicPublish sees, or ends it.
LEMMA PrivateRefines ==
  ASSUME IInv, IInv', Standing, NEW r \in Runs, RunStep(r) \/ Crash(r),
         ~(RenameOver(r) \/ HardLink(r) \/ RenameReserved(r))
  PROVE  (\E v \in {"ok", "failed", "crashed"} : Abstract!Return(r, v))
           \/ UNCHANGED Abstract!avars
  <1>0. TypeOK /\ opts' = opts /\ published' = published
    BY TempWrites, PublishedStep DEF IInv
  <1>1. \A t \in Targets : Seen(dest[t], t)' = Seen(dest[t], t)
    <2>1. \A t \in Targets : Shown(dest'[t], t) = Shown(dest[t], t)
      <3>1. CASE TouchesTarget(r)
        <4>1. Reserve(r) \/ Unreserve(r)
          BY <3>1 DEF TouchesTarget
        <4>2. dest[Target(r)].tag \notin {"foreign", "csv"}
          BY <4>1 DEF Reserve, Unreserve, Exists, Standing, ReservationStands
        <4>3. dest'[Target(r)].tag \notin {"foreign", "csv"}
          BY <3>1, <4>1, TouchedFile DEF RenameOver, HardLink, RenameReserved
        <4>4. \A t \in Targets : t # Target(r) => dest'[t] = dest[t]
          BY <1>0, <3>1, OneTarget
        <4> QED
          BY <4>2, <4>3, <4>4 DEF Shown
      <3> QED
        BY <3>1, TargetsStep
    <2> QED
      BY <2>1, SeenIsShown DEF IInv
  <1>2. /\ Verdict(r) = "running"
        /\ \A q \in Runs \ {r} : Verdict(q)' = Verdict(q)
        /\ Verdict(r)' \in {"ok", "failed", "crashed", "running"}
    BY <1>0, VerdictStep DEF Terminal
  <1>3. Verdict(r)' = "ok" => published[r] # {}
    <2>1. Verdict(r)' = "ok" => pc'[r] = "ok"
      BY DEF Verdict
    <2>2. EndingInv(r)'
      BY DEF IInv, RunInv
    <2> QED
      BY <1>0, <2>1, <2>2 DEF EndingInv
  <1> DEFINE dir == [t \in Targets |-> Seen(dest[t], t)]
             verdict == [q \in Runs |-> Verdict(q)]
             noClobber == [q \in Runs |-> opts[q].noClobber]
  <1>4. dir' = dir /\ noClobber' = noClobber
    BY <1>0, <1>1
  <1>5. CASE Verdict(r)' = "running"
    <2>1. verdict' = verdict
      BY <1>2, <1>5
    <2> QED
      BY <1>0, <1>4, <2>1 DEF Abstract!avars, Verdict
  <1>6. CASE Verdict(r)' # "running"
    <2>1. PICK v \in {"ok", "failed", "crashed"} : v = Verdict(r)'
      BY <1>2, <1>6
    <2>2. verdict' = [verdict EXCEPT ![r] = v]
      BY <1>2, <2>1
    <2>3. verdict[r] = "running"
      BY <1>2
    <2> QED
      BY <1>0, <1>3, <1>4, <2>1, <2>2, <2>3 DEF Abstract!Return, Verdict
  <1> QED
    BY <1>5, <1>6

\* Every step of the commit is a step of the publication, or none.
LEMMA NextRefines == IInv /\ IInv' /\ Standing /\ [Next]_vars => [Abstract!Next]_(Abstract!avars)
  <1> SUFFICES ASSUME IInv, IInv', Standing, [Next]_vars
               PROVE  Abstract!Next \/ UNCHANGED Abstract!avars
    OBVIOUS
  <1>1. ASSUME NEW r \in Runs, RunStep(r) \/ Crash(r)
        PROVE  Abstract!Next \/ UNCHANGED Abstract!avars
    <2>1. CASE RenameOver(r) \/ HardLink(r) \/ RenameReserved(r)
      <3>1. PICK t \in Targets : t = Target(r)
        BY TargetType DEF IInv
      <3>2. Abstract!Publish(r, t)
        BY <2>1, <3>1, PublishRefines
      <3> QED
        BY <3>2 DEF Abstract!Next
    <2>2. CASE ~(RenameOver(r) \/ HardLink(r) \/ RenameReserved(r))
      BY <1>1, <2>2, PrivateRefines DEF Abstract!Next
    <2> QED
      BY <2>1, <2>2
  <1>2. ASSUME NEW t \in ForeignTargets, ForeignCreate(t) PROVE Abstract!Intrude(t) /\ t \in Targets
    <2>0. t \in Targets /\ TypeOK /\ WholeAtTargets /\ WholeAtTargets'
      BY ConstantsAssumption DEF ConstantsAssumption, IInv
    <2>1. Seen(dest[t], t) = Abstract!None
      BY <1>2 DEF ForeignCreate, Exists, Seen, Abstract!None
    <2>2. \A u \in Targets :
            Seen(dest[u], u)' = IF u = t THEN Abstract!Foreign ELSE Seen(dest[u], u)
      <3>1. \A u \in Targets :
              Shown(dest'[u], u) = IF u = t THEN Abstract!Foreign ELSE Shown(dest[u], u)
        <4>1. dest'[t].tag = "foreign" /\ \A u \in Targets : u # t => dest'[u] = dest[u]
          BY <1>2, <2>0 DEF ForeignCreate, Foreign, TypeOK
        <4> QED
          BY <4>1 DEF Shown, Abstract!Foreign
      <3> QED
        BY <2>0, <3>1, SeenIsShown
    <2> DEFINE dir == [u \in Targets |-> Seen(dest[u], u)]
    <2>3. dir' = [dir EXCEPT ![t] = Abstract!Foreign]
      BY <2>0, <2>2
    <2> QED
      BY <1>2, <2>0, <2>1, <2>3 DEF ForeignCreate, Abstract!Intrude
  <1>3. CASE UNCHANGED vars
    BY <1>3 DEF vars, Abstract!avars, Seen, Whole
  <1> QED
    BY <1>1, <1>2, <1>3 DEF Next, Abstract!Next

\* L1-OUT-002, L2-WRT-019, L2-WRT-023: in a cooperative directory the calls of
\* any number of runs, whatever fails and whoever is killed, implement atomic
\* publication.
THEOREM PublicationIsAtomic == Cooperative /\ Spec => PublishesAtomically
  <1>1. Init => Abstract!Init
    BY InitRefines
  <1>2. IInv /\ IInv' /\ Standing /\ [Next]_vars => [Abstract!Next]_(Abstract!avars)
    BY NextRefines
  <1> QED
    BY <1>1, <1>2, Invariance, ReservationsStand, PTL
    DEF Spec, PublishesAtomically, Abstract!Spec

==============================================================================
