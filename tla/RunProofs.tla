------------------------------ MODULE RunProofs ------------------------------
(***************************************************************************)
(* How a decode ends: what it publishes, why it fails, and what becomes of *)
(* each message it pulls.  What its rows say of the recordings stays with  *)
(* TLC; that no message is lost, doubled or misplaced between the readers  *)
(* and the files is proved here.                                           *)
(***************************************************************************)
EXTENDS DumpProofs

-----------------------------------------------------------------------------
(* The name of the errors CSV.                                             *)

\* The output, if it was given.
NamesInv ==
  /\ \A i \in DOMAIN argv : WellFormed(argv[i])
  /\ "output" \in DOMAIN args => IsPath(args["output"])

\* The path of a text is one.
LEMMA TextHasPath ==
  ASSUME NEW token, WellFormed(token), NEW text,
         text \in {token.text} \cup ({token.joined} \ {None})
  PROVE  IsPath(PathIn(text))
  <1>1. CASE text # <<>> /\ Is("path", text[1])
    <2>1. IsList(text)
      BY DEF WellFormed
    <2>2. 1 \in 1 .. Len(text)
      BY <1>1, <2>1 DEF IsList
    <2> QED
      BY <1>1, <2>2 DEF WellFormed, PathIn
  <1>2. CASE ~(text # <<>> /\ Is("path", text[1]))
    <2>1. PathIn(text) = [dir |-> "", name |-> <<"?">>]
      BY <1>2 DEF PathIn
    <2>2. IsList(<<"?">>)
      BY DEF IsList
    <2>3. PathIn(text) = [dir |-> PathIn(text).dir, name |-> PathIn(text).name]
      BY <2>1
    <2>4. PathIn(text).name = <<"?">>
      BY <1>2 DEF PathIn
    <2>5. IsList(PathIn(text).name)
      BY <2>2, <2>4
    <2> QED
      BY <2>3, <2>5 DEF IsPath
  <1> QED
    BY <1>1, <1>2

\* Reading a token keeps the output a path.
LEMMA NamesKeep ==
  ASSUME ArgvInv, NamesInv, ReadToken
  PROVE  NamesInv'
  <1>1. argv' = argv
    BY ReadTokenArgv
  <1>2. \A i \in DOMAIN argv' : WellFormed(argv[i])'
    BY <1>1 DEF NamesInv, WellFormed
  <1>3. CASE args' = args
    BY <1>2, <1>3 DEF NamesInv
  <1>4. CASE SetSwitch
    <2>1. /\ reading \in Subcommands /\ Token.name \in DOMAIN Switches[reading]
          /\ args' = With(args, Switches[reading][Token.name][1], Switches[reading][Token.name][2])
      BY <1>4 DEF SetSwitch, SetsSwitch, AtFlag, InCommand
    <2>2. Switches[reading][Token.name][1] # "output"
      BY <2>1, TableFacts DEF PathFields
    <2> QED
      BY <1>2, <2>1, <2>2 DEF NamesInv, With
  <1>5. CASE TakeValue
    <2> DEFINE taken == ValueFlags[reading][Token.name]
    <2>1. /\ at <= Len(argv) /\ HasValue(at)
          /\ args' = With(args, taken, Given(taken, TextOf(at)))
      BY <1>5 DEF TakeValue, AtFlag
    <2>2. \E i \in DOMAIN argv : TextOf(at) \in {argv[i].text} \cup ({argv[i].joined} \ {None})
      BY <2>1, TextIsGiven
    <2>3. taken = "output" => IsPath(Given(taken, TextOf(at)))
      <3>1. PICK i \in DOMAIN argv : TextOf(at) \in {argv[i].text} \cup ({argv[i].joined} \ {None})
        BY <2>2
      <3>2. WellFormed(argv[i])
        BY DEF NamesInv
      <3>3. IsPath(PathIn(TextOf(at)))
        BY <3>1, <3>2, TextHasPath
      <3>4. taken = "output" => Given(taken, TextOf(at)) = PathIn(TextOf(at))
        BY DEF Given, FilterFields, TypeFields, BusFields, AddressFields, PathFields
      <3> QED
        BY <3>3, <3>4
    <2> HIDE DEF taken
    <2> QED
      BY <1>2, <2>1, <2>3 DEF NamesInv, With
  <1> QED
    BY <1>3, <1>4, <1>5, ArgsTaken

\* The errors CSV has another name than the main one, and so have their
\* partial files.
LEMMA NamesDiffer ==
  ASSUME NEW path, IsPath(path)
  PROVE  /\ Located(ErrorPathFor(path)) # Located(path)
         /\ Located(PartialPathFor(ErrorPathFor(path))) # Located(PartialPathFor(path))
  <1> DEFINE name == path.name
             S == {name[i] : i \in 1 .. Len(name)} \cup {"_errors", ".partial"}
             dots == {i \in 2 .. Len(name) : name[i] = "."}
             dot == LastDot(name)
             stem == IF dot = 0 THEN name ELSE SubSeq(name, 1, dot - 1)
             extension == IF dot \in {0, Len(name)} THEN <<>> ELSE SubSeq(name, dot, Len(name))
             other == Append(stem, "_errors") \o extension
  <1>1. name \in Seq(S) /\ Len(name) \in Nat
    BY DEF IsPath, IsList
  <1>2. dot = 0 \/ dot \in dots
    <2>1. CASE dots = {}
      <3>1. dot = Max({0})
        BY <2>1 DEF LastDot
      <3> QED
        BY <3>1, MaxIs
    <2>2. CASE dots # {}
      <3>1. dots \in SUBSET (1 .. Len(name))
        BY <1>1
      <3>2. LastOf(dots) \in dots /\ \A h \in dots : h <= LastOf(dots)
        <4> HIDE DEF dots
        <4> QED
          BY <1>1, <2>2, <3>1, LastOfPlaces
      <3>3. \A h \in {0} \cup dots : h <= LastOf(dots)
        BY <1>1, <3>1, <3>2
      <3>4. Max({0} \cup dots) = LastOf(dots)
        <4>1. {0} \cup dots \in SUBSET Nat /\ LastOf(dots) \in {0} \cup dots
          BY <1>1, <3>1, <3>2
        <4> HIDE DEF dots
        <4> QED
          BY <3>3, <4>1, MaxIs
      <3> QED
        BY <3>2, <3>4 DEF LastDot
    <2> QED
      BY <2>1, <2>2
  <1>3. ErrorPathFor(path).name = other
    BY DEF ErrorPathFor, IsPath
  <1> HIDE DEF dot, S
  <1>4. other \in Seq(S) /\ other # name
    <2>1. "_errors" \in S
      BY DEF S
    <2>2. CASE dot = 0
      <3>1. other = Append(name, "_errors") \o <<>>
        BY <2>2
      <3>2. Append(name, "_errors") \in Seq(S) /\ Len(Append(name, "_errors")) = Len(name) + 1
        BY <1>1, <2>1, AppendFacts
      <3>3. <<>> \in Seq(S) /\ Len(<<>>) = 0
        OBVIOUS
      <3> DEFINE whole == Append(name, "_errors")
      <3>5. whole \in Seq(S)
        BY <3>2
      <3>4. /\ other \in Seq(S)
            /\ Len(other) = Len(Append(name, "_errors")) + Len(<<>>)
        <4>1. other = whole \o <<>>
          BY <3>1
        <4> HIDE DEF other, whole
        <4>2. other \in Seq(S) /\ Len(other) = Len(whole) + Len(<<>>)
          BY <3>3, <3>5, <4>1, ConcatFacts
        <4> QED
          BY <4>2 DEF whole
      <3> HIDE DEF other
      <3> QED
        BY <1>1, <3>2, <3>3, <3>4
    <2>3. CASE dot \in dots /\ dot = Len(name)
      <3>1. other = Append(SubSeq(name, 1, dot - 1), "_errors") \o <<>>
        BY <2>3
      <3>2. dot \in 2 .. Len(name) /\ name[dot] = "."
        BY <2>3
      <3>3. SubSeq(name, 1, dot - 1) \in Seq(S) /\ Len(SubSeq(name, 1, dot - 1)) = dot - 1
        BY <1>1, <3>2
      <3>4. /\ Append(SubSeq(name, 1, dot - 1), "_errors") \in Seq(S)
            /\ Append(SubSeq(name, 1, dot - 1), "_errors")[dot] = "_errors"
        BY <2>1, <3>2, <3>3, AppendFacts
      <3>5. Len(Append(SubSeq(name, 1, dot - 1), "_errors")) = dot
        BY <1>1, <2>1, <3>2, <3>3, AppendFacts
      <3>6. <<>> \in Seq(S) /\ dot \in 1 .. dot
        BY <1>1, <3>2
      <3>7. other \in Seq(S) /\ other[dot] = "_errors"
        BY <3>1, <3>4, <3>5, <3>6, ConcatFacts
      <3> HIDE DEF other
      <3> QED
        BY <3>2, <3>7
    <2>4. CASE dot \in dots /\ dot # Len(name)
      <3>0. dot # 0
        BY <1>1, <2>4
      <3>1. other = Append(SubSeq(name, 1, dot - 1), "_errors") \o SubSeq(name, dot, Len(name))
        BY <2>4, <3>0
      <3>2. dot \in 2 .. Len(name) /\ dot \in Nat
        BY <1>1, <2>4
      <3>3. SubSeq(name, 1, dot - 1) \in Seq(S) /\ Len(SubSeq(name, 1, dot - 1)) = dot - 1
        BY <1>1, <3>2
      <3>4. /\ SubSeq(name, dot, Len(name)) \in Seq(S)
            /\ Len(SubSeq(name, dot, Len(name))) = Len(name) - dot + 1
        BY <1>1, <3>2
      <3>5. /\ Append(SubSeq(name, 1, dot - 1), "_errors") \in Seq(S)
            /\ Len(Append(SubSeq(name, 1, dot - 1), "_errors")) = dot
        BY <2>1, <3>2, <3>3, AppendFacts
      <3>6. other \in Seq(S) /\ Len(other) = dot + (Len(name) - dot + 1)
        BY <3>1, <3>4, <3>5, ConcatFacts
      <3>7. Len(other) # Len(name)
        <4> HIDE DEF other
        <4> QED
          BY <1>1, <3>2, <3>6
      <3> HIDE DEF other
      <3> QED
        BY <3>6, <3>7
    <2> QED
      BY <1>2, <2>2, <2>3, <2>4
  <1> HIDE DEF other
  <1>5. PartialPathFor(ErrorPathFor(path)).name = Append(other, ".partial")
    BY <1>3 DEF PartialPathFor, ErrorPathFor, IsPath
  <1>6. PartialPathFor(path).name = Append(name, ".partial")
    BY DEF PartialPathFor, IsPath
  <1>7. ".partial" \in S
    BY DEF S
  <1>8. Append(other, ".partial") # Append(name, ".partial")
    <2> SUFFICES ASSUME Append(other, ".partial") = Append(name, ".partial") PROVE other = name
      BY <1>4
    <2> QED
      BY <1>1, <1>4, <1>7, AppendFacts
  <1> QED
    BY <1>3, <1>4, <1>5, <1>6, <1>8 DEF Located

-----------------------------------------------------------------------------
(* What a decode publishes.                                                *)

\* Whatever becomes of a decode, it leaves all of its files or none, or the
\* main one whose errors CSV could not be placed.
PublishedHonest ==
  reading = "decode" /\ outcome # None /\ settings # None => FilesHonest

MainAlone == [path \in {Located(CommitPath(Output))} |-> written.main]

FilesInv ==
  /\ NamesInv
  /\ stage # "exited" => outcome = None
  /\ stage \in {"counting", "count"} => reading = "count"
  /\ stage \in {"dumping", "dump"} => reading = "dump"
  /\ stage \in Early \cup {"stream", "ended"} => published = Nothing
  /\ stage \in Early \cup {"stream", "ended", "errors", "committed", "exited"}
  /\ stage = "errors" => ToFile /\ written.errors # <<>> /\ published = MainAlone
  /\ stage = "committed" => ToFile /\ published = FilesDue
  /\ PublishedHonest

\* What the files are measured by.
filesVars ==
  <<argv, args, reading, settings, failure, openDropped, written, published>>

\* The steps that end a run without changing what it has published.
Ends ==
  /\ stage' = "exited" /\ UNCHANGED filesVars /\ UNCHANGED <<disk, pipelineVars, sink>>
  /\ stage = "stream" /\ outcome'.exit = Success => sink # "open"
  /\ \/ stage \in Early /\ (reading = "decode" /\ settings # None => outcome'.exit # Success)
     \/ stage \in {"stream", "ended"} /\ (outcome'.exit = Success => ~ToFile)
     \/ stage = "errors" /\ outcome'.exit # Success
     \/ stage = "committed" /\ outcome'.exit = Success

\* The steps before anything is published.
GoesOn ==
  /\ stage \in Early \cup {"stream", "ended"} /\ stage' \in Early \cup {"stream", "ended"}
  /\ argv' = argv /\ args' = args /\ reading' = reading
  /\ published' = published /\ outcome' = outcome
  /\ stage' \in {"counting", "count"} => reading = "count"
  /\ stage' \in {"dumping", "dump"} => reading = "dump"

\* No error is a success.
LEMMA FailuresFail ==
  ASSUME NEW error
  PROVE  FailureOf(error).exit # Success
  BY DEF FailureOf, Success, Runtime, NoRecords, SyncLoss, MergeIncompatible

\* Where every step belongs.
LEMMA FilesSteps ==
  ASSUME SettledInv, FilesInv, reading \in {"globals"} \cup Subcommands, Next
  PROVE  Ends \/ GoesOn \/ ReadArguments \/ CommitMain \/ CommitErrors \/ Exited
  <1>0. /\ stage \in {"arguments", "config"} => settings = None
        /\ stage \in {"counting", "count"} => reading = "count"
        /\ stage \in {"dumping", "dump"} => reading = "dump"
    BY DEF SettledInv, FilesInv
  <1>1. CASE PrintAnswer \/ RefuseArguments \/ RefuseLogLevel
    BY <1>0, <1>1
    DEF PrintAnswer, RefuseArguments, RefuseLogLevel, ExitAfterPrinting, Exit, Ended,
        cliVars, pipelineVars, Ends, filesVars, Early
  <1>2. CASE ApplyLogLevel \/ ReadConfig
    BY <1>2 DEF ApplyLogLevel, ReadConfig, cliVars, GoesOn, Early
  <1>3. CASE RefuseConfig
    BY <1>0, <1>3 DEF RefuseConfig, Exit, Ended, cliVars, pipelineVars, Ends, filesVars, Early
  <1>4. CASE ResolveConfig
    BY <1>4 DEF ResolveConfig, cliVars, GoesOn, Early, Subcommands
  <1>5. CASE FindInputs \/ OpenInputs
    BY <1>5 DEF FindInputs, OpenInputs, cliVars, GoesOn, Early
  <1>6. CASE InputsUnreadable \/ InputsMiscounted
    BY <1>6
    DEF InputsUnreadable, InputsMiscounted, Exit, Ended, cliVars, pipelineVars, Ends, filesVars,
        Early, Runtime, Usage, Success
  <1>7. CASE InputUnopened \/ RefuseCollision \/ RefuseRendering
    BY <1>7
    DEF InputUnopened, RefuseCollision, RefuseRendering, Exit, Ended, cliVars, pipelineVars,
        Ends, filesVars, Early, Runtime, Usage, Success
  <1>8. CASE Begin
    <2>1. PICK primed : PrimingFails(primed) \/ RefuseOutput(primed) \/ StartStream(primed)
      BY <1>8 DEF Begin
    <2>2. stage = "check"
      BY <1>8 DEF Begin
    <2>3. CASE StartStream(primed)
      BY <2>2, <2>3 DEF StartStream, cliVars, GoesOn, Early
    <2>4. CASE PrimingFails(primed)
      <3>1. FailureOf(primed.error).exit # Success
        BY FailuresFail
      <3> QED
        BY <2>2, <2>4, <3>1
        DEF PrimingFails, Fails, Exit, Ended, cliVars, pipelineVars, Ends, filesVars, Early
    <2>5. CASE RefuseOutput(primed)
      BY <2>2, <2>5
      DEF RefuseOutput, Exit, Ended, cliVars, pipelineVars, Ends, filesVars, Early, Runtime,
          Success
    <2> QED
      BY <2>1, <2>3, <2>4, <2>5
  <1>9. CASE PullStream
    BY <1>9 DEF PullStream, cliVars, GoesOn
  <1>10. CASE WriteRow \/ StreamEnds
    BY <1>10 DEF WriteRow, StreamEnds, cliVars, GoesOn
  <1>11. CASE RowUnrenderable
    <2>1. FailureOf("CalendarUnavailable").exit # Success
      BY FailuresFail
    <2> QED
      BY <1>11, <2>1
      DEF RowUnrenderable, Fails, Exit, Ended, cliVars, pipelineVars, Ends, filesVars
  <1>12. CASE StdoutFails
    BY <1>12 DEF StdoutFails, Exit, Ended, cliVars, pipelineVars, Ends, filesVars
  <1>13. CASE StreamFailed
    <2>1. FailureOf(StreamError).exit # Success
      BY FailuresFail
    <2> QED
      BY <1>13, <2>1
      DEF StreamFailed, Fails, Exit, Ended, cliVars, pipelineVars, Ends, filesVars
  <1>14. CASE CommitFails
    BY <1>14
    DEF CommitFails, Committing, Exit, Ended, cliVars, pipelineVars, Ends, filesVars, Runtime,
        Success
  <1>15. CASE Conclude
    BY <1>15 DEF Conclude, Exit, Ended, cliVars, pipelineVars, Ends, filesVars
  <1>16. CASE ChooseCounted \/ OpenCounted
    BY <1>0, <1>16 DEF ChooseCounted, OpenCounted, cliVars, GoesOn, Early
  <1>17. CASE CountUnopened
    BY <1>0, <1>17 DEF CountUnopened, Exit, Ended, cliVars, pipelineVars, Ends, filesVars, Early
  <1>18. CASE Count
    <2>1. /\ stage = "counting"
          /\ \E pulled : CountMessage(pulled) \/ CountFails(pulled) \/ PrintCount(pulled)
      BY <1>18 DEF Count
    <2>2. PICK pulled : CountMessage(pulled) \/ CountFails(pulled) \/ PrintCount(pulled)
      BY <2>1
    <2>3. CASE CountMessage(pulled)
      BY <1>0, <2>1, <2>3 DEF CountMessage, cliVars, GoesOn, Early
    <2>4. CASE CountFails(pulled) \/ PrintCount(pulled)
      BY <1>0, <2>1, <2>4
      DEF CountFails, PrintCount, Fails, ExitAfterPrinting, Exit, Ended, cliVars, pipelineVars,
          Ends, filesVars, Early
    <2> QED
      BY <2>2, <2>3, <2>4
  <1>19. CASE DumpUnreadable \/ DumpRaw \/ DumpDone \/ DumpStops \/ DumpCut
    BY <1>0, <1>19
    DEF DumpUnreadable, DumpRaw, DumpDone, DumpStops, DumpCut, DumpEnds, Exit, Ended, cliVars,
        pipelineVars, Ends, filesVars, Early
  <1>20. CASE DumpRecords \/ DumpRecord
    BY <1>0, <1>20 DEF DumpRecords, DumpRecord, DumpSteps, cliVars, GoesOn, Early
  <1> QED
    BY <1>1, <1>2, <1>3, <1>4, <1>5, <1>6, <1>7, <1>8, <1>9, <1>10, <1>11, <1>12, <1>13,
       <1>14, <1>15, <1>16, <1>17, <1>18, <1>19, <1>20
    DEF Next, Decode, Dumping

\* What the files should be goes with what they are measured by.
LEMMA FilesMeasured ==
  ASSUME UNCHANGED filesVars
  PROVE  /\ Output' = Output /\ (ToFile' <=> ToFile) /\ (IsPartial' <=> IsPartial)
         /\ FilesDue' = FilesDue /\ MainAlone' = MainAlone
         /\ Located(PathOrPartial(Output))' = Located(PathOrPartial(Output))
         /\ NamesInv => NamesInv'
  <1>1. UNCHANGED <<argv, args, reading, settings, failure, openDropped, written, published>>
    BY DEF filesVars
  <1>2. Output' = Output /\ (ToFile' <=> ToFile)
    BY <1>1 DEF Output, ToFile
  <1>3. IsPartial' <=> IsPartial
    BY <1>1, <1>2 DEF IsPartial, StreamError
  <1>4. FilesDue' = FilesDue
    BY <1>1, <1>2, <1>3 DEF FilesDue, PathOrPartial
  <1>5. MainAlone' = MainAlone
    BY <1>1, <1>2, <1>3 DEF MainAlone, CommitPath
  <1>6. Located(PathOrPartial(Output))' = Located(PathOrPartial(Output))
    BY <1>1, <1>2, <1>3 DEF PathOrPartial
  <1>7. NamesInv => NamesInv'
    BY <1>1 DEF NamesInv, WellFormed
  <1> QED
    BY <1>2, <1>3, <1>4, <1>5, <1>6, <1>7

\* A run that ends leaves what it had published.
LEMMA EndsHonest ==
  ASSUME FilesInv, Ends
  PROVE  FilesInv'
  <1>1. UNCHANGED filesVars /\ stage' = "exited"
    BY DEF Ends
  <1>2. /\ ToFile' <=> ToFile
        /\ FilesDue' = FilesDue /\ MainAlone' = MainAlone /\ NamesInv'
        /\ Located(PathOrPartial(Output))' = Located(PathOrPartial(Output))
    BY <1>1, FilesMeasured DEF FilesInv
  <1>3. UNCHANGED <<args, reading, settings, written, published>>
    BY <1>1 DEF filesVars
  <1>4. MainAlone = [path \in {Located(PathOrPartial(Output))} |-> written.main]
    BY DEF MainAlone, CommitPath, PathOrPartial
  <1>5. PublishedHonest'
    <2> SUFFICES ASSUME reading = "decode", settings # None PROVE FilesHonest'
      BY <1>3 DEF PublishedHonest
    <2>1. /\ outcome'.exit = Success /\ ToFile => published = FilesDue
          /\ outcome'.exit # Success /\ published # Nothing =>
               written.errors # <<>> /\ published = MainAlone
      BY DEF Ends, FilesInv
    <2> QED
      BY <1>2, <1>3, <1>4, <2>1 DEF FilesHonest
  <1> QED
    BY <1>1, <1>2, <1>5 DEF FilesInv, Early

\* Before the files are placed, nothing is published.
LEMMA GoesOnHonest ==
  ASSUME FilesInv, GoesOn
  PROVE  FilesInv'
  <1>1. outcome' = None /\ published' = Nothing
    BY DEF FilesInv, GoesOn, Early
  <1>2. NamesInv'
    BY DEF FilesInv, GoesOn, NamesInv, WellFormed
  <1>3. Nothing' = Nothing
    BY DEF Nothing
  <1> QED
    BY <1>1, <1>2, <1>3 DEF FilesInv, GoesOn, PublishedHonest, Early

\* The main file is placed, and then the errors CSV if there is one.
LEMMA CommitsHonest ==
  ASSUME FilesInv, CommitMain \/ CommitErrors
  PROVE  FilesInv'
  <1>1. UNCHANGED <<argv, args, reading, settings, failure, openDropped, written>>
    BY DEF CommitMain, CommitErrors, Commit, cliVars, pipelineVars
  <1>2. Output' = Output /\ (ToFile' <=> ToFile)
    BY <1>1 DEF Output, ToFile
  <1>3. IsPartial' <=> IsPartial
    BY <1>1, <1>2 DEF IsPartial, StreamError
  <1>4. FilesDue' = FilesDue
    BY <1>1, <1>2, <1>3 DEF FilesDue, PathOrPartial
  <1>5. MainAlone' = MainAlone
    BY <1>1, <1>2, <1>3 DEF MainAlone, CommitPath
  <1>6. NamesInv'
    BY <1>1 DEF FilesInv, NamesInv, WellFormed
  <1>7. outcome' = None
    BY DEF CommitMain, CommitErrors, Commit, Committing, FilesInv
  <1>8. CASE CommitMain
    <2>1. /\ ToFile /\ published = Nothing
          /\ published' = With(published, Located(CommitPath(Output)), written.main)
          /\ stage' = IF written.errors = <<>> THEN "committed" ELSE "errors"
      BY <1>8 DEF CommitMain, Committing, Commit, FilesInv
    <2>2. published' = MainAlone
      BY <2>1 DEF MainAlone, With, Nothing
    <2>3. CASE written.errors = <<>>
      <3>2. FilesDue = MainAlone
        BY <2>3 DEF FilesDue, MainAlone, PathOrPartial, CommitPath
      <3> QED
        BY <1>1, <1>2, <1>4, <1>6, <1>7, <2>1, <2>2, <2>3, <3>2
        DEF FilesInv, PublishedHonest, Early
    <2>4. CASE written.errors # <<>>
      BY <1>1, <1>2, <1>5, <1>6, <1>7, <2>1, <2>2, <2>4 DEF FilesInv, PublishedHonest, Early
    <2> QED
      BY <2>3, <2>4
  <1>9. CASE CommitErrors
    <2>1. /\ ToFile /\ published = MainAlone /\ written.errors # <<>>
          /\ published' = With(published, Located(CommitPath(ErrorPathFor(Output))), written.errors)
          /\ stage' = "committed"
      BY <1>9 DEF CommitErrors, Commit, FilesInv
    <2>2. IsPath(Output) \/ Output = None
      BY DEF FilesInv, NamesInv, Output
    <2>3. IsPath(Output)
      BY <2>1, <2>2 DEF ToFile
    <2>4. Located(CommitPath(ErrorPathFor(Output))) # Located(CommitPath(Output))
      BY <2>3, NamesDiffer DEF CommitPath
    <2>5. published' = FilesDue
      <3> DEFINE main == Located(CommitPath(Output))
                 errors == Located(CommitPath(ErrorPathFor(Output)))
      <3>1. FilesDue = [path \in {main} \cup {errors} |->
                          IF path = main THEN written.main ELSE written.errors]
        BY <2>1 DEF FilesDue, PathOrPartial, CommitPath
      <3>2. published' = With([path \in {main} |-> written.main], errors, written.errors)
        BY <2>1 DEF MainAlone
      <3> HIDE DEF main, errors
      <3>3. published' = [path \in {main} \cup {errors} |->
                            IF path = errors THEN written.errors ELSE written.main]
        BY <3>2 DEF With
      <3>4. main # errors
        BY <2>4 DEF main, errors
      <3> QED
        BY <3>1, <3>3, <3>4
    <2> QED
      BY <1>2, <1>4, <1>6, <1>7, <2>1, <2>5 DEF FilesInv, PublishedHonest, Early
  <1> QED
    BY <1>8, <1>9

\* The invariant of the files that are published.
LEMMA FilesInvariance == Spec => []FilesInv
  <1>1. Init => FilesInv
    <2> SUFFICES ASSUME Init PROVE FilesInv
      OBVIOUS
    <2>1. PICK family \in Families : \E given \in family : StartReading(given.argv)
      BY DEF Init
    <2>2. PICK given \in family : StartReading(given.argv)
      BY <2>1
    <2>3. NamesInv
      <3>1. argv = given.argv /\ args = Nothing
        BY <2>2 DEF StartReading
      <3> QED
        BY <3>1, ArgumentsAssumption DEF NamesInv, Nothing
    <2>4. stage = "arguments" /\ outcome = None /\ published = [path \in {} |-> <<>>]
      BY DEF Init
    <2>5. published = Nothing
      BY <2>4 DEF Nothing
    <2> QED
      BY <2>3, <2>4, <2>5 DEF FilesInv, PublishedHonest, Early
  <1>2. ReadInv /\ PublishInv /\ ChosenInv /\ FilesInv /\ [Next]_vars => FilesInv'
    <2> SUFFICES ASSUME ReadInv, PublishInv, ChosenInv, FilesInv, [Next]_vars PROVE FilesInv'
      OBVIOUS
    <2>1. ASSUME UNCHANGED <<stage, outcome>>, UNCHANGED filesVars PROVE FilesInv'
      BY <2>1, FilesMeasured DEF FilesInv, PublishedHonest, FilesHonest, filesVars, Nothing
    <2>2. CASE UNCHANGED vars \/ Exited
      BY <2>1, <2>2 DEF Exited, vars, cliVars, pipelineVars, filesVars
    <2>3. CASE ReadArguments
      <3>1. /\ ReadToken /\ stage = "arguments" /\ stage' = stage
            /\ UNCHANGED <<published, outcome>>
        BY <2>3 DEF ReadArguments
      <3>2. NamesInv'
        BY <3>1, NamesKeep DEF ReadInv, FilesInv
      <3> QED
        BY <3>1, <3>2 DEF FilesInv, PublishedHonest, Early, Nothing
    <2>4. CASE Next
      <3>1. SettledInv /\ reading \in {"globals"} \cup Subcommands
        BY DEF ChosenInv, PublishInv
      <3> QED
        BY <2>2, <2>3, <2>4, <3>1, FilesSteps, EndsHonest, GoesOnHonest, CommitsHonest
    <2> QED
      BY <2>2, <2>4
  <1> QED
    BY <1>1, <1>2, ReadInvariance, PublishInvariance, ChosenInvariance, PTL DEF Spec

\* L1-EXIT-002, L2-WRT-014: a decode that succeeds leaves exactly its rows at
\* the names it owes them to, and one that fails leaves nothing, or the main
\* file alone if the errors CSV could not be placed, wherever they are.
THEOREM PublishingIsHonest == Spec => []PublishedHonest
  <1>1. FilesInv => PublishedHonest
    BY DEF FilesInv
  <1> QED
    BY <1>1, FilesInvariance, PTL

-----------------------------------------------------------------------------
(* What a queue holds of the records that came.                            *)

\* The records with the numbers I.
Those(a, I) == {a[i] : i \in I}

\* The queue s holds the records of a with the numbers I, each once.
Carries(a, s, I) ==
  /\ I \in SUBSET (1 .. Len(a))
  /\ s \in Seq(Those(a, I))
  /\ \A i \in I : \E p \in 1 .. Len(s) : s[p] = a[i]
  /\ \A p, q \in 1 .. Len(s) : p # q => s[p].id # s[q].id

\* Records are numbered as they come.
Numbered(a) ==
  /\ Len(a) \in Nat /\ DOMAIN a = 1 .. Len(a)
  /\ \A i \in 1 .. Len(a) : a[i].id = i

\* No queue holds nothing.
LEMMA CarriesNone ==
  ASSUME NEW a
  PROVE  Carries(a, <<>>, {})
  BY DEF Carries

\* The records of a queue are those of their numbers.
LEMMA CarriesFacts ==
  ASSUME NEW a, Numbered(a), NEW I, NEW s, Carries(a, s, I)
  PROVE  /\ Len(s) \in Nat /\ DOMAIN s = 1 .. Len(s)
         /\ \A p \in 1 .. Len(s) : s[p].id \in I /\ s[p] = a[s[p].id]
  <1>0. Len(s) \in Nat /\ DOMAIN s = 1 .. Len(s) /\ \A p \in 1 .. Len(s) : s[p] \in Those(a, I)
    BY DEF Carries
  <1>1. \A p \in 1 .. Len(s) : \E i \in I : s[p] = a[i]
    BY <1>0 DEF Those
  <1>2. ASSUME NEW p \in 1 .. Len(s) PROVE s[p].id \in I /\ s[p] = a[s[p].id]
    <2>1. PICK i \in I : s[p] = a[i]
      BY <1>1
    <2>2. a[i].id = i
      BY DEF Numbered, Carries
    <2> QED
      BY <2>1, <2>2
  <1> QED
    BY <1>0, <1>2

\* One record more at the end.
LEMMA CarriesOneMore ==
  ASSUME NEW a, Numbered(a), NEW I, NEW s, Carries(a, s, I), NEW n \in (1 .. Len(a)) \ I
  PROVE  Carries(a, Append(s, a[n]), I \cup {n})
  <1> DEFINE J == I \cup {n}
             S == Those(a, J)
             t == Append(s, a[n])
  <1>0. J \in SUBSET (1 .. Len(a)) /\ n \in J
    BY DEF Carries
  <1>1. s \in Seq(S) /\ a[n] \in S
    BY DEF Carries, Those
  <1>2. /\ t \in Seq(S) /\ Len(t) = Len(s) + 1 /\ Len(s) \in Nat
        /\ \A p \in 1 .. Len(s) : t[p] = s[p]
        /\ t[Len(s) + 1] = a[n]
    <2> HIDE DEF S
    <2> QED
      BY <1>1, AppendFacts
  <1>3. /\ \A p \in 1 .. Len(s) : s[p].id \in I
        /\ a[n].id = n /\ n \notin I
    BY CarriesFacts DEF Numbered
  <1> HIDE DEF t
  <1>4. \A p \in 1 .. Len(t) : p \in 1 .. Len(s) \/ p = Len(s) + 1
    BY <1>2
  <1>5. \A p, q \in 1 .. Len(t) : p # q => t[p].id # t[q].id
    <2>1. \A p, q \in 1 .. Len(s) : p # q => s[p].id # s[q].id
      BY DEF Carries
    <2>2. /\ \A p \in 1 .. Len(s) : t[p].id = s[p].id /\ t[p].id # n
          /\ t[Len(s) + 1].id = n
      BY <1>2, <1>3
    <2> QED
      BY <1>4, <2>1, <2>2
  <1>6. \A i \in J : \E p \in 1 .. Len(t) : t[p] = a[i]
    <2> SUFFICES ASSUME NEW i \in J PROVE \E p \in 1 .. Len(t) : t[p] = a[i]
      OBVIOUS
    <2>1. CASE i = n
      BY <1>2, <2>1
    <2>2. CASE i \in I
      <3>1. PICK p \in 1 .. Len(s) : s[p] = a[i]
        BY <2>2 DEF Carries
      <3>2. p \in 1 .. Len(t)
        BY <1>2
      <3> QED
        BY <1>2, <3>1, <3>2
    <2> QED
      BY <2>1, <2>2
  <1>7. t \in Seq(Those(a, J))
    BY <1>2
  <1> QED
    BY <1>0, <1>5, <1>6, <1>7 DEF Carries, t

\* The last record taken away.
LEMMA CarriesOneLess ==
  ASSUME NEW a, Numbered(a), NEW I, NEW s, Carries(a, s, I), s # <<>>
  PROVE  /\ Last(s).id \in I /\ Last(s) = a[Last(s).id]
         /\ Carries(a, Front(s), I \ {Last(s).id})
  <1> DEFINE S == Those(a, I)
             f == Front(s)
             n == s[Len(s)].id
             J == I \ {n}
  <1>1. s \in Seq(S)
    BY DEF Carries
  <1>2. /\ f \in Seq(S) /\ Len(f) = Len(s) - 1 /\ Len(s) \in Nat \ {0}
        /\ \A p \in 1 .. Len(s) - 1 : f[p] = s[p]
        /\ Last(s) = s[Len(s)]
    <2> HIDE DEF S
    <2> QED
      BY <1>1, FrontFacts
  <1>3. /\ \A p \in 1 .. Len(s) : s[p].id \in I /\ s[p] = a[s[p].id]
        /\ \A p, q \in 1 .. Len(s) : p # q => s[p].id # s[q].id
        /\ I \in SUBSET (1 .. Len(a))
    <2>1. \A p \in 1 .. Len(s) : s[p].id \in I /\ s[p] = a[s[p].id]
      BY CarriesFacts
    <2> QED
      BY <2>1 DEF Carries
  <1>4. Len(s) \in 1 .. Len(s)
    BY <1>2
  <1>5. Last(s).id \in I /\ Last(s) = a[Last(s).id] /\ Last(s).id = n
    BY <1>2, <1>3, <1>4
  <1> HIDE DEF f
  <1>6. ASSUME NEW p \in 1 .. Len(f)
        PROVE  p \in 1 .. Len(s) /\ p # Len(s) /\ f[p] = s[p] /\ f[p].id \in J
    <2>1. p \in 1 .. Len(s) /\ p # Len(s) /\ f[p] = s[p]
      BY <1>2
    <2>2. s[p].id # n /\ s[p].id \in I
      BY <1>3, <1>4, <2>1
    <2> QED
      BY <2>1, <2>2
  <1>7. f \in Seq(Those(a, J))
    <2>1. \A p \in 1 .. Len(f) : f[p] \in Those(a, J)
      <3>1. \A p \in 1 .. Len(f) : f[p] = a[f[p].id] /\ f[p].id \in J
        BY <1>3, <1>6
      <3> QED
        BY <3>1 DEF Those
    <2>2. f = [p \in 1 .. Len(f) |-> f[p]] /\ Len(f) \in Nat
      BY <1>2
    <2> DEFINE T == Those(a, J)
    <2>3. \A p \in 1 .. Len(f) : f[p] \in T
      BY <2>1
    <2> HIDE DEF T
    <2>4. f \in Seq(T)
      BY <2>2, <2>3
    <2> QED
      BY <2>4 DEF T
  <1>8. \A i \in J : \E p \in 1 .. Len(f) : f[p] = a[i]
    <2> SUFFICES ASSUME NEW i \in J PROVE \E p \in 1 .. Len(f) : f[p] = a[i]
      OBVIOUS
    <2>1. PICK p \in 1 .. Len(s) : s[p] = a[i]
      BY DEF Carries
    <2>2. a[i].id = i
      BY <1>3 DEF Numbered
    <2>3. p # Len(s)
      BY <2>1, <2>2
    <2>4. p \in 1 .. Len(f)
      BY <1>2, <2>3
    <2> QED
      BY <1>6, <2>1, <2>4
  <1>9. \A p, q \in 1 .. Len(f) : p # q => f[p].id # f[q].id
    BY <1>3, <1>6
  <1> QED
    BY <1>3, <1>5, <1>7, <1>8, <1>9 DEF Carries, f

\* Two queues with nothing in common, end to end.
LEMMA CarriesBoth ==
  ASSUME NEW a, Numbered(a), NEW I, NEW s, Carries(a, s, I), NEW J, NEW t, Carries(a, t, J),
         I \cap J = {}
  PROVE  Carries(a, s \o t, I \cup J)
  <1> DEFINE S == Those(a, I \cup J)
             u == s \o t
  <1>1. s \in Seq(S) /\ t \in Seq(S)
    <2>1. Those(a, I) \subseteq S /\ Those(a, J) \subseteq S
      BY DEF Those
    <2>2. s \in Seq(Those(a, I)) /\ t \in Seq(Those(a, J))
      BY DEF Carries
    <2> HIDE DEF S
    <2> QED
      BY <2>1, <2>2
  <1>2. /\ u \in Seq(S) /\ Len(u) = Len(s) + Len(t)
        /\ Len(s) \in Nat /\ Len(t) \in Nat
        /\ \A p \in 1 .. Len(s) : u[p] = s[p]
        /\ \A p \in 1 .. Len(t) : u[Len(s) + p] = t[p]
    <2> HIDE DEF S
    <2> QED
      BY <1>1, ConcatFacts
  <1>3. /\ \A p \in 1 .. Len(s) : s[p].id \in I
        /\ \A p \in 1 .. Len(t) : t[p].id \in J
    BY CarriesFacts
  <1> HIDE DEF u
  <1>4. ASSUME NEW p \in 1 .. Len(u)
        PROVE  \/ p \in 1 .. Len(s) /\ u[p] = s[p]
               \/ p - Len(s) \in 1 .. Len(t) /\ u[p] = t[p - Len(s)]
    <2>1. p \in 1 .. Len(s) \/ p - Len(s) \in 1 .. Len(t)
      BY <1>2
    <2>2. p = Len(s) + (p - Len(s))
      BY <1>2
    <2> QED
      BY <1>2, <2>1, <2>2
  <1>5. \A p, q \in 1 .. Len(u) : p # q => u[p].id # u[q].id
    <2> SUFFICES ASSUME NEW p \in 1 .. Len(u), NEW q \in 1 .. Len(u), p # q
                 PROVE  u[p].id # u[q].id
      OBVIOUS
    <2>1. p - Len(s) # q - Len(s)
      BY <1>2
    <2>2. /\ \/ p \in 1 .. Len(s) /\ u[p] = s[p]
             \/ p - Len(s) \in 1 .. Len(t) /\ u[p] = t[p - Len(s)]
          /\ \/ q \in 1 .. Len(s) /\ u[q] = s[q]
             \/ q - Len(s) \in 1 .. Len(t) /\ u[q] = t[q - Len(s)]
      BY <1>4
    <2>3. /\ \A x, y \in 1 .. Len(s) : x # y => s[x].id # s[y].id
          /\ \A x, y \in 1 .. Len(t) : x # y => t[x].id # t[y].id
      BY DEF Carries
    <2>4. \A x \in 1 .. Len(s), y \in 1 .. Len(t) : s[x].id # t[y].id
      BY <1>3
    <2> QED
      BY <2>1, <2>2, <2>3, <2>4
  <1>6. \A i \in I \cup J : \E p \in 1 .. Len(u) : u[p] = a[i]
    <2> SUFFICES ASSUME NEW i \in I \cup J PROVE \E p \in 1 .. Len(u) : u[p] = a[i]
      OBVIOUS
    <2>1. CASE i \in I
      <3>1. PICK p \in 1 .. Len(s) : s[p] = a[i]
        BY <2>1 DEF Carries
      <3>2. p \in 1 .. Len(u)
        BY <1>2
      <3> QED
        BY <1>2, <3>1, <3>2
    <2>2. CASE i \in J
      <3>1. PICK p \in 1 .. Len(t) : t[p] = a[i]
        BY <2>2 DEF Carries
      <3>2. Len(s) + p \in 1 .. Len(u)
        BY <1>2
      <3> QED
        BY <1>2, <3>1, <3>2
    <2> QED
      BY <2>1, <2>2
  <1>7. u \in Seq(Those(a, I \cup J)) /\ I \cup J \in SUBSET (1 .. Len(a))
    BY <1>2 DEF Carries
  <1> QED
    BY <1>5, <1>6, <1>7 DEF Carries, u

\* The list t is s in the order `from`.
Reorders(t, s, from) ==
  /\ t = [p \in 1 .. Len(s) |-> s[from[p]]]
  /\ from \in [1 .. Len(s) -> 1 .. Len(s)]
  /\ \A n \in 1 .. Len(s) : \E p \in 1 .. Len(s) : from[p] = n
  /\ \A p, q \in 1 .. Len(s) : p # q => from[p] # from[q]

\* In another order, a queue holds the same.
LEMMA CarriesMixed ==
  ASSUME NEW a, Numbered(a), NEW I, NEW s, Carries(a, s, I), NEW t, NEW from,
         Reorders(t, s, from)
  PROVE  Carries(a, t, I)
  <1>0. /\ t = [p \in 1 .. Len(s) |-> s[from[p]]]
        /\ from \in [1 .. Len(s) -> 1 .. Len(s)]
        /\ \A n \in 1 .. Len(s) : \E p \in 1 .. Len(s) : from[p] = n
        /\ \A p, q \in 1 .. Len(s) : p # q => from[p] # from[q]
    BY DEF Reorders
  <1>1. Len(s) \in Nat /\ \A p \in 1 .. Len(s) : s[p] \in Those(a, I)
    BY DEF Carries
  <1>2. t \in Seq(Those(a, I)) /\ Len(t) = Len(s)
    <2>1. \A p \in 1 .. Len(s) : t[p] \in Those(a, I)
      BY <1>0, <1>1
    <2> QED
      BY <1>0, <1>1, <2>1
  <1>3. \A i \in I : \E p \in 1 .. Len(t) : t[p] = a[i]
    <2> SUFFICES ASSUME NEW i \in I PROVE \E p \in 1 .. Len(t) : t[p] = a[i]
      OBVIOUS
    <2>1. PICK n \in 1 .. Len(s) : s[n] = a[i]
      BY DEF Carries
    <2>2. PICK p \in 1 .. Len(s) : from[p] = n
      BY <1>0
    <2> QED
      BY <1>0, <1>2, <2>1, <2>2
  <1>4. ASSUME NEW p \in 1 .. Len(t), NEW q \in 1 .. Len(t), p # q PROVE t[p].id # t[q].id
    <2>1. \A x, y \in 1 .. Len(s) : x # y => s[x].id # s[y].id
      BY DEF Carries
    <2>2. from[p] # from[q] /\ from[p] \in 1 .. Len(s) /\ from[q] \in 1 .. Len(s)
      BY <1>0, <1>2, <1>4
    <2>3. t[p] = s[from[p]] /\ t[q] = s[from[q]]
      BY <1>0, <1>2
    <2>4. s[from[p]].id # s[from[q]].id
      BY <2>1, <2>2, Zenon
    <2> QED
      BY <2>3, <2>4
  <1> QED
    BY <1>2, <1>3, <1>4 DEF Carries

\* Turned round, a queue holds the same.
LEMMA CarriesReversed ==
  ASSUME NEW a, Numbered(a), NEW I, NEW s, Carries(a, s, I)
  PROVE  Carries(a, Reverse(s), I)
  <1> DEFINE S == Those(a, I)
             t == Reverse(s)
             from == [p \in 1 .. Len(s) |-> Len(s) - p + 1]
  <1>1. s \in Seq(S) /\ Len(s) \in Nat
    BY DEF Carries
  <1>2. t \in Seq(S) /\ Len(t) = Len(s) /\ \A p \in 1 .. Len(s) : t[p] = s[Len(s) - p + 1]
    <2> HIDE DEF S
    <2> QED
      BY <1>1, ReverseFacts
  <1>3. from \in [1 .. Len(s) -> 1 .. Len(s)]
    BY <1>1
  <1>4. \A n \in 1 .. Len(s) : Len(s) - n + 1 \in 1 .. Len(s) /\ from[Len(s) - n + 1] = n
    BY <1>1
  <1>5. \A p, q \in 1 .. Len(s) : p # q => from[p] # from[q]
    BY <1>1
  <1>6. t = [p \in 1 .. Len(s) |-> s[from[p]]]
    BY <1>2
  <1>7. Reorders(t, s, from)
    <2> HIDE DEF t, from
    <2> QED
      BY <1>3, <1>4, <1>5, <1>6 DEF Reorders
  <1> QED
    BY <1>7, CarriesMixed

\* A record that comes leaves what the queues hold.
LEMMA CarriesStill ==
  ASSUME NEW a, Numbered(a), NEW I, NEW s, Carries(a, s, I), NEW b, Numbered(b), Len(a) <= Len(b),
         \A i \in 1 .. Len(a) : b[i] = a[i]
  PROVE  Carries(b, s, I)
  <1>1. I \in SUBSET (1 .. Len(b)) /\ \A i \in I : b[i] = a[i]
    <2>1. I \in SUBSET (1 .. Len(a)) /\ Len(a) \in Nat /\ Len(b) \in Nat
      BY DEF Carries, Numbered
    <2>2. \A i \in 1 .. Len(a) : i \in 1 .. Len(b)
      BY <2>1
    <2> QED
      BY <2>1, <2>2
  <1>2. Those(b, I) = Those(a, I)
    BY <1>1 DEF Those
  <1> QED
    BY <1>1, <1>2 DEF Carries

-----------------------------------------------------------------------------
(* The sort of a run, and the flush that puts it out.                      *)

\* A run of records with keys.
Keyed(run) ==
  /\ Len(run) \in Nat /\ DOMAIN run = 1 .. Len(run)
  /\ \A n \in 1 .. Len(run) : run[n].key \in Nat

\* A place is in the chunk of an anchor, or of none, that does not come after it.
LEMMA ChunkIs ==
  ASSUME NEW run, Keyed(run), NEW n \in 1 .. Len(run)
  PROVE  /\ Order!ChunkOf(run, n) \in Nat /\ Order!ChunkOf(run, n) <= n
         /\ Order!ChunkKey(run, Order!ChunkOf(run, n)) \in Nat
  <1> DEFINE S == {h \in 1 .. n : run[h].key # Order!NoKey}
             c == Order!ChunkOf(run, n)
  <1>1. n \in Nat /\ S \in SUBSET (1 .. n) /\ Len(run) \in Nat
    BY DEF Keyed
  <1>2. c = IF S = {} THEN 0 ELSE LastOf(S)
    BY DEF Order!ChunkOf, LastOf
  <1>3. S # {} => LastOf(S) \in S
    <2> HIDE DEF S
    <2> QED
      BY <1>1, LastOfPlaces
  <1>4. c = 0 \/ c \in 1 .. n
    BY <1>1, <1>2, <1>3
  <1> HIDE DEF c, S
  <1>5. c # 0 => run[c].key \in Nat
    BY <1>1, <1>4 DEF Keyed
  <1>6. c \in Nat /\ c <= n /\ Order!ChunkKey(run, c) \in Nat
    BY <1>1, <1>4, <1>5 DEF Order!ChunkKey, Order!NoKey
  <1> QED
    BY <1>6 DEF c

\* The places of a run are strictly and totally ordered.
LEMMA PlacesOrdered ==
  ASSUME NEW run, Keyed(run)
  PROVE  /\ \A n \in 1 .. Len(run) : ~Order!PlaceBefore(run, n, n)
         /\ \A n, m \in 1 .. Len(run) :
              n # m => Order!PlaceBefore(run, n, m) \/ Order!PlaceBefore(run, m, n)
         /\ \A k, n, m \in 1 .. Len(run) :
              Order!PlaceBefore(run, k, n) /\ Order!PlaceBefore(run, n, m) =>
                Order!PlaceBefore(run, k, m)
  <1> DEFINE c(n) == Order!ChunkOf(run, n)
             g(n) == Order!ChunkKey(run, c(n))
             L == Len(run)
             B(n, m) == Order!PlaceBefore(run, n, m)
  <1>1. \A n \in 1 .. L : n \in Nat /\ c(n) \in Nat /\ g(n) \in Nat
    BY ChunkIs DEF Keyed
  <1>2. \A n, m \in 1 .. L :
          B(n, m) <=> \/ g(n) < g(m)
                      \/ g(n) = g(m) /\ c(n) < c(m)
                      \/ c(n) = c(m) /\ n < m
    BY DEF Order!PlaceBefore, Order!ChunkBefore
  <1>3. \A n, m \in 1 .. L : c(n) = c(m) => g(n) = g(m)
    OBVIOUS
  <1> HIDE DEF c, g, L, B
  <1>4. \A n \in 1 .. L : ~B(n, n)
    BY <1>1, <1>2
  <1>5. \A n, m \in 1 .. L : n # m => B(n, m) \/ B(m, n)
    BY <1>1, <1>2, <1>3
  <1>6. ASSUME NEW k \in 1 .. L, NEW n \in 1 .. L, NEW m \in 1 .. L, B(k, n), B(n, m)
        PROVE  B(k, m)
    BY <1>1, <1>2, <1>3, <1>6
  <1> QED
    BY <1>4, <1>5, <1>6 DEF B, L

\* Sorting a run reorders it.
LEMMA SortReorders ==
  ASSUME NEW run, Keyed(run)
  PROVE  \E from : Reorders(Order!SortRun(run), run, from)
  <1> DEFINE L == Len(run)
             ahead == [n \in 1 .. L |-> Order!Ahead(run, n)]
             At(r) == CHOOSE n \in 1 .. L : Cardinality(ahead[n]) = r - 1
             from == [r \in 1 .. L |-> At(r)]
  <1>1. L \in Nat /\ DOMAIN run = 1 .. L
    BY DEF Keyed
  <1>2. \A n, m \in 1 .. L : m \in ahead[n] <=> Order!PlaceBefore(run, m, n)
    BY <1>1 DEF Order!Ahead
  <1>3. ahead \in [1 .. L -> SUBSET (1 .. L)]
    BY <1>1 DEF Order!Ahead
  <1>4. Order!SortRun(run) = [r \in 1 .. L |-> run[from[r]]]
    <2> DEFINE Place(r) == CHOOSE n \in DOMAIN run : Cardinality(Order!Ahead(run, n)) = r - 1
    <2>1. ASSUME NEW r \in 1 .. L PROVE Place(r) = from[r]
      <3>1. \A n \in 1 .. L : ahead[n] = Order!Ahead(run, n)
        OBVIOUS
      <3>2. (CHOOSE n \in DOMAIN run : Cardinality(Order!Ahead(run, n)) = r - 1) = At(r)
        BY <1>1, <3>1
      <3> QED
        BY <3>2
    <2>2. Order!SortRun(run) = [r \in DOMAIN run |-> run[Place(r)]]
      BY DEF Order!SortRun, Order!Cardinality, Cardinality
    <2> HIDE DEF Place, from
    <2> QED
      BY <1>1, <2>1, <2>2
  <1> HIDE DEF ahead, L
  <1>5. /\ \A x \in 1 .. L : Cardinality(ahead[x]) \in 0 .. L - 1
        /\ \A x, y \in 1 .. L :
              x \in ahead[y] <=> Cardinality(ahead[x]) < Cardinality(ahead[y])
        /\ \A k \in 0 .. L - 1 : \E x \in 1 .. L : Cardinality(ahead[x]) = k
    <2>1. \A x \in 1 .. L : x \notin ahead[x]
      BY <1>2, PlacesOrdered DEF L
    <2>2. \A x, y \in 1 .. L : x # y => x \in ahead[y] \/ y \in ahead[x]
      BY <1>2, PlacesOrdered DEF L
    <2>3. \A x, y \in 1 .. L : y \in ahead[x] => ahead[y] \subseteq ahead[x]
      <3> SUFFICES ASSUME NEW x \in 1 .. L, NEW y \in 1 .. L, y \in ahead[x], NEW z \in ahead[y]
                   PROVE  z \in ahead[x]
        OBVIOUS
      <3>1. z \in 1 .. L
        BY <1>3
      <3> QED
        BY <1>2, <3>1, PlacesOrdered DEF L
    <2> QED
      BY <1>1, <1>3, <2>1, <2>2, <2>3, Ranking
  <1>6. \A r \in 1 .. L : At(r) \in 1 .. L /\ Cardinality(ahead[At(r)]) = r - 1
    <2> SUFFICES ASSUME NEW r \in 1 .. L
                 PROVE  At(r) \in 1 .. L /\ Cardinality(ahead[At(r)]) = r - 1
      OBVIOUS
    <2>1. r - 1 \in 0 .. L - 1
      BY <1>1
    <2>2. \E x \in 1 .. L : Cardinality(ahead[x]) = r - 1
      BY <1>5, <2>1
    <2> QED
      BY <2>2
  <1>7. from \in [1 .. L -> 1 .. L]
    BY <1>6
  <1>8. ASSUME NEW n \in 1 .. L PROVE \E r \in 1 .. L : from[r] = n
    <2> DEFINE r == Cardinality(ahead[n]) + 1
    <2>1. r \in 1 .. L /\ r - 1 = Cardinality(ahead[n])
      BY <1>1, <1>5
    <2> HIDE DEF r
    <2>2. At(r) \in 1 .. L /\ Cardinality(ahead[At(r)]) = Cardinality(ahead[n])
      BY <1>6, <2>1
    <2>3. At(r) \notin ahead[n] /\ n \notin ahead[At(r)]
      BY <1>5, <2>2
    <2>4. At(r) = n
      BY <1>2, <2>2, <2>3, PlacesOrdered DEF L
    <2> QED
      BY <2>1, <2>4
  <1>9. \A p, q \in 1 .. L : p # q => from[p] # from[q]
    <2> SUFFICES ASSUME NEW p \in 1 .. L, NEW q \in 1 .. L, from[p] = from[q] PROVE p = q
      OBVIOUS
    <2>1. Cardinality(ahead[At(p)]) = p - 1 /\ Cardinality(ahead[At(q)]) = q - 1 /\ At(p) = At(q)
      BY <1>6
    <2>2. p - 1 = q - 1
      BY <2>1
    <2> QED
      BY <1>1, <2>2
  <1>10. Reorders(Order!SortRun(run), run, from)
    <2> HIDE DEF from
    <2> QED
      BY <1>4, <1>7, <1>8, <1>9 DEF Reorders, L
  <1> QED
    BY <1>10

\* A run that is flushed, sorted or not, is what it was.
LEMMA CarriesFlushed ==
  ASSUME NEW a, Numbered(a), NEW I, NEW s, Carries(a, s, I),
         \A i \in 1 .. Len(a) : a[i].key \in Nat
  PROVE  Carries(a, Reverse(Order!SortRun(s)), I)
  <1>1. Keyed(s)
    <2>1. /\ Len(s) \in Nat /\ DOMAIN s = 1 .. Len(s)
          /\ \A p \in 1 .. Len(s) : s[p].id \in I /\ s[p] = a[s[p].id]
      BY CarriesFacts
    <2>2. I \in SUBSET (1 .. Len(a))
      BY DEF Carries
    <2> QED
      BY <2>1, <2>2 DEF Keyed
  <1>2. PICK from : Reorders(Order!SortRun(s), s, from)
    BY <1>1, SortReorders
  <1>3. Carries(a, Order!SortRun(s), I)
    BY <1>2, CarriesMixed
  <1> QED
    BY <1>3, CarriesReversed

-----------------------------------------------------------------------------
(* The readers as they are opened.                                         *)

\* A sequence is the list of its elements.
LEMMA ListIs ==
  ASSUME NEW S, NEW s \in Seq(S)
  PROVE  IsList(s)
  <1>1. /\ Len(s) \in Nat /\ s = [i \in 1 .. Len(s) |-> s[i]]
        /\ \A i \in 1 .. Len(s) : s[i] \in {s[j] : j \in 1 .. Len(s)}
    OBVIOUS
  <1> QED
    BY <1>1 DEF IsList

\* Induction up to a bound, over the numbers that something holds of.
LEMMA Upward ==
  ASSUME NEW N \in Nat, NEW S, 0 \in S, \A m \in 0 .. N : m \in S /\ m # N => m + 1 \in S
  PROVE  \A m \in 0 .. N : m \in S
  <1> DEFINE bad == {m \in 0 .. N : m \notin S}
  <1>1. ASSUME bad # {} PROVE FALSE
    <2> DEFINE k == Least(bad)
    <2>1. k \in bad /\ \A y \in bad : k <= y
      <3>1. bad \in SUBSET Nat
        OBVIOUS
      <3> HIDE DEF bad
      <3> QED
        BY <1>1, <3>1, LeastPlace
    <2> HIDE DEF k
    <2>2. k \in 0 .. N /\ k # 0 /\ k \notin S
      BY <2>1
    <2>3. k - 1 \in 0 .. N /\ k - 1 # N /\ k - 1 + 1 = k /\ ~(k <= k - 1)
      BY <2>2
    <2>4. k - 1 \in S
      BY <2>1, <2>3
    <2> QED
      BY <2>2, <2>3, <2>4
  <1> QED
    BY <1>1

\* The inputs that could be opened are a list of such.
LEMMA OpenedOpens ==
  ASSUME Len(inputs) \in Nat
  PROVE  /\ IsList(Opened) /\ Len(Opened) \in Nat /\ DOMAIN Opened = 1 .. Len(Opened)
         /\ \A i \in 1 .. Len(Opened) : Openable(Opened[i])
  <1> DEFINE N == Len(inputs)
             S == {inputs[i] : i \in {j \in 1 .. N : Openable(inputs[j])}}
             Step(n, s) == IF Openable(inputs[n]) THEN Append(s, inputs[n]) ELSE s
             Run(f, m) == f = [n \in 0 .. m |-> IF n = 0 THEN <<>> ELSE Step(n, f[n - 1])]
             runs == {m \in 0 .. N : \E f : Run(f, m)}
             o == CHOOSE f : Run(f, N)
             lists == {m \in 0 .. N : o[m] \in Seq(S)}
  <1>1. \A m \in 0 .. N : m \in runs
    <2>1. 0 \in runs
      <3>1. Run([n \in 0 .. 0 |-> <<>>], 0)
        OBVIOUS
      <3> HIDE DEF Run
      <3> QED
        BY <3>1
    <2>2. ASSUME NEW m \in 0 .. N, m \in runs, m # N PROVE m + 1 \in runs
      <3>1. PICK f : Run(f, m)
        BY <2>2
      <3> DEFINE g == [n \in 0 .. m + 1 |-> IF n = m + 1 THEN Step(m + 1, f[m]) ELSE f[n]]
      <3> HIDE DEF Step
      <3>2. \A n \in 0 .. m : f[n] = IF n = 0 THEN <<>> ELSE Step(n, f[n - 1])
        BY <3>1
      <3>3. ASSUME NEW n \in 0 .. m + 1
            PROVE  g[n] = IF n = 0 THEN <<>> ELSE Step(n, g[n - 1])
        <4>1. n = m + 1 \/ n \in 0 .. m
          OBVIOUS
        <4>2. n # 0 => n - 1 \in 0 .. m + 1 /\ n - 1 # m + 1
          OBVIOUS
        <4> QED
          BY <3>2, <4>1, <4>2
      <3>4. Run(g, m + 1)
        <4> DEFINE h == [n \in 0 .. m + 1 |-> IF n = 0 THEN <<>> ELSE Step(n, g[n - 1])]
        <4>1. g = h
          <5> SUFFICES ASSUME NEW n \in 0 .. m + 1 PROVE g[n] = h[n]
            OBVIOUS
          <5> HIDE DEF g
          <5> QED
            BY <3>3
        <4> HIDE DEF g
        <4> QED
          BY <4>1
      <3>5. m + 1 \in 0 .. N
        BY <2>2
      <3> HIDE DEF Run, g
      <3>6. \E h : Run(h, m + 1)
        BY <3>4
      <3> QED
        BY <3>5, <3>6
    <2> HIDE DEF runs
    <2> QED
      BY <2>1, <2>2, Upward
  <1>2. Run(o, N)
    <2>1. \E f : Run(f, N)
      BY <1>1
    <2> HIDE DEF Run
    <2> QED
      BY <2>1
  <1>3. Opened = o[N]
    BY DEF Opened
  <1> HIDE DEF o
  <1>4. \A n \in 0 .. N : o[n] = IF n = 0 THEN <<>> ELSE Step(n, o[n - 1])
    BY <1>2
  <1>5. \A m \in 0 .. N : m \in lists
    <2>1. 0 \in lists
      <3>1. 0 \in 0 .. N /\ o[0] = <<>>
        BY <1>4
      <3> HIDE DEF S
      <3>2. <<>> \in Seq(S)
        OBVIOUS
      <3>3. o[0] \in Seq(S)
        BY <3>1, <3>2
      <3> QED
        BY <3>1, <3>3
    <2>2. ASSUME NEW m \in 0 .. N, m \in lists, m # N PROVE m + 1 \in lists
      <3>1. m + 1 \in 1 .. N /\ o[m + 1] = Step(m + 1, o[m])
        <4> HIDE DEF Step
        <4> QED
          BY <1>4, <2>2
      <3>2. Openable(inputs[m + 1]) => inputs[m + 1] \in S
        BY <3>1
      <3> HIDE DEF S
      <3>3. Step(m + 1, o[m]) \in Seq(S)
        BY <2>2, <3>2, AppendFacts
      <3> HIDE DEF Step
      <3> QED
        BY <3>1, <3>3
    <2> HIDE DEF lists
    <2> QED
      BY <2>1, <2>2, Upward
  <1>6. Opened \in Seq(S)
    BY <1>3, <1>5
  <1>7. IsList(Opened)
    BY <1>6, ListIs
  <1>8. /\ Len(Opened) \in Nat /\ DOMAIN Opened = 1 .. Len(Opened)
        /\ \A i \in 1 .. Len(Opened) : Opened[i] \in S
    <2> HIDE DEF S
    <2> QED
      BY <1>6
  <1>9. \A i \in 1 .. Len(Opened) : Openable(Opened[i])
    BY <1>8
  <1> QED
    BY <1>7, <1>8, <1>9

-----------------------------------------------------------------------------
(* What a reader's walk yields, and how far it has come.                   *)

\* What a reader keeps.
ReaderFields ==
  {"path", "words", "opts", "file", "format", "mux", "offset", "prevError", "losses", "error",
   "empty", "ended"}

\* A reader that knows its recording wherever it has words left.
IsReader(r) ==
  /\ DOMAIN r = ReaderFields
  /\ IsWords(r.words) /\ Len(r.file) = Len(r.words)
  /\ r.offset \in Nat /\ r.format \in {"irig", "std"} /\ r.prevError \in BOOLEAN
  /\ r.offset < Len(r.words) => r.file = Described(r.words, r.format)

\* What a message says of itself.
MessageFields == {"time", "word", "command", "second", "status", "status2", "data", "code"}

\* A message with a time of the given clock and a Command Word, or none.
IsMessage(m, clock) ==
  /\ {"command", "time"} \subseteq DOMAIN m
  /\ m.command \in Nat \cup {None} /\ m.time.clock = clock
  /\ clock = "irig" => m.time.parts \in [1 .. 5 -> Nat]

\* The message m is what the words say where it lies.
Says(m, words, clock) ==
  LET word == words[m.offset + 1]
      next == m.offset + TypeWord(word).count
      record == SubSeq(words, m.offset + 1, next)
  IN  /\ m.offset \in Nat /\ next <= Len(words)
      /\ KindOf(word) \in {"msg", "err", "spur"}
      /\ TypeWord(word).count \in Nat /\ TypeWord(word).count >= MinRecordWords[clock]
      /\ \E prevError \in BOOLEAN :
           LET said == MessageOf(record, clock, prevError)
           IN  /\ DOMAIN said = MessageFields
               /\ \A field \in MessageFields : field \in DOMAIN m /\ m[field] = said[field]

\* A turn leads on from the reader r.
Turned(r, t) ==
  /\ IsReader(t.reader) /\ t.reader.format = r.format
  /\ t.reader.words = r.words /\ t.reader.path = r.path
  /\ t.reader.offset >= r.offset
  /\ \/ t.item = Over /\ t.reader.ended
     \/ DOMAIN t.item = {"error"} /\ t.reader.ended
     \/ /\ DOMAIN t.item = {"again"}
        /\ t.reader.offset > r.offset /\ t.reader.offset <= Len(r.words)
     \/ /\ DOMAIN t.item = {"message"} /\ IsMessage(t.item.message, r.format)
        /\ "offset" \in DOMAIN t.item.message /\ t.item.message.offset \in Nat
        /\ r.offset <= t.item.message.offset /\ t.item.message.offset < t.reader.offset
        /\ Says(t.item.message, r.words, r.format)

\* Where a reader looks, there are words left.
LEMMA LookedAt ==
  ASSUME NEW r, IsReader(r), Walk(r)!Looking
  PROVE  r.offset < Len(r.words) /\ r.file = Described(r.words, r.format)
  <1>1. ~(r.offset + 4 > Len(r.file))
    BY DEF Walk!Looking, Walk!TooShort, MinRecordWords
  <1>2. r.offset < Len(r.words)
    BY <1>1 DEF IsReader, IsWords
  <1> QED
    BY <1>2 DEF IsReader

\* The fields of bits are numbers.
LEMMA BitsAreNat ==
  ASSUME NEW w \in Nat
  PROVE  /\ Bits(w, 8, 6) \in Nat /\ Bits(w, 5, 9) \in Nat /\ Bits(w, 0, 5) \in Nat
         /\ Bits(w, 10, 6) \in Nat /\ Bits(w, 4, 6) \in Nat /\ Bits(w, 0, 4) \in Nat
         /\ Bits(w, 11, 5) \in Nat /\ Bits(w, 5, 5) \in Nat
  BY DEF Bits

\* What stands where a reader has found a record.
LEMMA RecordFound ==
  ASSUME NEW r, IsReader(r), Walk(r)!RecordHere
  PROVE  LET w == Walk(r)!At(r.offset)
         IN  /\ w.kind \in {"msg", "err", "spur"} /\ w.kind = KindOf(r.words[r.offset + 1])
             /\ w.len \in Nat /\ w.len = TypeWord(r.words[r.offset + 1]).count
             /\ w.len >= MinRecordWords[r.format] /\ r.offset + w.len <= Len(r.words)
  <1> DEFINE w == Walk(r)!At(r.offset)
  <1>1. Walk(r)!Looking /\ Walk(r)!ValidAlone(r.offset, r.format)
    BY DEF Walk!RecordHere, Walk!Valid
  <1>2. /\ r.offset < Len(r.words) /\ r.file = Described(r.words, r.format)
        /\ r.offset \in Nat /\ Len(r.words) \in Nat /\ DOMAIN r.words = 1 .. Len(r.words)
        /\ Len(r.file) = Len(r.words)
    BY <1>1, LookedAt DEF IsReader, IsWords
  <1>3. r.offset + 1 \in 1 .. Len(r.words)
    BY <1>2
  <1>4. w = r.file[r.offset + 1]
    BY DEF Walk!At
  <1>5. w.kind = KindOf(r.words[r.offset + 1]) /\ w.len = TypeWord(r.words[r.offset + 1]).count
    BY <1>2, <1>3, <1>4 DEF Described
  <1>6. w.len \in Nat
    <2>1. r.words[r.offset + 1] \in Nat
      BY <1>2, <1>3 DEF IsReader, IsWords
    <2>2. Bits(r.words[r.offset + 1], 8, 6) \in Nat
      BY <2>1, BitsAreNat
    <2> QED
      BY <1>5, <2>2 DEF TypeWord
  <1>7. /\ w.kind \in {"msg", "err", "spur"}
        /\ w.len >= Walk(r)!MinFor(r.format)
    BY <1>1 DEF Walk!ValidAlone, Walk!Plausible, Walk!PlausibleWord
  <1>8. r.offset + w.len <= Len(r.words)
    BY <1>1, <1>2 DEF Walk!ValidAlone, Walk!Fits
  <1>9. Walk(r)!MinFor(r.format) = MinRecordWords[r.format]
    BY DEF Walk!MinFor, IsReader, MinRecordWords
  <1> QED
    BY <1>5, <1>6, <1>7, <1>8, <1>9

\* Where a scan resumes is further on, within the recording.
LEMMA ResumesOn ==
  ASSUME NEW r, IsReader(r), Walk(r)!Resumptions # {}
  PROVE  /\ Min(Walk(r)!Resumptions) \in Nat
         /\ Min(Walk(r)!Resumptions) > r.offset /\ Min(Walk(r)!Resumptions) < Len(r.words)
  <1> DEFINE S == Walk(r)!Resumptions
             L == Len(r.words)
  <1>1. r.offset \in Nat /\ L \in Nat /\ Len(r.file) = L
    BY DEF IsReader, IsWords
  <1>2. Walk(r)!ScanEnd(r.offset) \in Nat /\ Walk(r)!ScanEnd(r.offset) <= L
    <2> DEFINE T == {L, r.offset + ScanWindow}
    <2>1. Walk(r)!ScanEnd(r.offset) = Least(T)
      BY <1>1 DEF Walk!ScanEnd, Walk!Min, Least
    <2>2. T \in SUBSET Nat /\ T # {} /\ L \in T
      BY <1>1, ScanWindowAssumption
    <2>3. Least(T) \in T /\ Least(T) <= L
      <3> HIDE DEF T
      <3> QED
        BY <2>2, LeastPlace
    <2> HIDE DEF T
    <2> QED
      BY <2>1, <2>2, <2>3
  <1>3. \A p \in S : p \in Nat /\ p > r.offset /\ p < L
    <2>1. \A p \in S : p \in r.offset + 1 .. Walk(r)!ScanEnd(r.offset) - 1
      BY DEF Walk!Resumptions
    <2> HIDE DEF S, L
    <2> QED
      BY <1>1, <1>2, <2>1
  <1>4. Min(S) = Least(S)
    BY DEF Min, Least
  <1> HIDE DEF S
  <1>5. Least(S) \in S
    BY <1>3, LeastPlace DEF S
  <1> QED
    BY <1>3, <1>4, <1>5 DEF S

\* Five numbers.
LEMMA FiveNumbers ==
  ASSUME NEW a \in Nat, NEW b \in Nat, NEW c \in Nat, NEW d \in Nat, NEW e \in Nat
  PROVE  <<a, b, c, d, e>> \in [1 .. 5 -> Nat]
  <1> DEFINE s == <<a, b, c, d, e>>
  <1>1. /\ s \in Seq(Nat) /\ Len(s) = 5
    OBVIOUS
  <1> HIDE DEF s
  <1>2. s = [i \in 1 .. 5 |-> s[i]]
    BY <1>1
  <1>3. s \in [1 .. 5 -> Nat]
    <2>1. \A i \in 1 .. Len(s) : s[i] \in Nat
      BY <1>1, ElementOfSeq
    <2>2. \A i \in 1 .. 5 : s[i] \in Nat
      BY <1>1, <2>1
    <2> QED
      BY <1>2, <2>2
  <1> QED
    BY <1>3 DEF s

\* A record has the words that stand from its place on.
LEMMA RecordIs ==
  ASSUME NEW words, IsWords(words), NEW n \in Nat, NEW len \in Nat, n + len <= Len(words)
  PROVE  LET record == SubSeq(words, n + 1, n + len)
         IN  /\ Len(record) = len
             /\ \A k \in 1 .. len : record[k] = words[n + k] /\ record[k] \in Nat
  <1> DEFINE record == SubSeq(words, n + 1, n + len)
  <1>1. words \in Seq(Nat) /\ Len(words) \in Nat
    BY DEF IsWords
  <1>2. n + len - (n + 1) + 1 = len /\ (n + 1 <= n + len \/ len = 0)
    BY <1>1
  <1>3. \A i \in n + 1 .. n + len : words[i] \in Nat
    BY <1>1
  <1>4. /\ record \in Seq(Nat)
        /\ Len(record) = IF n + 1 <= n + len THEN n + len - (n + 1) + 1 ELSE 0
        /\ \A k \in 1 .. n + len - (n + 1) + 1 : record[k] = words[n + 1 + k - 1]
    BY <1>3, SubSeqProperties
  <1>5. /\ record \in Seq(Nat) /\ Len(record) = len
        /\ \A k \in 1 .. len : record[k] = words[n + k]
    BY <1>2, <1>4
  <1> HIDE DEF record
  <1>6. \A k \in 1 .. len : record[k] \in Nat
    BY <1>5, ElementOfSeq
  <1> QED
    BY <1>5, <1>6 DEF record

\* The message of a record is one.
LEMMA MessageIs ==
  ASSUME NEW words, IsWords(words), NEW n \in Nat, NEW len \in Nat, NEW clock \in {"irig", "std"},
         len >= MinRecordWords[clock], n + len <= Len(words), NEW prevError,
         KindOf(words[n + 1]) \in {"msg", "err", "spur"}
  PROVE  /\ IsMessage(MessageOf(SubSeq(words, n + 1, n + len), clock, prevError), clock)
         /\ DOMAIN MessageOf(SubSeq(words, n + 1, n + len), clock, prevError) = MessageFields
  <1> DEFINE record == SubSeq(words, n + 1, n + len)
             m == MessageOf(record, clock, prevError)
             blank == Blank(record, clock)
             time == TimeOf(record, clock)
  <1>1. words \in Seq(Nat) /\ Len(words) \in Nat
    BY DEF IsWords
  <1>2. Len(record) = len /\ \A k \in 1 .. len : record[k] = words[n + k] /\ record[k] \in Nat
    BY RecordIs
  <1>3. /\ clock = "irig" => len >= 5 /\ CommandIndex(clock) = 5
        /\ clock = "std" => len >= 4 /\ CommandIndex(clock) = 4
    BY DEF MinRecordWords, CommandIndex, TimeWords
  <1>4. CommandIndex(clock) \in 1 .. len
    BY <1>3
  <1> HIDE DEF record
  <1>5. record[CommandIndex(clock)] \in Nat /\ record[1] = words[n + 1]
    BY <1>2, <1>3, <1>4
  <1>6. /\ time.clock = clock
        /\ clock = "irig" => time.parts \in [1 .. 5 -> Nat]
    <2>1. CASE clock = "std"
      BY <2>1 DEF TimeOf, StandardTime
    <2>2. CASE clock = "irig"
      <3>1. record[2] \in Nat /\ record[3] \in Nat /\ record[4] \in Nat
        BY <1>2, <1>3, <2>2
      <3> DEFINE upper == record[2]
                 middle == record[3]
                 lower == record[4]
                 micros == Bits(middle, 0, 4) * 65536 + lower
      <3>2. time = IrigTime(upper, middle, lower)
        BY <2>2 DEF TimeOf
      <3>3. /\ time.clock = "irig"
            /\ time.parts = <<Bits(upper, 5, 9), Bits(upper, 0, 5), Bits(middle, 10, 6),
                              Bits(middle, 4, 6), micros>>
        BY <3>2 DEF IrigTime
      <3>4. /\ Bits(upper, 5, 9) \in Nat /\ Bits(upper, 0, 5) \in Nat
            /\ Bits(middle, 10, 6) \in Nat /\ Bits(middle, 4, 6) \in Nat
            /\ Bits(middle, 0, 4) \in Nat
        BY <3>1, BitsAreNat
      <3>5. micros \in Nat
        <4> DEFINE high == Bits(middle, 0, 4)
        <4>1. high \in Nat /\ lower \in Nat
          BY <3>1, <3>4
        <4> HIDE DEF high, lower
        <4>2. high * 65536 + lower \in Nat
          BY <4>1
        <4> QED
          BY <4>2 DEF high
      <3>6. time.parts \in [1 .. 5 -> Nat]
        <4> DEFINE day == Bits(upper, 5, 9)
                   hour == Bits(upper, 0, 5)
                   minute == Bits(middle, 10, 6)
                   second == Bits(middle, 4, 6)
        <4>1. /\ day \in Nat /\ hour \in Nat /\ minute \in Nat /\ second \in Nat
              /\ micros \in Nat
          BY <3>4, <3>5
        <4>2. time.parts = <<day, hour, minute, second, micros>>
          BY <3>3
        <4> HIDE DEF day, hour, minute, second, micros, time
        <4> QED
          BY <4>1, <4>2, FiveNumbers
      <3> HIDE DEF time
      <3> QED
        BY <2>2, <3>3, <3>6
    <2> QED
      BY <2>1, <2>2
  <1> HIDE DEF time
  <1>7. DOMAIN blank = MessageFields /\ blank.time = time /\ blank.command = None
    BY DEF Blank, time, MessageFields
  <1> HIDE DEF blank
  <1>8. ASSUME KindOf(words[n + 1]) = "spur"
        PROVE  IsMessage(m, clock) /\ DOMAIN m = MessageFields
    <2>1. m = SpuriousMessage(record, clock, prevError)
      BY <1>5, <1>8 DEF MessageOf
    <2>2. DOMAIN m = DOMAIN blank /\ m.time = time /\ m.command = None
      BY <1>7, <2>1 DEF SpuriousMessage, blank
    <2> HIDE DEF m
    <2> QED
      BY <1>6, <1>7, <2>2 DEF IsMessage, MessageFields
  <1>9. ASSUME KindOf(words[n + 1]) = "err"
        PROVE  IsMessage(m, clock) /\ DOMAIN m = MessageFields
    <2>1. m = ErrorMessage(record, clock)
      BY <1>5, <1>9 DEF MessageOf
    <2>2. DOMAIN m = DOMAIN blank /\ m.time = time /\ m.command = record[CommandIndex(clock)]
      BY <1>7, <2>1 DEF ErrorMessage, blank
    <2> HIDE DEF m
    <2> QED
      BY <1>5, <1>6, <1>7, <2>2 DEF IsMessage, MessageFields
  <1>10. ASSUME KindOf(words[n + 1]) = "msg"
        PROVE  IsMessage(m, clock) /\ DOMAIN m = MessageFields
    <2>1. m = NormalMessage(record, clock)
      BY <1>5, <1>10 DEF MessageOf
    <2>2. DOMAIN m = DOMAIN blank /\ m.time = time /\ m.command = record[CommandIndex(clock)]
      BY <1>7, <2>1 DEF NormalMessage, blank
    <2> HIDE DEF m
    <2> QED
      BY <1>5, <1>6, <1>7, <2>2 DEF IsMessage, MessageFields
  <1>11. IsMessage(m, clock) /\ DOMAIN m = MessageFields
    <2> HIDE DEF m
    <2> QED
      BY <1>8, <1>9, <1>10
  <1> QED
    BY <1>11 DEF record

\* It says the same whatever else is noted on it.
LEMMA SaysWith ==
  ASSUME NEW m, NEW words, NEW clock, Says(m, words, clock), "offset" \in DOMAIN m,
         NEW key \in {"input", "id", "key"}, NEW value
  PROVE  /\ Says(With(m, key, value), words, clock)
         /\ "offset" \in DOMAIN With(m, key, value)
  <1> DEFINE l == With(m, key, value)
  <1>1. \A field \in DOMAIN m : field # key => field \in DOMAIN l /\ l[field] = m[field]
    BY DEF With
  <1>2. key \notin MessageFields /\ key # "offset"
    BY DEF MessageFields
  <1> HIDE DEF l
  <1>3. "offset" \in DOMAIN l /\ l.offset = m.offset
    BY <1>1, <1>2
  <1>4. PICK prevError \in BOOLEAN :
          LET next == m.offset + TypeWord(words[m.offset + 1]).count
              said == MessageOf(SubSeq(words, m.offset + 1, next), clock, prevError)
          IN  /\ DOMAIN said = MessageFields
              /\ \A field \in MessageFields : field \in DOMAIN m /\ m[field] = said[field]
    BY DEF Says
  <1>5. \A field \in MessageFields : field \in DOMAIN l /\ l[field] = m[field]
    BY <1>1, <1>2, <1>4
  <1>6. Says(l, words, clock)
    BY <1>3, <1>4, <1>5 DEF Says
  <1> QED
    BY <1>3, <1>6 DEF l

\* A reader of the same recording, no further back.
Follows(s, r) ==
  /\ DOMAIN s = DOMAIN r /\ s.path = r.path /\ s.words = r.words /\ s.file = r.file
  /\ s.format = r.format /\ s.prevError \in BOOLEAN
  /\ s.offset \in Nat /\ s.offset >= r.offset

\* What follows a reader is one.
LEMMA FollowerIs ==
  ASSUME NEW r, IsReader(r), NEW s, Follows(s, r)
  PROVE  IsReader(s)
  <1>1. /\ s.offset \in Nat /\ r.offset \in Nat /\ Len(r.words) \in Nat /\ s.offset >= r.offset
        /\ s.words = r.words
    BY DEF Follows, IsReader, IsWords
  <1>2. s.offset < Len(s.words) => r.offset < Len(r.words)
    BY <1>1
  <1> QED
    BY <1>1, <1>2 DEF Follows, IsReader

\* One turn of a reader's loop leads on, whatever it meets.
LEMMA TurnLeads ==
  ASSUME NEW r, IsReader(r)
  PROVE  Turned(r, Turn(r))
  <1>0. /\ DOMAIN r = ReaderFields /\ r.offset \in Nat /\ Len(r.words) \in Nat
        /\ IsWords(r.words) /\ r.format \in {"irig", "std"} /\ r.prevError \in BOOLEAN
    BY DEF IsReader, IsWords
  <1>1. ASSUME NEW s, Follows(s, r), NEW t,
               t = End(s) \/ \E error : t = Break(s, error)
        PROVE  Turned(r, t)
    <2>1. /\ DOMAIN t.reader = DOMAIN s /\ t.reader.ended
          /\ t.reader.words = s.words /\ t.reader.file = s.file /\ t.reader.format = s.format
          /\ t.reader.offset = s.offset /\ t.reader.path = s.path
          /\ t.reader.prevError = s.prevError
      BY <1>0, <1>1 DEF End, Break, Follows, ReaderFields
    <2>2. Follows(t.reader, r)
      BY <1>1, <2>1 DEF Follows
    <2>3. t.item = Over \/ DOMAIN t.item = {"error"}
      BY <1>1 DEF End, Break
    <2>4. IsReader(t.reader)
      BY <2>2, FollowerIs
    <2> QED
      BY <2>1, <2>2, <2>3, <2>4 DEF Turned, Follows
  <1>2. ASSUME NEW s, Follows(s, r), s.offset > r.offset, s.offset <= Len(r.words)
        PROVE  Turned(r, Again(s))
    <2>1. IsReader(s)
      BY <1>2, FollowerIs
    <2>2. Again(s).reader = s /\ DOMAIN Again(s).item = {"again"}
      BY DEF Again
    <2> HIDE DEF Again
    <2> QED
      BY <1>2, <2>1, <2>2 DEF Turned, Follows
  <1>3. CASE r.ended
    <2>1. Follows(r, r)
      BY <1>0 DEF Follows
    <2>2. Turn(r) = End(r)
      BY <1>3 DEF Turn, Walk!NoRecordHere, Walk!RecordHere, Walk!Looking
    <2> QED
      BY <1>1, <2>1, <2>2
  <1>4. CASE ~r.ended /\ r.error # None
    <2>1. Follows([r EXCEPT !.error = None], r)
      BY <1>0 DEF Follows, ReaderFields
    <2>2. Turn(r) = Break([r EXCEPT !.error = None], r.error)
      BY <1>4 DEF Turn, Walk!NoRecordHere, Walk!RecordHere, Walk!Looking
    <2> QED
      BY <1>1, <2>1, <2>2
  <1>5. CASE Walk(r)!NoRecordHere
    <2> DEFINE lost == [r EXCEPT !.losses = @ + 1]
               resumptions == Walk(r)!Resumptions
    <2>1. Turn(r) = LoseSync(r)
      BY <1>5 DEF Turn, Walk!NoRecordHere, Walk!RecordHere, Walk!Looking
    <2>2. Follows(lost, r)
      BY <1>0 DEF Follows, ReaderFields
    <2>3. CASE r.opts.strict
      <3>1. LoseSync(r) = Break(lost, "RecordError")
        BY <2>3 DEF LoseSync
      <3> HIDE DEF lost
      <3> QED
        BY <1>1, <2>1, <2>2, <3>1
    <2>4. CASE ~r.opts.strict /\ resumptions # {}
      <3> DEFINE m == Min(resumptions)
                 on == [lost EXCEPT !.offset = m, !.prevError = FALSE]
      <3>1. LoseSync(r) = Again(on)
        BY <2>4 DEF LoseSync
      <3>2. m \in Nat /\ m > r.offset /\ m < Len(r.words)
        BY <2>4, ResumesOn
      <3> HIDE DEF m
      <3>3. Follows(on, r) /\ on.offset = m
        BY <1>0, <3>2 DEF Follows, ReaderFields
      <3> HIDE DEF on
      <3> QED
        BY <1>0, <1>2, <2>1, <3>1, <3>2, <3>3
    <2>5. CASE ~r.opts.strict /\ resumptions = {}
      <3>1. LoseSync(r) = End(lost) \/ LoseSync(r) = Break(lost, "UnrecoverableSyncLoss")
        BY <2>5 DEF LoseSync
      <3> HIDE DEF lost
      <3> QED
        BY <1>1, <2>1, <2>2, <3>1
    <2> QED
      BY <2>3, <2>4, <2>5
  <1>6. CASE Walk(r)!RecordHere
    <2> DEFINE w == Walk(r)!At(r.offset)
               n == r.offset + w.len
               decoded == MessageOf(SubSeq(r.words, r.offset + 1, n), r.format, r.prevError)
               message == With(With(decoded, "offset", r.offset), "mux", r.mux)
               past == [r EXCEPT !.offset = Walk(r)!NextBoundary, !.prevError = w.kind = "err"]
    <2>1. Turn(r) = TakeRecord(r)
      BY <1>6 DEF Turn, Walk!NoRecordHere, Walk!RecordHere, Walk!Looking
    <2>2. /\ w.kind \in {"msg", "err", "spur"} /\ w.kind = KindOf(r.words[r.offset + 1])
          /\ w.len \in Nat /\ w.len = TypeWord(r.words[r.offset + 1]).count
          /\ w.len >= MinRecordWords[r.format] /\ n <= Len(r.words)
      BY <1>6, RecordFound
    <2>3. MinRecordWords[r.format] \in Nat /\ MinRecordWords[r.format] > 0
      BY <1>0 DEF MinRecordWords
    <2>4. IsMessage(decoded, r.format) /\ DOMAIN decoded = MessageFields
      <3> DEFINE words == r.words
                 at_ == r.offset
                 len == w.len
                 clock == r.format
                 read == MessageOf(SubSeq(words, at_ + 1, at_ + len), clock, r.prevError)
      <3>1. /\ IsWords(words) /\ at_ \in Nat /\ len \in Nat /\ clock \in {"irig", "std"}
            /\ len >= MinRecordWords[clock] /\ at_ + len <= Len(words)
            /\ KindOf(words[at_ + 1]) \in {"msg", "err", "spur"}
        BY <1>0, <2>2
      <3>2. decoded = read
        OBVIOUS
      <3> HIDE DEF words, at_, len, clock, w, n, decoded, message, past
      <3>3. IsMessage(read, clock) /\ DOMAIN read = MessageFields
        BY <3>1, MessageIs
      <3> QED
        BY <3>2, <3>3 DEF clock
    <2>5. Walk(r)!NextBoundary = n
      BY DEF Walk!NextBoundary
    <2> HIDE DEF w, decoded
    <2>6. n \in Nat /\ n > r.offset
      BY <1>0, <2>2, <2>3
    <2> HIDE DEF n
    <2>7. Follows(past, r) /\ past.offset = n
      BY <1>0, <2>5, <2>6 DEF Follows, ReaderFields
    <2> HIDE DEF past
    <2>8. IsMessage(message, r.format) /\ "offset" \in DOMAIN message /\ message.offset = r.offset
      BY <2>4 DEF IsMessage, With
    <2>12. Says(message, r.words, r.format)
      <3>1. \A field \in DOMAIN decoded : field # "offset" /\ field # "mux"
        BY <2>4 DEF MessageFields
      <3>2. \A field \in DOMAIN decoded :
              field \in DOMAIN message /\ message[field] = decoded[field]
        BY <3>1 DEF With
      <3> HIDE DEF message
      <3>3. n = r.offset + TypeWord(r.words[r.offset + 1]).count
        BY <2>2 DEF n
      <3>4. r.prevError \in BOOLEAN
        BY DEF IsReader
      <3>5. r.words[r.offset + 1] = r.words[message.offset + 1]
        BY <2>8
      <3> QED
        BY <1>0, <2>2, <2>4, <2>8, <3>2, <3>3, <3>4, <3>5 DEF Says, decoded
    <2> HIDE DEF message
    <2>9. \/ TakeRecord(r) = Break(r, "RecordError") \/ TakeRecord(r) = Again(past)
          \/ TakeRecord(r) = Yield(past, message)
      BY DEF TakeRecord, w, n, decoded, message, past
    <2>10. Turned(r, Yield(past, message))
      <3>1. Yield(past, message).reader = past /\ Yield(past, message).item = [message |-> message]
        BY DEF Yield
      <3>2. IsReader(past)
        BY <2>7, FollowerIs
      <3> QED
        BY <1>0, <2>6, <2>7, <2>8, <2>12, <3>1, <3>2 DEF Turned, Follows
    <2>11. Follows(r, r)
      BY <1>0 DEF Follows
    <2> QED
      BY <1>1, <1>2, <2>1, <2>2, <2>6, <2>7, <2>9, <2>10, <2>11
  <1>7. CASE ~r.ended /\ ~(r.error # None) /\ ~Walk(r)!NoRecordHere /\ ~Walk(r)!RecordHere
    <2>1. Follows(r, r)
      BY <1>0 DEF Follows
    <2>2. Turn(r) = End(r)
      BY <1>7 DEF Turn
    <2> QED
      BY <1>1, <2>1, <2>2
  <1> QED
    BY <1>3, <1>4, <1>5, <1>6, <1>7

\* The next item of a reader: a message and what is behind it, or the end.
LEMMA NextItemLeads ==
  ASSUME NEW r, IsReader(r)
  PROVE  Turned(r, NextItem(r)) /\ ~Repeats(NextItem(r).item)
  <1> DEFINE N == Len(r.words)
             From(f, n) == IF n = 0 THEN Again(r) ELSE f[n - 1]
             Run(f, m) == f = [n \in 0 .. m |-> Onward(From(f, n))]
             runs == {m \in 0 .. N : \E f : Run(f, m)}
             o == CHOOSE f : Run(f, N)
             Leads(n) == Turned(r, o[n]) /\ (Repeats(o[n].item) => o[n].reader.offset > n)
             led == {n \in 0 .. N : Leads(n)}
  <1>0. N \in Nat /\ r.offset \in Nat
    BY DEF IsReader, IsWords
  <1>1. \A m \in 0 .. N : m \in runs
    <2>1. 0 \in runs
      <3>1. Run([n \in 0 .. 0 |-> Onward(Again(r))], 0)
        OBVIOUS
      <3> HIDE DEF Run
      <3> QED
        BY <1>0, <3>1
    <2>2. ASSUME NEW m \in 0 .. N, m \in runs, m # N PROVE m + 1 \in runs
      <3>1. PICK f : Run(f, m)
        BY <2>2
      <3> DEFINE g == [n \in 0 .. m + 1 |-> IF n = m + 1 THEN Onward(f[m]) ELSE f[n]]
      <3>2. \A n \in 0 .. m : f[n] = Onward(From(f, n))
        BY <3>1
      <3>3. ASSUME NEW n \in 0 .. m + 1
            PROVE  g[n] = Onward(From(g, n))
        <4>1. n = m + 1 \/ n \in 0 .. m
          OBVIOUS
        <4>2. n # 0 => n - 1 \in 0 .. m + 1 /\ n - 1 # m + 1
          OBVIOUS
        <4> QED
          BY <3>2, <4>1, <4>2
      <3>4. Run(g, m + 1)
        <4> DEFINE h == [n \in 0 .. m + 1 |-> Onward(From(g, n))]
        <4>1. g = h
          <5> SUFFICES ASSUME NEW n \in 0 .. m + 1 PROVE g[n] = h[n]
            OBVIOUS
          <5> HIDE DEF g
          <5> QED
            BY <3>3
        <4> HIDE DEF g
        <4> QED
          BY <4>1
      <3>5. m + 1 \in 0 .. N
        BY <1>0, <2>2
      <3> HIDE DEF Run, g
      <3>6. \E h : Run(h, m + 1)
        BY <3>4
      <3> QED
        BY <3>5, <3>6
    <2> HIDE DEF runs
    <2> QED
      BY <1>0, <2>1, <2>2, Upward
  <1>2. Run(o, N)
    <2>1. \E f : Run(f, N)
      BY <1>0, <1>1
    <2> HIDE DEF Run
    <2> QED
      BY <2>1
  <1>3. NextItem(r) = o[N]
    BY DEF NextItem
  <1> HIDE DEF o
  <1>4. \A n \in 0 .. N : o[n] = IF n = 0 THEN Turn(r) ELSE Onward(o[n - 1])
    <2>1. \A n \in 0 .. N : o[n] = Onward(From(o, n))
      BY <1>2
    <2>2. Onward(Again(r)) = Turn(r)
      BY DEF Onward, Again, Repeats, Is
    <2> QED
      BY <2>1, <2>2
  <1> HIDE DEF N, Run
  <1>5. \A n \in 0 .. N : n \in led
    <2>1. 0 \in led
      <3>1. 0 \in 0 .. N /\ o[0] = Turn(r)
        BY <1>0, <1>4
      <3>2. Turned(r, o[0])
        BY <3>1, TurnLeads
      <3>3. Repeats(o[0].item) => o[0].reader.offset > 0
        BY <1>0, <3>2 DEF Turned, IsReader, Repeats, Is, Over
      <3> QED
        BY <3>1, <3>2, <3>3
    <2>2. ASSUME NEW n \in 0 .. N, n \in led, n # N PROVE n + 1 \in led
      <3>1. n + 1 \in 0 .. N /\ o[n + 1] = Onward(o[n])
        BY <1>0, <1>4, <2>2
      <3>2. Turned(r, o[n]) /\ (Repeats(o[n].item) => o[n].reader.offset > n)
        BY <2>2
      <3>3. CASE ~Repeats(o[n].item)
        BY <3>1, <3>2, <3>3 DEF Onward
      <3>4. CASE Repeats(o[n].item)
        <4> DEFINE s == o[n].reader
                   t == o[n + 1]
        <4>1. t = Turn(s)
          BY <3>1, <3>4 DEF Onward
        <4>2. /\ IsReader(s) /\ s.format = r.format /\ s.words = r.words /\ s.path = r.path
              /\ s.offset >= r.offset
              /\ s.offset \in Nat /\ s.offset > n
          BY <3>2, <3>4 DEF Turned, IsReader
        <4> HIDE DEF s, t
        <4>3. Turned(s, t)
          BY <4>1, <4>2, TurnLeads
        <4>4. IsReader(t.reader) /\ t.reader.offset \in Nat
          BY <4>3 DEF Turned, IsReader
        <4>5. Turned(r, t)
          BY <1>0, <4>2, <4>3, <4>4 DEF Turned
        <4>6. Repeats(t.item) => t.reader.offset > n + 1
          <5>1. Repeats(t.item) => t.reader.offset > s.offset
            BY <4>3 DEF Turned, Repeats, Is, Over
          <5> QED
            BY <1>0, <4>2, <4>4, <5>1
        <4> QED
          BY <3>1, <4>5, <4>6 DEF t
      <3> QED
        BY <3>3, <3>4
    <2> HIDE DEF led
    <2> QED
      BY <1>0, <2>1, <2>2, Upward
  <1>6. Turned(r, o[N]) /\ (Repeats(o[N].item) => o[N].reader.offset > N)
    BY <1>0, <1>5
  <1>7. Repeats(o[N].item) => o[N].reader.offset <= N
    BY <1>6 DEF Turned, Repeats, Is, Over, N
  <1>8. o[N].reader.offset \in Nat
    BY <1>6 DEF Turned, IsReader
  <1> QED
    BY <1>0, <1>3, <1>6, <1>7, <1>8

\* A reader as it is opened.
IsFresh(r) ==
  /\ DOMAIN r = ReaderFields
  /\ IsWords(r.words) /\ Len(r.file) = Len(r.words)
  /\ r.offset = 0 /\ r.format \in {"irig", "std"}
  /\ r.opts.hint \in {"irig", "std", "auto"} /\ r.prevError = FALSE

\* A description has a word for each word.
LEMMA DescribedLength ==
  ASSUME NEW words, IsWords(words), NEW clock
  PROVE  Len(Described(words, clock)) = Len(words)
  <1>1. DOMAIN words = 1 .. Len(words) /\ Len(words) \in Nat
    BY DEF IsWords
  <1> DEFINE d == Described(words, clock)
  <1>2. d = [i \in 1 .. Len(words) |-> d[i]]
    BY <1>1 DEF Described
  <1> HIDE DEF d
  <1>3. Len(d) = Len(words)
    BY <1>1, <1>2
  <1> QED
    BY <1>3 DEF d

\* A path that can be opened has a fresh reader.
LEMMA NewReaderIsFresh ==
  ASSUME RecordingsInv, NEW path, Openable(path)
  PROVE  /\ IsFresh(NewReader(path))
         /\ NewReader(path).path = path
         /\ Canonical(path) \in DOMAIN disk /\ disk[Canonical(path)].kind = "recording"
         /\ NewReader(path).words = disk[Canonical(path)].words
  <1> DEFINE words == disk[Canonical(path)].words
             r == NewReader(path)
  <1>1. /\ Canonical(path) \in DOMAIN disk /\ disk[Canonical(path)].kind = "recording"
        /\ IsWords(words)
    BY DEF RecordingsInv, Openable, KindAt, Exists, Canonical
  <1>2. Hint \in {"irig", "std", "auto"}
    BY DEF Hint
  <1>3. /\ DOMAIN r = ReaderFields /\ r.words = words /\ r.offset = 0 /\ r.opts.hint = Hint
        /\ r.path = path /\ r.prevError = FALSE
        /\ r.file = Described(words, IF Hint = "irig" THEN "irig" ELSE "std")
        /\ r.format = IF Hint = "auto" THEN "irig" ELSE Hint
    BY DEF NewReader, ReaderFields
  <1>4. Len(r.file) = Len(words)
    BY <1>1, <1>3, DescribedLength
  <1> HIDE DEF r, words
  <1>5. IsFresh(r)
    BY <1>1, <1>2, <1>3, <1>4 DEF IsFresh
  <1> QED
    BY <1>1, <1>3, <1>5 DEF r, words

\* Where the first record is looked for, all places are numbers.
LEMMA FirstsAreNat ==
  ASSUME NEW r, IsFresh(r)
  PROVE  Walk(r)!FirstRecords \in SUBSET Nat
  <1> DEFINE e == Walk(r)!ScanEnd(0)
  <1>1. \A p \in Walk(r)!FirstRecords : p \in 0 .. e - 1
    BY DEF Walk!FirstRecords
  <1>2. e \in Nat
    <2> DEFINE T == {Len(r.words), 0 + ScanWindow}
    <2>1. e = Least(T)
      BY DEF Walk!ScanEnd, Walk!Min, Least, IsFresh
    <2>2. T \in SUBSET Nat /\ T # {}
      BY ScanWindowAssumption DEF IsFresh, IsWords
    <2>3. Least(T) \in T
      <3> HIDE DEF T
      <3> QED
        BY <2>2, LeastPlace
    <2> HIDE DEF T, e
    <2> QED
      BY <2>1, <2>2, <2>3
  <1> HIDE DEF e
  <1> QED
    BY <1>1, <1>2

\* iter() makes it one that knows its recording.
LEMMA IteratedIs ==
  ASSUME NEW r, IsFresh(r)
  PROVE  /\ IsReader(Iterated(r))
         /\ Iterated(r).path = r.path /\ Iterated(r).words = r.words
  <1> DEFINE firsts == Walk(r)!FirstRecords
             cut == Walk(r)!TruncatedRecords # {}
             none == [r EXCEPT !.offset = Len(r.words)]
  <1>0. DOMAIN r = ReaderFields /\ IsWords(r.words) /\ Len(r.words) \in Nat
    BY DEF IsFresh, IsWords
  <1>1. CASE firsts # {}
    <2> DEFINE first == Min(firsts)
               s == AtFirstRecord(r, first)
    <2>1. Iterated(r) = s
      BY <1>1 DEF Iterated
    <2>2. first \in Nat
      <3>1. first = Least(firsts)
        BY DEF Min, Least
      <3>2. firsts \in SUBSET Nat
        BY FirstsAreNat
      <3> HIDE DEF firsts, first
      <3>3. Least(firsts) \in firsts
        BY <1>1, <3>2, LeastPlace
      <3> QED
        BY <3>1, <3>2, <3>3
    <2>3. /\ DOMAIN s = ReaderFields /\ s.words = r.words /\ s.offset = first
          /\ s.path = r.path /\ s.prevError = FALSE
          /\ s.format \in {"irig", "std"} /\ s.file = Described(s.words, s.format)
      BY <1>0 DEF AtFirstRecord, ReaderFields, Probe, IsFresh
    <2> HIDE DEF s, first
    <2>4. Len(s.file) = Len(s.words)
      BY <1>0, <2>3, DescribedLength
    <2> QED
      BY <1>0, <2>1, <2>2, <2>3, <2>4 DEF IsReader
  <1>2. CASE firsts = {}
    <2>1. /\ DOMAIN Iterated(r) = ReaderFields
          /\ Iterated(r).words = r.words /\ Iterated(r).file = r.file
          /\ Iterated(r).path = r.path /\ Iterated(r).prevError = FALSE
          /\ Iterated(r).format = r.format /\ Iterated(r).offset = Len(r.words)
      <3>1. \/ Iterated(r) = [none EXCEPT !.empty = TRUE, !.ended = TRUE]
            \/ Iterated(r) = [none EXCEPT !.error = "NoValidRecords"]
            \/ Iterated(r) = [none EXCEPT !.error = "FirstRecordTruncated"]
            \/ Iterated(r) = [none EXCEPT !.ended = TRUE]
        BY <1>2 DEF Iterated
      <3>2. /\ DOMAIN none = ReaderFields /\ none.words = r.words /\ none.file = r.file
            /\ none.path = r.path /\ none.prevError = FALSE
            /\ none.format = r.format /\ none.offset = Len(r.words)
        BY <1>0 DEF ReaderFields, IsFresh
      <3> HIDE DEF none
      <3> QED
        BY <3>1, <3>2 DEF ReaderFields
    <2>2. ~(Len(r.words) < Len(r.words))
      BY <1>0
    <2> QED
      BY <1>0, <2>1, <2>2 DEF IsReader, IsFresh
  <1> QED
    BY <1>1, <1>2

-----------------------------------------------------------------------------
(* The merge: who is due, and what its readers have offered.               *)

\* The ones with the least number.
LeastIn(W, f) == {i \in W : \A j \in W : f[i] <= f[j]}

\* Of some things with a number each, one has the least; the others have a
\* greater one.
LEMMA LeastInFacts ==
  ASSUME NEW W, W # {}, NEW f, \A i \in W : f[i] \in Nat
  PROVE  /\ LeastIn(W, f) # {} /\ LeastIn(W, f) \subseteq W
         /\ \A i \in LeastIn(W, f), j \in W :
              f[i] < f[j] \/ (f[i] = f[j] /\ j \in LeastIn(W, f))
  <1> DEFINE V == {f[i] : i \in W}
  <1>1. V \in SUBSET Nat /\ V # {}
    OBVIOUS
  <1>2. Least(V) \in V /\ \A y \in V : Least(V) <= y
    <2> HIDE DEF V
    <2> QED
      BY <1>1, LeastPlace
  <1> DEFINE least == Least(V)
  <1>3. PICK i \in W : least = f[i]
    BY <1>2
  <1>4. \A j \in W : least <= f[j]
    BY <1>2
  <1> HIDE DEF least
  <1>5. i \in LeastIn(W, f)
    BY <1>3, <1>4 DEF LeastIn
  <1>6. ASSUME NEW h \in LeastIn(W, f), NEW j \in W, ~(f[h] < f[j])
        PROVE  f[h] = f[j] /\ j \in LeastIn(W, f)
    <2>1. f[h] \in Nat /\ f[j] \in Nat /\ f[h] <= f[j]
      BY DEF LeastIn
    <2>2. f[h] = f[j]
      BY <1>6, <2>1
    <2> QED
      BY <2>2 DEF LeastIn
  <1>7. LeastIn(W, f) \subseteq W
    BY DEF LeastIn
  <1> QED
    BY <1>5, <1>6, <1>7

\* The oldest message is one that waits.
LEMMA OldestWaits ==
  ASSUME Waiting # {},
         \A i \in Waiting : i \in Nat /\ front[i].time.parts \in [1 .. 5 -> Nat]
  PROVE  Oldest \in Waiting
  <1> DEFINE W == Waiting
             part(k) == [i \in W |-> front[i].time.parts[k]]
             self == [i \in W |-> i]
             w1 == LeastIn(W, part(1))
             w2 == LeastIn(w1, part(2))
             w3 == LeastIn(w2, part(3))
             w4 == LeastIn(w3, part(4))
             w5 == LeastIn(w4, part(5))
             w6 == LeastIn(w5, self)
  <1>1. /\ \A i \in W : /\ part(1)[i] \in Nat /\ part(2)[i] \in Nat /\ part(3)[i] \in Nat
                        /\ part(4)[i] \in Nat /\ part(5)[i] \in Nat /\ self[i] \in Nat
        /\ \A i \in W : self[i] = i
    OBVIOUS
  <1> HIDE DEF part, self
  <1>2. /\ w1 # {} /\ w1 \subseteq W
        /\ \A i \in w1, j \in W : part(1)[i] < part(1)[j] \/ (part(1)[i] = part(1)[j] /\ j \in w1)
    BY <1>1, LeastInFacts
  <1> HIDE DEF w1
  <1>3. /\ w2 # {} /\ w2 \subseteq w1
        /\ \A i \in w2, j \in w1 : part(2)[i] < part(2)[j] \/ (part(2)[i] = part(2)[j] /\ j \in w2)
    <2>1. \A i \in w1 : part(2)[i] \in Nat
      BY <1>1, <1>2
    <2> QED
      BY <1>2, <2>1, LeastInFacts
  <1> HIDE DEF w2
  <1>4. /\ w3 # {} /\ w3 \subseteq w2
        /\ \A i \in w3, j \in w2 : part(3)[i] < part(3)[j] \/ (part(3)[i] = part(3)[j] /\ j \in w3)
    <2>1. \A i \in w2 : part(3)[i] \in Nat
      BY <1>1, <1>2, <1>3
    <2> QED
      BY <1>3, <2>1, LeastInFacts
  <1> HIDE DEF w3
  <1>5. /\ w4 # {} /\ w4 \subseteq w3
        /\ \A i \in w4, j \in w3 : part(4)[i] < part(4)[j] \/ (part(4)[i] = part(4)[j] /\ j \in w4)
    <2>1. \A i \in w3 : part(4)[i] \in Nat
      BY <1>1, <1>2, <1>3, <1>4
    <2> QED
      BY <1>4, <2>1, LeastInFacts
  <1> HIDE DEF w4
  <1>6. /\ w5 # {} /\ w5 \subseteq w4
        /\ \A i \in w5, j \in w4 : part(5)[i] < part(5)[j] \/ (part(5)[i] = part(5)[j] /\ j \in w5)
    <2>1. \A i \in w4 : part(5)[i] \in Nat
      BY <1>1, <1>2, <1>3, <1>4, <1>5
    <2> QED
      BY <1>5, <2>1, LeastInFacts
  <1> HIDE DEF w5
  <1>7. /\ w6 # {} /\ w6 \subseteq w5
        /\ \A i \in w6, j \in w5 : self[i] < self[j] \/ (self[i] = self[j] /\ j \in w6)
    <2>1. \A i \in w5 : self[i] \in Nat
      BY <1>1, <1>2, <1>3, <1>4, <1>5, <1>6
    <2> QED
      BY <1>6, <2>1, LeastInFacts
  <1> HIDE DEF w6
  <1>8. PICK i \in w6 : TRUE
    BY <1>7
  <1>9. i \in W /\ i \in w1 /\ i \in w2 /\ i \in w3 /\ i \in w4 /\ i \in w5
    BY <1>2, <1>3, <1>4, <1>5, <1>6, <1>7
  <1>10. ASSUME NEW j \in W \ {i}
         PROVE  \/ Earlier(front[i].time.parts, front[j].time.parts)
                \/ front[i].time.parts = front[j].time.parts /\ i < j
    <2> DEFINE a == front[i].time.parts
               b == front[j].time.parts
    <2>1. a \in [1 .. 5 -> Nat] /\ b \in [1 .. 5 -> Nat]
      BY <1>9
    <2>2. /\ part(1)[i] = a[1] /\ part(2)[i] = a[2] /\ part(3)[i] = a[3] /\ part(4)[i] = a[4]
          /\ part(5)[i] = a[5]
          /\ part(1)[j] = b[1] /\ part(2)[j] = b[2] /\ part(3)[j] = b[3] /\ part(4)[j] = b[4]
          /\ part(5)[j] = b[5]
      BY <1>9 DEF part
    <2> HIDE DEF a, b
    <2>3. \/ a[1] < b[1]
          \/ a[1] = b[1] /\ a[2] < b[2]
          \/ a[1] = b[1] /\ a[2] = b[2] /\ a[3] < b[3]
          \/ a[1] = b[1] /\ a[2] = b[2] /\ a[3] = b[3] /\ a[4] < b[4]
          \/ a[1] = b[1] /\ a[2] = b[2] /\ a[3] = b[3] /\ a[4] = b[4] /\ a[5] < b[5]
          \/ /\ a[1] = b[1] /\ a[2] = b[2] /\ a[3] = b[3] /\ a[4] = b[4] /\ a[5] = b[5]
             /\ self[i] < self[j] \/ self[i] = self[j]
      BY <1>2, <1>3, <1>4, <1>5, <1>6, <1>7, <1>9, <2>2
    <2>4. self[i] = i /\ self[j] = j /\ i # j
      BY <1>1, <1>9
    <2>5. ASSUME NEW k \in 1 .. 5, a[k] < b[k], \A h \in 1 .. 5 : h < k => a[h] = b[h]
          PROVE  Earlier(a, b)
      <3>1. k \in DOMAIN a
        BY <2>1
      <3>2. \A h \in 1 .. k - 1 : a[h] = b[h]
        BY <2>5
      <3> QED
        BY <2>5, <3>1, <3>2 DEF Earlier
    <2>6. CASE a[1] < b[1]
      <3>1. \A h \in 1 .. 5 : h < 1 => a[h] = b[h]
        OBVIOUS
      <3> QED
        BY <2>5, <2>6, <3>1 DEF a, b
    <2>7. CASE a[1] = b[1] /\ a[2] < b[2]
      <3>1. \A h \in 1 .. 5 : h < 2 => a[h] = b[h]
        BY <2>7
      <3> QED
        BY <2>5, <2>7, <3>1 DEF a, b
    <2>8. CASE a[1] = b[1] /\ a[2] = b[2] /\ a[3] < b[3]
      <3>1. \A h \in 1 .. 5 : h < 3 => a[h] = b[h]
        BY <2>8
      <3> QED
        BY <2>5, <2>8, <3>1 DEF a, b
    <2>9. CASE a[1] = b[1] /\ a[2] = b[2] /\ a[3] = b[3] /\ a[4] < b[4]
      <3>1. \A h \in 1 .. 5 : h < 4 => a[h] = b[h]
        BY <2>9
      <3> QED
        BY <2>5, <2>9, <3>1 DEF a, b
    <2>10. CASE a[1] = b[1] /\ a[2] = b[2] /\ a[3] = b[3] /\ a[4] = b[4] /\ a[5] < b[5]
      <3>1. \A h \in 1 .. 5 : h < 5 => a[h] = b[h]
        BY <2>10
      <3> QED
        BY <2>5, <2>10, <3>1 DEF a, b
    <2>11. CASE /\ a[1] = b[1] /\ a[2] = b[2] /\ a[3] = b[3] /\ a[4] = b[4] /\ a[5] = b[5]
                /\ i < j
      <3>1. \A h \in 1 .. 5 : a[h] = b[h]
        BY <2>11
      <3>2. a = b
        BY <2>1, <3>1
      <3> QED
        BY <2>11, <3>2 DEF a, b
    <2> QED
      BY <2>3, <2>4, <2>6, <2>7, <2>8, <2>9, <2>10, <2>11
  <1> QED
    BY <1>9, <1>10 DEF Oldest

\* The message m of input i, taken off by its reader r for the merge.
Offered(m, i, r) ==
  /\ {"input", "offset"} \subseteq DOMAIN m /\ m.input = i
  /\ IsMessage(m, "irig") /\ r.format = "irig" /\ Says(m, r.words, "irig")
  /\ m.offset \in Nat /\ m.offset < r.offset

\* The reader's words are those of the recording at its path.
OnDisk(r) ==
  /\ Canonical(r.path) \in DOMAIN disk /\ disk[Canonical(r.path)].kind = "recording"
  /\ r.words = disk[Canonical(r.path)].words

\* The readers, and what the merge holds of them: it waits for all of those
\* that have not ended.
ReadersOk(rs, held) ==
  /\ \A i \in DOMAIN rs : i \in Nat \ {0} /\ IsReader(rs[i]) /\ OnDisk(rs[i])
  /\ ~Merging => DOMAIN rs = {1} /\ DOMAIN held = {}
  /\ \A i \in DOMAIN held : i \in DOMAIN rs /\ Offered(held[i], i, rs[i])
  /\ Merging => \A i \in DOMAIN rs : i \in DOMAIN held \/ rs[i].ended

\* Where in input i the stream has got to: everything below it has come out.
DueAt(rs, held, i) == IF i \in DOMAIN held THEN held[i].offset ELSE rs[i].offset

\* From one state of the readers to another one, further on.
LeadsOn(rs, held, next, heldNext) ==
  /\ ReadersOk(next, heldNext) /\ DOMAIN next = DOMAIN rs
  /\ \A i \in DOMAIN rs : /\ DueAt(rs, held, i) <= DueAt(next, heldNext, i)
                          /\ next[i].words = rs[i].words /\ next[i].format = rs[i].format

\* The message m comes out between them.
ComesOut(m, rs, held, next, heldNext) ==
  /\ {"input", "offset", "command", "time"} \subseteq DOMAIN m
  /\ m.command \in Nat \cup {None} /\ m.input \in DOMAIN rs /\ m.offset \in Nat
  /\ DueAt(rs, held, m.input) <= m.offset
  /\ m.offset < DueAt(next, heldNext, m.input)
  /\ Says(m, rs[m.input].words, rs[m.input].format)

\* Nothing is left.
AllOver(rs, held) == DOMAIN held = {} /\ \A i \in DOMAIN rs : rs[i].ended

\* A reader's message, with its input, is what the merge is offered.
LEMMA OfferIs ==
  ASSUME NEW r, IsReader(r), NEW t, Turned(r, t), HasMessage(t.item), NEW i
  PROVE  /\ LET m == With(t.item.message, "input", i)
            IN  /\ {"input", "offset", "command", "time"} \subseteq DOMAIN m
                /\ m.input = i /\ IsMessage(m, r.format)
                /\ m.offset = t.item.message.offset /\ Says(m, r.words, r.format)
         /\ t.item.message.offset \in Nat
         /\ r.offset <= t.item.message.offset /\ t.item.message.offset < t.reader.offset
  <1> DEFINE a == t.item.message
             m == With(a, "input", i)
  <1>1. /\ IsMessage(a, r.format) /\ "offset" \in DOMAIN a /\ a.offset \in Nat
        /\ r.offset <= a.offset /\ a.offset < t.reader.offset /\ Says(a, r.words, r.format)
    BY DEF Turned, Over, HasMessage, Is
  <1>2. /\ DOMAIN m = DOMAIN a \cup {"input"} /\ m.input = i
        /\ \A k \in DOMAIN a : k # "input" => m[k] = a[k]
    BY DEF With
  <1>6. Says(m, r.words, r.format)
    BY <1>1, SaysWith
  <1> HIDE DEF a, m
  <1>3. m.command = a.command /\ m.time = a.time /\ m.offset = a.offset
    BY <1>1, <1>2 DEF IsMessage
  <1>4. {"input", "offset", "command", "time"} \subseteq DOMAIN m
    BY <1>1, <1>2 DEF IsMessage
  <1>5. IsMessage(m, r.format)
    BY <1>1, <1>3, <1>4 DEF IsMessage
  <1> QED
    BY <1>1, <1>2, <1>3, <1>4, <1>5, <1>6 DEF a, m

\* What the first call of next() gives on each of the readers of a merge that
\* is not refused.
LEMMA PrimedIs ==
  ASSUME \A i \in DOMAIN readers :
           i \in Nat \ {0} /\ IsFresh(readers[i]) /\ OnDisk(readers[i]),
         ~Merging => DOMAIN readers = {1},
         Primed.error = None
  PROVE  ReadersOk(Primed.readers, Primed.front)
  <1> DEFINE iterated == [i \in DOMAIN readers |-> Iterated(readers[i])]
             next == [i \in DOMAIN readers |-> NextItem(Iterated(readers[i]))]
             failing == {i \in DOMAIN readers : PrimingError(next[i].item) # None}
             waiting == {i \in DOMAIN readers : HasMessage(next[i].item)}
  <1>1. \A i \in DOMAIN readers : IsReader(iterated[i]) /\ OnDisk(iterated[i])
    <2> SUFFICES ASSUME NEW i \in DOMAIN readers
                 PROVE  IsReader(iterated[i]) /\ OnDisk(iterated[i])
      OBVIOUS
    <2>1. /\ IsReader(iterated[i]) /\ OnDisk(readers[i])
          /\ iterated[i].path = readers[i].path /\ iterated[i].words = readers[i].words
      BY IteratedIs
    <2> HIDE DEF iterated
    <2> QED
      BY <2>1 DEF OnDisk
  <1>2. \A i \in DOMAIN readers : /\ Turned(iterated[i], next[i])
                                  /\ ~Repeats(next[i].item)
    <2> SUFFICES ASSUME NEW i \in DOMAIN readers
                 PROVE  Turned(iterated[i], next[i]) /\ ~Repeats(next[i].item)
      OBVIOUS
    <2>1. IsReader(iterated[i]) /\ next[i] = NextItem(iterated[i])
      BY <1>1
    <2> HIDE DEF iterated, next
    <2> QED
      BY <2>1, NextItemLeads
  <1>3. CASE ~Merging
    <2>1. Primed.readers = iterated /\ Primed.front = <<>>
      BY <1>3 DEF Primed
    <2>2. DOMAIN iterated = DOMAIN readers /\ DOMAIN <<>> = {}
      OBVIOUS
    <2> HIDE DEF iterated
    <2> QED
      BY <1>1, <1>3, <2>1, <2>2 DEF ReadersOk
  <1>4. CASE Merging
    <2> DEFINE started == [i \in DOMAIN readers |-> next[i].reader]
               held == [i \in waiting |-> With(next[i].item.message, "input", i)]
    <2>1. /\ Primed.readers = started /\ Primed.front = held
          /\ Primed.error = IF failing = {} THEN None
                            ELSE PrimingError(next[Min(failing)].item)
      <3>1. Primed = PrimedWith(next) /\ DOMAIN next = DOMAIN readers
        BY <1>4 DEF Primed
      <3> HIDE DEF next
      <3> QED
        BY <3>1 DEF PrimedWith
    <2>2. failing = {}
      <3> SUFFICES ASSUME failing # {} PROVE FALSE
        OBVIOUS
      <3>1. failing \in SUBSET Nat /\ \A i \in failing : PrimingError(next[i].item) # None
        OBVIOUS
      <3>2. PrimingError(next[Min(failing)].item) = None
        <4> HIDE DEF failing, next
        <4> DEFINE error == PrimingError(next[Min(failing)].item)
        <4>1. Primed.error = IF failing = {} THEN None ELSE error
          BY <2>1
        <4> HIDE DEF error
        <4>2. error = None
          BY <4>1
        <4> QED
          BY <4>2 DEF error
      <3> HIDE DEF failing, next
      <3>3. Min(failing) = Least(failing)
        BY DEF Min, Least
      <3>4. Least(failing) \in failing
        BY <3>1, LeastPlace
      <3> QED
        BY <3>1, <3>2, <3>3, <3>4
    <2>3. ASSUME NEW i \in waiting
          PROVE  i \in DOMAIN started /\ Offered(held[i], i, started[i])
      <3>1. i \in DOMAIN readers /\ HasMessage(next[i].item)
        OBVIOUS
      <3>2. PrimingError(next[i].item) = None
        BY <2>2, <3>1
      <3>3. held[i] = With(next[i].item.message, "input", i) /\ started[i] = next[i].reader
        BY <3>1
      <3>4. IsReader(iterated[i]) /\ Turned(iterated[i], next[i])
        BY <1>1, <1>2, <3>1
      <3>5. i \in DOMAIN started
        BY <3>1
      <3> HIDE DEF held, started, next, iterated, waiting
      <3>6. ~HasError(next[i].item)
        BY <3>1, <3>4 DEF Turned, HasMessage, HasError, Is, Over
      <3>7. Mergeable(next[i].item.message)
        <4>0. next[i].item # Over
          BY <3>1 DEF Over, HasMessage, Is
        <4>2. PrimingError(next[i].item) =
                IF Mergeable(next[i].item.message) THEN None ELSE "IncompatibleMergeInputs"
          BY <3>1, <3>6, <4>0 DEF PrimingError
        <4> QED
          BY <3>2, <4>2, NoErrorAssumption
      <3>8. iterated[i].format = "irig"
        BY <3>1, <3>4, <3>7 DEF Turned, HasMessage, Is, Over, IsMessage, Mergeable
      <3>9. started[i].format = "irig" /\ started[i].words = iterated[i].words
        BY <3>3, <3>4, <3>8 DEF Turned
      <3> QED
        BY <3>1, <3>3, <3>4, <3>5, <3>8, <3>9, OfferIs DEF Offered
    <2>4. ASSUME NEW i \in DOMAIN readers
          PROVE  /\ IsReader(started[i]) /\ OnDisk(started[i])
                 /\ i \in waiting \/ started[i].ended
      <3>1. started[i] = next[i].reader /\ (i \in waiting <=> HasMessage(next[i].item))
        OBVIOUS
      <3>2. Turned(iterated[i], next[i]) /\ ~Repeats(next[i].item) /\ OnDisk(iterated[i])
        BY <1>1, <1>2
      <3> HIDE DEF started, next, iterated, waiting
      <3>3. OnDisk(started[i])
        BY <3>1, <3>2 DEF Turned, OnDisk
      <3> QED
        BY <3>1, <3>2, <3>3 DEF Turned, HasMessage, Repeats, Is
    <2>5. DOMAIN started = DOMAIN readers /\ DOMAIN held = waiting
      OBVIOUS
    <2> HIDE DEF started, held, waiting, failing, next, iterated
    <2>6. \A i \in DOMAIN started : i \in Nat \ {0} /\ IsReader(started[i]) /\ OnDisk(started[i])
      BY <2>4, <2>5
    <2>7. \A i \in DOMAIN started : i \in DOMAIN held \/ started[i].ended
      BY <2>4, <2>5
    <2>8. \A i \in DOMAIN held : i \in DOMAIN started /\ Offered(held[i], i, started[i])
      BY <2>3, <2>5
    <2>9. ReadersOk(started, held)
      BY <1>4, <2>6, <2>7, <2>8 DEF ReadersOk
    <2> QED
      BY <2>1, <2>9
  <1> QED
    BY <1>3, <1>4

\* Where the merge waits for an input, that input's reader is past it.
LEMMA DueBelow ==
  ASSUME NEW rs, NEW held, ReadersOk(rs, held), NEW i \in DOMAIN rs
  PROVE  DueAt(rs, held, i) \in Nat /\ DueAt(rs, held, i) <= rs[i].offset
         /\ (i \in DOMAIN held => DueAt(rs, held, i) < rs[i].offset)
  BY DEF ReadersOk, Offered, IsReader, DueAt

\* The message of the one reader comes out, or its end.
LEMMA OnePulled ==
  ASSUME ReadersOk(readers, front), ~Merging
  PROVE  /\ LeadsOn(readers, front, Pulled.state.readers, Pulled.state.front)
         /\ HasMessage(Pulled.item) =>
              ComesOut(Pulled.item.message, readers, front,
                       Pulled.state.readers, Pulled.state.front)
         /\ Pulled.item = Over => AllOver(Pulled.state.readers, Pulled.state.front)
  <1> DEFINE next == NextItem(readers[1])
             m == With(next.item.message, "input", 1)
             rs == [readers EXCEPT ![1] = next.reader]
  <1>1. /\ DOMAIN readers = {1} /\ DOMAIN front = {}
        /\ IsReader(readers[1]) /\ OnDisk(readers[1])
    BY DEF ReadersOk
  <1>2. Turned(readers[1], next) /\ ~Repeats(next.item)
    BY <1>1, NextItemLeads
  <1>3. /\ Pulled.item = IF HasMessage(next.item) THEN [message |-> m] ELSE next.item
        /\ Pulled.state.readers = rs /\ Pulled.state.front = front
    BY DEF Pulled, Same
  <1>4. DOMAIN rs = {1} /\ rs[1] = next.reader
    BY <1>1
  <1> HIDE DEF next, rs
  <1>5. /\ next.reader.offset >= readers[1].offset /\ IsReader(next.reader)
        /\ OnDisk(next.reader) /\ next.reader.words = readers[1].words
        /\ next.reader.format = readers[1].format
    BY <1>1, <1>2 DEF Turned, OnDisk
  <1>6. LeadsOn(readers, front, rs, front)
    BY <1>1, <1>4, <1>5 DEF LeadsOn, ReadersOk, DueAt
  <1>7. ASSUME HasMessage(Pulled.item)
        PROVE  ComesOut(Pulled.item.message, readers, front, rs, front)
    <2>1. HasMessage(next.item)
      BY <1>3, <1>7
    <2>2. Pulled.item.message = m
      BY <1>3, <2>1
    <2>3. /\ {"input", "offset", "command", "time"} \subseteq DOMAIN m
          /\ m.input = 1 /\ m.command \in Nat \cup {None}
          /\ m.offset \in Nat /\ readers[1].offset <= m.offset /\ m.offset < next.reader.offset
          /\ Says(m, readers[1].words, readers[1].format)
      BY <1>1, <1>2, <2>1, OfferIs DEF IsMessage
    <2> HIDE DEF m
    <2> QED
      BY <1>1, <1>4, <2>2, <2>3 DEF ComesOut, DueAt
  <1>8. ASSUME Pulled.item = Over PROVE AllOver(rs, front)
    <2>1. next.item = Over
      BY <1>3, <1>8 DEF Over, HasMessage, Is
    <2>2. next.reader.ended
      BY <1>2, <2>1 DEF Turned, Over
    <2> QED
      BY <1>1, <1>4, <2>2 DEF AllOver
  <1> QED
    BY <1>3, <1>6, <1>7, <1>8

\* What advance does to the readers and the heap.
LEMMA AdvancedIs ==
  ASSUME NEW i, NEW next, ~Repeats(next.item), NEW r, Turned(r, next)
  PROVE  /\ Advanced(i, next).readers = [readers EXCEPT ![i] = next.reader]
         /\ Advanced(i, next).front =
              IF HasMessage(next.item)
                THEN With([j \in Waiting \ {i} |-> front[j]], i,
                          With(next.item.message, "input", i))
                ELSE [j \in Waiting \ {i} |-> front[j]]
  <1>1. CASE HasMessage(next.item)
    <2>1. ~HasError(next.item) /\ next.item # Over
      BY <1>1 DEF Turned, Over, HasMessage, HasError, Is
    <2> QED
      BY <1>1, <2>1 DEF Advanced
  <1>2. CASE HasError(next.item)
    <2>1. ~HasMessage(next.item) /\ next.item # Over
      BY <1>2 DEF Turned, Over, HasMessage, HasError, Is
    <2> QED
      BY <1>2, <2>1 DEF Advanced
  <1>3. CASE next.item = Over
    <2>1. ~HasMessage(next.item) /\ ~HasError(next.item)
      BY <1>3 DEF Over, HasMessage, HasError, Is
    <2> QED
      BY <1>3, <2>1 DEF Advanced
  <1>4. HasMessage(next.item) \/ HasError(next.item) \/ next.item = Over
    BY DEF Turned, Repeats, HasMessage, HasError, Is
  <1> QED
    BY <1>1, <1>2, <1>3, <1>4

\* The oldest message comes out of a merge, and the next one of its input
\* takes its place.
LEMMA MergePulled ==
  ASSUME ReadersOk(readers, front), Merging, halted = None, Waiting # {}
  PROVE  /\ LeadsOn(readers, front, Pulled.state.readers, Pulled.state.front)
         /\ HasMessage(Pulled.item)
         /\ ComesOut(Pulled.item.message, readers, front,
                     Pulled.state.readers, Pulled.state.front)
  <1> DEFINE i == Oldest
             next == NextItem(readers[i])
             m == With(next.item.message, "input", i)
             rs == [readers EXCEPT ![i] = next.reader]
             rest == [j \in Waiting \ {i} |-> front[j]]
             held == IF HasMessage(next.item) THEN With(rest, i, m) ELSE rest
  <1>1. /\ Waiting = DOMAIN front
        /\ \A j \in DOMAIN readers : j \in Nat \ {0} /\ IsReader(readers[j]) /\ OnDisk(readers[j])
        /\ \A j \in Waiting : j \in DOMAIN readers /\ Offered(front[j], j, readers[j])
        /\ \A j \in DOMAIN readers : j \in Waiting \/ readers[j].ended
    BY DEF ReadersOk, Waiting
  <1>2. i \in Waiting
    <2>1. \A j \in Waiting : j \in Nat /\ front[j].time.parts \in [1 .. 5 -> Nat]
      BY <1>1 DEF Offered, IsMessage
    <2> QED
      BY <2>1, OldestWaits
  <1> HIDE DEF i
  <1>3. i \in DOMAIN readers /\ IsReader(readers[i]) /\ Offered(front[i], i, readers[i])
    BY <1>1, <1>2
  <1>4. Turned(readers[i], next) /\ ~Repeats(next.item)
    BY <1>3, NextItemLeads
  <1>5. /\ Pulled.item = [message |-> front[i]]
        /\ Pulled.state = Advanced(i, next)
    BY DEF Pulled, i
  <1>6. Pulled.state.readers = rs /\ Pulled.state.front = held
    BY <1>4, <1>5, AdvancedIs
  <1>7. /\ DOMAIN rs = DOMAIN readers /\ rs[i] = next.reader
        /\ \A j \in DOMAIN readers : j # i => rs[j] = readers[j]
    BY <1>3
  <1> HIDE DEF next
  <1>8. /\ DOMAIN held = IF HasMessage(next.item) THEN Waiting ELSE Waiting \ {i}
        /\ \A j \in Waiting : j # i => held[j] = front[j]
        /\ HasMessage(next.item) => held[i] = m
    <2>1. DOMAIN rest = Waiting \ {i} /\ \A j \in Waiting : j # i => rest[j] = front[j]
      OBVIOUS
    <2>2. CASE HasMessage(next.item)
      <3>1. held = With(rest, i, m)
        BY <2>2
      <3> HIDE DEF rest, held, m
      <3> QED
        BY <1>2, <2>1, <2>2, <3>1 DEF With
    <2>3. CASE ~HasMessage(next.item)
      BY <2>1, <2>3
    <2> QED
      BY <2>2, <2>3
  <1>9. /\ IsReader(next.reader) /\ next.reader.format = readers[i].format
        /\ readers[i].format = "irig" /\ next.reader.words = readers[i].words
        /\ next.reader.path = readers[i].path
        /\ next.reader.offset >= readers[i].offset
        /\ HasMessage(next.item) \/ next.reader.ended
    BY <1>3, <1>4 DEF Turned, Offered, Repeats, HasMessage, Is
  <1>10. HasMessage(next.item) => Offered(m, i, next.reader)
         /\ readers[i].offset <= m.offset
    BY <1>3, <1>4, <1>9, OfferIs DEF Offered
  <1> HIDE DEF rs, held, m
  <1>11. ReadersOk(rs, held)
    <2>4. OnDisk(next.reader)
      BY <1>1, <1>3, <1>9 DEF OnDisk
    <2>1. \A j \in DOMAIN rs : j \in Nat \ {0} /\ IsReader(rs[j]) /\ OnDisk(rs[j])
      BY <1>1, <1>7, <1>9, <2>4
    <2>2. \A j \in DOMAIN held : j \in DOMAIN rs /\ Offered(held[j], j, rs[j])
      BY <1>1, <1>2, <1>7, <1>8, <1>10
    <2>3. \A j \in DOMAIN rs : j \in DOMAIN held \/ rs[j].ended
      BY <1>1, <1>2, <1>7, <1>8, <1>9
    <2> QED
      BY <2>1, <2>2, <2>3 DEF ReadersOk
  <1>12. /\ front[i].offset \in Nat /\ front[i].offset < readers[i].offset
         /\ readers[i].offset \in Nat /\ next.reader.offset \in Nat
    BY <1>3, <1>9 DEF Offered, IsReader
  <1>13. /\ DueAt(readers, front, i) = front[i].offset
         /\ DueAt(rs, held, i) = IF HasMessage(next.item) THEN m.offset ELSE next.reader.offset
    BY <1>1, <1>2, <1>7, <1>8 DEF DueAt
  <1>14. DueAt(readers, front, i) < DueAt(rs, held, i)
    <2>1. HasMessage(next.item) => m.offset \in Nat
      BY <1>10 DEF Offered
    <2> QED
      BY <1>9, <1>10, <1>12, <1>13, <2>1
  <1>15. \A j \in DOMAIN readers : DueAt(readers, front, j) <= DueAt(rs, held, j)
    <2> SUFFICES ASSUME NEW j \in DOMAIN readers
                 PROVE  DueAt(readers, front, j) <= DueAt(rs, held, j)
      OBVIOUS
    <2>1. DueAt(readers, front, j) \in Nat
      BY DueBelow
    <2>2. CASE j = i
      <3>1. DueAt(rs, held, i) \in Nat
        BY <1>3, <1>7, <1>11, DueBelow
      <3> QED
        BY <1>14, <2>1, <2>2, <3>1
    <2>3. CASE j # i
      <3>1. DueAt(rs, held, j) = DueAt(readers, front, j)
        BY <1>1, <1>7, <1>8, <2>3 DEF DueAt
      <3> QED
        BY <2>1, <3>1
    <2> QED
      BY <2>2, <2>3
  <1>16. LeadsOn(readers, front, rs, held)
    <2>1. \A j \in DOMAIN readers : rs[j].words = readers[j].words /\ rs[j].format = readers[j].format
      BY <1>7, <1>9
    <2> QED
      BY <1>7, <1>11, <1>15, <2>1 DEF LeadsOn
  <1>17. ComesOut(front[i], readers, front, rs, held)
    BY <1>3, <1>12, <1>13, <1>14 DEF ComesOut, Offered, IsMessage
  <1> QED
    BY <1>5, <1>6, <1>16, <1>17 DEF HasMessage, Is

-----------------------------------------------------------------------------
(* What the stream pulls.                                                  *)

\* What the stream pulls leads on, whatever it is.
LEMMA PulledLeads ==
  ASSUME ReadersOk(readers, front)
  PROVE  /\ LeadsOn(readers, front, Pulled.state.readers, Pulled.state.front)
         /\ HasMessage(Pulled.item) =>
              ComesOut(Pulled.item.message, readers, front,
                       Pulled.state.readers, Pulled.state.front)
         /\ Pulled.item = Over => AllOver(Pulled.state.readers, Pulled.state.front)
  <1>1. LeadsOn(readers, front, readers, front)
    <2>1. \A i \in DOMAIN readers : DueAt(readers, front, i) \in Nat
      BY DueBelow
    <2>2. \A i \in DOMAIN readers : DueAt(readers, front, i) <= DueAt(readers, front, i)
      BY <2>1
    <2> QED
      BY <2>2 DEF LeadsOn
  <1>2. CASE Merging /\ halted # None
    <2>1. /\ DOMAIN Pulled.item = {"error"}
          /\ Pulled.state.readers = readers /\ Pulled.state.front = front
      BY <1>2 DEF Pulled, Same
    <2>2. ~HasMessage(Pulled.item) /\ Pulled.item # Over
      BY <2>1 DEF HasMessage, Is, Over
    <2> QED
      BY <1>1, <2>1, <2>2
  <1>3. CASE Merging /\ halted = None /\ Waiting = {}
    <2>1. /\ ~HasMessage(Pulled.item)
          /\ Pulled.state.readers = readers /\ Pulled.state.front = front
      BY <1>3 DEF Pulled, Same, HasMessage, Is, Over
    <2>2. AllOver(readers, front)
      BY <1>3 DEF ReadersOk, AllOver, Waiting
    <2> QED
      BY <1>1, <2>1, <2>2
  <1>4. CASE Merging /\ halted = None /\ Waiting # {}
    <2>1. Pulled.item # Over
      BY <1>4, MergePulled DEF Over, HasMessage, Is
    <2> QED
      BY <1>4, <2>1, MergePulled
  <1> QED
    BY <1>2, <1>3, <1>4, OnePulled

-----------------------------------------------------------------------------
(* What has come out of the readers so far.                                *)

\* Its order is, in each input, that of the recording, and the stream is past
\* all of it.
ArrivedOk(a, rs, held) ==
  /\ IsList(a) /\ Numbered(a)
  /\ \A k \in 1 .. Len(a) :
       /\ a[k].key \in Nat /\ a[k].offset \in Nat /\ a[k].input \in DOMAIN rs
       /\ a[k].offset < DueAt(rs, held, a[k].input)
       /\ "offset" \in DOMAIN a[k] /\ Says(a[k], rs[a[k].input].words, rs[a[k].input].format)
  /\ \A j, k \in 1 .. Len(a) :
       j < k /\ a[j].input = a[k].input => a[j].offset < a[k].offset

\* One more on a list.
LEMMA ListGrows ==
  ASSUME NEW s, IsList(s), NEW e
  PROVE  /\ IsList(Append(s, e))
         /\ Len(s) \in Nat /\ Len(Append(s, e)) = Len(s) + 1
         /\ DOMAIN s = 1 .. Len(s) /\ DOMAIN Append(s, e) = 1 .. Len(s) + 1
         /\ \A k \in 1 .. Len(s) : Append(s, e)[k] = s[k]
         /\ Append(s, e)[Len(s) + 1] = e
  <1> DEFINE S == {s[k] : k \in 1 .. Len(s)} \cup {e}
  <1>1. s \in Seq(S) /\ e \in S
    BY DEF IsList
  <1> HIDE DEF S
  <1>2. /\ Append(s, e) \in Seq(S)
        /\ Len(Append(s, e)) = Len(s) + 1 /\ Len(s) \in Nat
        /\ DOMAIN s = 1 .. Len(s) /\ DOMAIN Append(s, e) = 1 .. Len(s) + 1
        /\ \A n \in 1 .. Len(s) : Append(s, e)[n] = s[n]
        /\ Append(s, e)[Len(s) + 1] = e
    BY <1>1, AppendFacts
  <1> QED
    BY <1>2, ListIs

\* The key of a message is a number.
LEMMA SortKeyIsNat ==
  ASSUME NEW m, m.command \in Nat \cup {None}
  PROVE  SortKey(m) \in Nat
  <1>1. CASE m.command = None
    BY <1>1 DEF SortKey, Addressed, Order!NoKey
  <1>2. CASE m.command # None
    <2> DEFINE c == CommandWord(m.command)
               bit == IF c.transmits THEN 1 ELSE 0
    <2>1. m.command \in Nat
      BY <1>2
    <2>2. c.rt \in Nat /\ c.subaddress \in Nat
      BY <2>1, BitsAreNat DEF CommandWord
    <2>3. SortKey(m) = 1 + c.rt * 64 + c.subaddress * 2 + bit
      BY <1>2 DEF SortKey, Addressed
    <2>4. bit \in Nat
      OBVIOUS
    <2> HIDE DEF c, bit
    <2> QED
      BY <2>2, <2>3, <2>4
  <1> QED
    BY <1>1, <1>2

\* A message that comes out arrives past all of its input that has arrived.
LEMMA ArrivedGrows ==
  ASSUME ReadersOk(readers, front), ArrivedOk(arrived, readers, front),
         NEW next, NEW heldNext, LeadsOn(readers, front, next, heldNext),
         NEW m, ComesOut(m, readers, front, next, heldNext)
  PROVE  ArrivedOk(Append(arrived, Ordered(m)), next, heldNext)
  <1> DEFINE a == arrived
             e == Ordered(m)
             b == Append(a, e)
             N == Len(a)
  <1>1. /\ IsList(b) /\ N \in Nat /\ Len(b) = N + 1 /\ DOMAIN b = 1 .. N + 1
        /\ \A k \in 1 .. N : b[k] = a[k]
        /\ b[N + 1] = e
    BY ListGrows DEF ArrivedOk
  <1>2. e.id = N + 1 /\ e.key = SortKey(m) /\ e.input = m.input /\ e.offset = m.offset
    BY DEF Ordered, With, ComesOut
  <1>3. e.key \in Nat
    BY <1>2, SortKeyIsNat DEF ComesOut
  <1>12. "offset" \in DOMAIN e /\ Says(e, readers[m.input].words, readers[m.input].format)
    <2> DEFINE l == With(m, "id", Len(arrived) + 1)
    <2>1. "offset" \in DOMAIN m /\ Says(m, readers[m.input].words, readers[m.input].format)
      BY DEF ComesOut
    <2>2. "offset" \in DOMAIN l /\ Says(l, readers[m.input].words, readers[m.input].format)
      BY <2>1, SaysWith
    <2>3. e = With(l, "key", SortKey(m))
      BY DEF Ordered
    <2> HIDE DEF l, e
    <2> QED
      BY <2>2, <2>3, SaysWith
  <1>4. /\ m.input \in DOMAIN readers /\ m.offset \in Nat
        /\ DueAt(readers, front, m.input) <= m.offset
        /\ m.offset < DueAt(next, heldNext, m.input)
    BY DEF ComesOut
  <1>5. /\ \A k \in 1 .. N : /\ a[k].id = k
                             /\ a[k].key \in Nat /\ a[k].offset \in Nat
                             /\ a[k].input \in DOMAIN readers
                             /\ a[k].offset < DueAt(readers, front, a[k].input)
                             /\ "offset" \in DOMAIN a[k]
                             /\ Says(a[k], readers[a[k].input].words,
                                     readers[a[k].input].format)
        /\ \A j, k \in 1 .. N : j < k /\ a[j].input = a[k].input => a[j].offset < a[k].offset
    BY DEF ArrivedOk, Numbered
  <1>6. /\ DOMAIN next = DOMAIN readers
        /\ \A i \in DOMAIN readers :
             /\ DueAt(readers, front, i) \in Nat /\ DueAt(next, heldNext, i) \in Nat
             /\ DueAt(readers, front, i) <= DueAt(next, heldNext, i)
             /\ next[i].words = readers[i].words /\ next[i].format = readers[i].format
    BY DueBelow DEF LeadsOn
  <1> HIDE DEF a, b, e, N
  <1>7. \A k \in 1 .. N + 1 : k \in 1 .. N \/ k = N + 1
    BY <1>1
  <1>8. Numbered(b)
    BY <1>1, <1>2, <1>5, <1>7 DEF Numbered
  <1>9. ASSUME NEW k \in 1 .. N + 1
        PROVE  /\ b[k].key \in Nat /\ b[k].offset \in Nat /\ b[k].input \in DOMAIN next
               /\ b[k].offset < DueAt(next, heldNext, b[k].input)
               /\ "offset" \in DOMAIN b[k]
               /\ Says(b[k], next[b[k].input].words, next[b[k].input].format)
    <2>1. CASE k \in 1 .. N
      <3> DEFINE i == a[k].input
      <3>1. /\ b[k] = a[k] /\ i \in DOMAIN readers /\ a[k].offset \in Nat
            /\ a[k].offset < DueAt(readers, front, i)
        BY <1>1, <1>5, <2>1
      <3>4. "offset" \in DOMAIN a[k] /\ Says(a[k], readers[i].words, readers[i].format)
        BY <1>5, <2>1
      <3> HIDE DEF i
      <3>2. a[k].offset < DueAt(next, heldNext, i)
        BY <1>6, <3>1
      <3>3. Says(a[k], next[i].words, next[i].format)
        BY <1>6, <3>1, <3>4
      <3> QED
        BY <1>5, <1>6, <2>1, <3>1, <3>2, <3>3, <3>4 DEF i
    <2>2. CASE k = N + 1
      BY <1>1, <1>2, <1>3, <1>4, <1>6, <1>12, <2>2
    <2> QED
      BY <1>7, <2>1, <2>2
  <1>10. ASSUME NEW j \in 1 .. N + 1, NEW k \in 1 .. N + 1, j < k, b[j].input = b[k].input
         PROVE  b[j].offset < b[k].offset
    <2>1. j \in 1 .. N
      BY <1>1, <1>10
    <2>2. CASE k \in 1 .. N
      BY <1>1, <1>5, <1>10, <2>1, <2>2
    <2>3. CASE k = N + 1
      <3>1. /\ b[j] = a[j] /\ b[k] = e /\ a[j].input = m.input /\ a[j].offset \in Nat
            /\ a[j].offset < DueAt(readers, front, m.input)
        BY <1>1, <1>2, <1>5, <1>10, <2>1, <2>3
      <3>2. a[j].offset < m.offset
        BY <1>4, <1>6, <3>1
      <3> QED
        BY <1>2, <3>1, <3>2
    <2> QED
      BY <1>7, <2>2, <2>3
  <1>11. ArrivedOk(b, next, heldNext)
    BY <1>1, <1>8, <1>9, <1>10 DEF ArrivedOk
  <1> QED
    BY <1>11 DEF a, b, e

\* Without one, the stream is past what has arrived all the same.
LEMMA ArrivedStays ==
  ASSUME ReadersOk(readers, front), ArrivedOk(arrived, readers, front),
         NEW next, NEW heldNext, LeadsOn(readers, front, next, heldNext)
  PROVE  ArrivedOk(arrived, next, heldNext)
  <1>1. /\ DOMAIN next = DOMAIN readers
        /\ \A i \in DOMAIN readers :
             /\ DueAt(readers, front, i) \in Nat /\ DueAt(next, heldNext, i) \in Nat
             /\ DueAt(readers, front, i) <= DueAt(next, heldNext, i)
             /\ next[i].words = readers[i].words /\ next[i].format = readers[i].format
    BY DueBelow DEF LeadsOn
  <1>2. ASSUME NEW k \in 1 .. Len(arrived)
        PROVE  /\ arrived[k].offset < DueAt(next, heldNext, arrived[k].input)
               /\ Says(arrived[k], next[arrived[k].input].words, next[arrived[k].input].format)
    <2> DEFINE i == arrived[k].input
               n == arrived[k].offset
    <2>1. /\ i \in DOMAIN readers /\ n \in Nat /\ n < DueAt(readers, front, i)
          /\ Says(arrived[k], readers[i].words, readers[i].format)
      BY DEF ArrivedOk
    <2> HIDE DEF i, n
    <2>2. n < DueAt(next, heldNext, i)
      BY <1>1, <2>1
    <2>3. Says(arrived[k], next[i].words, next[i].format)
      BY <1>1, <2>1
    <2> QED
      BY <2>2, <2>3 DEF i, n
  <1> QED
    BY <1>1, <1>2 DEF ArrivedOk

-----------------------------------------------------------------------------
(* The one place of each message.                                          *)

\* The rows are those of the messages ms, each once, and no two of them name
\* the same place of the same input.
Lists(rows, ms) ==
  /\ IsList(rows)
  /\ \A k \in 1 .. Len(rows) : \E m \in ms : rows[k] = RowOf(m)
  /\ \A m \in ms : \E k \in 1 .. Len(rows) : rows[k] = RowOf(m)
  /\ \A j, k \in 1 .. Len(rows) :
       j # k => rows[j].input # rows[k].input \/ rows[j].offset # rows[k].offset

\* The messages whose rows belong to a file.
For(part, ms) == {m \in ms : PartFor(m) = part}

\* Every message that has arrived is in one place: written, to be emitted, or
\* in the run.
Places(a, queue, run, rows, E, O, B) ==
  /\ E \cup O \cup B = 1 .. Len(a)
  /\ E \cap O = {} /\ E \cap B = {} /\ O \cap B = {}
  /\ Carries(a, queue, O) /\ Carries(a, run, B)
  /\ DOMAIN rows = {"main", "errors"}
  /\ \A part \in {"main", "errors"} : Lists(rows[part], For(part, Those(a, E)))

\* Every message has its one place: a row, the queue or the buffer.
Placed(a, queue, run, rows) == \E E, O, B : Places(a, queue, run, rows, E, O, B)

\* A row of another message than all before it goes on a list.
LEMMA ListsOneMore ==
  ASSUME NEW rows, NEW ms, Lists(rows, ms), NEW e,
         \A m \in ms : m.input # e.input \/ m.offset # e.offset
  PROVE  Lists(Append(rows, RowOf(e)), ms \cup {e})
  <1> DEFINE more == Append(rows, RowOf(e))
             N == Len(rows)
  <1>1. /\ IsList(more) /\ N \in Nat /\ Len(more) = N + 1
        /\ \A k \in 1 .. N : more[k] = rows[k]
        /\ more[N + 1] = RowOf(e)
    BY ListGrows DEF Lists
  <1>2. /\ \A k \in 1 .. N : \E m \in ms : rows[k] = RowOf(m)
        /\ \A m \in ms : \E k \in 1 .. N : rows[k] = RowOf(m)
        /\ \A j, k \in 1 .. N :
             j # k => rows[j].input # rows[k].input \/ rows[j].offset # rows[k].offset
    BY DEF Lists
  <1>3. \A m : RowOf(m).input = m.input /\ RowOf(m).offset = m.offset
    BY DEF RowOf
  <1> HIDE DEF more, N
  <1>4. \A k \in 1 .. N + 1 : k \in 1 .. N \/ k = N + 1
    BY <1>1
  <1>5. \A k \in 1 .. N : k \in 1 .. N + 1
    BY <1>1
  <1>6. N + 1 \in 1 .. N + 1
    BY <1>1
  <1>7. \A k \in 1 .. N + 1 : \E m \in ms \cup {e} : more[k] = RowOf(m)
    BY <1>1, <1>2, <1>4
  <1>8. ASSUME NEW m \in ms \cup {e} PROVE \E k \in 1 .. N + 1 : more[k] = RowOf(m)
    <2>1. CASE m \in ms
      <3>1. PICK k \in 1 .. N : rows[k] = RowOf(m)
        BY <1>2, <2>1
      <3> QED
        BY <1>1, <1>5, <3>1
    <2>2. CASE m = e
      BY <1>1, <1>6, <2>2
    <2> QED
      BY <2>1, <2>2
  <1>9. \A k \in 1 .. N : more[k].input # more[N + 1].input \/ more[k].offset # more[N + 1].offset
    <2> SUFFICES ASSUME NEW k \in 1 .. N
                 PROVE  more[k].input # more[N + 1].input \/ more[k].offset # more[N + 1].offset
      OBVIOUS
    <2>1. PICK m \in ms : rows[k] = RowOf(m)
      BY <1>2
    <2>2. more[k] = RowOf(m) /\ more[N + 1] = RowOf(e)
      BY <1>1, <2>1
    <2> QED
      BY <1>3, <2>2
  <1>10. ASSUME NEW j \in 1 .. N + 1, NEW k \in 1 .. N + 1, j # k
         PROVE  more[j].input # more[k].input \/ more[j].offset # more[k].offset
    BY <1>1, <1>2, <1>4, <1>9, <1>10
  <1>11. Lists(more, ms \cup {e})
    BY <1>1, <1>7, <1>8, <1>10 DEF Lists
  <1> QED
    BY <1>11 DEF more

\* Two messages that have arrived are of two places.
LEMMA ArrivedDiffer ==
  ASSUME NEW a, NEW rs, NEW held, ArrivedOk(a, rs, held),
         NEW j \in 1 .. Len(a), NEW k \in 1 .. Len(a), j # k
  PROVE  a[j].input # a[k].input \/ a[j].offset # a[k].offset
  <1>1. a[j].offset \in Nat /\ a[k].offset \in Nat /\ (j < k \/ k < j)
    BY DEF ArrivedOk, Numbered
  <1>2. /\ j < k /\ a[j].input = a[k].input => a[j].offset < a[k].offset
        /\ k < j /\ a[j].input = a[k].input => a[k].offset < a[j].offset
    BY DEF ArrivedOk
  <1> QED
    BY <1>1, <1>2

\* A message written is no longer to be emitted.
LEMMA WritePlaces ==
  ASSUME NEW rs, NEW held, ArrivedOk(arrived, rs, held),
         Placed(arrived, out, buf, written), out # <<>>
  PROVE  Placed(arrived, Front(out), buf,
                [written EXCEPT ![PartFor(Last(out))] = Append(@, RowOf(Last(out)))])
  <1>1. PICK E, O, B : Places(arrived, out, buf, written, E, O, B)
    BY DEF Placed
  <1> DEFINE a == arrived
             e == Last(out)
             n == e.id
             p == PartFor(e)
             rows == [written EXCEPT ![p] = Append(@, RowOf(e))]
  <1>2. /\ E \cup O \cup B = 1 .. Len(a)
        /\ E \cap O = {} /\ E \cap B = {} /\ O \cap B = {}
        /\ Carries(a, out, O) /\ Carries(a, buf, B)
        /\ DOMAIN written = {"main", "errors"}
        /\ \A part \in {"main", "errors"} : Lists(written[part], For(part, Those(a, E)))
    BY <1>1 DEF Places
  <1>3. /\ n \in O /\ e = a[n]
        /\ Carries(a, Front(out), O \ {n})
    BY <1>2, CarriesOneLess DEF ArrivedOk
  <1>4. p \in {"main", "errors"}
    BY DEF PartFor
  <1> HIDE DEF a, n, p
  <1>5. /\ DOMAIN rows = {"main", "errors"}
        /\ rows[p] = Append(written[p], RowOf(e))
        /\ \A part \in {"main", "errors"} : part # p => rows[part] = written[part]
    BY <1>2, <1>4
  <1> HIDE DEF e, rows
  <1>6. Those(a, E \cup {n}) = Those(a, E) \cup {e}
    BY <1>3 DEF Those
  <1>7. \A m \in Those(a, E) : m.input # e.input \/ m.offset # e.offset
    <2> SUFFICES ASSUME NEW i \in E PROVE a[i].input # e.input \/ a[i].offset # e.offset
      BY DEF Those
    <2>1. i \in 1 .. Len(a) /\ n \in 1 .. Len(a) /\ i # n
      BY <1>2, <1>3
    <2>2. ArrivedOk(a, rs, held)
      BY DEF a
    <2> QED
      BY <1>3, <2>1, <2>2, ArrivedDiffer
  <1>8. ASSUME NEW part \in {"main", "errors"}
        PROVE  Lists(rows[part], For(part, Those(a, E \cup {n})))
    <2>1. CASE part = p
      <3>1. For(p, Those(a, E \cup {n})) = For(p, Those(a, E)) \cup {e}
        BY <1>6 DEF For, p
      <3>2. \A m \in For(p, Those(a, E)) : m.input # e.input \/ m.offset # e.offset
        BY <1>7 DEF For
      <3>3. Lists(written[p], For(p, Those(a, E)))
        BY <1>2, <1>4
      <3>4. Lists(Append(written[p], RowOf(e)), For(p, Those(a, E)) \cup {e})
        BY <3>2, <3>3, ListsOneMore
      <3> QED
        BY <1>5, <2>1, <3>1, <3>4
    <2>2. CASE part # p
      <3>1. For(part, Those(a, E \cup {n})) = For(part, Those(a, E))
        BY <1>6, <2>2 DEF For, p
      <3> QED
        BY <1>2, <1>5, <2>2, <3>1
    <2> QED
      BY <2>1, <2>2
  <1>9. /\ (E \cup {n}) \cup (O \ {n}) \cup B = 1 .. Len(a)
        /\ (E \cup {n}) \cap (O \ {n}) = {} /\ (E \cup {n}) \cap B = {} /\ (O \ {n}) \cap B = {}
    BY <1>2, <1>3
  <1>10. Places(a, Front(out), buf, rows, E \cup {n}, O \ {n}, B)
    BY <1>2, <1>3, <1>5, <1>8, <1>9 DEF Places
  <1>11. Placed(a, Front(out), buf, rows)
    BY <1>10 DEF Placed
  <1> QED
    BY <1>11 DEF a, rows, e, p

\* A flush puts the run behind the queue, the other way round.
LEMMA FlushedIs ==
  ASSUME NEW queue, NEW run
  PROVE  /\ Order!Flushed(queue, run) = queue \o Reverse(Order!SortRun(run))
         /\ Order!FlushedCapped(queue, run) = queue \o Reverse(run)
  BY DEF Order!Flushed, Order!FlushedCapped, Order!Reverse, Reverse

\* The run goes out sorted, and all of it.
LEMMA FlushPlaces ==
  ASSUME NEW rs, NEW held, ArrivedOk(arrived, rs, held),
         Placed(arrived, out, buf, written), out = <<>>
  PROVE  Placed(arrived, Order!Flushed(out, buf), <<>>, written)
  <1>1. PICK E, O, B : Places(arrived, out, buf, written, E, O, B)
    BY DEF Placed
  <1>2. /\ E \cup O \cup B = 1 .. Len(arrived)
        /\ E \cap O = {} /\ E \cap B = {} /\ O \cap B = {}
        /\ Carries(arrived, out, O) /\ Carries(arrived, buf, B)
    BY <1>1 DEF Places
  <1>3. Carries(arrived, Reverse(Order!SortRun(buf)), B)
    BY <1>2, CarriesFlushed DEF ArrivedOk
  <1>4. Carries(arrived, Order!Flushed(out, buf), O \cup B)
    <2> DEFINE sorted == Reverse(Order!SortRun(buf))
    <2>1. Numbered(arrived) /\ Carries(arrived, sorted, B)
      BY <1>3 DEF ArrivedOk
    <2>2. Order!Flushed(out, buf) = out \o sorted
      BY FlushedIs
    <2> HIDE DEF sorted
    <2>3. Carries(arrived, out \o sorted, O \cup B)
      BY <1>2, <2>1, CarriesBoth
    <2> QED
      BY <2>2, <2>3
  <1>5. Places(arrived, Order!Flushed(out, buf), <<>>, written, E, O \cup B, {})
    BY <1>1, <1>2, <1>4, CarriesNone DEF Places
  <1> QED
    BY <1>5 DEF Placed

\* A message is accepted into the run, or starts another one.
LEMMA AcceptPlaces ==
  ASSUME NEW rs, NEW held, ArrivedOk(arrived, rs, held),
         Placed(arrived, out, buf, written), out = <<>>,
         NEW e, NEW next, NEW heldNext, ArrivedOk(Append(arrived, e), next, heldNext),
         Order!Accept(e)
  PROVE  Placed(Append(arrived, e), out', buf', written)
  <1>1. PICK E, O, B : Places(arrived, out, buf, written, E, O, B)
    BY DEF Placed
  <1> DEFINE a == arrived
             b == Append(arrived, e)
             N == Len(arrived)
             n == N + 1
             starts == Order!StartsNewRun(e)
             queue == IF starts THEN Order!Flushed(out, buf) ELSE out
             run == IF starts THEN <<e>> ELSE Append(buf, e)
             Q == IF starts THEN O \cup B ELSE O
             R == IF starts THEN {n} ELSE B \cup {n}
  <1>2. /\ E \cup O \cup B = 1 .. N
        /\ E \cap O = {} /\ E \cap B = {} /\ O \cap B = {}
        /\ Carries(a, out, O) /\ Carries(a, buf, B)
        /\ DOMAIN written = {"main", "errors"}
        /\ \A part \in {"main", "errors"} : Lists(written[part], For(part, Those(a, E)))
    BY <1>1 DEF Places
  <1>3. /\ N \in Nat /\ Len(b) = N + 1 /\ b[N + 1] = e
        /\ \A k \in 1 .. N : b[k] = a[k]
        /\ Numbered(a) /\ Numbered(b)
        /\ \A k \in 1 .. Len(a) : a[k].key \in Nat
    BY ListGrows DEF ArrivedOk
  <1>4. /\ Carries(b, out, O) /\ Carries(b, buf, B)
        /\ Carries(b, Reverse(Order!SortRun(buf)), B)
    <2>1. Carries(a, Reverse(Order!SortRun(buf)), B)
      BY <1>2, <1>3, CarriesFlushed
    <2>2. Len(a) <= Len(b) /\ \A k \in 1 .. Len(a) : b[k] = a[k]
      BY <1>3
    <2> HIDE DEF a, b
    <2> QED
      BY <1>2, <1>3, <2>1, <2>2, CarriesStill
  <1>5. n \in (1 .. Len(b)) /\ n \notin E /\ n \notin O /\ n \notin B /\ b[n] = e
    BY <1>2, <1>3
  <1>6. Carries(b, queue, Q) /\ Carries(b, run, R)
    <2> HIDE DEF a, b, n
    <2>1. CASE starts
      <3>1. Carries(b, Order!Flushed(out, buf), O \cup B)
        <4> DEFINE sorted == Reverse(Order!SortRun(buf))
        <4>1. Carries(b, sorted, B)
          BY <1>4
        <4>2. Order!Flushed(out, buf) = out \o sorted
          BY FlushedIs
        <4> HIDE DEF sorted
        <4>3. Carries(b, out \o sorted, O \cup B)
          BY <1>2, <1>3, <1>4, <4>1, CarriesBoth
        <4> QED
          BY <4>2, <4>3
      <3>2. Carries(b, Append(<<>>, b[n]), {} \cup {n})
        BY <1>3, <1>5, CarriesNone, CarriesOneMore
      <3>3. Append(<<>>, b[n]) = <<e>> /\ {} \cup {n} = {n}
        BY <1>5
      <3> QED
        BY <2>1, <3>1, <3>2, <3>3
    <2>2. CASE ~starts
      <3>1. Carries(b, Append(buf, b[n]), B \cup {n})
        BY <1>3, <1>4, <1>5, CarriesOneMore
      <3> QED
        BY <1>4, <1>5, <2>2, <3>1
    <2> QED
      BY <2>1, <2>2
  <1>7. /\ Q \cup R = O \cup B \cup {n} /\ Q \cap R = {}
        /\ E \cap Q = {} /\ E \cap R = {}
        /\ E \cup (O \cup B \cup {n}) = 1 .. Len(b)
    <2>1. 1 .. N + 1 = (1 .. N) \cup {N + 1}
      BY <1>3
    <2>2. E \cup (O \cup B \cup {n}) = 1 .. Len(b)
      BY <1>2, <1>3, <2>1
    <2> HIDE DEF n
    <2> QED
      BY <1>2, <1>5, <2>2
  <1>8. Those(b, E) = Those(a, E)
    BY <1>2, <1>3 DEF Those
  <1>9. IF Order!AtCap(run) THEN out' = Order!FlushedCapped(queue, run) /\ buf' = <<>>
        ELSE out' = queue /\ buf' = run
    BY DEF Order!Accept
  <1> HIDE DEF queue, run, Q, R, a, b, n, N
  <1>10. CASE Order!AtCap(run)
    <2>1. out' = queue \o Reverse(run) /\ buf' = <<>>
      BY <1>9, <1>10, FlushedIs
    <2>2. Carries(b, Reverse(run), R)
      BY <1>3, <1>6, CarriesReversed
    <2>3. Carries(b, out', Q \cup R)
      BY <1>3, <1>6, <1>7, <2>1, <2>2, CarriesBoth
    <2>4. Places(b, out', buf', written, E, Q \cup R, {})
      <3>1. Carries(b, buf', {})
        BY <2>1, CarriesNone
      <3>2. E \cup (Q \cup R) \cup {} = 1 .. Len(b) /\ E \cap (Q \cup R) = {}
        BY <1>7
      <3> QED
        BY <1>2, <1>8, <2>3, <3>1, <3>2 DEF Places
    <2> QED
      BY <2>4 DEF Placed, b
  <1>11. CASE ~Order!AtCap(run)
    <2>1. out' = queue /\ buf' = run
      BY <1>9, <1>11
    <2>2. Places(b, out', buf', written, E, Q, R)
      <3>1. E \cup Q \cup R = 1 .. Len(b)
        BY <1>7
      <3> QED
        BY <1>2, <1>6, <1>7, <1>8, <2>1, <3>1 DEF Places
    <2> QED
      BY <2>2 DEF Placed, b
  <1> QED
    BY <1>10, <1>11

\* What a row is, and where it belongs, is settled with the command line.
LEMMA RowsKeepTheirPlaces ==
  ASSUME UNCHANGED <<args, settings>>, Placed(arrived', out', buf', written')
  PROVE  Placed(arrived, out, buf, written)'
  <1>1. ASSUME NEW m PROVE RowOf(m)' = RowOf(m) /\ PartFor(m)' = PartFor(m)
    <2>1. Render' = Render
      BY DEF Render
    <2>2. (SplitErrors' <=> SplitErrors)
      BY DEF SplitErrors, ToFile, Output
    <2> QED
      BY <2>1, <2>2 DEF RowOf, PartFor
  <1>2. PICK E, O, B : Places(arrived', out', buf', written', E, O, B)
    BY DEF Placed
  <1>3. /\ E \cup O \cup B = 1 .. Len(arrived')
        /\ E \cap O = {} /\ E \cap B = {} /\ O \cap B = {}
        /\ Carries(arrived', out', O) /\ Carries(arrived', buf', B)
        /\ DOMAIN written' = {"main", "errors"}
        /\ \A part \in {"main", "errors"} : Lists(written'[part], For(part, Those(arrived', E)))
    BY <1>2 DEF Places
  <1>4. Carries(arrived, out, O)' /\ Carries(arrived, buf, B)'
    BY <1>3 DEF Carries, Those
  <1>5. ASSUME NEW part \in {"main", "errors"}
        PROVE  Lists(written[part], For(part, Those(arrived, E)))'
    <2>1. Lists(written'[part], For(part, Those(arrived', E)))
      BY <1>3
    <2> QED
      BY <1>1, <2>1 DEF Lists, For, Those, IsList
  <1>6. Places(arrived, out, buf, written, E, O, B)'
    BY <1>3, <1>4, <1>5 DEF Places
  <1> QED
    BY <1>6 DEF Placed

-----------------------------------------------------------------------------
(* The inductive invariant of the rows.                                    *)

\* From the first pull on.
Flowing == {"stream", "ended", "errors", "committed"}

\* The filters hold none of them back.
Admitted(a) == \A k \in 1 .. Len(a) : ~Excluded(a[k])

\* While it flows: the readers and the merge are where they say, the messages
\* have arrived in the order of each recording, no filter holds one of them
\* back, and each is in its place.
StreamInv ==
  /\ ReadersOk(readers, front)
  /\ ArrivedOk(arrived, readers, front)
  /\ Admitted(arrived)
  /\ Placed(arrived, out, buf, written)
  /\ pending \/ done \/ result # "open" => buf = <<>>
  /\ result # "open" => out = <<>>
  /\ result = "none" => done
  /\ done => AllOver(readers, front)

\* The readers as the first of them is checked.
ReadersFresh ==
  /\ \A i \in DOMAIN readers :
       i \in Nat \ {0} /\ IsFresh(readers[i]) /\ OnDisk(readers[i])
  /\ ~Merging => DOMAIN readers = {1}

\* Nothing has been pulled.
Unstarted ==
  /\ written = [main |-> <<>>, errors |-> <<>>]
  /\ arrived = <<>> /\ buf = <<>> /\ out = <<>>
  /\ pending = FALSE /\ done = FALSE /\ result = "open"

\* What holds of the rows at each stage.
RowsInv ==
  /\ stage \in Early => Unstarted
  /\ stage = "open" => Len(inputs) \in Nat \ {0}
  /\ stage = "check" => ReadersFresh
  /\ stage \in Flowing => StreamInv
  /\ stage \in {"ended", "errors", "committed"} => result # "open"
  /\ RowsHonest /\ RowsFaithful

-----------------------------------------------------------------------------
(* What the places say of the rows.                                        *)

\* What holds of the rows at any time.
RowsSoFar ==
  /\ RowsOnce /\ RowsPlaced
  /\ \A part \in {"main", "errors"} : \A k \in DOMAIN written[part] :
       \E m \in ToSet(arrived) : PartFor(m) = part /\ written[part][k] = RowOf(m)

\* What holds of them once the stream has ended.
RowsAll ==
  /\ \A m \in ToSet(arrived) :
       \E k \in DOMAIN written[PartFor(m)] : written[PartFor(m)][k] = RowOf(m)
  /\ result = "none" => Waiting = {} /\ \A i \in DOMAIN readers : readers[i].ended

\* Before the stream there are no rows.
LEMMA NoRowsYet ==
  ASSUME Unstarted
  PROVE  RowsSoFar
  <1>1. written.main = <<>> /\ written.errors = <<>>
    BY DEF Unstarted
  <1>2. Rows = <<>>
    <2>1. <<>> \o <<>> = <<>>
      OBVIOUS
    <2> QED
      BY <1>1, <2>1 DEF Rows
  <1>3. DOMAIN <<>> = {}
    OBVIOUS
  <1>4. RowsOnce /\ RowsPlaced
    BY <1>1, <1>2, <1>3 DEF RowsOnce, RowsPlaced
  <1>5. ASSUME NEW part \in {"main", "errors"} PROVE DOMAIN written[part] = {}
    BY <1>1, <1>3
  <1> QED
    BY <1>4, <1>5 DEF RowsSoFar

\* The rows of a file are of messages that belong there and have arrived.
LEMMA RowsAreOf ==
  ASSUME NEW rs, NEW held, ArrivedOk(arrived, rs, held),
         NEW E, NEW O, NEW B, Places(arrived, out, buf, written, E, O, B),
         NEW part \in {"main", "errors"}, NEW k \in 1 .. Len(written[part])
  PROVE  \E i \in 1 .. Len(arrived) :
           PartFor(arrived[i]) = part /\ written[part][k] = RowOf(arrived[i])
  <1>1. /\ Lists(written[part], For(part, Those(arrived, E)))
        /\ E \subseteq 1 .. Len(arrived)
    BY DEF Places
  <1>2. PICK m \in For(part, Those(arrived, E)) : written[part][k] = RowOf(m)
    BY <1>1 DEF Lists
  <1>3. PICK i \in E : m = arrived[i]
    BY DEF For, Those
  <1> QED
    BY <1>1, <1>2, <1>3 DEF For

\* The rows of the messages that are in their places.
LEMMA RowsInPlace ==
  ASSUME NEW rs, NEW held, ArrivedOk(arrived, rs, held),
         Placed(arrived, out, buf, written)
  PROVE  RowsSoFar
  <1>1. PICK E, O, B : Places(arrived, out, buf, written, E, O, B)
    BY DEF Placed
  <1> DEFINE main == written.main
             errors == written.errors
             M == Len(main)
             X == Len(errors)
             Apart(r, s) == r.input # s.input \/ r.offset # s.offset
  <1>2. /\ Lists(main, For("main", Those(arrived, E)))
        /\ Lists(errors, For("errors", Those(arrived, E)))
    BY <1>1 DEF Places
  <1>3. /\ IsList(main) /\ IsList(errors) /\ M \in Nat /\ X \in Nat
        /\ DOMAIN main = 1 .. M /\ DOMAIN errors = 1 .. X
        /\ \A j, k \in 1 .. M : j # k => Apart(main[j], main[k])
        /\ \A j, k \in 1 .. X : j # k => Apart(errors[j], errors[k])
    BY <1>2, ListGrows DEF Lists
  <1>4. \A m : RowOf(m).input = m.input /\ RowOf(m).offset = m.offset
    BY DEF RowOf
  <1>5. /\ \A k \in 1 .. M : \E i \in 1 .. Len(arrived) :
             PartFor(arrived[i]) = "main" /\ main[k] = RowOf(arrived[i])
        /\ \A k \in 1 .. X : \E i \in 1 .. Len(arrived) :
             PartFor(arrived[i]) = "errors" /\ errors[k] = RowOf(arrived[i])
    BY <1>1, RowsAreOf
  <1>6. \A j \in 1 .. M, k \in 1 .. X : Apart(main[j], errors[k])
    <2> SUFFICES ASSUME NEW j \in 1 .. M, NEW k \in 1 .. X PROVE Apart(main[j], errors[k])
      OBVIOUS
    <2>1. PICK i \in 1 .. Len(arrived) :
            PartFor(arrived[i]) = "main" /\ main[j] = RowOf(arrived[i])
      BY <1>5
    <2>2. PICK h \in 1 .. Len(arrived) :
            PartFor(arrived[h]) = "errors" /\ errors[k] = RowOf(arrived[h])
      BY <1>5
    <2>3. i # h
      BY <2>1, <2>2
    <2>4. Apart(arrived[i], arrived[h])
      BY <2>3, ArrivedDiffer
    <2> QED
      BY <1>4, <2>1, <2>2, <2>4
  <1>7. RowsOnce
    <2> DEFINE S == {main[k] : k \in 1 .. M} \cup {errors[k] : k \in 1 .. X}
    <2>1. main \in Seq(S) /\ errors \in Seq(S)
      BY <1>3 DEF IsList
    <2> HIDE DEF main, errors, S
    <2>2. /\ main \o errors \in Seq(S) /\ Len(main \o errors) = M + X
          /\ \A n \in 1 .. M : (main \o errors)[n] = main[n]
          /\ \A n \in 1 .. X : (main \o errors)[M + n] = errors[n]
      BY <2>1, ConcatFacts
    <2>3. Rows = main \o errors
      BY DEF Rows, main, errors
    <2>4. DOMAIN Rows = 1 .. M + X
      BY <2>2, <2>3
    <2> DEFINE InMain(j) == j \in 1 .. M /\ Rows[j] = main[j]
               InErrors(j) == j \notin 1 .. M /\ j - M \in 1 .. X /\ Rows[j] = errors[j - M]
    <2>5. ASSUME NEW j \in 1 .. M + X PROVE InMain(j) \/ InErrors(j)
      <3>1. CASE j \in 1 .. M
        BY <2>2, <2>3, <3>1
      <3>2. CASE j \notin 1 .. M
        <4>1. j - M \in 1 .. X /\ M + (j - M) = j
          BY <1>3, <3>2
        <4>2. (main \o errors)[M + (j - M)] = errors[j - M]
          BY <2>2, <4>1
        <4> QED
          BY <2>3, <3>2, <4>1, <4>2
      <3> QED
        BY <3>1, <3>2
    <2>6. ASSUME NEW j \in 1 .. M + X, NEW k \in 1 .. M + X, j # k
          PROVE  Apart(Rows[j], Rows[k])
      <3>1. CASE InMain(j) /\ InMain(k)
        BY <1>3, <2>6, <3>1
      <3>2. CASE InMain(j) /\ InErrors(k)
        BY <1>6, <3>2
      <3>3. CASE InErrors(j) /\ InMain(k)
        <4>1. Apart(main[k], errors[j - M])
          BY <1>6, <3>3
        <4> QED
          BY <3>3, <4>1
      <3>4. CASE InErrors(j) /\ InErrors(k)
        <4>1. j - M # k - M
          BY <1>3, <2>6
        <4>2. Apart(errors[j - M], errors[k - M])
          BY <1>3, <3>4, <4>1
        <4> QED
          BY <3>4, <4>2
      <3> QED
        BY <2>5, <3>1, <3>2, <3>3, <3>4
    <2> QED
      BY <2>4, <2>6 DEF RowsOnce
  <1>8. RowsPlaced
    <2>1. \A m : RowOf(m).label = ErrorLabel(m)
      BY DEF RowOf
    <2>2. ASSUME NEW k \in 1 .. X PROVE SplitErrors /\ errors[k].label # ""
      <3>1. PICK i \in 1 .. Len(arrived) :
              PartFor(arrived[i]) = "errors" /\ errors[k] = RowOf(arrived[i])
        BY <1>5
      <3>2. SplitErrors /\ ErrorLabel(arrived[i]) # ""
        BY <3>1 DEF PartFor
      <3> QED
        BY <2>1, <3>1, <3>2
    <2>3. ASSUME NEW k \in 1 .. M, SplitErrors PROVE main[k].label = ""
      <3>1. PICK i \in 1 .. Len(arrived) :
              PartFor(arrived[i]) = "main" /\ main[k] = RowOf(arrived[i])
        BY <1>5
      <3>2. ErrorLabel(arrived[i]) = ""
        BY <2>3, <3>1 DEF PartFor
      <3> QED
        BY <2>1, <3>1, <3>2
    <2>4. ~SplitErrors => errors = <<>>
      <3> SUFFICES ASSUME ~SplitErrors PROVE errors = <<>>
        OBVIOUS
      <3>1. X = 0
        <4> SUFFICES ASSUME X # 0 PROVE FALSE
          OBVIOUS
        <4>1. 1 \in 1 .. X
          BY <1>3
        <4> QED
          BY <2>2, <4>1
      <3> DEFINE S == {errors[k] : k \in 1 .. X}
      <3>2. errors \in Seq(S)
        BY <1>3 DEF IsList
      <3> HIDE DEF errors, S
      <3> QED
        BY <3>1, <3>2, EmptySeq
    <2> QED
      BY <1>3, <2>2, <2>3, <2>4 DEF RowsPlaced
  <1>9. ASSUME NEW part \in {"main", "errors"}, NEW k \in DOMAIN written[part]
        PROVE  \E m \in ToSet(arrived) : PartFor(m) = part /\ written[part][k] = RowOf(m)
    <2>1. k \in 1 .. Len(written[part])
      BY <1>3
    <2>2. PICK i \in 1 .. Len(arrived) :
            PartFor(arrived[i]) = part /\ written[part][k] = RowOf(arrived[i])
      BY <1>1, <2>1, RowsAreOf
    <2>3. arrived[i] \in ToSet(arrived)
      BY DEF ToSet, ArrivedOk, Numbered
    <2> QED
      BY <2>2, <2>3
  <1> QED
    BY <1>7, <1>8, <1>9 DEF RowsSoFar

\* Once the stream has ended, every message that has arrived is written.
LEMMA AllInPlace ==
  ASSUME StreamInv, result # "open"
  PROVE  RowsAll
  <1>1. /\ ArrivedOk(arrived, readers, front) /\ Placed(arrived, <<>>, <<>>, written)
        /\ result = "none" => AllOver(readers, front)
    BY DEF StreamInv
  <1>2. PICK E, O, B : Places(arrived, <<>>, <<>>, written, E, O, B)
    BY <1>1 DEF Placed
  <1>3. O = {} /\ B = {}
    <2>1. Len(<<>>) = 0 /\ 1 .. 0 = {}
      OBVIOUS
    <2> QED
      BY <1>2, <2>1 DEF Places, Carries
  <1>4. E = 1 .. Len(arrived) /\ DOMAIN arrived = 1 .. Len(arrived)
    BY <1>1, <1>2, <1>3 DEF Places, ArrivedOk, Numbered
  <1>5. ASSUME NEW m \in ToSet(arrived)
        PROVE  \E k \in DOMAIN written[PartFor(m)] : written[PartFor(m)][k] = RowOf(m)
    <2> DEFINE part == PartFor(m)
    <2>1. m \in Those(arrived, E)
      BY <1>4 DEF Those, ToSet
    <2>2. part \in {"main", "errors"}
      BY DEF PartFor
    <2>3. m \in For(part, Those(arrived, E))
      BY <2>1 DEF For
    <2> HIDE DEF part
    <2>4. Lists(written[part], For(part, Those(arrived, E)))
      BY <1>2, <2>2 DEF Places
    <2>5. DOMAIN written[part] = 1 .. Len(written[part])
      BY <2>4, ListGrows DEF Lists
    <2> QED
      BY <2>3, <2>4, <2>5 DEF Lists, part
  <1> QED
    BY <1>1, <1>5 DEF RowsAll, AllOver, Waiting

-----------------------------------------------------------------------------
(* What the rows say of what was sent.                                     *)

\* A message of a place where an IRIG record was sent says what was sent.
LEMMA SaysAsSent ==
  ASSUME NEW words, IsWords(words), NEW m, Says(m, words, "irig"),
         NEW sent, Holds(words, m.offset, sent)
  PROVE  /\ m.word.type = Types[sent.type] /\ sent.type \in DOMAIN Types
         /\ m.word.bus = sent.bus /\ (m.word.error <=> sent.error # None)
         /\ m.time.parts = sent.time
         /\ (m.command = None <=> sent.command = None)
         /\ sent.command # None => CommandWord(m.command) = sent.command
         /\ sent.command # None /\ sent.error # None => m.code = sent.error
  <1> DEFINE n == m.offset
             word == words[n + 1]
             len == TypeWord(word).count
             record == SubSeq(words, n + 1, n + len)
             blank == Blank(record, "irig")
  <1>1. /\ n \in Nat /\ len \in Nat /\ len >= 5 /\ n + len <= Len(words)
        /\ KindOf(word) \in {"msg", "err", "spur"}
    BY DEF Says, MinRecordWords
  <1>2. PICK prevError \in BOOLEAN :
          \A field \in MessageFields :
            field \in DOMAIN m /\ m[field] = MessageOf(record, "irig", prevError)[field]
    BY DEF Says
  <1> DEFINE said == MessageOf(record, "irig", prevError)
  <1>3. /\ m.word = said.word /\ m.time = said.time
        /\ m.command = said.command /\ m.code = said.code
    BY <1>2 DEF MessageFields
  <1>4. /\ Len(record) = len
        /\ record[1] = word /\ record[2] = words[n + 2] /\ record[3] = words[n + 3]
        /\ record[4] = words[n + 4] /\ record[5] = words[n + 5] /\ record[5] \in Nat
        /\ record[len] = words[n + len]
    <2>1. /\ Len(record) = len
          /\ \A k \in 1 .. len : record[k] = words[n + k] /\ record[k] \in Nat
      BY <1>1, RecordIs
    <2> HIDE DEF record, len, n
    <2>2. 1 \in 1 .. len /\ 2 \in 1 .. len /\ 3 \in 1 .. len /\ 4 \in 1 .. len /\ 5 \in 1 .. len
          /\ len \in 1 .. len
      BY <1>1
    <2> QED
      BY <2>1, <2>2
  <1>5. /\ TypeWord(word).type = Types[sent.type] /\ sent.type \in DOMAIN Types
        /\ TypeWord(word).bus = sent.bus /\ (TypeWord(word).error <=> sent.error # None)
        /\ IrigTime(words[n + 2], words[n + 3], words[n + 4]).parts = sent.time
        /\ (sent.command = None <=> sent.type = "SpuriousData")
        /\ sent.command # None => CommandWord(words[n + 5]) = sent.command
        /\ sent.error # None => words[n + len] = sent.error
    BY DEF Holds
  <1>6. CommandIndex("irig") = 5
    BY DEF CommandIndex, TimeWords
  <1>7. sent.type = "SpuriousData" <=> TypeWord(word).type = Types.SpuriousData
    BY <1>5 DEF Types
  <1>8. /\ KindOf(word) = "spur" <=> sent.type = "SpuriousData"
        /\ sent.type # "SpuriousData" =>
             KindOf(word) = IF TypeWord(word).error THEN "err" ELSE "msg"
    BY <1>1, <1>7 DEF KindOf
  <1> HIDE DEF record, said
  <1>9. /\ DOMAIN blank = MessageFields
        /\ blank.word = TypeWord(word) /\ blank.command = None
        /\ blank.time = IrigTime(words[n + 2], words[n + 3], words[n + 4])
    BY <1>4 DEF Blank, TimeOf, MessageFields
  <1> HIDE DEF blank, word, len, n
  <1>10. CASE KindOf(word) = "spur"
    <2>1. said = SpuriousMessage(record, "irig", prevError)
      BY <1>4, <1>10 DEF MessageOf, said
    <2>2. said.word = blank.word /\ said.time = blank.time /\ said.command = None
      BY <1>9, <2>1 DEF SpuriousMessage, blank, MessageFields
    <2> QED
      BY <1>3, <1>5, <1>8, <1>9, <1>10, <2>2
  <1>11. CASE KindOf(word) = "err"
    <2>1. said = ErrorMessage(record, "irig")
      BY <1>4, <1>11 DEF MessageOf, said
    <2>2. /\ said.word = blank.word /\ said.time = blank.time
          /\ said.command = record[5] /\ said.code = record[Len(record)]
      BY <1>6, <1>9, <2>1 DEF ErrorMessage, blank, MessageFields
    <2> QED
      BY <1>3, <1>4, <1>5, <1>8, <1>9, <1>11, <2>2, NoneAssumption
  <1>12. CASE KindOf(word) = "msg"
    <2>1. said = NormalMessage(record, "irig")
      BY <1>4, <1>12 DEF MessageOf, said
    <2>2. said.word = blank.word /\ said.time = blank.time /\ said.command = record[5]
      BY <1>6, <1>9, <2>1 DEF NormalMessage, blank, MessageFields
    <2>3. sent.error = None
      BY <1>5, <1>8, <1>12
    <2> QED
      BY <1>3, <1>4, <1>5, <1>8, <1>9, <1>12, <2>2, <2>3, NoneAssumption
  <1> QED
    BY <1>1, <1>10, <1>11, <1>12

\* So the filters are asked of what was sent, and the row tells of it.
LEMMA RowTellsSent ==
  ASSUME NEW words, IsWords(words), NEW m, Says(m, words, "irig"), ~Excluded(m),
         NEW sent, Holds(words, m.offset, sent)
  PROVE  Passes(sent) /\ RowTells(RowOf(m), sent)
  <1>1. /\ m.word.type = Types[sent.type] /\ sent.type \in DOMAIN Types
        /\ m.word.bus = sent.bus /\ (m.word.error <=> sent.error # None)
        /\ m.time.parts = sent.time
        /\ (m.command = None <=> sent.command = None)
        /\ sent.command # None => CommandWord(m.command) = sent.command
        /\ sent.command # None /\ sent.error # None => m.code = sent.error
    BY SaysAsSent
  <1>2. Passes(sent)
    <2> DEFINE out_ == Listed(m, settings.exclude_types, settings.exclude_buses,
                              settings.exclude_rts, settings.exclude_subaddresses)
               in_ == Listed(m, settings.include_types, settings.include_buses,
                             settings.include_rts, settings.include_subaddresses)
    <2>1. /\ ~out_.type /\ ~out_.bus /\ ~out_.rt /\ ~out_.subaddress
          /\ settings.include_types = {} \/ in_.type
          /\ settings.include_buses = {} \/ in_.bus
          /\ settings.include_rts = {} \/ in_.rt
          /\ settings.include_subaddresses = {} \/ in_.subaddress
      <3>1. /\ ~\E field \in DOMAIN out_ : out_[field]
            /\ settings.include_types = {} \/ in_.type
            /\ settings.include_buses = {} \/ in_.bus
            /\ settings.include_rts = {} \/ in_.rt
            /\ settings.include_subaddresses = {} \/ in_.subaddress
        BY DEF Excluded
      <3>2. DOMAIN out_ = {"type", "bus", "rt", "subaddress"}
        BY DEF Listed
      <3> HIDE DEF out_, in_
      <3> QED
        BY <3>1, <3>2
    <2>2. /\ m.word.type \notin settings.exclude_types
          /\ m.word.bus \notin settings.exclude_buses
          /\ Addressed(m) => /\ CommandWord(m.command).rt \notin settings.exclude_rts
                             /\ CommandWord(m.command).subaddress
                                  \notin settings.exclude_subaddresses
      BY <2>1 DEF Listed
    <2>3. /\ settings.include_types = {} \/ m.word.type \in settings.include_types
          /\ settings.include_buses = {} \/ m.word.bus \in settings.include_buses
          /\ \/ settings.include_rts = {}
             \/ Addressed(m) /\ CommandWord(m.command).rt \in settings.include_rts
          /\ \/ settings.include_subaddresses = {}
             \/ /\ Addressed(m)
                /\ CommandWord(m.command).subaddress \in settings.include_subaddresses
      BY <2>1 DEF Listed
    <2> HIDE DEF out_, in_
    <2>4. CASE sent.command = None
      BY <1>1, <2>2, <2>3, <2>4 DEF Passes, RtOf, SubaddressOf, Addressed
    <2>5. CASE sent.command # None
      <3>1. RtOf(sent) = {sent.command.rt} /\ SubaddressOf(sent) = {sent.command.subaddress}
        BY <2>5 DEF RtOf, SubaddressOf
      <3>2. Addressed(m) /\ CommandWord(m.command) = sent.command
        BY <1>1, <2>5 DEF Addressed
      <3> QED
        BY <1>1, <2>2, <2>3, <3>1, <3>2 DEF Passes
    <2> QED
      BY <2>4, <2>5
  <1>3. RowTells(RowOf(m), sent)
    <2> DEFINE row == RowOf(m)
    <2>1. /\ row.bus = m.word.bus /\ row.label = ErrorLabel(m) /\ row.command = m.command
          /\ row.code = m.code /\ row.time = Rendered(m.time, Render)
      BY DEF RowOf
    <2> HIDE DEF row
    <2>2. ErrorLabel(m) = LabelOf(sent)
      <3>1. sent.type = "SpuriousData" <=> m.word.type = Types.SpuriousData
        BY <1>1 DEF Types
      <3>2. CASE sent.error # None
        <4>1. m.word.error
          BY <1>1, <3>2
        <4> QED
          BY <3>2, <4>1 DEF ErrorLabel, LabelOf
      <3>3. CASE sent.error = None
        <4>1. ~m.word.error
          BY <1>1, <3>3
        <4> QED
          BY <3>1, <3>3, <4>1, Zenon DEF ErrorLabel, LabelOf
      <3> QED
        BY <3>2, <3>3
    <2>3. settings.output_time_format = "doy" => Rendered(m.time, Render) = m.time.parts
      BY DEF Rendered, Render
    <2> QED
      BY <1>1, <2>1, <2>2, <2>3 DEF RowTells, row
  <1> QED
    BY <1>2, <1>3

\* Before the stream there is nothing to say.
LEMMA NothingTold ==
  ASSUME Unstarted
  PROVE  RowsTrue
  <1>1. arrived = <<>> /\ \A part \in {"main", "errors"} : written[part] = <<>>
    BY DEF Unstarted
  <1>2. DOMAIN <<>> = {}
    OBVIOUS
  <1>3. ToSet(arrived) = {} /\ \A part \in {"main", "errors"} : DOMAIN written[part] = {}
    BY <1>1, <1>2 DEF ToSet
  <1> QED
    BY <1>3 DEF RowsTrue

\* Such a message has the fields that its record decodes to.
LEMMA SaysDecoded ==
  ASSUME NEW m,
         Says(m, disk[Canonical(readers[m.input].path)].words, readers[m.input].format)
  PROVE  Decodes(m)
  <1> DEFINE reader == readers[m.input]
             words == disk[Canonical(reader.path)].words
             next == m.offset + TypeWord(words[m.offset + 1]).count
             record == SubSeq(words, m.offset + 1, next)
  <1>1. PICK prevError \in BOOLEAN :
          LET said == MessageOf(record, reader.format, prevError)
          IN  /\ DOMAIN said = MessageFields
              /\ \A field \in MessageFields : field \in DOMAIN m /\ m[field] = said[field]
    BY DEF Says
  <1> DEFINE said == MessageOf(record, reader.format, prevError)
  <1>2. \A field \in DOMAIN said : m[field] = said[field]
    BY <1>1
  <1> QED
    BY <1>2, Zenon DEF Decodes

\* What the stream has let through and written is what was sent.
LEMMA RowsTold ==
  ASSUME StreamInv, RecordingsInv
  PROVE  RowsTrue
  <1>1. ASSUME NEW m \in ToSet(arrived)
        PROVE  /\ ~Excluded(m) /\ OnDisk(readers[m.input])
               /\ Says(m, readers[m.input].words, readers[m.input].format)
    <2>1. PICK k \in 1 .. Len(arrived) : m = arrived[k]
      BY DEF ToSet, StreamInv, ArrivedOk, Numbered
    <2> QED
      BY <2>1 DEF StreamInv, ArrivedOk, ReadersOk, Admitted
  <1>2. ASSUME NEW m \in ToSet(arrived) PROVE Decodes(m)
    <2>1. Says(m, disk[Canonical(readers[m.input].path)].words, readers[m.input].format)
      BY <1>1 DEF OnDisk
    <2> QED
      BY <2>1, SaysDecoded
  <1>3. ASSUME NEW part \in {"main", "errors"}, NEW k \in DOMAIN written[part],
               NEW reader, reader = readers[written[part][k].input],
               NEW n \in DOMAIN Parts(reader.path),
               Parts(reader.path)[n].is = "record",
               Parts(reader.path)[n].at = written[part][k].offset,
               Parts(reader.path)[n].sent.clock = "irig", reader.format = "irig"
        PROVE  /\ Passes(Parts(reader.path)[n].sent)
               /\ RowTells(written[part][k], Parts(reader.path)[n].sent)
    <2>1. PICK m \in ToSet(arrived) : written[part][k] = RowOf(m)
      BY RowsInPlace DEF StreamInv, RowsSoFar
    <2>2. RowOf(m).input = m.input /\ RowOf(m).offset = m.offset
      BY DEF RowOf
    <2>3. reader = readers[m.input]
      BY <1>3, <2>1, <2>2
    <2>4. /\ ~Excluded(m) /\ OnDisk(reader) /\ Says(m, reader.words, "irig")
      BY <1>1, <1>3, <2>3
    <2>5. /\ IsWords(reader.words)
          /\ Holds(reader.words, m.offset, Parts(reader.path)[n].sent)
      BY <1>3, <2>1, <2>2, <2>4 DEF OnDisk, Parts, RecordingsInv
    <2> QED
      BY <2>1, <2>4, <2>5, RowTellsSent
  <1> QED
    BY <1>1, <1>2, <1>3 DEF RowsTrue

\* What filters hold back is settled with the command line.
LEMMA ExcludedStill ==
  ASSUME UNCHANGED settings
  PROVE  \A m : Excluded(m)' <=> Excluded(m)
  BY DEF Excluded, Listed, Addressed

\* Whatever has passed them stays so.
LEMMA AdmittedStill ==
  ASSUME UNCHANGED settings, Admitted(arrived')
  PROVE  Admitted(arrived)'
  <1>1. \A m : Excluded(m)' <=> Excluded(m)
    BY ExcludedStill
  <1> QED
    BY <1>1 DEF Admitted

\* What is noted of its order does not change what filters make of a message.
LEMMA OrderedAlike ==
  ASSUME NEW m, {"word", "command"} \subseteq DOMAIN m, ~Excluded(m)
  PROVE  ~Excluded(Ordered(m))
  <1> DEFINE l == Ordered(m)
  <1>1. l.word = m.word /\ l.command = m.command
    BY DEF Ordered, With
  <1> HIDE DEF l
  <1>2. ~Excluded(l)
    BY <1>1 DEF Excluded, Listed, Addressed
  <1> QED
    BY <1>2 DEF l

\* What the rows say stays true of them.
LEMMA RowsTrueStill ==
  ASSUME UNCHANGED <<disk, settings, readers, arrived, written>>, RowsTrue
  PROVE  RowsTrue'
  <1>1. \A m : Decodes(m)' <=> Decodes(m)
    BY DEF Decodes, Canonical, Located
  <1>2. \A path : Parts(path)' = Parts(path)
    BY DEF Parts, Canonical, Located
  <1>3. \A sent : Passes(sent)' <=> Passes(sent)
    BY DEF Passes
  <1>4. \A row, sent : RowTells(row, sent)' <=> RowTells(row, sent)
    BY DEF RowTells
  <1>5. \A m : Excluded(m)' <=> Excluded(m)
    BY ExcludedStill
  <1>6. \A m \in ToSet(arrived') : Decodes(m)' /\ ~Excluded(m)'
    BY <1>1, <1>5 DEF RowsTrue
  <1>8. \A part \in {"main", "errors"} : \A k \in DOMAIN written[part] :
          \A n \in DOMAIN Parts(readers[written[part][k].input].path) :
            LET row == written[part][k]
                reader == readers[row.input]
                parts == Parts(reader.path)
            IN  /\ parts[n].is = "record" /\ parts[n].at = row.offset
                /\ parts[n].sent.clock = "irig" /\ reader.format = "irig"
                => Passes(parts[n].sent) /\ RowTells(row, parts[n].sent)
    BY DEF RowsTrue
  <1>7. ASSUME NEW part \in {"main", "errors"}, NEW k \in DOMAIN written'[part],
               NEW row, row = written'[part][k], NEW reader, reader = readers'[row.input],
               NEW parts, parts = Parts(reader.path)', NEW n \in DOMAIN parts,
               parts[n].is = "record", parts[n].at = row.offset,
               parts[n].sent.clock = "irig", reader.format = "irig"
        PROVE  Passes(parts[n].sent)' /\ RowTells(row, parts[n].sent)'
    <2>1. row = written[part][k] /\ reader = readers[row.input] /\ parts = Parts(reader.path)
      BY <1>2, <1>7
    <2>2. k \in DOMAIN written[part] /\ n \in DOMAIN Parts(readers[written[part][k].input].path)
      BY <1>7, <2>1
    <2>3. \A i \in DOMAIN parts :
            /\ parts[i].is = "record" /\ parts[i].at = row.offset
            /\ parts[i].sent.clock = "irig" /\ reader.format = "irig"
            => Passes(parts[i].sent) /\ RowTells(row, parts[i].sent)
      BY <1>8, <2>1, <2>2
    <2>4. Passes(parts[n].sent) /\ RowTells(row, parts[n].sent)
      BY <1>7, <2>3
    <2> QED
      BY <1>3, <1>4, <2>4
  <1> QED
    BY <1>6, <1>7 DEF RowsTrue

-----------------------------------------------------------------------------
(* Every step keeps the rows' invariant.                                   *)

\* The steps that have nothing to do with rows.
Prelude ==
  /\ stage \in Early /\ stage' \in Early \ {"open", "check"}
  /\ UNCHANGED <<arrived, buf, out, pending, done, result, written, outcome>>

\* Where every step that does not end the run belongs.
LEMMA RowsSteps ==
  ASSUME FilesInv, reading \in {"globals"} \cup Subcommands, Next, stage' # "exited"
  PROVE  \/ Prelude \/ FindInputs \/ OpenInputs
         \/ stage = "check" /\ StartStream(Primed)
         \/ PullStream \/ WriteRow \/ StreamEnds \/ CommitMain \/ CommitErrors
  <1>1. CASE ReadArguments \/ ApplyLogLevel \/ ReadConfig
    BY <1>1
    DEF ReadArguments, ApplyLogLevel, ReadConfig, pipelineVars, orderVars, Prelude, Early
  <1>2. CASE ResolveConfig
    BY <1>2 DEF ResolveConfig, pipelineVars, orderVars, Prelude, Early, Subcommands
  <1>3. CASE ChooseCounted \/ OpenCounted
    BY <1>3 DEF ChooseCounted, OpenCounted, orderVars, Prelude, Early
  <1>4. CASE Count
    <2>1. /\ stage = "counting"
          /\ \E pulled : CountMessage(pulled) \/ CountFails(pulled) \/ PrintCount(pulled)
      BY <1>4 DEF Count
    <2>2. PICK pulled : CountMessage(pulled) \/ CountFails(pulled) \/ PrintCount(pulled)
      BY <2>1
    <2>3. CASE CountMessage(pulled)
      BY <2>1, <2>3 DEF CountMessage, orderVars, Prelude, Early
    <2>4. CASE CountFails(pulled) \/ PrintCount(pulled)
      BY <2>4 DEF CountFails, PrintCount, Fails, ExitAfterPrinting, Exit, Ended
    <2> QED
      BY <2>2, <2>3, <2>4
  <1>5. CASE DumpRecords \/ DumpRecord
    BY <1>5
    DEF DumpRecords, DumpRecord, DumpSteps, pipelineVars, orderVars, Prelude, Early
  <1>6. CASE Begin
    <2>1. stage = "check" /\ \E primed \in {Primed} :
            PrimingFails(primed) \/ RefuseOutput(primed) \/ StartStream(primed)
      BY <1>6 DEF Begin
    <2>2. PrimingFails(Primed) \/ RefuseOutput(Primed) \/ StartStream(Primed)
      BY <2>1
    <2>3. ~PrimingFails(Primed) /\ ~RefuseOutput(Primed)
      BY DEF PrimingFails, RefuseOutput, Fails, Exit, Ended
    <2> QED
      BY <2>1, <2>2, <2>3
  <1>7. ~(\/ PrintAnswer \/ RefuseArguments \/ RefuseLogLevel \/ RefuseConfig \/ InputsUnreadable
          \/ InputsMiscounted \/ InputUnopened \/ RefuseCollision \/ RefuseRendering
          \/ RowUnrenderable \/ StdoutFails \/ StreamFailed \/ CommitFails \/ Conclude
          \/ CountUnopened \/ DumpUnreadable \/ DumpRaw \/ DumpDone \/ DumpStops \/ DumpCut)
    BY DEF PrintAnswer, RefuseArguments, RefuseLogLevel, RefuseConfig, InputsUnreadable,
           InputsMiscounted, InputUnopened, RefuseCollision, RefuseRendering,
           RowUnrenderable, StdoutFails, StreamFailed, CommitFails, Conclude, CountUnopened,
           DumpUnreadable, DumpRaw, DumpDone, DumpStops, DumpCut, DumpEnds,
           ExitAfterPrinting, Fails, Exit, Ended
  <1>8. ~Exited
    BY DEF Exited, vars
  <1> QED
    BY <1>1, <1>2, <1>3, <1>4, <1>5, <1>6, <1>7, <1>8 DEF Next, Decode, Dumping

\* The readers go on with the same inputs.
LEMMA ReadersOkNext ==
  ASSUME inputs' = inputs, disk' = disk, ReadersOk(readers', front')
  PROVE  ReadersOk(readers, front)'
  <1>1. \A r : OnDisk(r)' <=> OnDisk(r)
    BY DEF OnDisk, Canonical, Located
  <1> QED
    BY <1>1 DEF ReadersOk, Merging

\* A run that ends leaves the rows it has written.
LEMMA EndsRows ==
  ASSUME FilesInv, RowsInv, RecordingsInv, Ends
  PROVE  RowsInv'
  <1>1. /\ stage' = "exited"
        /\ UNCHANGED <<args, reading, settings, written, arrived, readers, front, result, sink>>
        /\ UNCHANGED disk
    BY DEF Ends, filesVars, pipelineVars, orderVars, mergeVars
  <1>2. SUFFICES ASSUME reading = "decode", settings # None
                 PROVE  (RowsOnce /\ RowsPlaced /\ RowsKept /\ RowsTrue)'
    BY <1>1 DEF RowsInv, RowsHonest, RowsFaithful, Early, Flowing
  <1>3. stage \in Early \/ stage \in Flowing
    BY DEF Ends, Flowing
  <1>4. RowsSoFar
    <2>1. CASE stage \in Early
      BY <2>1, NoRowsYet DEF RowsInv
    <2>2. CASE stage \in Flowing
      BY <2>2, RowsInPlace DEF RowsInv, StreamInv
    <2> QED
      BY <1>3, <2>1, <2>2
  <1>5. Output' = Output /\ (ToFile' <=> ToFile) /\ (SplitErrors' <=> SplitErrors)
    BY <1>1 DEF Output, ToFile, SplitErrors
  <1>6. ASSUME NEW m PROVE RowOf(m)' = RowOf(m) /\ PartFor(m)' = PartFor(m)
    <2>1. Render' = Render
      BY <1>1 DEF Render
    <2> QED
      BY <1>5, <2>1 DEF RowOf, PartFor
  <1>7. RowsOnce' /\ RowsPlaced'
    <2>1. Rows' = Rows /\ written' = written
      BY <1>1 DEF Rows
    <2>2. RowsOnce /\ RowsPlaced
      BY <1>4 DEF RowsSoFar
    <2>3. RowsOnce'
      BY <2>1, <2>2 DEF RowsOnce
    <2>4. RowsPlaced'
      BY <1>5, <2>1, <2>2 DEF RowsPlaced
    <2> QED
      BY <2>3, <2>4
  <1>8. ASSUME outcome'.exit = Success, ToFile \/ sink = "open"
        PROVE  RowsAll
    <2>1. stage \in {"ended", "committed"}
      BY <1>2, <1>8 DEF Ends
    <2> QED
      BY <2>1, AllInPlace DEF RowsInv, Flowing
  <1>9. RowsKept'
    BY <1>1, <1>4, <1>5, <1>6, <1>8 DEF RowsKept, RowsSoFar, RowsAll, Waiting
  <1>10. RowsTrue
    <2>1. CASE stage \in Early
      BY <2>1, NothingTold DEF RowsInv
    <2>2. CASE stage \in Flowing
      BY <2>2, RowsTold DEF RowsInv
    <2> QED
      BY <1>3, <2>1, <2>2
  <1>11. RowsTrue'
    BY <1>1, <1>10, RowsTrueStill
  <1> QED
    BY <1>7, <1>9, <1>11

\* Before the stream starts nothing has been written.
LEMMA StartsRows ==
  ASSUME FilesInv, RowsInv, RecordingsInv, Prelude \/ FindInputs \/ OpenInputs
  PROVE  RowsInv'
  <1>0. stage \in Early /\ Unstarted
    BY DEF Prelude, FindInputs, OpenInputs, Early, RowsInv
  <1>1. outcome' = None /\ Unstarted'
    BY <1>0
    DEF Prelude, FindInputs, OpenInputs, orderVars, FilesInv, Unstarted, Early
  <1>2. RowsHonest' /\ RowsFaithful'
    BY <1>1 DEF RowsHonest, RowsFaithful
  <1>3. CASE Prelude
    BY <1>1, <1>2, <1>3 DEF Prelude, RowsInv, Early, Flowing
  <1>4. CASE FindInputs
    <2>1. Len(inputs') \in Nat \ {0}
      <3> DEFINE found == ResolvedInputs(args, Positional)
      <3>1. inputs' = found /\ ~WrongNumber(found)
        BY <1>4 DEF FindInputs
      <3> HIDE DEF found
      <3>2. Len(found) \in 1 .. MaxMergeFiles
        BY <3>1 DEF WrongNumber
      <3> QED
        BY <3>1, <3>2, MaxMergeFilesAssumption
    <2> QED
      BY <1>1, <1>2, <1>4, <2>1 DEF FindInputs, RowsInv, Early, Flowing
  <1>5. CASE OpenInputs
    <2>1. /\ Len(inputs) \in Nat \ {0} /\ inputs' = inputs /\ stage' = "check"
          /\ Opened = inputs \/ DropsUnopened
          /\ readers' = [i \in DOMAIN Opened |-> NewReader(Opened[i])] /\ disk' = disk
      BY <1>5 DEF OpenInputs, RowsInv
    <2>2. /\ Len(Opened) \in Nat /\ DOMAIN Opened = 1 .. Len(Opened)
          /\ \A i \in 1 .. Len(Opened) : Openable(Opened[i])
      BY <2>1, OpenedOpens
    <2> DEFINE opened == Opened
    <2>3. /\ DOMAIN readers' = 1 .. Len(opened)
          /\ \A i \in 1 .. Len(opened) : readers'[i] = NewReader(opened[i])
      BY <2>1, <2>2
    <2>4. ~Merging => Len(opened) = 1
      BY <2>1 DEF DropsUnopened, Merging
    <2>5. \A i \in 1 .. Len(opened) :
            IsFresh(NewReader(opened[i])) /\ OnDisk(NewReader(opened[i]))
      BY <2>2, NewReaderIsFresh DEF OnDisk
    <2> HIDE DEF opened
    <2>6. \A i \in DOMAIN readers' :
            i \in Nat \ {0} /\ IsFresh(readers'[i]) /\ OnDisk(readers'[i])
      BY <2>2, <2>3, <2>5 DEF opened
    <2>7. ~Merging => DOMAIN readers' = {1}
      <3>1. 1 .. 1 = {1}
        OBVIOUS
      <3> QED
        BY <2>3, <2>4, <3>1
    <2>8. ReadersFresh'
      <3>1. \A r : OnDisk(r)' <=> OnDisk(r)
        BY <2>1 DEF OnDisk, Canonical, Located
      <3> QED
        BY <2>1, <2>6, <2>7, <3>1 DEF ReadersFresh, Merging
    <2> QED
      BY <1>1, <1>2, <2>1, <2>8 DEF RowsInv, Early, Flowing
  <1> QED
    BY <1>3, <1>4, <1>5

\* The stream starts with nothing in it.
LEMMA StartStreamRows ==
  ASSUME FilesInv, RowsInv, stage = "check", StartStream(Primed)
  PROVE  RowsInv'
  <1>1. /\ readers' = Primed.readers /\ front' = Primed.front
        /\ Primed.error = None /\ inputs' = inputs /\ disk' = disk /\ stage' = "stream"
        /\ UNCHANGED <<args, settings, arrived, buf, out, pending, done, result, written, outcome>>
    BY DEF StartStream, Become, cliVars
  <1>2. ReadersFresh /\ Unstarted /\ outcome = None
    BY DEF RowsInv, FilesInv, Early
  <1>3. ReadersOk(readers', front')
    BY <1>1, <1>2, PrimedIs DEF ReadersFresh
  <1>4. ReadersOk(readers, front)'
    BY <1>1, <1>3, ReadersOkNext
  <1>5. /\ written' = [main |-> <<>>, errors |-> <<>>]
        /\ arrived' = <<>> /\ buf' = <<>> /\ out' = <<>>
        /\ pending' = FALSE /\ done' = FALSE /\ result' = "open"
    BY <1>1, <1>2 DEF Unstarted
  <1>6. /\ IsList(<<>>) /\ Len(<<>>) = 0 /\ DOMAIN <<>> = {} /\ 1 .. 0 = {}
    BY DEF IsList
  <1>7. ArrivedOk(arrived', readers', front')
    BY <1>5, <1>6 DEF ArrivedOk, Numbered
  <1>8. Placed(arrived', out', buf', written')
    <2>1. Lists(<<>>, {})
      BY <1>6 DEF Lists
    <2>2. \A part : For(part, Those(<<>>, {})) = {}
      BY DEF For, Those
    <2>3. \A part \in {"main", "errors"} : written'[part] = <<>>
      BY <1>5
    <2>4. Places(<<>>, <<>>, <<>>, written', {}, {}, {})
      BY <1>5, <1>6, <2>1, <2>2, <2>3, CarriesNone DEF Places
    <2> QED
      BY <1>5, <2>4 DEF Placed
  <1>9. Placed(arrived, out, buf, written)'
    BY <1>1, <1>8, RowsKeepTheirPlaces
  <1>10. StreamInv'
    <2>1. Admitted(arrived)'
      BY <1>5, <1>6 DEF Admitted
    <2> QED
      BY <1>4, <1>5, <1>7, <1>9, <2>1 DEF StreamInv
  <1> QED
    BY <1>1, <1>2, <1>10 DEF RowsInv, RowsHonest, RowsFaithful, Early, Flowing

\* What is pulled finds its place, and the stream is past it.
LEMMA PullRows ==
  ASSUME FilesInv, RowsInv, PullStream
  PROVE  RowsInv'
  <1>1. /\ stage = "stream" /\ stage' = "stream" /\ outcome' = outcome
        /\ UNCHANGED <<args, settings, inputs, disk, written>>
        /\ Order!Pulling
    BY DEF PullStream, Pull, cliVars
  <1>2. /\ Become(Pulled.state)
        /\ \/ PullMessage(Pulled) \/ PullExcluded(Pulled)
           \/ PullFailure(Pulled) \/ PullNothing(Pulled)
    <2>1. \E pulled \in {Pulled} :
            /\ Become(pulled.state)
            /\ \/ PullMessage(pulled) \/ PullExcluded(pulled)
               \/ PullFailure(pulled) \/ PullNothing(pulled)
      BY DEF PullStream, Pull
    <2> QED
      BY <2>1
  <1>3. outcome' = None
    BY <1>1 DEF FilesInv
  <1>4. result = "open" /\ out = <<>> /\ ~pending /\ ~done
    BY <1>1 DEF Order!Pulling
  <1>5. /\ ReadersOk(readers, front) /\ ArrivedOk(arrived, readers, front)
        /\ Placed(arrived, out, buf, written) /\ Admitted(arrived)
    BY <1>1 DEF RowsInv, Flowing, StreamInv
  <1>6. readers' = Pulled.state.readers /\ front' = Pulled.state.front
    BY <1>2 DEF Become
  <1>7. /\ LeadsOn(readers, front, readers', front')
        /\ HasMessage(Pulled.item) =>
             ComesOut(Pulled.item.message, readers, front, readers', front')
        /\ Pulled.item = Over => AllOver(readers', front')
    BY <1>5, <1>6, PulledLeads
  <1>8. ReadersOk(readers, front)'
    BY <1>1, <1>7, ReadersOkNext DEF LeadsOn
  <1>9. ArrivedOk(arrived, readers', front')
    BY <1>5, <1>7, ArrivedStays
  <1>10. SUFFICES /\ ArrivedOk(arrived', readers', front')
                  /\ Placed(arrived', out', buf', written')
                  /\ Admitted(arrived')
                  /\ result' = "open"
                  /\ pending' \/ done' => buf' = <<>>
                  /\ done' => AllOver(readers', front')
    <2>1. Placed(arrived, out, buf, written)'
      BY <1>1, <1>10, RowsKeepTheirPlaces
    <2>2. Admitted(arrived)'
      BY <1>1, <1>10, AdmittedStill
    <2>3. StreamInv'
      BY <1>8, <1>10, <2>1, <2>2 DEF StreamInv
    <2> QED
      BY <1>1, <1>3, <2>3 DEF RowsInv, RowsHonest, RowsFaithful, Early, Flowing
  <1>11. CASE PullMessage(Pulled)
    <2> DEFINE m == Pulled.item.message
    <2>1. /\ HasMessage(Pulled.item) /\ ~Excluded(m)
          /\ arrived' = Append(arrived, Ordered(m)) /\ Order!Accept(Ordered(m))
          /\ UNCHANGED <<pending, done, result>>
      BY <1>11 DEF PullMessage, Order!PullOk
    <2>2. ComesOut(m, readers, front, readers', front')
      BY <1>7, <2>1
    <2> HIDE DEF m
    <2>3. ArrivedOk(Append(arrived, Ordered(m)), readers', front')
      BY <1>5, <1>7, <2>2, ArrivedGrows
    <2>4. Placed(Append(arrived, Ordered(m)), out', buf', written)
      BY <1>4, <1>5, <2>1, <2>3, AcceptPlaces
    <2>5. Admitted(Append(arrived, Ordered(m)))
      <3>1. ~Excluded(Ordered(m))
        BY <2>1, <2>2, OrderedAlike DEF ComesOut, Says, MessageFields
      <3> QED
        BY <1>5, <3>1, ListGrows DEF ArrivedOk, Admitted
    <2> QED
      BY <1>1, <1>4, <2>1, <2>3, <2>4, <2>5
  <1>12. CASE PullExcluded(Pulled)
    <2>1. UNCHANGED <<arrived, buf, out, pending, done, result>>
      BY <1>12 DEF PullExcluded, orderVars
    <2> QED
      BY <1>1, <1>4, <1>5, <1>9, <2>1
  <1>13. CASE PullFailure(Pulled)
    <2>1. /\ out' = Order!Flushed(out, buf) /\ buf' = <<>>
          /\ UNCHANGED <<arrived, done, result>>
      BY <1>13 DEF PullFailure, Order!PullErr
    <2>2. Placed(arrived, Order!Flushed(out, buf), <<>>, written)
      BY <1>4, <1>5, FlushPlaces
    <2> QED
      BY <1>1, <1>4, <1>5, <1>9, <2>1, <2>2
  <1>14. CASE PullNothing(Pulled)
    <2>1. /\ out' = Order!Flushed(out, buf) /\ buf' = <<>> /\ Pulled.item = Over
          /\ UNCHANGED <<arrived, pending, result>>
      BY <1>14 DEF PullNothing, Order!PullEnd
    <2>2. Placed(arrived, Order!Flushed(out, buf), <<>>, written)
      BY <1>4, <1>5, FlushPlaces
    <2> QED
      BY <1>1, <1>4, <1>5, <1>7, <1>9, <2>1, <2>2
  <1> QED
    BY <1>2, <1>11, <1>12, <1>13, <1>14

\* A row is written when its message leaves the queue.
LEMMA WriteRows ==
  ASSUME FilesInv, RowsInv, WriteRow
  PROVE  RowsInv'
  <1>1. /\ stage = "stream" /\ stage' = "stream" /\ outcome' = None /\ out # <<>>
        /\ UNCHANGED <<args, settings, inputs, disk, readers, front>>
        /\ written' = [written EXCEPT ![PartFor(Last(out))] = Append(@, RowOf(Last(out)))]
    BY DEF WriteRow, cliVars, mergeVars, FilesInv
  <1>2. /\ result = "open" /\ out' = Front(out)
        /\ UNCHANGED <<arrived, buf, pending, done, result>>
    BY DEF WriteRow, Order!Drain, Order!Front, Front
  <1>3. /\ StreamInv
        /\ ReadersOk(readers, front) /\ ArrivedOk(arrived, readers, front)
        /\ Placed(arrived, out, buf, written) /\ Admitted(arrived)
    BY <1>1 DEF RowsInv, Flowing, StreamInv
  <1>4. Placed(arrived, Front(out), buf, written')
    BY <1>1, <1>3, WritePlaces
  <1>5. Placed(arrived, out, buf, written)'
    BY <1>1, <1>2, <1>4, RowsKeepTheirPlaces
  <1>6. ReadersOk(readers, front)' /\ ArrivedOk(arrived, readers, front)'
    BY <1>1, <1>2, <1>3, ReadersOkNext
  <1>7. StreamInv'
    <2>1. Admitted(arrived)'
      BY <1>1, <1>2, <1>3, AdmittedStill
    <2> QED
      BY <1>1, <1>2, <1>3, <1>5, <1>6, <2>1 DEF StreamInv, AllOver
  <1> QED
    BY <1>1, <1>7 DEF RowsInv, RowsHonest, RowsFaithful, Early, Flowing

\* The stream ends with its queues empty, and its rows are then placed.
LEMMA StreamEndsRows ==
  ASSUME FilesInv, RowsInv, StreamEnds \/ CommitMain \/ CommitErrors
  PROVE  RowsInv'
  <1>1. /\ UNCHANGED <<args, settings, inputs, disk, readers, front, written, outcome>>
        /\ stage \in Flowing /\ stage' \in Flowing \ {"stream"}
        /\ UNCHANGED <<arrived, buf, done, out>>
        /\ stage # "exited"
    BY DEF StreamEnds, CommitMain, CommitErrors, Committing, Commit, cliVars, mergeVars,
           pipelineVars, orderVars, Order!Surface, Order!Finish, Flowing
  <1>2. outcome' = None
    BY <1>1 DEF FilesInv
  <1>3. /\ StreamInv
        /\ ReadersOk(readers, front) /\ ArrivedOk(arrived, readers, front)
        /\ Placed(arrived, out, buf, written) /\ Admitted(arrived)
    BY <1>1 DEF RowsInv, Flowing, StreamInv
  <1>4. /\ result' # "open" /\ buf' = <<>> /\ out' = <<>>
        /\ result' = "none" => done'
    <2>1. CASE StreamEnds
      BY <1>1, <1>3, <2>1 DEF StreamEnds, Order!Surface, Order!Finish, StreamInv
    <2>2. CASE CommitMain \/ CommitErrors
      <3>1. stage \in {"ended", "errors"} /\ result' = result
        BY <2>2
        DEF CommitMain, CommitErrors, Committing, Commit, pipelineVars, orderVars
      <3>2. result # "open"
        BY <3>1 DEF RowsInv
      <3> QED
        BY <1>1, <1>3, <3>1, <3>2 DEF StreamInv
    <2> QED
      BY <2>1, <2>2
  <1>5. Placed(arrived, out, buf, written)'
    BY <1>1, <1>3, RowsKeepTheirPlaces
  <1>6. ReadersOk(readers, front)' /\ ArrivedOk(arrived, readers, front)'
    BY <1>1, <1>3, ReadersOkNext
  <1>7. StreamInv'
    <2>1. Admitted(arrived)'
      BY <1>1, <1>3, AdmittedStill
    <2> QED
      BY <1>1, <1>3, <1>4, <1>5, <1>6, <2>1 DEF StreamInv, AllOver
  <1> QED
    BY <1>1, <1>2, <1>4, <1>7 DEF RowsInv, RowsHonest, RowsFaithful, Early, Flowing

\* A step that changes nothing keeps the rows.
LEMMA StutterRows ==
  ASSUME RowsInv, UNCHANGED vars
  PROVE  RowsInv'
  <1>1. UNCHANGED <<stage, outcome, sink, args, reading, settings, inputs, written, arrived, buf,
                    out, pending, done, result, readers, front, disk>>
    BY DEF vars, cliVars, pipelineVars, mergeVars, orderVars
  <1>2. StreamInv => StreamInv'
    <2> SUFFICES ASSUME StreamInv PROVE StreamInv'
      OBVIOUS
    <2>1. Placed(arrived, out, buf, written)'
      BY <1>1, RowsKeepTheirPlaces DEF StreamInv
    <2>2. ReadersOk(readers, front)'
      BY <1>1, ReadersOkNext DEF StreamInv
    <2>3. Admitted(arrived)'
      BY <1>1, AdmittedStill DEF StreamInv
    <2> QED
      BY <1>1, <2>1, <2>2, <2>3 DEF StreamInv
  <1>3. ReadersFresh => ReadersFresh'
    <2>1. \A r : OnDisk(r)' <=> OnDisk(r)
      BY <1>1 DEF OnDisk, Canonical, Located
    <2> QED
      BY <1>1, <2>1 DEF ReadersFresh, Merging
  <1>4. Unstarted => Unstarted'
    BY <1>1 DEF Unstarted
  <1>5. (ToFile' <=> ToFile) /\ (SplitErrors' <=> SplitErrors)
    BY <1>1 DEF Output, ToFile, SplitErrors
  <1>6. ASSUME NEW m PROVE RowOf(m)' = RowOf(m) /\ PartFor(m)' = PartFor(m)
    <2>1. Render' = Render
      BY <1>1 DEF Render
    <2> QED
      BY <1>5, <2>1 DEF RowOf, PartFor
  <1>7. RowsHonest => RowsHonest'
    <2>1. Rows' = Rows
      BY <1>1 DEF Rows
    <2>2. RowsOnce => RowsOnce'
      BY <2>1 DEF RowsOnce
    <2>3. RowsPlaced => RowsPlaced'
      BY <1>1, <1>5 DEF RowsPlaced
    <2>4. RowsKept => RowsKept'
      BY <1>1, <1>5, <1>6 DEF RowsKept, Waiting
    <2> QED
      BY <1>1, <2>2, <2>3, <2>4 DEF RowsHonest
  <1>8. RowsFaithful => RowsFaithful'
    BY <1>1, RowsTrueStill DEF RowsFaithful
  <1> QED
    BY <1>1, <1>2, <1>3, <1>4, <1>7, <1>8 DEF RowsInv

\* The invariant of the rows.
LEMMA RowsInvariance == Spec => []RowsInv
  <1>1. Init => RowsInv
    BY DEF Init, StartPipeline, RowsInv, Unstarted, RowsHonest, RowsFaithful, Early, Flowing
  <1>2. PublishInv /\ ChosenInv /\ FilesInv /\ DumpInv /\ RowsInv /\ [Next]_vars => RowsInv'
    <2> SUFFICES ASSUME PublishInv, ChosenInv, FilesInv, DumpInv, RowsInv, [Next]_vars
                 PROVE  RowsInv'
      OBVIOUS
    <2>0. /\ SettledInv /\ reading \in {"globals"} \cup Subcommands
          /\ RecordingsInv
      BY DEF ChosenInv, PublishInv, DumpInv
    <2>1. CASE UNCHANGED vars \/ Exited
      <3>1. UNCHANGED vars
        BY <2>1 DEF Exited
      <3> QED
        BY <3>1, StutterRows
    <2>2. CASE Next /\ stage' # "exited"
      BY <2>0, <2>2, RowsSteps, StartsRows, StartStreamRows, PullRows, WriteRows,
         StreamEndsRows
    <2>3. CASE Next /\ stage' = "exited"
      <3>1. Ends \/ GoesOn \/ ReadArguments \/ CommitMain \/ CommitErrors \/ Exited
        BY <2>0, <2>3, FilesSteps
      <3>2. ~GoesOn /\ ~ReadArguments /\ ~CommitMain /\ ~CommitErrors
        BY <2>3 DEF GoesOn, Early, ReadArguments, CommitMain, CommitErrors
      <3> QED
        BY <2>0, <2>1, <3>1, <3>2, EndsRows
    <2> QED
      BY <2>1, <2>2, <2>3
  <1> QED
    BY <1>1, <1>2, PublishInvariance, ChosenInvariance, FilesInvariance, DumpInvariance, PTL
    DEF Spec

\* L1-OUT-002, L2-WRT-021, L2-WRT-022: no two rows of a decode name the same
\* place of the same input; each is the row of a message pulled, in the file of
\* its kind; and after a success that shows its rows every message pulled has
\* one, and if the stream met no error no reader and no merge has one left.
THEOREM RowsAreHonest == Spec => []RowsHonest
  <1>1. RowsInv => RowsHonest
    BY DEF RowsInv
  <1> QED
    BY <1>1, RowsInvariance, PTL

\* L1-OUT-001, L2-FLT-001, L2-WRT-020: every message that a decode lets through
\* is what its recording says where it lies, in the clock its reader took it
\* for, and none is one that the filters hold back; and a row of a place where
\* an IRIG record was sent, in a recording read as IRIG, tells of that record.
THEOREM RowsAreFaithful == Spec => []RowsFaithful
  <1>1. RowsInv => RowsFaithful
    BY DEF RowsInv
  <1> QED
    BY <1>1, RowsInvariance, PTL
=============================================================================
