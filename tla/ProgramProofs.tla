---------------------------- MODULE ProgramProofs ----------------------------
(***************************************************************************)
(* Proofs about Program: whoever asks for help gets it, an accepted line   *)
(* has lost no token, a run has the settings of its line and its file, and *)
(* no file that it commits takes the place of one of its inputs.           *)
(***************************************************************************)
EXTENDS Claims, SequenceLemmas, WellFoundedInduction

-----------------------------------------------------------------------------
(* The arguments do not change while they are read.                        *)

ArgvInv ==
  /\ Len(argv) \in Nat /\ DOMAIN argv = 1 .. Len(argv)
  /\ \A i \in DOMAIN argv : WellMarked(argv[i])
  /\ at \in Nat \ {0}

\* Which actions read the arguments.
LEMMA OnlyReadingReads ==
  ASSUME Next
  PROVE  ReadArguments \/ UNCHANGED cliVars
  <1>1. CASE ReadArguments
    BY <1>1
  <1>2. CASE PrintAnswer \/ RefuseArguments \/ RefuseLogLevel \/ ApplyLogLevel
    BY <1>2
    DEF PrintAnswer, RefuseArguments, RefuseLogLevel, ApplyLogLevel, ExitAfterPrinting, Exit
  <1>3. CASE ReadConfig \/ RefuseConfig \/ ResolveConfig
    BY <1>3 DEF ReadConfig, RefuseConfig, ResolveConfig, Exit
  <1>4. CASE Decode
    <2>1. CASE InputsUnreadable \/ InputsMiscounted \/ FindInputs \/ OpenInputs
      BY <2>1 DEF InputsUnreadable, InputsMiscounted, FindInputs, OpenInputs, Exit
    <2>2. CASE InputUnopened \/ RefuseCollision \/ RefuseRendering
      BY <2>2 DEF InputUnopened, RefuseCollision, RefuseRendering, Exit
    <2>3. CASE Begin
      BY <2>3 DEF Begin, PrimingFails, RefuseOutput, StartStream, Fails, Exit
    <2>4. CASE PullStream \/ WriteRow \/ RowUnrenderable \/ StreamEnds
      BY <2>4 DEF PullStream, WriteRow, RowUnrenderable, StreamEnds, Fails, Exit
    <2>5. CASE StdoutFails \/ StreamFailed
      BY <2>5 DEF StdoutFails, StreamFailed, Fails, Exit
    <2>6. CASE CommitMain \/ CommitErrors \/ CommitFails \/ Conclude
      BY <2>6 DEF CommitMain, CommitErrors, CommitFails, Conclude, Commit, Exit
    <2> QED
      BY <1>4, <2>1, <2>2, <2>3, <2>4, <2>5, <2>6 DEF Decode
  <1>5. CASE ChooseCounted \/ CountUnopened \/ OpenCounted
    BY <1>5 DEF ChooseCounted, CountUnopened, OpenCounted, Exit
  <1>6. CASE Count
    BY <1>6 DEF Count, CountMessage, CountFails, PrintCount, Fails, ExitAfterPrinting, Exit
  <1>7. CASE DumpUnreadable \/ Dumping
    BY <1>7
    DEF DumpUnreadable, Dumping, DumpRaw, DumpRecords, DumpRecord, DumpDone, DumpStops, DumpCut,
        DumpEnds, DumpSteps, Exit
  <1>8. CASE Exited
    BY <1>8 DEF Exited, vars
  <1> QED
    BY <1>1, <1>2, <1>3, <1>4, <1>5, <1>6, <1>7, <1>8 DEF Next

-----------------------------------------------------------------------------
(* Help.                                                                   *)

\* The first tokens of the line hold nothing that outranks the help at h.
AsksHelp(h) ==
  /\ h \in DOMAIN argv
  /\ IsHelp(argv[h])
  /\ \A i \in 1 .. h - 1 :
       /\ ~IsSeparator(argv[i]) /\ ~IsVersion(argv[i])
       /\ argv[i].name \in DOMAIN GlobalValues \cup DOMAIN DecodeValues
                            \cup DOMAIN ValueFlags["dump"]
            => HasValue(i)

\* The cursor has not passed it; or it has been answered.
HelpInv(h) ==
  AsksHelp(h) =>
    /\ (verdict = "reading" => at <= h /\ ~ended)
    /\ (verdict # "reading" => verdict = "help")

ReadInv == ArgvInv /\ \A h \in DOMAIN argv : HelpInv(h)

\* No flag of the parsers is a help flag.
LEMMA FlagsAreNotHelp ==
  ASSUME NEW token, IsHelp(token)
  PROVE  /\ token.name \notin DOMAIN GlobalValues
         /\ \A command \in Subcommands : /\ token.name \notin DOMAIN ValueFlags[command]
                                         /\ token.name \notin DOMAIN Switches[command]
         /\ ~IsSeparator(token) /\ ~IsVersion(token)
         /\ token.name # "--no-irig-day-advisory"
  <1>1. token.name \in {"-h", "--help"}
    BY DEF IsHelp
  <1>2. token.name \notin DOMAIN GlobalValues
    BY <1>1 DEF GlobalValues, Table
  <1>3. token.name \notin DOMAIN DecodeValues
    BY <1>1 DEF DecodeValues, Table
  <1>4. token.name \notin DOMAIN ValueFlags["dump"] /\ token.name \notin DOMAIN ValueFlags["count"]
    BY <1>1 DEF ValueFlags, Table
  <1>5. /\ token.name \notin DOMAIN Switches["decode"]
        /\ token.name \notin DOMAIN Switches["dump"] /\ token.name \notin DOMAIN Switches["count"]
    BY <1>1 DEF Switches, Table
  <1>6. ValueFlags["decode"] = DecodeValues
    BY DEF ValueFlags
  <1> QED
    BY <1>1, <1>2, <1>3, <1>4, <1>5, <1>6 DEF Subcommands, IsSeparator, IsVersion

\* A flag that takes a value is one of those a help flag has to wait for.
LEMMA ValueFlagsKnown ==
  ASSUME NEW command \in Subcommands
  PROVE  DOMAIN ValueFlags[command] \subseteq DOMAIN DecodeValues \cup DOMAIN ValueFlags["dump"]
  <1>1. ValueFlags["decode"] = DecodeValues /\ DOMAIN ValueFlags["count"] = {}
    BY DEF ValueFlags, Table
  <1> QED
    BY <1>1 DEF Subcommands

\* A help flag looks like an option.
LEMMA HelpIsMarked ==
  ASSUME ArgvInv, NEW h \in DOMAIN argv, IsHelp(argv[h])
  PROVE  LooksLikeOption(argv[h])
  BY DEF ArgvInv, WellMarked, FlagNames, IsHelp

\* A flag that comes before the help finds its value before it too.
LEMMA ValueBeforeHelp ==
  ASSUME ArgvInv, NEW h \in DOMAIN argv, AsksHelp(h), at < h, HasValue(at)
  PROVE  After(at) \in Nat \ {0} /\ After(at) <= h
  <1>1. at \in Nat \ {0} /\ h \in Nat
    BY DEF ArgvInv
  <1>2. CASE ~Bare(argv[at])
    BY <1>1, <1>2 DEF After
  <1>3. CASE Bare(argv[at])
    <2>1. ~LooksLikeOption(argv[at + 1])
      BY <1>3 DEF HasValue
    <2>2. LooksLikeOption(argv[h])
      BY HelpIsMarked DEF AsksHelp
    <2>3. at + 1 # h
      BY <2>1, <2>2
    <2> QED
      BY <1>1, <1>3, <2>3 DEF After
  <1> QED
    BY <1>2, <1>3

\* A diagnostic deferred before the help gives way to it.
LEMMA HelpOutranks ==
  ASSUME ArgvInv, NEW h \in DOMAIN argv, AsksHelp(h), NEW i \in Nat \ {0}, i <= h, Fail(i)
  PROVE  verdict' = "help"
  <1>1. \A j \in i .. h : ~IsSeparator(argv[j])
    <2> SUFFICES ASSUME NEW j \in i .. h PROVE ~IsSeparator(argv[j])
      OBVIOUS
    <2>1. h \in Nat
      BY DEF ArgvInv
    <2>2. CASE j = h
      BY <2>2, FlagsAreNotHelp DEF AsksHelp
    <2>3. CASE j # h
      <3>1. j \in 1 .. h - 1
        BY <2>1, <2>3
      <3> QED
        BY <3>1 DEF AsksHelp
    <2> QED
      BY <2>2, <2>3
  <1>2. h \in i .. Len(argv)
    BY DEF ArgvInv
  <1>3. HelpPending(i)
    BY <1>1, <1>2 DEF HelpPending, AsksHelp
  <1> QED
    BY <1>3 DEF Fail, Answer

\* Each token read leaves the help to be found, or answers it.
LEMMA ReadTokenHelps ==
  ASSUME ArgvInv, NEW h \in DOMAIN argv, AsksHelp(h), ReadToken, at <= h, ~ended
  PROVE  \/ verdict' = "help"
         \/ verdict' = "reading" /\ at' \in Nat \ {0} /\ at' <= h /\ ~ended'
  <1>1. /\ at \in 1 .. Len(argv) /\ h \in 1 .. Len(argv) /\ Len(argv) \in Nat
        /\ at + 1 \in Nat \ {0} /\ (at # h => at < h /\ at + 1 <= h)
    BY DEF ArgvInv
  <1>2. IsHelp(argv[h]) /\ LooksLikeOption(argv[h]) /\ "dash" \in argv[h].marks
    BY HelpIsMarked DEF AsksHelp, LooksLikeOption
  <1>3. ~IsSeparator(Token) /\ ~IsVersion(Token)
    <2>1. CASE at = h
      BY <1>2, <2>1, FlagsAreNotHelp DEF Token
    <2>2. CASE at # h
      <3>1. at \in 1 .. h - 1
        BY <1>1, <2>2
      <3> QED
        BY <3>1 DEF AsksHelp, Token
    <2> QED
      BY <2>1, <2>2
  <1>4. ASSUME Token.name \in DOMAIN GlobalValues \cup DOMAIN DecodeValues
                               \cup DOMAIN ValueFlags["dump"]
        PROVE  at < h /\ HasValue(at)
    <2>1. at # h
      BY <1>2, <1>4, FlagsAreNotHelp DEF Token, Subcommands, ValueFlags
    <2>2. at \in 1 .. h - 1
      BY <1>1, <2>1
    <2> QED
      BY <1>1, <1>4, <2>1, <2>2 DEF AsksHelp, Token
  <1>5. CASE NoCommand
    BY <1>1, <1>3, <1>5 DEF NoCommand
  <1>6. CASE GlobalHelp \/ CommandHelp
    BY <1>6 DEF GlobalHelp, CommandHelp, Answer
  <1>7. CASE GlobalVersion
    BY <1>3, <1>7 DEF GlobalVersion
  <1>8. CASE TakeGlobal
    <2>1. at < h /\ HasValue(at)
      BY <1>4, <1>8 DEF TakeGlobal
    <2>2. After(at) \in Nat \ {0} /\ After(at) <= h
      BY <2>1, ValueBeforeHelp
    <2> QED
      BY <1>8, <2>2 DEF TakeGlobal, Proceed, AtGlobal, InGlobals
  <1>9. CASE GlobalWithoutValue
    BY <1>4, <1>9 DEF GlobalWithoutValue
  <1>10. CASE DeclineAdvisory
    <2>1. at # h
      BY <1>2, <1>10, FlagsAreNotHelp DEF DeclineAdvisory, Token
    <2> QED
      BY <1>1, <1>10, <2>1 DEF DeclineAdvisory, Proceed, AtGlobal, InGlobals
  <1>11. CASE TakeCommand
    <2>1. at # h /\ CommandAt = at
      BY <1>2, <1>3, <1>11 DEF TakeCommand, ReachesCommand, Token, CommandAt
    <2> QED
      BY <1>1, <1>11, <2>1 DEF TakeCommand, ReachesCommand, Proceed, AtGlobal, InGlobals
  <1>12. CASE UnknownCommand
    <2>1. at # h /\ CommandAt = at
      BY <1>2, <1>3, <1>12 DEF UnknownCommand, ReachesCommand, Token, CommandAt
    <2> QED
      BY <1>1, <1>12, <2>1, HelpOutranks DEF UnknownCommand
  <1>13. CASE EndOptions
    BY <1>3, <1>13 DEF EndOptions
  <1>14. ASSUME AtPath PROVE at # h
    BY <1>2, <1>14 DEF AtPath, Token
  <1>15. CASE TakePath
    BY <1>1, <1>14, <1>15 DEF TakePath, Proceed, AtPath, InCommand
  <1>16. CASE SecondPath
    BY <1>1, <1>14, <1>16, HelpOutranks DEF SecondPath
  <1>17. CASE SetSwitch
    <2>1. at # h
      BY <1>2, <1>17, FlagsAreNotHelp DEF SetSwitch, SetsSwitch, AtFlag, InCommand, Token
    <2> QED
      BY <1>1, <1>17, <2>1 DEF SetSwitch, Proceed, AtFlag, InCommand
  <1>18. ASSUME AtFlag, TakesValue PROVE at < h /\ HasValue(at)
    BY <1>4, <1>18, ValueFlagsKnown DEF TakesValue, AtFlag, InCommand
  <1>19. CASE TakeValue
    <2>1. After(at) \in Nat \ {0} /\ After(at) <= h
      BY <1>18, <1>19, ValueBeforeHelp DEF TakeValue
    <2> QED
      BY <1>19, <2>1 DEF TakeValue, Proceed, AtFlag, InCommand
  <1>20. CASE RefuseValue
    <2>1. After(at) \in Nat \ {0} /\ After(at) <= h
      BY <1>18, <1>20, ValueBeforeHelp DEF RefuseValue
    <2> QED
      BY <1>20, <2>1, HelpOutranks DEF RefuseValue
  <1>21. CASE FlagWithoutValue
    BY <1>18, <1>21 DEF FlagWithoutValue
  <1>22. CASE RefuseFlag
    <2>1. at # h
      BY <1>2, <1>22 DEF RefuseFlag, Token
    <2> QED
      BY <1>1, <1>22, <2>1, HelpOutranks DEF RefuseFlag
  <1>23. CASE EndOfArguments
    BY <1>1, <1>23 DEF EndOfArguments
  <1> QED
    BY <1>5, <1>6, <1>7, <1>8, <1>9, <1>10, <1>11, <1>12, <1>13, <1>15, <1>16, <1>17, <1>19,
       <1>20, <1>21, <1>22, <1>23
    DEF ReadToken

\* Reading moves the cursor, and nothing else of ArgvInv.
LEMMA ReadTokenArgv ==
  ASSUME ArgvInv, ReadToken
  PROVE  verdict = "reading" /\ argv' = argv /\ at' \in Nat \ {0}
  <1>1. /\ After(at) \in Nat \ {0} /\ at + 1 \in Nat \ {0} /\ Consumed \in Nat \ {0}
        /\ CommandAt + 1 \in Nat \ {0}
    BY DEF ArgvInv, After, Consumed, CommandAt
  <1>2. CASE \/ NoCommand \/ GlobalHelp \/ GlobalVersion \/ GlobalWithoutValue
             \/ UnknownCommand \/ SecondPath \/ CommandHelp \/ RefuseValue
             \/ FlagWithoutValue \/ RefuseFlag \/ EndOfArguments
    BY <1>1, <1>2
    DEF NoCommand, GlobalHelp, GlobalVersion, GlobalWithoutValue, UnknownCommand,
        ReachesCommand, SecondPath, AtPath, CommandHelp, RefuseValue, FlagWithoutValue,
        RefuseFlag, EndOfArguments, Fail, Answer, AtGlobal, InGlobals, AtFlag, InCommand
  <1>3. CASE TakeGlobal \/ DeclineAdvisory \/ TakeCommand
    BY <1>1, <1>3
    DEF TakeGlobal, DeclineAdvisory, TakeCommand, ReachesCommand, Proceed, AtGlobal, InGlobals
  <1>4. CASE EndOptions \/ TakePath \/ SetSwitch \/ TakeValue
    BY <1>1, <1>4
    DEF EndOptions, TakePath, AtPath, SetSwitch, TakeValue, Proceed, AtFlag, InCommand
  <1> QED
    BY <1>2, <1>3, <1>4 DEF ReadToken

\* The invariant of the arguments.
LEMMA ReadInvariance == Spec => []ReadInv
  <1>1. Init => ReadInv
    <2> SUFFICES ASSUME Init PROVE ReadInv
      OBVIOUS
    <2>1. PICK family \in Families : \E given \in family : StartReading(given.argv)
      BY DEF Init
    <2>2. PICK given \in family : StartReading(given.argv)
      BY <2>1
    <2>3. argv = given.argv /\ at = 1 /\ verdict = "reading" /\ ended = FALSE
      BY <2>2 DEF StartReading
    <2>4. ArgvInv
      BY <2>1, <2>2, <2>3, ArgumentsAssumption DEF ArgvInv
    <2>5. \A h \in DOMAIN argv : at <= h
      BY <2>3, <2>4 DEF ArgvInv
    <2> QED
      BY <2>3, <2>4, <2>5 DEF ReadInv, HelpInv
  <1>2. ReadInv /\ [Next]_vars => ReadInv'
    <2> SUFFICES ASSUME ReadInv, [Next]_vars PROVE ReadInv'
      OBVIOUS
    <2>1. CASE ReadArguments
      <3>1. ReadToken
        BY <2>1 DEF ReadArguments
      <3>2. verdict = "reading" /\ argv' = argv /\ at' \in Nat \ {0}
        BY <3>1, ReadTokenArgv DEF ReadInv
      <3>3. ArgvInv'
        BY <3>2 DEF ReadInv, ArgvInv, IsHelp, LooksLikeOption, Bare
      <3>4. ASSUME NEW h \in DOMAIN argv', AsksHelp(h)'
            PROVE  /\ verdict' = "reading" => at' <= h /\ ~ended'
                   /\ verdict' # "reading" => verdict' = "help"
        <4>1. h \in DOMAIN argv /\ AsksHelp(h)
          BY <3>2, <3>4
          DEF AsksHelp, IsHelp, IsSeparator, IsVersion, HasValue, LooksLikeOption, Bare
        <4>2. at <= h /\ ~ended
          BY <3>2, <4>1 DEF ReadInv, HelpInv
        <4> QED
          BY <3>1, <4>1, <4>2, ReadTokenHelps DEF ReadInv
      <3> QED
        BY <3>3, <3>4 DEF ReadInv, HelpInv
    <2>2. CASE UNCHANGED cliVars
      BY <2>2
      DEF cliVars, ReadInv, ArgvInv, HelpInv, AsksHelp, IsHelp, IsSeparator, IsVersion,
          HasValue, LooksLikeOption, Bare
    <2>3. CASE UNCHANGED vars
      BY <2>2, <2>3 DEF vars
    <2> QED
      BY <2>1, <2>2, <2>3, OnlyReadingReads
  <1> QED
    BY <1>1, <1>2, PTL DEF Spec

\* L2-CLI-017: whoever asks for help gets it, whatever else is wrong with the
\* line, unless an earlier flag has no value or the version was asked for first.
THEOREM HelpIsGiven == Spec => []HelpIsAnswered
  <1>1. ReadInv => HelpIsAnswered
    <2> SUFFICES ASSUME ReadInv, NEW h \in DOMAIN argv, verdict # "reading", AsksHelp(h)
                 PROVE  verdict = "help"
      BY DEF HelpIsAnswered, AsksHelp
    <2> QED
      BY DEF ReadInv, HelpInv
  <1> QED
    BY <1>1, ReadInvariance, PTL

-----------------------------------------------------------------------------
(* The inputs of a run and the files it commits.                           *)

LinksInv ==
  \A place \in DOMAIN disk :
    disk[place].kind = "link" /\ Located(disk[place].to) \in DOMAIN disk =>
      disk[Located(disk[place].to)].kind # "link"

\* Before the first record is pulled, nothing is written.
Early == {"arguments", "config", "globals", "decode", "count", "dump", "open", "check",
          "counting", "dumping"}

Streaming == {"stream", "ended", "errors"}

\* No name that the run may commit is that of an input.
ClearOfInputs ==
  \A target \in Targets, i \in DOMAIN inputs :
    Exists(inputs[i]) => Located(target) # Canonical(inputs[i])

PublishInv ==
  /\ LinksInv
  /\ reading \in {"globals"} \cup Subcommands
  /\ written = [part \in {"main", "errors"} |-> written[part]]
  /\ stage \in Early => DOMAIN published = {} /\ written.errors = <<>>
  /\ stage \in Streaming =>
       /\ ToFile => ClearOfInputs
       /\ written.errors # <<>> => SplitErrors
  /\ stage = "errors" => ToFile /\ written.errors # <<>>
  /\ InputsSurvive

\* What the guards compare is enough: a target that is a link, or is not there
\* yet, is not where an input is found.
LEMMA TargetIsNoInput ==
  ASSUME LinksInv, NEW input, NEW target, Exists(input),
         Exists(target) => Canonical(target) # Canonical(input)
  PROVE  Located(target) # Canonical(input)
  <1> SUFFICES ASSUME Located(target) = Canonical(input) PROVE FALSE
    OBVIOUS
  <1> DEFINE place == Located(input)
             follows == place \in DOMAIN disk /\ disk[place].kind = "link"
             found == IF follows THEN Located(disk[place].to) ELSE place
  <1>1. Canonical(input) # None /\ Canonical(input) = (IF found \in DOMAIN disk THEN found ELSE None)
    BY DEF Exists, Canonical
  <1>2. Located(target) = found /\ found \in DOMAIN disk
    BY <1>1
  <1>3. CASE disk[found].kind = "link"
    <2>1. follows
      BY <1>2, <1>3
    <2> QED
      BY <1>2, <1>3, <2>1 DEF LinksInv
  <1>4. CASE disk[found].kind # "link"
    <2>1. Canonical(target) = found
      BY <1>2, <1>4 DEF Canonical
    <2> QED
      BY <1>1, <1>2, <2>1 DEF Exists
  <1> QED
    BY <1>3, <1>4

\* The checks before the stream: of a merge against each of its inputs, of
\* one recording against it.
LEMMA ChecksClear ==
  ASSUME LinksInv, ToFile, ~OverwritesMerged, ~OutputRefused
  PROVE  ClearOfInputs
  <1> SUFFICES ASSUME NEW target \in Targets, NEW i \in DOMAIN inputs, Exists(inputs[i])
               PROVE  Located(target) # Canonical(inputs[i])
    BY DEF ClearOfInputs
  <1>1. CASE Merging
    <2>1. ~CollidesWithMerge(target, inputs[i])
      BY <1>1 DEF OverwritesMerged
    <2> QED
      BY <2>1, TargetIsNoInput DEF CollidesWithMerge
  <1>2. CASE ~Merging
    <2>1. ~RefersToSameFile(inputs[i], target)
      BY <1>2 DEF OutputRefused
    <2> QED
      BY <2>1, TargetIsNoInput DEF RefersToSameFile
  <1> QED
    BY <1>1, <1>2

\* The names a run commits are among those that were checked.
LEMMA CommittedAreTargets ==
  /\ CommitPath(Output) \in Targets
  /\ SplitErrors => CommitPath(ErrorPathFor(Output)) \in Targets
  BY DEF CommitPath, Targets, CommitTargets, IsPartial

\* A file that is committed: where it stands, there was no input.
LEMMA CommitSurvives ==
  ASSUME InputsSurvive, ClearOfInputs, NEW path \in Targets, NEW rows,
         MayCommit(path), Commit(path, rows)
  PROVE  InputsSurvive'
  <1>1. /\ published' = With(published, Located(path), rows)
        /\ disk' = disk /\ inputs' = inputs /\ settings' = settings
    BY DEF Commit, pipelineVars
  <1>2. DOMAIN published' = DOMAIN published \cup {Located(path)}
    BY <1>1 DEF With
  <1>3. \A i \in DOMAIN inputs : Exists(inputs[i]) => Located(path) # Canonical(inputs[i])
    BY DEF ClearOfInputs
  <1>4. settings.no_clobber => Located(path) \notin DOMAIN disk
    BY DEF MayCommit
  <1> QED
    BY <1>1, <1>2, <1>3, <1>4 DEF InputsSurvive, Exists, Canonical

\* A step that changes neither the files nor what names them.
Quiet ==
  /\ UNCHANGED <<settings, inputs, args, reading, disk, written, published>>
  /\ \/ stage' \in {stage, "exited"}
     \/ stage \in Early /\ stage' \in Early
     \/ stage = "stream" /\ stage' = "ended"

\* Such a step keeps the invariant of the files.
LEMMA QuietKeeps ==
  ASSUME PublishInv, Quiet
  PROVE  PublishInv'
  <1>1. UNCHANGED <<settings, inputs, args, reading, disk, written, published>>
    BY DEF Quiet
  <1>2. LinksInv' /\ InputsSurvive'
    BY <1>1 DEF PublishInv, LinksInv, InputsSurvive, Exists, Canonical
  <1>3. (ToFile' <=> ToFile) /\ (SplitErrors' <=> SplitErrors) /\ Targets' = Targets
    BY <1>1 DEF ToFile, SplitErrors, Output, Targets
  <1>4. ClearOfInputs => ClearOfInputs'
    BY <1>1, <1>3 DEF ClearOfInputs, Exists, Canonical
  <1>5. /\ stage' \in Early => stage \in Early
        /\ stage' \in Streaming => stage \in Streaming
        /\ stage' = "errors" => stage = "errors"
    BY DEF Quiet, Early, Streaming
  <1> QED
    BY <1>1, <1>2, <1>3, <1>4, <1>5 DEF PublishInv

\* Which steps are quiet.
LEMMA QuietSteps ==
  ASSUME reading \in {"globals"} \cup Subcommands, Next
  PROVE  \/ Quiet \/ ReadArguments \/ FindInputs \/ ChooseCounted \/ Begin \/ WriteRow
         \/ CommitMain \/ CommitErrors
  <1>1. CASE PrintAnswer \/ RefuseArguments \/ RefuseLogLevel
    BY <1>1
    DEF PrintAnswer, RefuseArguments, RefuseLogLevel, ExitAfterPrinting, Exit, Ended,
        cliVars, pipelineVars, Quiet
  <1>2. CASE ApplyLogLevel \/ ReadConfig \/ RefuseConfig
    BY <1>2
    DEF ApplyLogLevel, ReadConfig, RefuseConfig, Exit, Ended, cliVars, pipelineVars, Quiet, Early
  <1>3. CASE ResolveConfig
    BY <1>3 DEF ResolveConfig, cliVars, pipelineVars, Quiet, Early, Subcommands
  <1>4. CASE InputsUnreadable \/ InputsMiscounted \/ OpenInputs
    BY <1>4
    DEF InputsUnreadable, InputsMiscounted, OpenInputs, Exit, Ended, cliVars, pipelineVars,
        Quiet, Early
  <1>5. CASE InputUnopened \/ RefuseCollision \/ RefuseRendering
    BY <1>5
    DEF InputUnopened, RefuseCollision, RefuseRendering, Exit, Ended, cliVars, pipelineVars,
        Quiet
  <1>6. CASE PullStream
    BY <1>6 DEF PullStream, Pull, cliVars, Quiet
  <1>7. CASE RowUnrenderable \/ StreamEnds
    BY <1>7 DEF RowUnrenderable, StreamEnds, Fails, Exit, Ended, cliVars, pipelineVars, Quiet
  <1>8. CASE StdoutFails \/ StreamFailed \/ CommitFails \/ Conclude
    BY <1>8
    DEF StdoutFails, StreamFailed, CommitFails, Conclude, Fails, Exit, Ended, cliVars,
        pipelineVars, Quiet
  <1>9. CASE CountUnopened \/ OpenCounted
    BY <1>9 DEF CountUnopened, OpenCounted, Exit, Ended, cliVars, pipelineVars, Quiet
  <1>10. CASE Count
    BY <1>10
    DEF Count, CountMessage, CountFails, PrintCount, Fails, ExitAfterPrinting, Exit, Ended,
        cliVars, pipelineVars, Quiet
  <1>11. CASE DumpUnreadable \/ DumpRaw \/ DumpDone \/ DumpStops \/ DumpCut
    BY <1>11
    DEF DumpUnreadable, DumpRaw, DumpDone, DumpStops, DumpCut, DumpEnds, Exit, Ended, cliVars,
        pipelineVars, Quiet
  <1>12. CASE DumpRecords \/ DumpRecord
    BY <1>12 DEF DumpRecords, DumpRecord, DumpSteps, cliVars, pipelineVars, Quiet, Early
  <1>13. CASE Exited
    BY <1>13 DEF Exited, vars, cliVars, pipelineVars, Quiet
  <1> QED
    BY <1>1, <1>2, <1>3, <1>4, <1>5, <1>6, <1>7, <1>8, <1>9, <1>10, <1>11, <1>12, <1>13
    DEF Next, Decode, Dumping

\* Reading the arguments leaves the files alone, and reads one subcommand.
LEMMA ReadingPublishes ==
  ASSUME PublishInv, ReadArguments
  PROVE  PublishInv'
  <1>1. /\ UNCHANGED <<settings, inputs, disk, written, published, stage>>
        /\ stage = "arguments" /\ ReadToken
    BY DEF ReadArguments, pipelineVars
  <1>2. reading' \in {"globals"} \cup Subcommands
    <2>1. CASE TakeCommand
      BY <2>1 DEF TakeCommand
    <2>2. CASE \/ NoCommand \/ GlobalHelp \/ GlobalVersion \/ GlobalWithoutValue
               \/ UnknownCommand \/ SecondPath \/ CommandHelp \/ RefuseValue
               \/ FlagWithoutValue \/ RefuseFlag \/ EndOfArguments
      BY <2>2
      DEF PublishInv, NoCommand, GlobalHelp, GlobalVersion, GlobalWithoutValue,
          UnknownCommand, SecondPath, CommandHelp, RefuseValue, FlagWithoutValue, RefuseFlag,
          EndOfArguments, Fail, Answer
    <2>3. CASE TakeGlobal \/ DeclineAdvisory \/ EndOptions \/ TakePath \/ SetSwitch \/ TakeValue
      BY <2>3
      DEF PublishInv, TakeGlobal, DeclineAdvisory, EndOptions, TakePath, SetSwitch, TakeValue
    <2> QED
      BY <1>1, <2>1, <2>2, <2>3 DEF ReadToken
  <1>3. LinksInv' /\ InputsSurvive'
    BY <1>1 DEF PublishInv, LinksInv, InputsSurvive, Exists, Canonical
  <1>4. stage' \in Early /\ stage' \notin Streaming
    BY <1>1 DEF Early, Streaming
  <1> QED
    BY <1>1, <1>2, <1>3, <1>4 DEF PublishInv, Streaming

\* Before anything is committed, the inputs and the settings may be chosen.
LEMMA ChoicePublishes ==
  ASSUME PublishInv, FindInputs \/ ChooseCounted
  PROVE  PublishInv'
  <1>1. /\ UNCHANGED <<reading, disk, written, published>>
        /\ stage \in Early /\ stage' \in Early /\ stage' \notin Streaming
    BY DEF FindInputs, ChooseCounted, cliVars, Early, Streaming
  <1>2. DOMAIN published' = {} /\ written'.errors = <<>>
    BY <1>1 DEF PublishInv
  <1>3. InputsSurvive'
    BY <1>2 DEF InputsSurvive
  <1>4. LinksInv'
    BY <1>1 DEF PublishInv, LinksInv
  <1> QED
    BY <1>1, <1>2, <1>3, <1>4 DEF PublishInv, Streaming

\* The stream starts behind the checks.
LEMMA BeginPublishes ==
  ASSUME PublishInv, Begin
  PROVE  PublishInv'
  <1>1. PICK primed : PrimingFails(primed) \/ RefuseOutput(primed) \/ StartStream(primed)
    BY DEF Begin
  <1>2. stage = "check" /\ ~OverwritesMerged
    BY DEF Begin
  <1>3. CASE PrimingFails(primed) \/ RefuseOutput(primed)
    <2>1. Quiet
      BY <1>3
      DEF PrimingFails, RefuseOutput, Fails, Exit, Ended, cliVars, pipelineVars, Quiet
    <2> QED
      BY <2>1, QuietKeeps
  <1>4. CASE StartStream(primed)
    <2>1. /\ UNCHANGED <<settings, inputs, args, reading, disk, written, published>>
          /\ stage' = "stream" /\ ~OutputRefused
      BY <1>4 DEF StartStream, cliVars
    <2>2. ToFile => ClearOfInputs
      BY <1>2, <2>1, ChecksClear DEF PublishInv
    <2>3. written.errors = <<>>
      BY <1>2 DEF PublishInv, Early
    <2>4. LinksInv' /\ InputsSurvive'
      BY <2>1 DEF PublishInv, LinksInv, InputsSurvive, Exists, Canonical
    <2>5. ToFile' => ClearOfInputs'
      BY <2>1, <2>2 DEF ClearOfInputs, Exists, Canonical, ToFile, Output, Targets, SplitErrors
    <2> QED
      BY <2>1, <2>3, <2>4, <2>5 DEF PublishInv, Early
  <1> QED
    BY <1>1, <1>3, <1>4

\* A row goes to the errors CSV only where there is one.
LEMMA RowPublishes ==
  ASSUME PublishInv, WriteRow
  PROVE  PublishInv'
  <1>1. /\ UNCHANGED <<settings, inputs, args, reading, disk, stage, published>>
        /\ stage = "stream"
    BY DEF WriteRow, cliVars
  <1>2. PICK message :
          written' = [written EXCEPT ![PartFor(message)] = Append(@, RowOf(message))]
    BY DEF WriteRow
  <1>3. PartFor(message) \in {"main", "errors"} /\ (~SplitErrors => PartFor(message) = "main")
    BY DEF PartFor
  <1>4. written = [part \in {"main", "errors"} |-> written[part]]
    BY DEF PublishInv
  <1>5. /\ written' = [part \in {"main", "errors"} |-> written'[part]]
        /\ ~SplitErrors => written'.errors = written.errors
    BY <1>2, <1>3, <1>4
  <1>6. LinksInv' /\ InputsSurvive' /\ (ToFile' => ClearOfInputs')
    BY <1>1
    DEF PublishInv, Streaming, LinksInv, InputsSurvive, Exists, Canonical, ClearOfInputs,
        ToFile, Output, Targets, SplitErrors
  <1>7. SplitErrors' <=> SplitErrors
    BY <1>1 DEF SplitErrors, ToFile, Output
  <1>8. written'.errors # <<>> => SplitErrors
    BY <1>1, <1>5 DEF PublishInv, Streaming
  <1> QED
    BY <1>1, <1>5, <1>6, <1>7, <1>8 DEF PublishInv, Early

\* What is committed is not an input.
LEMMA CommitPublishes ==
  ASSUME PublishInv, CommitMain \/ CommitErrors
  PROVE  PublishInv'
  <1>1. /\ UNCHANGED <<settings, inputs, args, reading, disk, written>>
        /\ stage \in {"ended", "errors"} /\ stage' \in {"errors", "committed"}
        /\ ToFile
        /\ stage' = "errors" => written.errors # <<>>
    BY DEF PublishInv, CommitMain, CommitErrors, Commit, Committing, cliVars, pipelineVars
  <1>2. ClearOfInputs /\ (written.errors # <<>> => SplitErrors)
    BY <1>1 DEF PublishInv, Streaming
  <1>3. InputsSurvive'
    <2>1. InputsSurvive
      BY DEF PublishInv
    <2>2. CASE CommitMain
      BY <1>2, <2>1, <2>2, CommitSurvives, CommittedAreTargets DEF CommitMain
    <2>3. CASE CommitErrors
      <3>1. SplitErrors
        BY <1>2, <2>3 DEF PublishInv, CommitErrors
      <3> QED
        BY <1>2, <2>1, <2>3, <3>1, CommitSurvives, CommittedAreTargets DEF CommitErrors
    <2> QED
      BY <2>2, <2>3
  <1>4. LinksInv' /\ (ToFile' => ClearOfInputs') /\ (ToFile' <=> ToFile)
    BY <1>1, <1>2
    DEF PublishInv, LinksInv, Exists, Canonical, ClearOfInputs, ToFile, Output, Targets,
        SplitErrors
  <1>5. SplitErrors' <=> SplitErrors
    BY <1>1 DEF SplitErrors, ToFile, Output
  <1> QED
    BY <1>1, <1>2, <1>3, <1>4, <1>5 DEF PublishInv, Early

\* The invariant of the files.
LEMMA PublishInvariance == Spec => []PublishInv
  <1>1. Init => PublishInv
    <2> SUFFICES ASSUME Init PROVE PublishInv
      OBVIOUS
    <2>0. PICK family \in Families :
            \E given \in family : StartReading(given.argv) /\ disk = given.disk
      BY DEF Init
    <2>1. PICK given \in family : StartReading(given.argv) /\ disk = given.disk
      BY <2>0
    <2>2. LinksInv
      BY <2>1, LinksAssumption DEF LinksInv
    <2>3. reading = "globals"
      BY <2>1 DEF StartReading
    <2>4. stage = "arguments" /\ DOMAIN published = {} /\ written = [main |-> <<>>, errors |-> <<>>]
      BY DEF Init
    <2> QED
      BY <2>2, <2>3, <2>4 DEF PublishInv, Streaming, InputsSurvive
  <1>2. PublishInv /\ [Next]_vars => PublishInv'
    <2> SUFFICES ASSUME PublishInv, [Next]_vars PROVE PublishInv'
      OBVIOUS
    <2>1. CASE UNCHANGED vars
      <3>1. Quiet
        BY <2>1 DEF vars, cliVars, pipelineVars, Quiet
      <3> QED
        BY <3>1, QuietKeeps
    <2>2. CASE Next
      <3>1. reading \in {"globals"} \cup Subcommands
        BY DEF PublishInv
      <3> QED
        BY <2>2, <3>1, QuietSteps, QuietKeeps, ReadingPublishes, ChoicePublishes,
           BeginPublishes, RowPublishes, CommitPublishes
    <2> QED
      BY <2>1, <2>2
  <1> QED
    BY <1>1, <1>2, PTL DEF Spec

\* L2-WRT-014, L2-WRT-017: no file committed takes the place of a recording
\* the run was given, nor under --no-clobber of anything.
THEOREM InputsAreSafe == Spec => []InputsSurvive
  <1>1. PublishInv => InputsSurvive
    BY DEF PublishInv
  <1> QED
    BY <1>1, PublishInvariance, PTL

-----------------------------------------------------------------------------
(* The line read by positions.                                             *)

\* Of some places there is a first one, and Least is it.
LEMMA LeastPlace ==
  ASSUME NEW S \in SUBSET Nat, S # {}
  PROVE  Least(S) \in S /\ \A y \in S : Least(S) <= y
  <1>1. \E x \in S : \A y \in S : ~(<<y, x>> \in OpToRel(<, Nat))
    BY WFMin, NatLessThanWellFounded
  <1>2. PICK x \in S : \A y \in S : <<y, x>> \notin OpToRel(<, Nat)
    BY <1>1, Zenon
  <1>3. ASSUME NEW y \in S PROVE x <= y
    <2>1. ~(y < x)
      BY <1>2 DEF OpToRel
    <2> QED
      BY <2>1
  <1> QED
    BY <1>3 DEF Least

\* The first place is found where nothing comes before.
LEMMA LeastIs ==
  ASSUME NEW S \in SUBSET Nat, NEW x \in S, \A y \in S : x <= y
  PROVE  Least(S) = x
  <1>1. Least(S) \in S /\ Least(S) <= x
    BY LeastPlace
  <1>2. x \in Nat /\ Least(S) \in Nat /\ x <= Least(S)
    BY <1>1
  <1> QED
    BY <1>1, <1>2

\* A table has its rows' flags, and for each of them what some row has.
LEMMA TableIs ==
  ASSUME NEW rows
  PROVE  /\ DOMAIN Table(rows) = {row[1] : row \in rows}
         /\ \A flag \in DOMAIN Table(rows) :
              \E row \in rows : row[1] = flag /\ Table(rows)[flag] = row[2]
  BY DEF Table

\* The fields of a dump that are numbers.
SizeFields == {"offset", "length", "records"}

\* A switch takes no value, and sets no filter and no size; the parsers look for
\* no other names.
LEMMA TableFacts ==
  ASSUME NEW command \in Subcommands
  PROVE  /\ DOMAIN Switches[command] \cap DOMAIN ValueFlags[command] = {}
         /\ DOMAIN Switches[command] \cup DOMAIN ValueFlags[command] \subseteq FlagNames
         /\ "--" \notin DOMAIN Switches[command] \cup DOMAIN ValueFlags[command]
         /\ \A flag \in DOMAIN Switches[command] :
              Switches[command][flag][1] \notin FilterFields \cup SizeFields \cup PathFields
  <1>1. DOMAIN Switches[command] \cup DOMAIN ValueFlags[command] \subseteq FlagNames
    BY DEF FlagNames
  <1>2. CASE command = "decode"
    <2> DEFINE rows == {<<"--separate-errors", <<"error_mode", "separate">>>>,
                        <<"--no-clobber", <<"no_clobber", TRUE>>>>,
                        <<"--allow-partial", <<"allow_partial", TRUE>>>>,
                        <<"--strict", <<"strict", TRUE>>>>,
                        <<"--no-mux", <<"mux_enabled", FALSE>>>>,
                        <<"--collapse-duplicates", <<"collapse_duplicates", TRUE>>>>}
               flags == {"--separate-errors", "--no-clobber", "--allow-partial", "--strict",
                         "--no-mux", "--collapse-duplicates"}
    <2>1. Switches[command] = Table(rows)
      BY <1>2 DEF Switches
    <2>2. {row[1] : row \in rows} = flags
      OBVIOUS
    <2>3. \A row \in rows : row[2][1] \in
             {"error_mode", "no_clobber", "allow_partial", "strict", "mux_enabled",
              "collapse_duplicates"}
      <3> TAKE row \in rows
      <3>1. CASE row = <<"--separate-errors", <<"error_mode", "separate">>>>
        BY <3>1
      <3>2. CASE row = <<"--no-clobber", <<"no_clobber", TRUE>>>>
        BY <3>2
      <3>3. CASE row = <<"--allow-partial", <<"allow_partial", TRUE>>>>
        BY <3>3
      <3>4. CASE row = <<"--strict", <<"strict", TRUE>>>>
        BY <3>4
      <3>5. CASE row = <<"--no-mux", <<"mux_enabled", FALSE>>>>
        BY <3>5
      <3>6. CASE row = <<"--collapse-duplicates", <<"collapse_duplicates", TRUE>>>>
        BY <3>6
      <3> QED
        BY <3>1, <3>2, <3>3, <3>4, <3>5, <3>6
    <2>4. \A row \in rows : row[2][1] \notin FilterFields \cup SizeFields \cup PathFields
      <3> HIDE DEF rows
      <3> QED
        BY <2>3 DEF FilterFields, TypeFields, BusFields, AddressFields, SizeFields,
           PathFields
    <2> HIDE DEF rows, flags
    <2>5. DOMAIN Switches[command] = flags
      BY <2>1, <2>2, TableIs
    <2>6. ASSUME NEW flag \in DOMAIN Switches[command]
          PROVE  Switches[command][flag][1] \notin FilterFields \cup SizeFields \cup PathFields
      <3>1. flag \in DOMAIN Table(rows)
        BY <2>1
      <3>2. \E row \in rows : row[1] = flag /\ Table(rows)[flag] = row[2]
        BY <3>1, TableIs, Zenon
      <3>3. PICK row \in rows : Table(rows)[flag] = row[2]
        BY <3>2
      <3> QED
        BY <2>1, <2>4, <3>3
    <2>7. "--" \notin DOMAIN DecodeValues /\ \A flag \in flags : flag \notin DOMAIN DecodeValues
      BY DEF DecodeValues, Table, flags
    <2>8. ValueFlags[command] = DecodeValues
      BY <1>2 DEF ValueFlags
    <2>9. "--" \notin flags
      BY DEF flags
    <2> QED
      BY <1>1, <2>5, <2>6, <2>7, <2>8, <2>9
  <1>3. CASE command = "count"
    BY <1>1, <1>3 DEF Switches, ValueFlags, Table
  <1>4. CASE command = "dump"
    <2> DEFINE rows == {<<"--raw", <<"raw", TRUE>>>>}
               values == {<<"--offset", "offset">>, <<"--length", "length">>,
                          <<"--records", "records">>}
               flags == {"--offset", "--length", "--records"}
    <2>1. Switches[command] = Table(rows)
      BY <1>4 DEF Switches
    <2>2. ValueFlags[command] = Table(values)
      BY <1>4 DEF ValueFlags
    <2>3. {row[1] : row \in rows} = {"--raw"} /\ {row[1] : row \in values} = flags
      OBVIOUS
    <2>4. \A row \in rows : row[2][1] \notin FilterFields \cup SizeFields \cup PathFields
      BY DEF FilterFields, TypeFields, BusFields, AddressFields, SizeFields,
           PathFields
    <2>5. "--raw" \notin flags /\ "--" \notin flags
      OBVIOUS
    <2> HIDE DEF rows, values, flags
    <2>6. DOMAIN Switches[command] = {"--raw"} /\ DOMAIN ValueFlags[command] = flags
      BY <2>1, <2>2, <2>3, TableIs
    <2>7. ASSUME NEW flag \in DOMAIN Switches[command]
          PROVE  Switches[command][flag][1] \notin FilterFields \cup SizeFields \cup PathFields
      <3>1. flag \in DOMAIN Table(rows)
        BY <2>1
      <3>2. \E row \in rows : row[1] = flag /\ Table(rows)[flag] = row[2]
        BY <3>1, TableIs, Zenon
      <3>3. PICK row \in rows : Table(rows)[flag] = row[2]
        BY <3>2
      <3> QED
        BY <2>1, <2>4, <3>3
    <2> QED
      BY <1>1, <2>5, <2>6, <2>7
  <1> QED
    BY <1>2, <1>3, <1>4 DEF Subcommands

\* What the flags at the positions give a field.
FieldValue(field, positions) ==
  IF field \in FilterFields THEN UNION {FilterValuesAt(i) : i \in positions}
                            ELSE ValueAt(LastOf(positions))

ArgsMatch(given, positions) ==
  /\ DOMAIN given = {FieldAt(i) : i \in positions}
  /\ \A field \in DOMAIN given :
       given[field] = FieldValue(field, {i \in positions : FieldAt(i) = field})

PathsMatch(list, positions) ==
  /\ Len(list) = Cardinality(positions)
  /\ \A i \in positions :
       list[Cardinality({j \in positions : j <= i})] = argv[i].text

\* One more flag, behind the others.
LEMMA ArgsTake ==
  ASSUME NEW F \in SUBSET Nat, NEW k \in Nat, \A i \in F : i < k,
         NEW given, ArgsMatch(given, F), NEW value,
         value = IF FieldAt(k) \in FilterFields
                   THEN FilterValuesAt(k)
                          \cup (IF FieldAt(k) \in DOMAIN given THEN given[FieldAt(k)] ELSE {})
                   ELSE ValueAt(k)
  PROVE  ArgsMatch(With(given, FieldAt(k), value), F \cup {k})
  <1> DEFINE f == FieldAt(k)
             b == With(given, f, value)
             P(field) == {i \in F : FieldAt(i) = field}
             Q(field) == {i \in F \cup {k} : FieldAt(i) = field}
  <1>1. /\ DOMAIN b = DOMAIN given \cup {f}
        /\ b[f] = value
        /\ \A field \in DOMAIN given : field # f => b[field] = given[field]
    BY DEF With
  <1>2. DOMAIN b = {FieldAt(i) : i \in F \cup {k}}
    BY <1>1 DEF ArgsMatch
  <1>3. ASSUME NEW field \in DOMAIN b PROVE b[field] = FieldValue(field, Q(field))
    <2>1. CASE field # f
      <3>1. Q(field) = P(field)
        BY <2>1
      <3>2. field \in DOMAIN given /\ b[field] = given[field]
        BY <1>1, <1>3, <2>1
      <3>3. given[field] = FieldValue(field, P(field))
        BY <3>2 DEF ArgsMatch
      <3> QED
        BY <3>1, <3>2, <3>3
    <2>2. CASE field = f
      <3>1. Q(f) = P(f) \cup {k}
        OBVIOUS
      <3>2. CASE f \in FilterFields
        <4>1. UNION {FilterValuesAt(i) : i \in Q(f)}
                = FilterValuesAt(k) \cup UNION {FilterValuesAt(i) : i \in P(f)}
          BY <3>1
        <4>2. CASE f \in DOMAIN given
          <5>1. given[f] = UNION {FilterValuesAt(i) : i \in P(f)}
            BY <3>2, <4>2 DEF ArgsMatch, FieldValue
          <5> QED
            BY <1>1, <2>2, <3>2, <4>1, <4>2, <5>1 DEF FieldValue
        <4>3. CASE f \notin DOMAIN given
          <5>1. P(f) = {}
            BY <4>3 DEF ArgsMatch
          <5> QED
            BY <1>1, <2>2, <3>2, <4>1, <4>3, <5>1 DEF FieldValue
        <4> QED
          BY <4>2, <4>3
      <3>3. CASE f \notin FilterFields
        <4>1. k \in Q(f) /\ \A j \in Q(f) : j <= k
          OBVIOUS
        <4>2. \A q \in Q(f) : (\A h \in Q(f) : h <= q) => q = k
          BY <4>1
        <4>3. LastOf(Q(f)) = k
          BY <4>1, <4>2 DEF LastOf
        <4> QED
          BY <1>1, <2>2, <3>3, <4>3 DEF FieldValue
      <3> QED
        BY <3>2, <3>3
    <2> QED
      BY <2>1, <2>2
  <1> QED
    BY <1>2, <1>3 DEF ArgsMatch

\* One more path, behind the others.
LEMMA PathsTake ==
  ASSUME NEW P, IsFiniteSet(P), P \subseteq Nat, NEW k \in Nat, \A i \in P : i < k,
         NEW S, NEW list \in Seq(S), argv[k].text \in S, PathsMatch(list, P)
  PROVE  PathsMatch(Append(list, argv[k].text), P \cup {k})
  <1> DEFINE n == Len(list)
             t == argv[k].text
             more == Append(list, t)
  <1>1. /\ n \in Nat /\ Len(more) = n + 1 /\ more[n + 1] = t
        /\ \A i \in 1 .. n : more[i] = list[i]
    BY AppendFacts
  <1>2. k \notin P
    OBVIOUS
  <1>3. Cardinality(P) = n
    BY DEF PathsMatch
  <1>4. Cardinality(P \cup {k}) = IF k \in P THEN n ELSE n + 1
    BY <1>3, FS_AddElement
  <1>5. ASSUME NEW i \in P
        PROVE  more[Cardinality({j \in P \cup {k} : j <= i})] = argv[i].text
    <2> DEFINE R == {j \in P : j <= i}
    <2>1. {j \in P \cup {k} : j <= i} = R
      OBVIOUS
    <2>2. R \in SUBSET P /\ i \in R
      OBVIOUS
    <2>3. list[Cardinality(R)] = argv[i].text
      BY DEF PathsMatch
    <2> HIDE DEF R
    <2>4. IsFiniteSet(R) /\ Cardinality(R) <= Cardinality(P)
      BY <2>2, FS_Subset
    <2>5. Cardinality(R) \in Nat /\ Cardinality(R) # 0
      BY <2>2, <2>4, FS_CardinalityType, FS_EmptySet
    <2>6. Cardinality(R) \in 1 .. n
      BY <1>1, <1>3, <2>4, <2>5
    <2> QED
      BY <1>1, <2>1, <2>3, <2>6
  <1>6. {j \in P \cup {k} : j <= k} = P \cup {k}
    <2>1. \A j \in P \cup {k} : j \in Nat /\ j <= k
      OBVIOUS
    <2> QED
      BY <2>1
  <1>7. more[Cardinality({j \in P \cup {k} : j <= k})] = argv[k].text
    BY <1>1, <1>2, <1>4, <1>6
  <1> HIDE DEF more
  <1>8. \A i \in P \cup {k} :
          more[Cardinality({j \in P \cup {k} : j <= i})] = argv[i].text
    BY <1>5, <1>7
  <1> QED
    BY <1>1, <1>2, <1>4, <1>8 DEF PathsMatch, more

\* The positions go with the arguments and the command.
LEMMA PositionsKeep ==
  ASSUME argv' = argv, reading' = reading
  PROVE  /\ CommandPosition' = CommandPosition
         /\ EndPosition' = EndPosition
         /\ FlagPositions' = FlagPositions
         /\ PathPositions' = PathPositions
  <1>1. CommandPosition' = CommandPosition
    BY DEF CommandPosition, IsSeparator, IsValueOf, Bare
  <1>2. EndPosition' = EndPosition
    BY <1>1 DEF EndPosition, IsSeparator, Bare, Consumed
  <1>3. FlagPositions' = FlagPositions
    BY <1>1, <1>2 DEF FlagPositions, IsValueOf, Bare
  <1>4. PathPositions' = PathPositions
    BY <1>1, <1>2 DEF PathPositions, IsValueOf, Bare
  <1> QED
    BY <1>1, <1>2, <1>3, <1>4

\* So does what the flags at them give.
LEMMA ArgsKeep ==
  ASSUME argv' = argv, reading' = reading, NEW given, NEW positions, ArgsMatch(given, positions)
  PROVE  ArgsMatch(given, positions)'
  <1>1. \A i : TextOf(i)' = TextOf(i)
    BY DEF TextOf, Bare
  <1>2. \A i : FieldAt(i)' = FieldAt(i)
    BY DEF FieldAt
  <1>3. \A i : ValueAt(i)' = ValueAt(i)
    BY <1>1, <1>2 DEF ValueAt
  <1>4. \A i : FilterValuesAt(i)' = FilterValuesAt(i)
    BY <1>1, <1>2 DEF FilterValuesAt
  <1>5. \A field, S : FieldValue(field, S)' = FieldValue(field, S)
    BY <1>3, <1>4 DEF FieldValue
  <1>6. {FieldAt(i)' : i \in positions} = {FieldAt(i) : i \in positions}
    BY <1>2
  <1>7. \A field : {i \in positions : FieldAt(i)' = field} = {i \in positions : FieldAt(i) = field}
    BY <1>2
  <1> QED
    BY <1>5, <1>6, <1>7 DEF ArgsMatch

\* And what the paths are.
LEMMA PathsKeep ==
  ASSUME argv' = argv, NEW list, NEW positions, PathsMatch(list, positions)
  PROVE  PathsMatch(list, positions)'
  BY DEF PathsMatch

-----------------------------------------------------------------------------
(* The invariant of the line.                                              *)

\* What may stand for the subcommand: CommandPosition is the first such place.
Candidate(i) ==
  \/ i > 1 /\ IsSeparator(argv[i - 1])
  \/ "dash" \notin argv[i].marks /\ ~IsValueOf(DOMAIN GlobalValues, i)

\* What the cursor has passed.
Below(positions, n) == {i \in positions : i < n}
Passed(positions) == Below(positions, at)

\* Until the subcommand is found, nothing stands for it.
GlobalsInv ==
  reading = "globals" /\ verdict = "reading" =>
    /\ at <= Consumed
    /\ \A i \in 1 .. at - 1 : ~Candidate(i) /\ ~IsSeparator(argv[i])
    /\ ~IsValueOf(DOMAIN GlobalValues, at)
    /\ ~ended /\ args = Nothing /\ paths = <<>>

\* Behind it, the flags and the paths read so far are those that the cursor
\* has passed, and the cursor is not on the value of a flag.
CommandInv ==
  reading \in Subcommands /\ verdict \in {"reading", "parsed"} =>
    /\ CommandPosition \in Nat \ {0} /\ CommandPosition < at /\ at <= Consumed
    /\ (ended => EndPosition < at)
    /\ (~ended => at <= EndPosition /\ ~IsValueOf(DOMAIN ValueFlags[reading], at))
    /\ ArgsMatch(args, Passed(FlagPositions))
    /\ paths \in Seq({argv[i].text : i \in DOMAIN argv})
    /\ PathsMatch(paths, Passed(PathPositions))

\* An accepted line has been read to its end.
LineInv ==
  /\ reading \in {"globals"} \cup Subcommands
  /\ (verdict = "parsed" => reading \in Subcommands /\ at = Consumed)
  /\ GlobalsInv
  /\ CommandInv

\* The names of the parsers' flags are marked as such, and a separator looks
\* like an option.
LEMMA MarkFacts ==
  ASSUME ArgvInv, NEW i \in DOMAIN argv
  PROVE  /\ argv[i].name \in FlagNames => "dash" \in argv[i].marks
         /\ argv[i].name \in FlagNames /\ Bare(argv[i]) => LooksLikeOption(argv[i])
         /\ argv[i].name \in Subcommands => "dash" \notin argv[i].marks
         /\ IsSeparator(argv[i]) => LooksLikeOption(argv[i]) /\ argv[i].name = "--"
         /\ LooksLikeOption(argv[i]) => "dash" \in argv[i].marks
  <1>1. WellMarked(argv[i])
    BY DEF ArgvInv
  <1>2. "--" \in FlagNames
    BY DEF FlagNames
  <1> QED
    BY <1>1, <1>2 DEF WellMarked, IsSeparator, LooksLikeOption

\* The names that take a value, in the globals and in the commands.
LEMMA NameFacts ==
  ASSUME NEW command \in Subcommands
  PROVE  /\ DOMAIN GlobalValues \subseteq FlagNames /\ "--" \notin DOMAIN GlobalValues
         /\ "--no-irig-day-advisory" \in FlagNames \ DOMAIN GlobalValues
         /\ DOMAIN ValueFlags[command] \subseteq FlagNames
  <1>1. DOMAIN GlobalValues \subseteq FlagNames /\ "--no-irig-day-advisory" \in FlagNames
    BY DEF FlagNames
  <1>2. "--" \notin DOMAIN GlobalValues /\ "--no-irig-day-advisory" \notin DOMAIN GlobalValues
    BY DEF GlobalValues, Table
  <1> QED
    BY <1>1, <1>2, TableFacts

\* Behind a flag and its value no value is due, and the value is no separator.
LEMMA AfterValue ==
  ASSUME ArgvInv, NEW i \in DOMAIN argv, HasValue(i), NEW flags, flags \subseteq FlagNames
  PROVE  /\ After(i) \in Nat /\ i < After(i) /\ After(i) <= Consumed
         /\ ~IsValueOf(flags, After(i))
         /\ Bare(argv[i]) => /\ After(i) = i + 2 /\ i + 1 \in DOMAIN argv
                             /\ ~LooksLikeOption(argv[i + 1]) /\ ~IsSeparator(argv[i + 1])
         /\ ~Bare(argv[i]) => After(i) = i + 1
  <1>1. i \in Nat \ {0} /\ i <= Len(argv) /\ Len(argv) \in Nat /\ DOMAIN argv = 1 .. Len(argv)
    BY DEF ArgvInv
  <1>2. CASE ~Bare(argv[i])
    <2>1. After(i) = i + 1
      BY <1>2 DEF After
    <2>2. ~IsValueOf(flags, i + 1)
      BY <1>1, <1>2 DEF IsValueOf
    <2> QED
      BY <1>1, <1>2, <2>1, <2>2 DEF Consumed
  <1>3. CASE Bare(argv[i])
    <2>1. After(i) = i + 2 /\ i < Len(argv) /\ ~LooksLikeOption(argv[i + 1])
      BY <1>3 DEF After, HasValue
    <2>2. i + 1 \in DOMAIN argv
      BY <1>1, <2>1
    <2>3. ~IsSeparator(argv[i + 1]) /\ ~(argv[i + 1].name \in flags /\ Bare(argv[i + 1]))
      BY <2>1, <2>2, MarkFacts
    <2>4. ~IsValueOf(flags, i + 2)
      BY <1>1, <2>3 DEF IsValueOf
    <2> QED
      BY <1>1, <1>3, <2>1, <2>2, <2>3, <2>4 DEF Consumed
  <1> QED
    BY <1>2, <1>3

\* What is passed when the cursor moves from one place over no other one.
LEMMA Pass ==
  ASSUME NEW S \in SUBSET Nat, NEW n \in Nat, NEW m \in Nat, n < m,
         \A j \in n + 1 .. m - 1 : j \notin S
  PROVE  Below(S, m) = IF n \in S THEN Below(S, n) \cup {n} ELSE Below(S, n)
  <1>1. \A i \in S : i < m <=> i < n \/ i = n
    OBVIOUS
  <1> QED
    BY <1>1 DEF Below

\* Where the options end.
LEMMA EndFacts ==
  ASSUME ArgvInv, CommandPosition \in 1 .. Len(argv)
  PROVE  /\ EndPosition \in CommandPosition + 1 .. Consumed
         /\ EndPosition <= Len(argv) => IsSeparator(argv[EndPosition])
         /\ \A i \in CommandPosition + 1 .. EndPosition - 1 : ~IsSeparator(argv[i])
  <1> DEFINE S == {i \in DOMAIN argv : i > CommandPosition /\ IsSeparator(argv[i])}
                    \cup {Consumed}
  <1>1. /\ Len(argv) \in Nat /\ DOMAIN argv = 1 .. Len(argv) /\ Consumed = Len(argv) + 1
        /\ CommandPosition \in Nat
    BY DEF ArgvInv, Consumed
  <1>2. S \in SUBSET Nat /\ S # {} /\ \A i \in S : i \in CommandPosition + 1 .. Consumed
    BY <1>1
  <1>3. EndPosition = Least(S)
    BY DEF EndPosition
  <1> HIDE DEF S
  <1>4. EndPosition \in S /\ \A y \in S : EndPosition <= y
    BY <1>2, <1>3, LeastPlace
  <1>5. EndPosition \in CommandPosition + 1 .. Consumed
    BY <1>2, <1>4
  <1>6. EndPosition <= Len(argv) => IsSeparator(argv[EndPosition])
    BY <1>1, <1>4 DEF S
  <1>7. ASSUME NEW i \in CommandPosition + 1 .. EndPosition - 1, IsSeparator(argv[i])
        PROVE  FALSE
    <2>1. i \in S
      BY <1>1, <1>5, <1>7 DEF S
    <2> QED
      BY <1>1, <1>4, <1>5, <2>1
  <1> QED
    BY <1>5, <1>6, <1>7

\* The places of the flags and of the paths.
LEMMA PlaceFacts ==
  ASSUME ArgvInv, CommandPosition \in 1 .. Len(argv)
  PROVE  /\ FlagPositions \in SUBSET Nat /\ FlagPositions \subseteq 1 .. Len(argv)
         /\ PathPositions \in SUBSET Nat /\ PathPositions \subseteq 1 .. Len(argv)
         /\ \A T \in SUBSET PathPositions : IsFiniteSet(T)
  <1>1. Len(argv) \in Nat /\ EndPosition \in CommandPosition + 1 .. Len(argv) + 1
    BY EndFacts DEF ArgvInv, Consumed
  <1>2. FlagPositions \subseteq 1 .. Len(argv)
    BY <1>1 DEF FlagPositions
  <1>3. PathPositions \subseteq 1 .. Len(argv)
    BY <1>1 DEF PathPositions
  <1>4. IsFiniteSet(1 .. Len(argv))
    BY <1>1, FS_Interval
  <1>5. ASSUME NEW T \in SUBSET PathPositions PROVE IsFiniteSet(T)
    BY <1>3, <1>4, FS_Subset
  <1> QED
    BY <1>1, <1>2, <1>3, <1>5

-----------------------------------------------------------------------------
(* The steps of the parsers.                                               *)

\* The places before a later one.
LEMMA PlacesBefore ==
  ASSUME NEW n \in Nat, NEW m \in Nat, n < m
  PROVE  \A i \in 1 .. m - 1 : i \in 1 .. n - 1 \/ i = n \/ i \in n + 1 .. m - 1
  OBVIOUS

\* No global flag, and no value of one, stands where the subcommand does.
LEMMA GlobalsKeep ==
  ASSUME ArgvInv, GlobalsInv, TakeGlobal \/ DeclineAdvisory
  PROVE  GlobalsInv'
  <1>1. /\ reading = "globals" /\ verdict = "reading" /\ at \in DOMAIN argv
        /\ Token.name \in FlagNames /\ ~IsSeparator(Token) /\ Token = argv[at]
        /\ argv' = argv /\ UNCHANGED <<ended, args, paths>>
    <2>1. /\ reading = "globals" /\ verdict = "reading" /\ at \in DOMAIN argv
          /\ argv' = argv /\ UNCHANGED <<ended, args, paths>>
      <3>1. AtGlobal /\ argv' = argv /\ UNCHANGED <<ended, args, paths>>
        BY DEF TakeGlobal, DeclineAdvisory, Proceed
      <3> QED
        BY <3>1 DEF AtGlobal, InGlobals, ArgvInv
    <2>2. /\ DOMAIN GlobalValues \subseteq FlagNames /\ "--" \notin DOMAIN GlobalValues
          /\ "--no-irig-day-advisory" \in FlagNames
      BY NameFacts DEF Subcommands
    <2>3. Token.name \in DOMAIN GlobalValues \/ Token.name = "--no-irig-day-advisory"
      BY DEF TakeGlobal, DeclineAdvisory
    <2>4. Token.name \in FlagNames /\ Token.name # "--"
      BY <2>2, <2>3
    <2> QED
      BY <2>1, <2>4 DEF Token, IsSeparator
  <1>2. /\ Len(argv) \in Nat /\ DOMAIN argv = 1 .. Len(argv) /\ at \in Nat \ {0}
        /\ Consumed = Len(argv) + 1
    BY DEF ArgvInv, Consumed
  <1>3. /\ \A i \in 1 .. at - 1 : ~Candidate(i) /\ ~IsSeparator(argv[i])
        /\ ~ended /\ args = Nothing /\ paths = <<>>
    BY <1>1 DEF GlobalsInv
  <1>4. ~Candidate(at)
    <2>1. "dash" \in argv[at].marks
      BY <1>1, MarkFacts
    <2>2. at > 1 => ~IsSeparator(argv[at - 1])
      BY <1>2, <1>3
    <2> QED
      BY <2>1, <2>2 DEF Candidate
  <1>5. /\ at' \in Nat /\ at < at' /\ at' <= Consumed
        /\ ~IsValueOf(DOMAIN GlobalValues, at')
        /\ \A i \in at + 1 .. at' - 1 : ~Candidate(i) /\ ~IsSeparator(argv[i])
    <2>1. CASE TakeGlobal
      <3>1. Token.name \in DOMAIN GlobalValues /\ HasValue(at) /\ at' = After(at)
        BY <2>1 DEF TakeGlobal, Proceed
      <3>2. /\ After(at) \in Nat /\ at < After(at) /\ After(at) <= Consumed
            /\ ~IsValueOf(DOMAIN GlobalValues, After(at))
            /\ Bare(argv[at]) => After(at) = at + 2 /\ ~IsSeparator(argv[at + 1])
            /\ ~Bare(argv[at]) => After(at) = at + 1
        BY <1>1, <3>1, NameFacts, AfterValue DEF Subcommands
      <3>3. CASE Bare(argv[at])
        <4>1. IsValueOf(DOMAIN GlobalValues, at + 1)
          BY <1>1, <1>2, <3>1, <3>3 DEF IsValueOf
        <4>2. ~Candidate(at + 1)
          BY <1>1, <1>2, <4>1 DEF Candidate
        <4>3. \A i \in at + 1 .. at' - 1 : i = at + 1
          BY <1>2, <3>1, <3>2, <3>3
        <4> QED
          BY <3>1, <3>2, <3>3, <4>2, <4>3
      <3>4. CASE ~Bare(argv[at])
        <4>1. \A i \in at + 1 .. at' - 1 : FALSE
          BY <1>2, <3>1, <3>2, <3>4
        <4> QED
          BY <3>1, <3>2, <4>1
      <3> QED
        BY <3>3, <3>4
    <2>2. CASE DeclineAdvisory
      <3>1. Token.name = "--no-irig-day-advisory" /\ at' = at + 1
        BY <2>2 DEF DeclineAdvisory, Proceed
      <3>2. Token.name \notin DOMAIN GlobalValues
        BY <3>1, NameFacts DEF Subcommands
      <3>3. ~IsValueOf(DOMAIN GlobalValues, at + 1)
        BY <1>1, <1>2, <3>2 DEF IsValueOf
      <3> QED
        BY <1>1, <1>2, <3>1, <3>3
    <2> QED
      BY <2>1, <2>2, <1>1 DEF TakeGlobal, DeclineAdvisory
  <1>6. \A i \in 1 .. at' - 1 : ~Candidate(i) /\ ~IsSeparator(argv[i])
    <2>1. at' \in Nat /\ at < at' /\ at \in Nat
      BY <1>2, <1>5
    <2>2. \A i \in 1 .. at' - 1 : i \in 1 .. at - 1 \/ i = at \/ i \in at + 1 .. at' - 1
      BY <2>1, PlacesBefore
    <2> QED
      BY <1>1, <1>3, <1>4, <1>5, <2>2
  <1>7. \A i : /\ Candidate(i)' <=> Candidate(i)
               /\ IsSeparator(argv[i])' <=> IsSeparator(argv[i])
    BY <1>1 DEF Candidate, IsSeparator, IsValueOf, Bare
  <1>8. ~IsValueOf(DOMAIN GlobalValues, at)'
    BY <1>1, <1>5 DEF IsValueOf, Bare
  <1>9. Consumed' = Consumed /\ Nothing' = Nothing
    BY <1>1 DEF Consumed, Nothing
  <1> QED
    BY <1>1, <1>3, <1>5, <1>6, <1>7, <1>8, <1>9 DEF GlobalsInv

\* The token that is read as the subcommand is the first one that can be it.
LEMMA CommandIsFound ==
  ASSUME ArgvInv, GlobalsInv, TakeCommand
  PROVE  CommandPosition = CommandAt /\ CommandAt \in DOMAIN argv /\ CommandAt \in {at, at + 1}
  <1>1. /\ reading = "globals" /\ verdict = "reading" /\ at \in DOMAIN argv /\ Token = argv[at]
        /\ CommandAt <= Len(argv) /\ argv[CommandAt].name \in Subcommands
    BY DEF TakeCommand, ReachesCommand, AtGlobal, InGlobals, ArgvInv, Token
  <1>2. Len(argv) \in Nat /\ DOMAIN argv = 1 .. Len(argv) /\ at \in Nat \ {0}
    BY DEF ArgvInv
  <1>3. \A i \in 1 .. at - 1 : ~Candidate(i) /\ ~IsSeparator(argv[i])
    BY <1>1 DEF GlobalsInv
  <1> DEFINE S == {i \in DOMAIN argv : Candidate(i)}
  <1>4. CommandPosition = Least(S)
    BY DEF CommandPosition, Candidate
  <1>5. S \in SUBSET Nat
    BY <1>2
  <1>6. CASE IsSeparator(argv[at])
    <2>1. CommandAt = at + 1
      BY <1>1, <1>6 DEF CommandAt
    <2>2. Candidate(at + 1)
      BY <1>2, <1>6 DEF Candidate
    <2>3. ~Candidate(at)
      <3>1. "dash" \in argv[at].marks
        BY <1>1, <1>6, MarkFacts
      <3>2. at > 1 => ~IsSeparator(argv[at - 1])
        BY <1>2, <1>3
      <3> QED
        BY <3>1, <3>2 DEF Candidate
    <2>4. at + 1 \in S /\ \A i \in S : at + 1 <= i
      BY <1>1, <1>2, <1>3, <2>1, <2>2, <2>3
    <2> HIDE DEF S
    <2>5. Least(S) = at + 1
      BY <1>5, <2>4, LeastIs
    <2> QED
      BY <1>1, <1>2, <1>4, <2>1, <2>5
  <1>7. CASE ~IsSeparator(argv[at])
    <2>1. CommandAt = at
      BY <1>1, <1>7 DEF CommandAt
    <2>2. "dash" \notin argv[at].marks
      BY <1>1, <2>1, MarkFacts
    <2>3. Candidate(at)
      BY <1>1, <2>2 DEF Candidate, GlobalsInv
    <2>4. at \in S /\ \A i \in S : at <= i
      BY <1>1, <1>2, <1>3, <2>3
    <2> HIDE DEF S
    <2>5. Least(S) = at
      BY <1>5, <2>4, LeastIs
    <2> QED
      BY <1>1, <1>4, <2>1, <2>5
  <1> QED
    BY <1>6, <1>7

\* Behind the subcommand nothing has been read yet.
LEMMA CommandStarts ==
  ASSUME ArgvInv, GlobalsInv, TakeCommand
  PROVE  CommandInv'
  <1>1. /\ InGlobals /\ argv' = argv /\ at' = CommandAt + 1 /\ reading' = argv[CommandAt].name
        /\ reading' \in Subcommands /\ UNCHANGED <<ended, args, paths>>
    BY DEF TakeCommand, ReachesCommand, AtGlobal, Proceed
  <1>2. ~ended /\ args = Nothing /\ paths = <<>>
    BY <1>1 DEF GlobalsInv, InGlobals
  <1>3. CommandPosition = CommandAt /\ CommandAt \in DOMAIN argv
    BY CommandIsFound
  <1>4. /\ Len(argv) \in Nat /\ DOMAIN argv = 1 .. Len(argv) /\ Consumed = Len(argv) + 1
        /\ CommandPosition \in 1 .. Len(argv)
    BY <1>3 DEF ArgvInv, Consumed
  <1>5. EndPosition \in CommandPosition + 1 .. Consumed
    BY <1>4, EndFacts
  <1>6. CommandPosition' = CommandPosition
    BY <1>1 DEF CommandPosition, IsSeparator, IsValueOf, Bare
  <1>7. EndPosition' = EndPosition /\ Consumed' = Consumed
    BY <1>1, <1>6 DEF EndPosition, IsSeparator, Bare, Consumed
  <1>8. Passed(FlagPositions)' = {} /\ Passed(PathPositions)' = {}
    <2>1. \A i \in FlagPositions' \cup PathPositions' : i > CommandPosition /\ i \in Nat
      BY <1>1, <1>4, <1>5, <1>6, <1>7 DEF FlagPositions, PathPositions
    <2>2. \A i \in FlagPositions' \cup PathPositions' : ~(i < at')
      BY <1>1, <1>3, <1>4, <2>1
    <2> QED
      BY <2>2 DEF Passed, Below
  <1>9. ~IsValueOf(DOMAIN ValueFlags[reading], at)'
    <2>1. argv[CommandAt].name \notin FlagNames
      BY <1>1, <1>3, MarkFacts
    <2>2. DOMAIN ValueFlags[reading'] \subseteq FlagNames
      BY <1>1, NameFacts
    <2>3. argv'[at' - 1] = argv[CommandAt]
      BY <1>1, <1>3, <1>4
    <2> QED
      BY <2>1, <2>2, <2>3 DEF IsValueOf
  <1>10. ArgsMatch(args, Passed(FlagPositions))'
    <2>1. DOMAIN args' = {}
      BY <1>1, <1>2 DEF Nothing
    <2> QED
      BY <1>8, <2>1 DEF ArgsMatch
  <1>11. PathsMatch(paths, Passed(PathPositions))'
    <2>1. Len(<<>>) = 0 /\ Cardinality({}) = 0
      BY FS_EmptySet
    <2> QED
      BY <1>1, <1>2, <1>8, <2>1 DEF PathsMatch
  <1>12. paths' \in Seq({argv'[i].text : i \in DOMAIN argv'})
    BY <1>1, <1>2
  <1>13. /\ CommandPosition' \in Nat \ {0} /\ CommandPosition' < at'
         /\ at' <= Consumed' /\ at' <= EndPosition'
    BY <1>1, <1>3, <1>4, <1>5, <1>6, <1>7
  <1> QED
    BY <1>1, <1>2, <1>9, <1>10, <1>11, <1>12, <1>13 DEF CommandInv

\* A token of the command that is no separator stands before the end of the
\* options and is no value of the flag before it.
LEMMA BeforeTheEnd ==
  ASSUME ArgvInv, CommandInv, InCommand, at <= Len(argv), ~ended, ~IsSeparator(Token)
  PROVE  /\ at \in CommandPosition + 1 .. EndPosition - 1
         /\ ~IsValueOf(DOMAIN ValueFlags[reading], at)
  <1>1. /\ CommandPosition \in Nat \ {0} /\ CommandPosition < at /\ at <= EndPosition
        /\ ~IsValueOf(DOMAIN ValueFlags[reading], at)
    BY DEF CommandInv, InCommand
  <1>2. at \in 1 .. Len(argv) /\ Len(argv) \in Nat
    BY DEF ArgvInv
  <1>3. CommandPosition \in 1 .. Len(argv)
    BY <1>1, <1>2
  <1>4. EndPosition \in Nat /\ (EndPosition <= Len(argv) => IsSeparator(argv[EndPosition]))
    BY <1>2, <1>3, EndFacts DEF Consumed
  <1>5. at # EndPosition
    BY <1>2, <1>4 DEF Token
  <1> QED
    BY <1>1, <1>2, <1>4, <1>5

\* What the cursor passes when it moves on in the command.
LEMMA PassedNext ==
  ASSUME ArgvInv, CommandInv, InCommand, at <= Len(argv), argv' = argv, reading' = reading,
         at' \in Nat, at < at',
         \A j \in at + 1 .. at' - 1 : j \notin FlagPositions \cup PathPositions
  PROVE  /\ Passed(FlagPositions)'
              = IF at \in FlagPositions THEN Passed(FlagPositions) \cup {at}
                                        ELSE Passed(FlagPositions)
         /\ Passed(PathPositions)'
              = IF at \in PathPositions THEN Passed(PathPositions) \cup {at}
                                        ELSE Passed(PathPositions)
  <1>1. /\ at \in Nat /\ CommandPosition \in 1 .. Len(argv)
    <2>1. CommandPosition \in Nat \ {0} /\ CommandPosition < at
      BY DEF CommandInv, InCommand
    <2> QED
      BY <2>1 DEF ArgvInv
  <1>2. FlagPositions \in SUBSET Nat /\ PathPositions \in SUBSET Nat
    BY <1>1, PlaceFacts
  <1>3. FlagPositions' = FlagPositions /\ PathPositions' = PathPositions
    BY PositionsKeep
  <1>4. /\ Passed(FlagPositions)' = Below(FlagPositions, at')
        /\ Passed(PathPositions)' = Below(PathPositions, at')
    BY <1>3 DEF Passed, Below
  <1>5. /\ \A j \in at + 1 .. at' - 1 : j \notin FlagPositions
        /\ \A j \in at + 1 .. at' - 1 : j \notin PathPositions
    OBVIOUS
  <1>6. Below(FlagPositions, at')
          = IF at \in FlagPositions THEN Below(FlagPositions, at) \cup {at}
                                    ELSE Below(FlagPositions, at)
    BY <1>1, <1>2, <1>5, Pass
  <1>7. Below(PathPositions, at')
          = IF at \in PathPositions THEN Below(PathPositions, at) \cup {at}
                                    ELSE Below(PathPositions, at)
    BY <1>1, <1>2, <1>5, Pass
  <1> QED
    BY <1>4, <1>6, <1>7 DEF Passed

\* A step of the command's parser, in terms of the positions before it.
LEMMA CommandMoves ==
  ASSUME ArgvInv, CommandInv, InCommand, at <= Len(argv), argv' = argv, reading' = reading,
         at' \in Nat, at < at', at' <= Consumed,
         ended' => EndPosition < at',
         ~ended' => at' <= EndPosition /\ ~IsValueOf(DOMAIN ValueFlags[reading], at'),
         ArgsMatch(args', Passed(FlagPositions)'),
         paths' \in Seq({argv[i].text : i \in DOMAIN argv}),
         PathsMatch(paths', Passed(PathPositions)')
  PROVE  CommandInv'
  <1>1. CommandPosition' = CommandPosition /\ EndPosition' = EndPosition /\ Consumed' = Consumed
    BY PositionsKeep DEF Consumed
  <1>2. CommandPosition' \in Nat \ {0} /\ CommandPosition' < at'
    <2>1. CommandPosition \in Nat \ {0} /\ CommandPosition < at /\ at \in Nat
      BY DEF CommandInv, InCommand, ArgvInv
    <2> QED
      BY <1>1, <2>1
  <1>3. ArgsMatch(args, Passed(FlagPositions))'
    BY ArgsKeep
  <1>4. PathsMatch(paths, Passed(PathPositions))'
    BY PathsKeep
  <1>5. ~ended' => ~IsValueOf(DOMAIN ValueFlags[reading], at)'
    BY DEF IsValueOf, Bare
  <1>6. paths' \in Seq({argv'[i].text : i \in DOMAIN argv'})
    OBVIOUS
  <1> QED
    BY <1>1, <1>2, <1>3, <1>4, <1>5, <1>6 DEF CommandInv

\* Where the cursor stands, and what it has passed.
LEMMA CommandAtPlace ==
  ASSUME ArgvInv, CommandInv, InCommand, at <= Len(argv)
  PROVE  /\ at \in Nat \ {0} /\ at \in DOMAIN argv /\ Token = argv[at]
         /\ Len(argv) \in Nat /\ Consumed = Len(argv) + 1 /\ at + 1 <= Consumed
         /\ CommandPosition \in 1 .. Len(argv) /\ CommandPosition < at
         /\ EndPosition \in CommandPosition + 1 .. Consumed
         /\ ArgsMatch(args, Passed(FlagPositions))
         /\ paths \in Seq({argv[i].text : i \in DOMAIN argv})
         /\ PathsMatch(paths, Passed(PathPositions))
         /\ Passed(FlagPositions) \in SUBSET Nat /\ \A i \in Passed(FlagPositions) : i < at
         /\ Passed(PathPositions) \in SUBSET Nat /\ \A i \in Passed(PathPositions) : i < at
         /\ IsFiniteSet(Passed(PathPositions))
  <1>1. at \in Nat \ {0} /\ at \in DOMAIN argv /\ Len(argv) \in Nat /\ Consumed = Len(argv) + 1
    BY DEF ArgvInv, Consumed
  <1>2. /\ CommandPosition \in Nat \ {0} /\ CommandPosition < at
        /\ ArgsMatch(args, Passed(FlagPositions))
        /\ paths \in Seq({argv[i].text : i \in DOMAIN argv})
        /\ PathsMatch(paths, Passed(PathPositions))
    BY DEF CommandInv, InCommand
  <1>3. CommandPosition \in 1 .. Len(argv) /\ CommandPosition < at
    BY <1>1, <1>2
  <1>4. EndPosition \in CommandPosition + 1 .. Consumed
    BY <1>3, EndFacts
  <1>5. /\ FlagPositions \in SUBSET Nat /\ PathPositions \in SUBSET Nat
        /\ \A T \in SUBSET PathPositions : IsFiniteSet(T)
    BY <1>3, PlaceFacts
  <1>6. /\ Passed(FlagPositions) \in SUBSET Nat /\ \A i \in Passed(FlagPositions) : i < at
        /\ Passed(PathPositions) \in SUBSET Nat /\ \A i \in Passed(PathPositions) : i < at
        /\ Passed(PathPositions) \in SUBSET PathPositions
    BY <1>5 DEF Passed, Below
  <1> QED
    BY <1>1, <1>2, <1>3, <1>4, <1>5, <1>6 DEF Token

\* The separator is where the options end.
LEMMA OptionsEnd ==
  ASSUME ArgvInv, CommandInv, EndOptions
  PROVE  CommandInv'
  <1>1. /\ InCommand /\ at <= Len(argv) /\ ~ended /\ IsSeparator(argv[at]) /\ ended' = TRUE
        /\ argv' = argv /\ reading' = reading /\ at' = at + 1 /\ args' = args /\ paths' = paths
    BY DEF EndOptions, AtFlag, Proceed, Token
  <1>2. /\ at \in Nat \ {0} /\ CommandPosition \in 1 .. Len(argv) /\ CommandPosition < at
        /\ EndPosition \in CommandPosition + 1 .. Consumed /\ at + 1 <= Consumed
        /\ ArgsMatch(args, Passed(FlagPositions))
        /\ paths \in Seq({argv[i].text : i \in DOMAIN argv})
        /\ PathsMatch(paths, Passed(PathPositions))
    BY <1>1, CommandAtPlace
  <1>3. at <= EndPosition
    BY <1>1 DEF CommandInv, InCommand
  <1>4. \A i \in CommandPosition + 1 .. EndPosition - 1 : ~IsSeparator(argv[i])
    BY <1>2, EndFacts
  <1>5. at = EndPosition
    BY <1>1, <1>2, <1>3, <1>4
  <1>6. at \notin FlagPositions /\ at \notin PathPositions
    BY <1>2, <1>5 DEF FlagPositions, PathPositions
  <1>7. /\ Passed(FlagPositions)' = Passed(FlagPositions)
        /\ Passed(PathPositions)' = Passed(PathPositions)
    <2>1. \A j \in at + 1 .. at' - 1 : j \notin FlagPositions \cup PathPositions
      BY <1>1, <1>2
    <2> QED
      BY <1>1, <1>2, <1>6, <2>1, PassedNext
  <1>8. at' \in Nat /\ at < at' /\ at' <= Consumed /\ EndPosition < at'
    BY <1>1, <1>2, <1>5
  <1> QED
    BY <1>1, <1>2, <1>7, <1>8, CommandMoves

\* A path is one of the paths' positions, and no flag's.
LEMMA PathIsTaken ==
  ASSUME ArgvInv, CommandInv, TakePath
  PROVE  CommandInv'
  <1>1. /\ InCommand /\ at <= Len(argv) /\ (ended \/ "dash" \notin argv[at].marks)
        /\ argv' = argv /\ reading' = reading /\ at' = at + 1 /\ args' = args
        /\ ended' = ended /\ paths' = Append(paths, argv[at].text)
    BY DEF TakePath, AtPath, Proceed, Token
  <1>2. /\ at \in Nat \ {0} /\ at \in DOMAIN argv /\ Token = argv[at]
        /\ CommandPosition \in 1 .. Len(argv) /\ CommandPosition < at
        /\ EndPosition \in CommandPosition + 1 .. Consumed /\ at + 1 <= Consumed
        /\ Len(argv) \in Nat /\ Consumed = Len(argv) + 1
    BY <1>1, CommandAtPlace
  <1>3. /\ ArgsMatch(args, Passed(FlagPositions))
        /\ paths \in Seq({argv[i].text : i \in DOMAIN argv})
        /\ PathsMatch(paths, Passed(PathPositions))
        /\ Passed(PathPositions) \in SUBSET Nat /\ \A i \in Passed(PathPositions) : i < at
        /\ IsFiniteSet(Passed(PathPositions))
    BY <1>1, CommandAtPlace
  <1>4. /\ at \in PathPositions /\ at \notin FlagPositions
        /\ (ended => EndPosition < at + 1)
        /\ (~ended => at + 1 <= EndPosition /\ ~IsValueOf(DOMAIN ValueFlags[reading], at + 1))
    <2>1. CASE ended
      <3>1. EndPosition < at
        BY <1>1, <2>1 DEF CommandInv, InCommand
      <3>2. at \in PathPositions /\ at \notin FlagPositions
        BY <1>1, <1>2, <3>1 DEF PathPositions, FlagPositions
      <3> QED
        BY <1>2, <2>1, <3>1, <3>2
    <2>2. CASE ~ended
      <3>1. "dash" \notin argv[at].marks
        BY <1>1, <2>2
      <3>2. argv[at].name \notin FlagNames /\ ~IsSeparator(argv[at])
        BY <1>2, <3>1, MarkFacts
      <3>3. /\ at \in CommandPosition + 1 .. EndPosition - 1
            /\ ~IsValueOf(DOMAIN ValueFlags[reading], at)
        BY <1>1, <1>2, <2>2, <3>2, BeforeTheEnd
      <3>4. at \in PathPositions /\ at \notin FlagPositions
        BY <3>1, <3>3 DEF PathPositions, FlagPositions
      <3>5. ~IsValueOf(DOMAIN ValueFlags[reading], at + 1)
        <4>1. DOMAIN ValueFlags[reading] \subseteq FlagNames
          BY <1>1, NameFacts DEF InCommand
        <4> QED
          BY <1>2, <3>2, <4>1 DEF IsValueOf
      <3> QED
        BY <1>2, <2>2, <3>3, <3>4, <3>5
    <2> QED
      BY <2>1, <2>2
  <1>5. /\ Passed(FlagPositions)' = Passed(FlagPositions)
        /\ Passed(PathPositions)' = Passed(PathPositions) \cup {at}
    <2>1. \A j \in at + 1 .. at' - 1 : j \notin FlagPositions \cup PathPositions
      BY <1>1, <1>2
    <2> QED
      BY <1>1, <1>2, <1>4, <2>1, PassedNext
  <1>6. PathsMatch(Append(paths, argv[at].text), Passed(PathPositions) \cup {at})
    <2> DEFINE texts == {argv[i].text : i \in DOMAIN argv}
    <2>1. argv[at].text \in texts
      BY <1>2
    <2> HIDE DEF texts
    <2> QED
      BY <1>2, <1>3, <2>1, PathsTake DEF texts
  <1>7. Append(paths, argv[at].text) \in Seq({argv[i].text : i \in DOMAIN argv})
    BY <1>2, <1>3
  <1> QED
    BY <1>1, <1>2, <1>3, <1>4, <1>5, <1>6, <1>7, CommandMoves

\* A flag of the command is one of the flags' positions, and no path's.
LEMMA FlagPlace ==
  ASSUME ArgvInv, CommandInv, AtFlag, Token.name \in FlagNames, ~IsSeparator(Token)
  PROVE  /\ at \in CommandPosition + 1 .. EndPosition - 1
         /\ at \in FlagPositions /\ at \notin PathPositions
  <1>1. InCommand /\ at <= Len(argv) /\ ~ended
    BY DEF AtFlag
  <1>2. /\ at \in DOMAIN argv /\ Token = argv[at] /\ at \in Nat
        /\ CommandPosition \in 1 .. Len(argv) /\ Len(argv) \in Nat
        /\ EndPosition \in CommandPosition + 1 .. Consumed /\ Consumed = Len(argv) + 1
    BY <1>1, CommandAtPlace
  <1>3. "dash" \in argv[at].marks
    BY <1>2, MarkFacts
  <1>4. /\ at \in CommandPosition + 1 .. EndPosition - 1
        /\ ~IsValueOf(DOMAIN ValueFlags[reading], at)
    BY <1>1, BeforeTheEnd
  <1> QED
    BY <1>2, <1>3, <1>4 DEF FlagPositions, PathPositions

\* A switch sets its field.
LEMMA SwitchIsSet ==
  ASSUME ArgvInv, CommandInv, SetSwitch
  PROVE  CommandInv'
  <1>1. /\ AtFlag /\ InCommand /\ at <= Len(argv) /\ ~ended /\ reading \in Subcommands
        /\ argv[at].name \in DOMAIN Switches[reading] /\ Bare(argv[at])
        /\ argv' = argv /\ reading' = reading /\ at' = at + 1 /\ ended' = ended /\ paths' = paths
        /\ args' = With(args, Switches[reading][argv[at].name][1],
                              Switches[reading][argv[at].name][2])
    BY DEF SetSwitch, SetsSwitch, AtFlag, InCommand, Proceed, Token
  <1>2. /\ at \in Nat \ {0} /\ at \in DOMAIN argv /\ Token = argv[at]
        /\ CommandPosition \in 1 .. Len(argv)
        /\ EndPosition \in CommandPosition + 1 .. Consumed /\ at + 1 <= Consumed
    BY <1>1, CommandAtPlace
  <1>3. /\ ArgsMatch(args, Passed(FlagPositions))
        /\ Passed(FlagPositions) \in SUBSET Nat /\ \A i \in Passed(FlagPositions) : i < at
        /\ paths \in Seq({argv[i].text : i \in DOMAIN argv})
        /\ PathsMatch(paths, Passed(PathPositions))
    BY <1>1, CommandAtPlace
  <1>4. /\ argv[at].name \in FlagNames /\ argv[at].name # "--"
        /\ argv[at].name \notin DOMAIN ValueFlags[reading]
        /\ Switches[reading][argv[at].name][1] \notin FilterFields
    BY <1>1, TableFacts
  <1>5. /\ at \in CommandPosition + 1 .. EndPosition - 1
        /\ at \in FlagPositions /\ at \notin PathPositions
    BY <1>1, <1>2, <1>4, FlagPlace DEF IsSeparator
  <1>6. ~IsValueOf(DOMAIN ValueFlags[reading], at + 1)
    BY <1>2, <1>4 DEF IsValueOf
  <1>7. /\ Passed(FlagPositions)' = Passed(FlagPositions) \cup {at}
        /\ Passed(PathPositions)' = Passed(PathPositions)
    <2>1. \A j \in at + 1 .. at' - 1 : j \notin FlagPositions \cup PathPositions
      BY <1>1, <1>2
    <2> QED
      BY <1>1, <1>2, <1>5, <2>1, PassedNext
  <1>8. ArgsMatch(args', Passed(FlagPositions) \cup {at})
    <2>1. /\ FieldAt(at) = Switches[reading][argv[at].name][1]
          /\ ValueAt(at) = Switches[reading][argv[at].name][2]
      BY <1>1 DEF FieldAt, ValueAt
    <2>2. args' = With(args, FieldAt(at), ValueAt(at)) /\ FieldAt(at) \notin FilterFields
      BY <1>1, <1>4, <2>1
    <2> QED
      BY <1>2, <1>3, <2>2, ArgsTake
  <1>9. at' \in Nat /\ at < at' /\ at' <= Consumed /\ at' <= EndPosition
    BY <1>1, <1>2, <1>5
  <1> QED
    BY <1>1, <1>3, <1>6, <1>7, <1>8, <1>9, CommandMoves

\* A flag with a value sets its field, or adds to it, and its value is read
\* as nothing else.
LEMMA ValueIsTaken ==
  ASSUME ArgvInv, CommandInv, TakeValue
  PROVE  CommandInv'
  <1> DEFINE field == ValueFlags[reading][argv[at].name]
  <1>1. /\ AtFlag /\ InCommand /\ at <= Len(argv) /\ ~ended /\ reading \in Subcommands
        /\ argv[at].name \in DOMAIN ValueFlags[reading] /\ HasValue(at)
        /\ argv' = argv /\ reading' = reading /\ at' = After(at) /\ ended' = ended
        /\ paths' = paths /\ args' = With(args, field, Given(field, TextOf(at)))
    BY DEF TakeValue, TakesValue, AtFlag, InCommand, Proceed, Token
  <1>2. /\ at \in Nat \ {0} /\ at \in DOMAIN argv /\ Token = argv[at]
        /\ CommandPosition \in 1 .. Len(argv) /\ Len(argv) \in Nat /\ Consumed = Len(argv) + 1
        /\ EndPosition \in CommandPosition + 1 .. Consumed
    BY <1>1, CommandAtPlace
  <1>3. /\ ArgsMatch(args, Passed(FlagPositions))
        /\ Passed(FlagPositions) \in SUBSET Nat /\ \A i \in Passed(FlagPositions) : i < at
        /\ paths \in Seq({argv[i].text : i \in DOMAIN argv})
        /\ PathsMatch(paths, Passed(PathPositions))
    BY <1>1, CommandAtPlace
  <1>4. /\ argv[at].name \in FlagNames /\ argv[at].name # "--"
        /\ argv[at].name \notin DOMAIN Switches[reading]
        /\ DOMAIN ValueFlags[reading] \subseteq FlagNames
    BY <1>1, TableFacts
  <1>5. /\ at \in CommandPosition + 1 .. EndPosition - 1
        /\ at \in FlagPositions /\ at \notin PathPositions
    BY <1>1, <1>2, <1>4, FlagPlace DEF IsSeparator
  <1>6. /\ After(at) \in Nat /\ at < After(at) /\ After(at) <= Consumed
        /\ ~IsValueOf(DOMAIN ValueFlags[reading], After(at))
        /\ Bare(argv[at]) => /\ After(at) = at + 2 /\ at + 1 \in DOMAIN argv
                             /\ ~IsSeparator(argv[at + 1])
        /\ ~Bare(argv[at]) => After(at) = at + 1
    BY <1>1, <1>2, <1>4, AfterValue
  <1>7. /\ After(at) <= EndPosition
        /\ \A j \in at + 1 .. After(at) - 1 : j \notin FlagPositions \cup PathPositions
    <2>1. CASE ~Bare(argv[at])
      BY <1>2, <1>5, <1>6, <2>1
    <2>2. CASE Bare(argv[at])
      <3>1. at + 1 # EndPosition
        <4>1. EndPosition <= Len(argv) => IsSeparator(argv[EndPosition])
          BY <1>2, EndFacts
        <4> QED
          BY <1>2, <1>6, <2>2, <4>1
      <3>2. at + 1 < EndPosition
        BY <1>2, <1>5, <3>1
      <3>3. IsValueOf(DOMAIN ValueFlags[reading], at + 1)
        BY <1>1, <1>2, <2>2 DEF IsValueOf
      <3>4. at + 1 \notin FlagPositions /\ at + 1 \notin PathPositions
        BY <1>2, <3>2, <3>3 DEF FlagPositions, PathPositions
      <3> QED
        BY <1>2, <1>6, <2>2, <3>2, <3>4
    <2> QED
      BY <2>1, <2>2
  <1>8. /\ Passed(FlagPositions)' = Passed(FlagPositions) \cup {at}
        /\ Passed(PathPositions)' = Passed(PathPositions)
    BY <1>1, <1>5, <1>6, <1>7, PassedNext
  <1>9. FieldAt(at) = field
    BY <1>4 DEF FieldAt
  <1>10. Given(field, TextOf(at))
           = IF field \in FilterFields
               THEN FilterValuesAt(at) \cup (IF field \in DOMAIN args THEN args[field] ELSE {})
               ELSE ValueAt(at)
    <2> HIDE DEF field
    <2>1. CASE field \in FilterFields
      <3>1. field \notin PathFields
        BY <2>1 DEF PathFields, FilterFields, TypeFields, BusFields, AddressFields
      <3>2. FilterValuesAt(at) = {Value(field, TextOf(at)[n]) : n \in DOMAIN TextOf(at)}
        BY <1>9 DEF FilterValuesAt
      <3> QED
        BY <2>1, <3>1, <3>2 DEF Given
    <2>2. CASE field \in PathFields
      <3>1. field \notin FilterFields
        BY <2>2 DEF PathFields, FilterFields, TypeFields, BusFields, AddressFields
      <3> QED
        BY <1>4, <1>9, <2>2, <3>1 DEF Given, ValueAt
    <2>3. CASE field \notin FilterFields \cup PathFields
      BY <1>4, <1>9, <2>3 DEF Given, ValueAt
    <2> QED
      BY <2>1, <2>2, <2>3
  <1>11. ArgsMatch(args', Passed(FlagPositions) \cup {at})
    <2> DEFINE value == Given(field, TextOf(at))
    <2>1. args' = With(args, FieldAt(at), value)
      BY <1>1, <1>9
    <2>2. value = IF FieldAt(at) \in FilterFields
                    THEN FilterValuesAt(at)
                           \cup (IF FieldAt(at) \in DOMAIN args THEN args[FieldAt(at)] ELSE {})
                    ELSE ValueAt(at)
      BY <1>9, <1>10
    <2> HIDE DEF field, value
    <2> QED
      BY <1>2, <1>3, <2>1, <2>2, ArgsTake
  <1> QED
    BY <1>1, <1>3, <1>6, <1>7, <1>8, <1>11, CommandMoves

\* At the end of the line the cursor has passed every place.
LEMMA LineEnds ==
  ASSUME ArgvInv, CommandInv, EndOfArguments
  PROVE  CommandInv' /\ (verdict' = "parsed" => reading' \in Subcommands /\ at' = Consumed')
  <1>1. /\ InCommand /\ reading \in Subcommands /\ at' = Consumed /\ ~(at <= Len(argv))
        /\ argv' = argv /\ reading' = reading /\ ended' = ended /\ args' = args /\ paths' = paths
    BY DEF EndOfArguments, Answer, InCommand, ArgvInv
  <1>2. at <= Consumed /\ at \in Nat /\ Len(argv) \in Nat
    BY <1>1 DEF CommandInv, InCommand, ArgvInv
  <1>3. at' = at /\ Consumed' = Consumed
    BY <1>1, <1>2 DEF Consumed
  <1>4. /\ CommandPosition' = CommandPosition /\ EndPosition' = EndPosition
        /\ Passed(FlagPositions)' = Passed(FlagPositions)
        /\ Passed(PathPositions)' = Passed(PathPositions)
    BY <1>1, <1>3, PositionsKeep DEF Passed
  <1>5. /\ CommandPosition \in Nat \ {0} /\ CommandPosition < at
        /\ (ended => EndPosition < at)
        /\ (~ended => at <= EndPosition /\ ~IsValueOf(DOMAIN ValueFlags[reading], at))
        /\ ArgsMatch(args, Passed(FlagPositions))
        /\ paths \in Seq({argv[i].text : i \in DOMAIN argv})
        /\ PathsMatch(paths, Passed(PathPositions))
    BY <1>1 DEF CommandInv, InCommand
  <1>6. ArgsMatch(args, Passed(FlagPositions))'
    BY <1>1, <1>4, <1>5, ArgsKeep
  <1>7. PathsMatch(paths, Passed(PathPositions))'
    BY <1>1, <1>4, <1>5, PathsKeep
  <1>8. ~ended' => ~IsValueOf(DOMAIN ValueFlags[reading], at)'
    BY <1>1, <1>3, <1>5 DEF IsValueOf, Bare
  <1> QED
    BY <1>1, <1>2, <1>3, <1>4, <1>5, <1>6, <1>7, <1>8 DEF CommandInv

\* Each token read keeps the invariant of the line.
LEMMA ReadTokenLine ==
  ASSUME ArgvInv, LineInv, ReadToken
  PROVE  LineInv'
  <1>1. /\ reading \in {"globals"} \cup Subcommands /\ GlobalsInv /\ CommandInv
        /\ "globals" \notin Subcommands
    BY DEF LineInv, Subcommands
  <1>2. CASE TakeGlobal \/ DeclineAdvisory
    <2>1. reading' = "globals" /\ verdict' = "reading"
      BY <1>2 DEF TakeGlobal, DeclineAdvisory, Proceed, AtGlobal, InGlobals
    <2> QED
      BY <1>1, <1>2, <2>1, GlobalsKeep DEF LineInv, CommandInv
  <1>3. CASE TakeCommand
    <2>1. reading' \in Subcommands /\ verdict' = "reading"
      BY <1>3 DEF TakeCommand, ReachesCommand, Proceed, AtGlobal, InGlobals
    <2> QED
      BY <1>1, <1>3, <2>1, CommandStarts DEF LineInv, GlobalsInv
  <1>4. CASE EndOptions \/ TakePath \/ SetSwitch \/ TakeValue
    <2>1. reading' \in Subcommands /\ verdict' = "reading"
      BY <1>4
      DEF EndOptions, TakePath, AtPath, SetSwitch, TakeValue, Proceed, AtFlag, InCommand
    <2>2. CommandInv'
      BY <1>1, <1>4, OptionsEnd, PathIsTaken, SwitchIsSet, ValueIsTaken
    <2> QED
      BY <1>1, <2>1, <2>2 DEF LineInv, GlobalsInv
  <1>5. CASE EndOfArguments
    <2>1. reading' \in Subcommands
      BY <1>5 DEF EndOfArguments, Answer, InCommand
    <2> QED
      BY <1>1, <1>5, <2>1, LineEnds DEF LineInv, GlobalsInv
  <1>6. CASE \/ NoCommand \/ GlobalHelp \/ GlobalVersion \/ GlobalWithoutValue
             \/ UnknownCommand \/ SecondPath \/ CommandHelp \/ RefuseValue
             \/ FlagWithoutValue \/ RefuseFlag
    <2>1. reading' = reading /\ verdict' \in {"usage", "help", "version"}
      BY <1>6
      DEF NoCommand, GlobalHelp, GlobalVersion, GlobalWithoutValue, UnknownCommand,
          SecondPath, CommandHelp, RefuseValue, FlagWithoutValue, RefuseFlag, Fail, Answer
    <2> QED
      BY <1>1, <2>1 DEF LineInv, GlobalsInv, CommandInv
  <1> QED
    BY <1>2, <1>3, <1>4, <1>5, <1>6 DEF ReadToken

\* What is not read stays as it is.
LEMMA LineKeeps ==
  ASSUME LineInv, UNCHANGED cliVars
  PROVE  LineInv'
  <1>1. /\ argv' = argv /\ at' = at /\ reading' = reading /\ ended' = ended /\ args' = args
        /\ paths' = paths /\ verdict' = verdict
    BY DEF cliVars
  <1>2. /\ CommandPosition' = CommandPosition /\ EndPosition' = EndPosition
        /\ FlagPositions' = FlagPositions /\ PathPositions' = PathPositions
    BY <1>1, PositionsKeep
  <1>3. /\ Passed(FlagPositions)' = Passed(FlagPositions) /\ Consumed' = Consumed
        /\ Passed(PathPositions)' = Passed(PathPositions)
    BY <1>1, <1>2 DEF Passed, Consumed
  <1>4. GlobalsInv'
    <2>1. \A i : /\ Candidate(i)' <=> Candidate(i)
                 /\ IsSeparator(argv[i])' <=> IsSeparator(argv[i])
      BY <1>1 DEF Candidate, IsSeparator, IsValueOf, Bare
    <2>2. IsValueOf(DOMAIN GlobalValues, at)' <=> IsValueOf(DOMAIN GlobalValues, at)
      BY <1>1 DEF IsValueOf, Bare
    <2> QED
      BY <1>1, <1>3, <2>1, <2>2 DEF LineInv, GlobalsInv, Nothing
  <1>5. CommandInv'
    <2> SUFFICES ASSUME reading \in Subcommands, verdict \in {"reading", "parsed"}
                 PROVE  CommandInv'
      BY <1>1 DEF CommandInv
    <2>1. /\ CommandPosition \in Nat \ {0} /\ CommandPosition < at /\ at <= Consumed
          /\ (ended => EndPosition < at)
          /\ (~ended => at <= EndPosition /\ ~IsValueOf(DOMAIN ValueFlags[reading], at))
          /\ ArgsMatch(args, Passed(FlagPositions))
          /\ paths \in Seq({argv[i].text : i \in DOMAIN argv})
          /\ PathsMatch(paths, Passed(PathPositions))
      BY DEF LineInv, CommandInv
    <2>2. ArgsMatch(args, Passed(FlagPositions))'
      BY <1>1, <1>3, <2>1, ArgsKeep
    <2>3. PathsMatch(paths, Passed(PathPositions))'
      BY <1>1, <1>3, <2>1, PathsKeep
    <2>4. ~ended' => ~IsValueOf(DOMAIN ValueFlags[reading], at)'
      BY <1>1, <2>1 DEF IsValueOf, Bare
    <2> QED
      BY <1>1, <1>2, <1>3, <2>1, <2>2, <2>3, <2>4 DEF CommandInv
  <1> QED
    BY <1>1, <1>3, <1>4, <1>5 DEF LineInv

\* The invariant of the line.
LEMMA LineInvariance == Spec => []LineInv
  <1>1. Init => LineInv
    <2> SUFFICES ASSUME Init PROVE LineInv
      OBVIOUS
    <2>1. PICK family \in Families : \E given \in family : StartReading(given.argv)
      BY DEF Init
    <2>2. PICK given \in family : StartReading(given.argv)
      BY <2>1
    <2>3. /\ argv = given.argv /\ at = 1 /\ verdict = "reading" /\ ended = FALSE
          /\ reading = "globals" /\ args = Nothing /\ paths = <<>>
      BY <2>2 DEF StartReading
    <2>4. at <= Consumed
      BY <2>1, <2>3, ArgumentsAssumption DEF Consumed
    <2>5. GlobalsInv
      BY <2>3, <2>4 DEF GlobalsInv, IsValueOf
    <2> QED
      BY <2>3, <2>5 DEF LineInv, CommandInv, Subcommands
  <1>2. ReadInv /\ LineInv /\ [Next]_vars => LineInv'
    <2> SUFFICES ASSUME ReadInv, LineInv, [Next]_vars PROVE LineInv'
      OBVIOUS
    <2>1. CASE ReadArguments
      BY <2>1, ReadTokenLine DEF ReadArguments, ReadInv
    <2>2. CASE UNCHANGED cliVars
      BY <2>2, LineKeeps
    <2>3. CASE UNCHANGED vars
      BY <2>2, <2>3 DEF vars
    <2> QED
      BY <2>1, <2>2, <2>3, OnlyReadingReads
  <1> QED
    BY <1>1, <1>2, ReadInvariance, PTL DEF Spec

\* An accepted line has given exactly what its flags say.
LEMMA ParsedMatches ==
  ASSUME ReadInv, LineInv, verdict = "parsed"
  PROVE  /\ ArgsMatch(args, FlagPositions)
         /\ PathsMatch(paths, PathPositions)
         /\ reading \in Subcommands /\ CommandPosition \in 1 .. Len(argv) /\ ArgvInv
  <1>1. /\ reading \in Subcommands /\ at = Consumed /\ CommandPosition \in Nat \ {0}
        /\ CommandPosition < at
        /\ ArgsMatch(args, Passed(FlagPositions))
        /\ PathsMatch(paths, Passed(PathPositions))
    BY DEF LineInv, CommandInv
  <1>2. Len(argv) \in Nat /\ ArgvInv
    BY DEF ReadInv, ArgvInv
  <1>3. FlagPositions \subseteq 1 .. Len(argv) /\ PathPositions \subseteq 1 .. Len(argv)
    BY <1>1, <1>2, PlaceFacts DEF Consumed
  <1>4. Passed(FlagPositions) = FlagPositions /\ Passed(PathPositions) = PathPositions
    <2>1. \A i \in 1 .. Len(argv) : i < at
      BY <1>1, <1>2 DEF Consumed
    <2>2. Below(FlagPositions, at) = FlagPositions
      BY <1>3, <2>1 DEF Below
    <2>3. Below(PathPositions, at) = PathPositions
      BY <1>3, <2>1 DEF Below
    <2> QED
      BY <2>2, <2>3 DEF Passed
  <1>5. CommandPosition \in 1 .. Len(argv)
    BY <1>1, <1>2 DEF Consumed
  <1> QED
    BY <1>1, <1>2, <1>4, <1>5

\* L2-CLI-015, L2-CLI-016: no flag of an accepted line is taken for the value of
\* another one or for a path, and none goes missing, however long the line is.
THEOREM NothingSwallowed == Spec => []NoTokenSwallowed
  <1>1. ReadInv /\ LineInv => NoTokenSwallowed
    BY ParsedMatches DEF NoTokenSwallowed, ArgsMatch, PathsMatch, FieldValue, LastOf
  <1> QED
    BY <1>1, ReadInvariance, LineInvariance, PTL

-----------------------------------------------------------------------------
(* The configuration file.                                                 *)

\* The pairs among the first lines.
PairsBefore(n) == {m \in Pairs : m < n}

\* The lines read so far are good ones, and the entries are those of them.
LinesRead ==
  /\ line \in 1 .. Len(configFile.lines) + 1
  /\ section = SectionOf(line - 1)
  /\ seenSections = {configFile.lines[m].name : m \in Headers(line - 1)}
  /\ \A m \in Headers(line - 1) : ~BadHeader(m)
  /\ \A m \in PairsBefore(line) :
       /\ configFile.lines[m].flaw = "none"
       /\ IsLiteral(configFile.lines[m].literal)
       /\ \A k \in PairsBefore(m) : PlaceOf(k) # PlaceOf(m)
       /\ entries[PlaceOf(m)] = LiteralValue(configFile.lines[m].literal)
  /\ DOMAIN entries = {PlaceOf(m) : m \in PairsBefore(line)}

\* A file is loaded with what its lines say, or refused for a bad one.
LoadInv ==
  /\ Len(configFile.lines) \in Nat
  /\ DOMAIN configFile.lines = 1 .. Len(configFile.lines)
  /\ loading = "idle" =>
       /\ line = 1 /\ section = "" /\ seenSections = {} /\ DOMAIN entries = {}
       /\ config = None
  /\ loading = "lines" => ConfigGiven /\ configFile.state = "text" /\ LinesRead /\ config = None
  /\ loading = "loaded" =>
       /\ ~BadConfigFile
       /\ DOMAIN config = DOMAIN Defaults
       /\ \A field \in DOMAIN Defaults : config[field] = FromFile(field)
  /\ loading = "refused" => BadConfigFile /\ config = None
  /\ loading \in {"idle", "lines", "loaded", "refused"}
  /\ stage = "arguments" => loading = "idle"

\* The last of some places.
LEMMA MaxIs ==
  ASSUME NEW S \in SUBSET Nat, NEW x \in S, \A y \in S : y <= x
  PROVE  Max(S) = x
  <1>1. \A y \in S : x >= y
    OBVIOUS
  <1>2. Max(S) \in S /\ \A y \in S : Max(S) >= y
    BY <1>1 DEF Max
  <1>3. Max(S) >= x /\ x >= Max(S) /\ x \in Nat /\ Max(S) \in Nat
    BY <1>1, <1>2
  <1> QED
    BY <1>3

\* The two names of the last place are one.
LEMMA MaxIsLast ==
  ASSUME NEW n \in Nat, NEW S \in SUBSET (1 .. n), S # {}
  PROVE  Max(S) = LastOf(S) /\ Max(S) \in S
  <1>1. LastOf(S) \in S /\ \A h \in S : h <= LastOf(S)
    BY LastOfPlaces
  <1>2. S \in SUBSET Nat
    OBVIOUS
  <1> QED
    BY <1>1, <1>2, MaxIs

\* Where the schema keeps each field.
HomeOf ==
  [log_level |-> <<"logging", "level">>,
   irig_day_advisory |-> <<"logging", "irig_day_advisory">>,
   input_time_format |-> <<"decode", "input_time_format">>,
   strict |-> <<"decode", "strict">>,
   error_mode |-> <<"decode", "error_mode">>,
   allow_partial |-> <<"decode", "allow_partial">>,
   detect_records |-> <<"decode", "detect_records">>,
   lookahead_records |-> <<"decode", "lookahead_records">>,
   standard_tick_rate_hz |-> <<"decode", "standard_tick_rate_hz">>,
   output_format |-> <<"output", "format">>,
   no_clobber |-> <<"output", "no_clobber">>,
   output_time_format |-> <<"output", "output_time_format">>,
   year |-> <<"output", "year">>,
   utc_offset_minutes |-> <<"output", "utc_offset">>,
   max_sort_group |-> <<"output", "max_sort_group">>,
   mux_enabled |-> <<"mux", "enabled">>,
   mux_delimiter |-> <<"mux", "delimiter">>,
   mux_field |-> <<"mux", "field">>,
   collapse_duplicates |-> <<"merge", "collapse_duplicates">>,
   collapse_window_us |-> <<"merge", "collapse_window_us">>,
   max_collapse_survivors |-> <<"merge", "max_collapse_survivors">>,
   delta_scope |-> <<"merge", "delta_scope">>,
   exclude_types |-> <<"filter", "exclude_types">>,
   exclude_rts |-> <<"filter", "exclude_rts">>,
   exclude_buses |-> <<"filter", "exclude_buses">>,
   exclude_subaddresses |-> <<"filter", "exclude_subaddresses">>]

\* No two keys of the schema set the same field.
LEMMA SchemaHomes ==
  ASSUME NEW where, NEW key, KnownKey(where, key)
  PROVE  HomeOf[Schema[where][key]] = <<where, key>>
  <1>1. where \in DOMAIN Schema /\ key \in DOMAIN Schema[where]
    BY DEF KnownKey
  <1>2. where \in {"logging", "decode", "output", "mux", "merge", "filter"}
    BY <1>1 DEF Schema
  <1>3. CASE where = "logging"
    BY <1>1, <1>3 DEF Schema, HomeOf
  <1>4. CASE where = "decode"
    BY <1>1, <1>4 DEF Schema, HomeOf
  <1>5. CASE where = "output"
    BY <1>1, <1>5 DEF Schema, HomeOf
  <1>6. CASE where = "mux"
    BY <1>1, <1>6 DEF Schema, HomeOf
  <1>7. CASE where = "merge"
    BY <1>1, <1>7 DEF Schema, HomeOf
  <1>8. CASE where = "filter"
    BY <1>1, <1>8 DEF Schema, HomeOf
  <1> QED
    BY <1>2, <1>3, <1>4, <1>5, <1>6, <1>7, <1>8

\* What is said of a line goes with the file alone.
LEMMA FileKeeps ==
  ASSUME configFile' = configFile
  PROVE  /\ Pairs' = Pairs
         /\ \A n : Headers(n)' = Headers(n)
         /\ \A n : SectionOf(n)' = SectionOf(n)
         /\ \A n : PlaceOf(n)' = PlaceOf(n)
         /\ \A n : PairsBefore(n)' = PairsBefore(n)
         /\ \A n : SetsField(n)' <=> SetsField(n)
         /\ \A n : FieldSetBy(n)' = FieldSetBy(n)
         /\ \A n : BadPair(n)' <=> BadPair(n)
         /\ \A n : BadHeader(n)' <=> BadHeader(n)
  <1>1. Pairs' = Pairs
    BY DEF Pairs
  <1>2. \A n : Headers(n)' = Headers(n)
    BY DEF Headers
  <1>3. \A n : SectionOf(n)' = SectionOf(n)
    BY <1>2 DEF SectionOf
  <1>4. \A n : PlaceOf(n)' = PlaceOf(n)
    BY <1>3 DEF PlaceOf
  <1>5. \A n : PairsBefore(n)' = PairsBefore(n)
    BY <1>1 DEF PairsBefore
  <1>6. \A n : SetsField(n)' <=> SetsField(n)
    BY <1>3 DEF SetsField
  <1>7. \A n : FieldSetBy(n)' = FieldSetBy(n)
    BY <1>3 DEF FieldSetBy
  <1>8. \A n : BadPair(n)' <=> BadPair(n)
    BY <1>1, <1>4, <1>6, <1>7 DEF BadPair
  <1>9. \A n : BadHeader(n)' <=> BadHeader(n)
    BY <1>2 DEF BadHeader
  <1> QED
    BY <1>1, <1>2, <1>3, <1>4, <1>5, <1>6, <1>7, <1>8, <1>9

\* What the file comes to goes with it and with whether it was asked for.
LEMMA VerdictKeeps ==
  ASSUME configFile' = configFile, ConfigGiven' <=> ConfigGiven
  PROVE  /\ BadConfigFile' <=> BadConfigFile
         /\ \A field : FromFile(field)' = FromFile(field)
  <1>1. BadConfigFile' <=> BadConfigFile
    BY FileKeeps DEF BadConfigFile
  <1>2. \A field : {n \in Pairs : SetsField(n) /\ FieldSetBy(n) = field}'
                     = {n \in Pairs : SetsField(n) /\ FieldSetBy(n) = field}
    BY FileKeeps
  <1>3. \A field : FromFile(field)' = FromFile(field)
    BY <1>2 DEF FromFile
  <1> QED
    BY <1>1, <1>3

\* The first lines, and one more.
LEMMA HeadersNext ==
  ASSUME LoadInv, NEW n \in DOMAIN configFile.lines
  PROVE  /\ Headers(n) = IF configFile.lines[n].form = "header"
                           THEN Headers(n - 1) \cup {n} ELSE Headers(n - 1)
         /\ SectionOf(n) = IF configFile.lines[n].form = "header"
                             THEN configFile.lines[n].name ELSE SectionOf(n - 1)
  <1>1. n \in Nat \ {0}
    <2>1. Len(configFile.lines) \in Nat /\ DOMAIN configFile.lines = 1 .. Len(configFile.lines)
      BY DEF LoadInv
    <2> QED
      BY <2>1
  <1>2. Headers(n) = IF configFile.lines[n].form = "header"
                       THEN Headers(n - 1) \cup {n} ELSE Headers(n - 1)
    BY <1>1 DEF Headers
  <1>3. CASE configFile.lines[n].form = "header"
    <2>1. n \in Headers(n) /\ Headers(n) \in SUBSET Nat /\ \A m \in Headers(n) : m <= n
      BY <1>1, <1>3 DEF Headers
    <2>2. Max(Headers(n)) = n
      BY <2>1, MaxIs
    <2> QED
      BY <1>2, <1>3, <2>1, <2>2 DEF SectionOf
  <1>4. CASE configFile.lines[n].form # "header"
    BY <1>2, <1>4 DEF SectionOf
  <1> QED
    BY <1>2, <1>3, <1>4

\* One more line, and one more pair if it is one.
LEMMA PairsNext ==
  ASSUME LoadInv, NEW n \in DOMAIN configFile.lines
  PROVE  PairsBefore(n + 1) = IF configFile.lines[n].form = "pair"
                                THEN PairsBefore(n) \cup {n} ELSE PairsBefore(n)
  <1>1. n \in Nat \ {0} /\ DOMAIN configFile.lines \in SUBSET Nat
    <2>1. Len(configFile.lines) \in Nat /\ DOMAIN configFile.lines = 1 .. Len(configFile.lines)
      BY DEF LoadInv
    <2> QED
      BY <2>1
  <1>2. \A m \in DOMAIN configFile.lines : m < n + 1 <=> m < n \/ m = n
    BY <1>1
  <1> QED
    BY <1>2 DEF PairsBefore, Pairs

\* What a step of the reader finds.
LEMMA ReadingFacts ==
  ASSUME LoadInv, ReadingLines
  PROVE  /\ LinesRead /\ ConfigGiven /\ configFile.state = "text" /\ config = None
         /\ line \in DOMAIN configFile.lines /\ line \in Nat \ {0} /\ Line = configFile.lines[line]
         /\ line + 1 \in 1 .. Len(configFile.lines) + 1 /\ line + 1 - 1 = line
  <1>1. /\ loading = "lines" /\ LinesRead /\ line <= Len(configFile.lines)
        /\ Len(configFile.lines) \in Nat /\ DOMAIN configFile.lines = 1 .. Len(configFile.lines)
        /\ ConfigGiven /\ configFile.state = "text" /\ config = None
    BY DEF LoadInv, ReadingLines
  <1>2. line \in 1 .. Len(configFile.lines) + 1
    BY <1>1 DEF LinesRead
  <1> QED
    BY <1>1, <1>2 DEF Line

\* The invariant goes on while lines are read.
LEMMA LinesGoOn ==
  ASSUME LoadInv, ReadingLines, NextLine, LinesRead', stage' = stage, ConfigGiven' <=> ConfigGiven
  PROVE  LoadInv'
  <1>1. configFile' = configFile /\ loading' = loading /\ config' = config /\ loading = "lines"
    BY DEF NextLine, ReadingLines
  <1> QED
    BY <1>1, ReadingFacts DEF LoadInv

\* A line that is skipped.
LEMMA SkipKeeps ==
  ASSUME LoadInv, SkipLine
  PROVE  LinesRead'
  <1>1. /\ ReadingLines /\ Line.form = "blank" /\ line' = line + 1 /\ configFile' = configFile
        /\ UNCHANGED <<section, seenSections, entries>>
    BY DEF SkipLine, NextLine
  <1>2. /\ Headers(line) = Headers(line - 1) /\ SectionOf(line) = SectionOf(line - 1)
        /\ PairsBefore(line + 1) = PairsBefore(line)
    BY <1>1, ReadingFacts, HeadersNext, PairsNext
  <1> QED
    BY <1>1, <1>2, ReadingFacts, FileKeeps DEF LinesRead

\* A header opens its section.
LEMMA SectionKeeps ==
  ASSUME LoadInv, OpenSection
  PROVE  LinesRead'
  <1>1. /\ ReadingLines /\ Line.form = "header" /\ line' = line + 1 /\ configFile' = configFile
        /\ Line.flaw = "none" /\ Line.name \notin seenSections
        /\ section' = Line.name /\ seenSections' = seenSections \cup {Line.name}
        /\ entries' = entries
    BY DEF OpenSection, NextLine, GoodHeader
  <1>2. /\ Headers(line) = Headers(line - 1) \cup {line} /\ SectionOf(line) = Line.name
        /\ PairsBefore(line + 1) = PairsBefore(line)
    BY <1>1, ReadingFacts, HeadersNext, PairsNext
  <1>3. LinesRead
    BY <1>1, ReadingFacts
  <1>4. ~BadHeader(line)
    BY <1>1, <1>3, ReadingFacts DEF BadHeader, LinesRead
  <1>5. /\ seenSections' = {configFile.lines[m].name : m \in Headers(line)}
        /\ \A m \in Headers(line) : ~BadHeader(m)
    BY <1>1, <1>2, <1>3, <1>4, ReadingFacts DEF LinesRead
  <1> QED
    BY <1>1, <1>2, <1>3, <1>5, ReadingFacts, FileKeeps DEF LinesRead

\* A pair is entered at its place.
LEMMA PairKeeps ==
  ASSUME LoadInv, TakePair
  PROVE  LinesRead'
  <1>1. /\ ReadingLines /\ Line.form = "pair" /\ line' = line + 1 /\ configFile' = configFile
        /\ Line.flaw = "none" /\ IsLiteral(Line.literal)
        /\ <<section, Line.key>> \notin DOMAIN entries
        /\ entries' = With(entries, <<section, Line.key>>, LiteralValue(Line.literal))
        /\ UNCHANGED <<section, seenSections>>
    BY DEF TakePair, NextLine, GoodPair
  <1>2. /\ Headers(line) = Headers(line - 1) /\ SectionOf(line) = SectionOf(line - 1)
        /\ PairsBefore(line + 1) = PairsBefore(line) \cup {line}
    BY <1>1, ReadingFacts, HeadersNext, PairsNext
  <1>3. LinesRead /\ Line = configFile.lines[line]
    BY <1>1, ReadingFacts
  <1>4. PlaceOf(line) = <<section, Line.key>>
    BY <1>2, <1>3 DEF LinesRead, PlaceOf
  <1>5. DOMAIN entries = {PlaceOf(m) : m \in PairsBefore(line)}
    BY <1>3 DEF LinesRead
  <1>6. DOMAIN entries' = {PlaceOf(m) : m \in PairsBefore(line + 1)}
    BY <1>1, <1>2, <1>4, <1>5 DEF With
  <1>7. \A m \in PairsBefore(line) : PlaceOf(m) # PlaceOf(line) /\ PlaceOf(m) \in DOMAIN entries
    BY <1>1, <1>4, <1>5
  <1>8. \A m \in PairsBefore(line + 1) : entries'[PlaceOf(m)] = LiteralValue(configFile.lines[m].literal)
    BY <1>1, <1>2, <1>3, <1>4, <1>7 DEF LinesRead, With
  <1>9. \A m \in PairsBefore(line + 1) :
          /\ configFile.lines[m].flaw = "none"
          /\ IsLiteral(configFile.lines[m].literal)
          /\ \A k \in PairsBefore(m) : PlaceOf(k) # PlaceOf(m)
    BY <1>1, <1>2, <1>3, <1>7 DEF LinesRead
  <1>10. /\ section' = SectionOf(line)
         /\ seenSections' = {configFile.lines[m].name : m \in Headers(line)}
         /\ \A m \in Headers(line) : ~BadHeader(m)
         /\ line + 1 \in 1 .. Len(configFile.lines) + 1 /\ line + 1 - 1 = line
    BY <1>1, <1>2, <1>3, ReadingFacts DEF LinesRead
  <1>11. /\ (line \in 1 .. Len(configFile.lines) + 1)'
         /\ (section = SectionOf(line - 1))'
         /\ (seenSections = {configFile.lines[m].name : m \in Headers(line - 1)})'
         /\ (\A m \in Headers(line - 1) : ~BadHeader(m))'
    <2>1. line' - 1 = line
      <3>1. line' = line + 1 /\ line \in Nat
        BY <1>1, ReadingFacts
      <3> QED
        BY <3>1
    <2>2. (line \in 1 .. Len(configFile.lines) + 1)' /\ (section = SectionOf(line - 1))'
      BY <1>1, <1>10, <2>1, FileKeeps
    <2>3. (seenSections = {configFile.lines[m].name : m \in Headers(line - 1)})'
      BY <1>1, <1>10, <2>1, FileKeeps
    <2>4. (\A m \in Headers(line - 1) : ~BadHeader(m))'
      BY <1>10, <2>1, <1>1, FileKeeps
    <2> QED
      BY <2>2, <2>3, <2>4
  <1>12. (DOMAIN entries = {PlaceOf(m) : m \in PairsBefore(line)})'
    BY <1>1, <1>6, FileKeeps
  <1>13. (\A m \in PairsBefore(line) :
            /\ configFile.lines[m].flaw = "none"
            /\ IsLiteral(configFile.lines[m].literal)
            /\ \A k \in PairsBefore(m) : PlaceOf(k) # PlaceOf(m)
            /\ entries[PlaceOf(m)] = LiteralValue(configFile.lines[m].literal))'
    BY <1>1, <1>8, <1>9, FileKeeps
  <1> QED
    BY <1>11, <1>12, <1>13 DEF LinesRead

\* A line that is refused is a bad one.
LEMMA RefusedIsBad ==
  ASSUME LoadInv, RefuseLine
  PROVE  BadConfigFile
  <1>1. ReadingLines /\ LinesRead /\ Line = configFile.lines[line]
    BY ReadingFacts DEF RefuseLine
  <1>2. CASE Line.form = "header" /\ ~GoodHeader
    <2>1. BadHeader(line)
      BY <1>1, <1>2 DEF GoodHeader, BadHeader, LinesRead
    <2>2. line \in Headers(Len(configFile.lines))
      BY <1>1, <1>2, ReadingFacts DEF Headers, LoadInv
    <2> QED
      BY <1>1, <2>1, <2>2, ReadingFacts DEF BadConfigFile
  <1>3. CASE Line.form = "pair" /\ ~GoodPair
    <2>1. line \in Pairs
      BY <1>1, <1>3, ReadingFacts DEF Pairs
    <2>2. PlaceOf(line) = <<section, Line.key>>
      BY <1>1, <1>3, ReadingFacts, HeadersNext DEF LinesRead, PlaceOf
    <2>3. BadPair(line)
      BY <1>1, <1>3, <2>2 DEF GoodPair, BadPair, LinesRead, PairsBefore
    <2> QED
      BY <1>1, <2>1, <2>3, ReadingFacts DEF BadConfigFile
  <1> QED
    BY <1>2, <1>3 DEF RefuseLine

\* At the end of the file every pair has its entry, and every entry is that of
\* a pair.
LEMMA AllRead ==
  ASSUME LoadInv, ApplySchema
  PROVE  /\ ConfigGiven /\ configFile.state = "text"
         /\ \A n \in Headers(Len(configFile.lines)) : ~BadHeader(n)
         /\ \A n \in Pairs : /\ configFile.lines[n].flaw = "none"
                             /\ IsLiteral(configFile.lines[n].literal)
                             /\ \A k \in Pairs : k < n => PlaceOf(k) # PlaceOf(n)
                             /\ entries[PlaceOf(n)] = LiteralValue(configFile.lines[n].literal)
         /\ DOMAIN entries = {PlaceOf(n) : n \in Pairs}
         /\ Pairs \subseteq 1 .. Len(configFile.lines) /\ Len(configFile.lines) \in Nat
  <1>1. /\ ConfigGiven /\ configFile.state = "text" /\ LinesRead
        /\ line > Len(configFile.lines) /\ Len(configFile.lines) \in Nat
        /\ DOMAIN configFile.lines = 1 .. Len(configFile.lines)
    BY DEF LoadInv, ApplySchema
  <1>2. line = Len(configFile.lines) + 1 /\ line - 1 = Len(configFile.lines)
    BY <1>1 DEF LinesRead
  <1>3. Pairs \subseteq 1 .. Len(configFile.lines)
    BY <1>1 DEF Pairs
  <1>4. PairsBefore(line) = Pairs
    <2>1. \A m \in Pairs : m < line
      BY <1>1, <1>2, <1>3
    <2> QED
      BY <2>1 DEF PairsBefore
  <1>5. \A n, k \in Pairs : k < n => k \in PairsBefore(n)
    BY DEF PairsBefore
  <1> QED
    BY <1>1, <1>2, <1>3, <1>4, <1>5 DEF LinesRead

\* What the schema says of an entry is what it says of its line.
LEMMA EntryOfPair ==
  ASSUME NEW n
  PROVE  /\ KnownKey(PlaceOf(n)[1], PlaceOf(n)[2]) <=> SetsField(n)
         /\ FieldOf(PlaceOf(n)) = FieldSetBy(n)
  BY DEF PlaceOf, SetsField, FieldOf, FieldSetBy

\* The entries of known keys.
LEMMA KnownAre ==
  ASSUME LoadInv, ApplySchema
  PROVE  KnownEntries = {PlaceOf(n) : n \in {m \in Pairs : SetsField(m)}}
  <1>1. DOMAIN entries = {PlaceOf(n) : n \in Pairs}
    BY AllRead
  <1>2. ASSUME NEW e \in KnownEntries
        PROVE  e \in {PlaceOf(n) : n \in {m \in Pairs : SetsField(m)}}
    <2>1. e \in DOMAIN entries /\ KnownKey(e[1], e[2])
      BY DEF KnownEntries
    <2>2. PICK n \in Pairs : e = PlaceOf(n)
      BY <1>1, <2>1
    <2> QED
      BY <2>1, <2>2, EntryOfPair
  <1>3. ASSUME NEW n \in Pairs, SetsField(n) PROVE PlaceOf(n) \in KnownEntries
    BY <1>1, <1>3, EntryOfPair DEF KnownEntries
  <1> QED
    BY <1>2, <1>3

\* The schema refuses a file exactly when one of its lines is a bad one.
LEMMA SchemaIsComplete ==
  ASSUME LoadInv, ApplySchema
  PROVE  SchemaHolds <=> ~BadConfigFile
  <1>1. /\ ConfigGiven /\ configFile.state = "text"
        /\ \A n \in Headers(Len(configFile.lines)) : ~BadHeader(n)
        /\ \A n \in Pairs : /\ configFile.lines[n].flaw = "none"
                            /\ IsLiteral(configFile.lines[n].literal)
                            /\ \A k \in Pairs : k < n => PlaceOf(k) # PlaceOf(n)
    BY AllRead
  <1>2. BadConfigFile <=> \E n \in Pairs : BadPair(n)
    BY <1>1 DEF BadConfigFile
  <1>3. DOMAIN entries = {PlaceOf(n) : n \in Pairs}
    BY AllRead
  <1>4. UsesRetiredKey <=> \E n \in Pairs : PlaceOf(n) = <<"decode", "time_format">>
    BY <1>3 DEF UsesRetiredKey
  <1>5. UsesSectionAsScalar <=> \E n \in Pairs : PlaceOf(n) \in {<<"", name>> : name \in Sections}
    BY <1>3 DEF UsesSectionAsScalar
  <1>6. (\A entry \in KnownEntries : GoodValue(FieldOf(entry), entries[entry]))
          <=> \A n \in Pairs : SetsField(n) =>
                GoodValue(FieldSetBy(n), LiteralValue(configFile.lines[n].literal))
    <2>1. \A n \in Pairs : /\ FieldOf(PlaceOf(n)) = FieldSetBy(n)
                           /\ entries[PlaceOf(n)] = LiteralValue(configFile.lines[n].literal)
      BY AllRead, EntryOfPair
    <2> QED
      BY <2>1, KnownAre
  <1>7. (\E n \in Pairs : BadPair(n))
          <=> \/ UsesRetiredKey \/ UsesSectionAsScalar
              \/ \E n \in Pairs : /\ SetsField(n)
                                  /\ ~GoodValue(FieldSetBy(n),
                                                LiteralValue(configFile.lines[n].literal))
    BY <1>1, <1>4, <1>5 DEF BadPair
  <1> QED
    BY <1>2, <1>6, <1>7 DEF SchemaHolds

\* A field is loaded from the last line that sets it, which is the only one.
LEMMA LoadedIsWanted ==
  ASSUME LoadInv, ApplySchema, NEW field \in DOMAIN Defaults
  PROVE  Loaded[field] = FromFile(field)
  <1> DEFINE lines == {n \in Pairs : SetsField(n) /\ FieldSetBy(n) = field}
             given == {FieldOf(entry) : entry \in KnownEntries}
             home == CHOOSE entry \in KnownEntries : FieldOf(entry) = field
  <1>1. /\ ConfigGiven /\ Pairs \subseteq 1 .. Len(configFile.lines)
        /\ Len(configFile.lines) \in Nat
    BY AllRead
  <1>2. Loaded[field] = IF field \in given THEN ValueIn(field, entries[home]) ELSE Defaults[field]
    BY DEF Loaded
  <1>3. FromFile(field) = IF lines = {} THEN Defaults[field]
                          ELSE ValueIn(field, LiteralValue(configFile.lines[Max(lines)].literal))
    BY <1>1 DEF FromFile
  <1>4. field \in given <=> lines # {}
    BY KnownAre, EntryOfPair
  <1>5. CASE lines # {}
    <2>1. Max(lines) \in lines
      <3>1. lines \in SUBSET (1 .. Len(configFile.lines))
        BY <1>1
      <3> HIDE DEF lines
      <3> QED
        BY <1>1, <1>5, <3>1, MaxIsLast
    <2>2. PICK n \in Pairs : n = Max(lines) /\ SetsField(n) /\ FieldSetBy(n) = field
      BY <2>1
    <2>3. PlaceOf(n) \in KnownEntries /\ FieldOf(PlaceOf(n)) = field
      BY <2>2, KnownAre, EntryOfPair
    <2>4. home \in KnownEntries /\ FieldOf(home) = field
      BY <2>3
    <2>5. PICK m \in Pairs : home = PlaceOf(m) /\ SetsField(m)
      <3> HIDE DEF home
      <3> QED
        BY <2>4, KnownAre
    <2>6. FieldSetBy(m) = field
      BY <2>4, <2>5, EntryOfPair
    <2>7. PlaceOf(m) = HomeOf[field] /\ PlaceOf(n) = HomeOf[field]
      BY <2>2, <2>5, <2>6, SchemaHomes DEF SetsField, FieldSetBy, PlaceOf
    <2>8. entries[home] = LiteralValue(configFile.lines[n].literal)
      BY <2>5, <2>7, AllRead
    <2> HIDE DEF lines, given, home
    <2> QED
      BY <1>2, <1>3, <1>4, <1>5, <2>2, <2>8
  <1>6. CASE lines = {}
    <2> HIDE DEF lines, given, home
    <2> QED
      BY <1>2, <1>3, <1>4, <1>6
  <1> QED
    BY <1>5, <1>6

\* Reading the file keeps the invariant.
LEMMA LoadKeeps ==
  ASSUME LoadInv, LoadConfig(ConfigGiven), stage' = stage, stage # "arguments",
         ConfigGiven' <=> ConfigGiven
  PROVE  LoadInv'
  <1>1. CASE OpenConfig(ConfigGiven)
    <2>1. /\ loading = "idle" /\ line = 1 /\ section = "" /\ seenSections = {}
          /\ DOMAIN entries = {} /\ config = None
          /\ Len(configFile.lines) \in Nat /\ DOMAIN configFile.lines = 1 .. Len(configFile.lines)
      BY <1>1 DEF OpenConfig, LoadInv
    <2>2. /\ UNCHANGED <<configFile, line, section, seenSections, entries, warned>>
          /\ loading' = IF ConfigGiven /\ configFile.state # "text" THEN "refused"
                        ELSE IF ConfigGiven THEN "lines" ELSE "loaded"
          /\ config' = IF ConfigGiven THEN config ELSE Defaults
      BY <1>1 DEF OpenConfig
    <2>3. CASE ~ConfigGiven
      <3>1. ~BadConfigFile /\ \A field : FromFile(field) = Defaults[field]
        BY <2>3 DEF BadConfigFile, FromFile
      <3> QED
        BY <2>1, <2>2, <2>3, <3>1, VerdictKeeps DEF LoadInv
    <2>4. CASE ConfigGiven /\ configFile.state # "text"
      <3>1. BadConfigFile
        BY <2>4 DEF BadConfigFile
      <3> QED
        BY <2>1, <2>2, <2>4, <3>1, VerdictKeeps DEF LoadInv
    <2>5. CASE ConfigGiven /\ configFile.state = "text"
      <3>1. Headers(1 - 1) = {} /\ SectionOf(1 - 1) = ""
        BY DEF Headers, SectionOf
      <3>2. PairsBefore(1) = {}
        <4>1. Pairs \subseteq 1 .. Len(configFile.lines) /\ Len(configFile.lines) \in Nat
          BY <2>1 DEF Pairs
        <4>2. \A m \in Pairs : ~(m < 1)
          BY <4>1
        <4> QED
          BY <4>2 DEF PairsBefore
      <3>3. LinesRead
        <4>1. line \in 1 .. Len(configFile.lines) + 1
          <5>1. Len(configFile.lines) \in Nat /\ line = 1
            BY <2>1
          <5> QED
            BY <5>1
        <4>2. line = 1 /\ section = "" /\ seenSections = {} /\ DOMAIN entries = {}
          BY <2>1
        <4>3. section = SectionOf(line - 1) /\ Headers(line - 1) = {} /\ PairsBefore(line) = {}
          BY <3>1, <3>2, <4>2
        <4> QED
          BY <4>1, <4>2, <4>3 DEF LinesRead
      <3>4. LinesRead'
        BY <2>2, <3>3, FileKeeps DEF LinesRead
      <3> QED
        BY <2>1, <2>2, <2>5, <3>4 DEF LoadInv
    <2> QED
      BY <2>3, <2>4, <2>5
  <1>2. CASE SkipLine \/ OpenSection \/ TakePair
    <2>1. ReadingLines /\ NextLine
      BY <1>2 DEF SkipLine, OpenSection, TakePair
    <2>2. LinesRead'
      BY <1>2, SkipKeeps, SectionKeeps, PairKeeps
    <2> QED
      BY <2>1, <2>2, LinesGoOn
  <1>3. CASE RefuseLine
    <2>1. BadConfigFile /\ config = None
      BY <1>3, RefusedIsBad, ReadingFacts DEF RefuseLine
    <2>2. configFile' = configFile /\ loading' = "refused" /\ config' = config
      BY <1>3 DEF RefuseLine
    <2>3. BadConfigFile'
      BY <2>1, <2>2, VerdictKeeps
    <2> QED
      BY <2>1, <2>2, <2>3 DEF LoadInv
  <1>4. CASE ApplySchema
    <2>1. /\ configFile' = configFile
          /\ loading' = IF SchemaHolds THEN "loaded" ELSE "refused"
          /\ config' = IF SchemaHolds THEN Loaded ELSE None
      BY <1>4 DEF ApplySchema
    <2>2. /\ BadConfigFile' <=> BadConfigFile
          /\ \A field : FromFile(field)' = FromFile(field)
      BY <2>1, VerdictKeeps
    <2>3. SchemaHolds <=> ~BadConfigFile
      BY <1>4, SchemaIsComplete
    <2>4. \A field \in DOMAIN Defaults : Loaded[field] = FromFile(field)
      BY <1>4, LoadedIsWanted
    <2>5. DOMAIN Loaded = DOMAIN Defaults
      BY DEF Loaded
    <2>6. /\ Len(configFile'.lines) \in Nat
          /\ DOMAIN configFile'.lines = 1 .. Len(configFile'.lines)
      BY <2>1 DEF LoadInv
    <2>7. CASE SchemaHolds
      BY <2>1, <2>2, <2>3, <2>4, <2>5, <2>6, <2>7 DEF LoadInv
    <2>8. CASE ~SchemaHolds
      BY <2>1, <2>2, <2>3, <2>6, <2>8 DEF LoadInv
    <2> QED
      BY <2>7, <2>8
  <1> QED
    BY <1>1, <1>2, <1>3, <1>4 DEF LoadConfig

-----------------------------------------------------------------------------
(* The global flags.                                                       *)

\* The global flags of a name, and those before a place.
NamedFlags(name) ==
  {i \in Nat \ {0} : argv[i].name = name /\ ~IsValueOf(DOMAIN GlobalValues, i)}
SeenFlags(name, n) == Below(NamedFlags(name), n)

\* The values given are those of the flags before the place.
GlobalsGiven(n) ==
  /\ DOMAIN globals \subseteq {"log_level", "config", "irig_day_advisory"}
  /\ "log_level" \in DOMAIN globals <=> SeenFlags("--log-level", n) # {}
  /\ "log_level" \in DOMAIN globals =>
       globals["log_level"] = TextOf(LastOf(SeenFlags("--log-level", n)))
  /\ "irig_day_advisory" \in DOMAIN globals <=> SeenFlags("--no-irig-day-advisory", n) # {}
  /\ "irig_day_advisory" \in DOMAIN globals => globals["irig_day_advisory"] = FALSE

\* So they are up to the cursor, and then up to the subcommand, which starts
\* with no flag of its own; count never has one.
GivenInv ==
  /\ reading = "globals" /\ verdict = "reading" => GlobalsGiven(at)
  /\ reading \in Subcommands /\ verdict \in {"reading", "parsed"} =>
       GlobalsGiven(CommandPosition)
  /\ reading \in {"globals", "count"} => DOMAIN args = {}

\* The last place is found where nothing comes after.
LEMMA LastIs ==
  ASSUME NEW S \in SUBSET Nat, NEW x \in S, \A y \in S : y <= x
  PROVE  LastOf(S) = x
  <1>1. LastOf(S) \in S /\ \A y \in S : y <= LastOf(S)
    BY DEF LastOf
  <1>2. LastOf(S) <= x /\ x <= LastOf(S) /\ x \in Nat /\ LastOf(S) \in Nat
    BY <1>1
  <1> QED
    BY <1>2

\* The table of the global flags.
LEMMA GlobalTable ==
  /\ DOMAIN GlobalValues = {"--log-level", "--config"}
  /\ GlobalValues["--log-level"] = "log_level" /\ GlobalValues["--config"] = "config"
  <1> DEFINE rows == {<<"--log-level", "log_level">>, <<"--config", "config">>}
  <1>1. DOMAIN GlobalValues = {"--log-level", "--config"}
    BY DEF GlobalValues, Table
  <1>2. \A flag \in DOMAIN GlobalValues : \E row \in rows : row[1] = flag /\ GlobalValues[flag] = row[2]
    BY TableIs DEF GlobalValues
  <1> QED
    BY <1>1, <1>2

\* What is seen of the line goes with the arguments.
LEMMA SeenKeep ==
  ASSUME argv' = argv
  PROVE  /\ \A i : TextOf(i)' = TextOf(i)
         /\ \A name : NamedFlags(name)' = NamedFlags(name)
         /\ \A name, n : SeenFlags(name, n)' = SeenFlags(name, n)
  <1>1. \A i : TextOf(i)' = TextOf(i)
    BY DEF TextOf, Bare
  <1>2. \A name : NamedFlags(name)' = NamedFlags(name)
    BY DEF NamedFlags, IsValueOf, Bare
  <1>3. \A name, n : SeenFlags(name, n)' = SeenFlags(name, n)
    BY <1>2 DEF SeenFlags
  <1> QED
    BY <1>1, <1>2, <1>3

\* One more global flag, and its value if it is separated from it.
LEMMA SeenNext ==
  ASSUME ArgvInv, GlobalsInv, TakeGlobal \/ DeclineAdvisory
  PROVE  /\ at \in Nat \ {0} /\ Token = argv[at]
         /\ \A name : SeenFlags(name, at') = IF name = Token.name
                                               THEN SeenFlags(name, at) \cup {at}
                                               ELSE SeenFlags(name, at)
  <1>1. /\ reading = "globals" /\ verdict = "reading" /\ at \in DOMAIN argv /\ Token = argv[at]
    <2>1. AtGlobal
      BY DEF TakeGlobal, DeclineAdvisory
    <2> QED
      BY <2>1 DEF AtGlobal, InGlobals, ArgvInv, Token
  <1>2. at \in Nat \ {0} /\ ~IsValueOf(DOMAIN GlobalValues, at)
    BY <1>1 DEF ArgvInv, GlobalsInv
  <1>3. /\ at' \in Nat /\ at < at'
        /\ \A j \in at + 1 .. at' - 1 : IsValueOf(DOMAIN GlobalValues, j)
    <2>1. CASE TakeGlobal
      <3>1. Token.name \in DOMAIN GlobalValues /\ HasValue(at) /\ at' = After(at)
        BY <2>1 DEF TakeGlobal, Proceed
      <3>2. /\ After(at) \in Nat /\ at < After(at)
            /\ Bare(argv[at]) => After(at) = at + 2
            /\ ~Bare(argv[at]) => After(at) = at + 1
        BY <1>1, <3>1, NameFacts, AfterValue DEF Subcommands
      <3>3. CASE Bare(argv[at])
        <4>1. IsValueOf(DOMAIN GlobalValues, at + 1)
          BY <1>1, <1>2, <3>1, <3>3 DEF IsValueOf
        <4>2. \A j \in at + 1 .. at' - 1 : j = at + 1
          BY <1>2, <3>1, <3>2, <3>3
        <4> QED
          BY <3>1, <3>2, <4>1, <4>2
      <3>4. CASE ~Bare(argv[at])
        BY <1>2, <3>1, <3>2, <3>4
      <3> QED
        BY <3>3, <3>4
    <2>2. CASE DeclineAdvisory
      <3>1. at' = at + 1
        BY <2>2 DEF DeclineAdvisory, Proceed
      <3> QED
        BY <1>2, <3>1
    <2> QED
      BY <2>1, <2>2
  <1>4. ASSUME NEW name
        PROVE  SeenFlags(name, at') = IF name = Token.name
                                        THEN SeenFlags(name, at) \cup {at} ELSE SeenFlags(name, at)
    <2>1. NamedFlags(name) \in SUBSET Nat /\ (at \in NamedFlags(name) <=> name = Token.name)
      BY <1>1, <1>2 DEF NamedFlags
    <2>2. \A j \in at + 1 .. at' - 1 : j \notin NamedFlags(name)
      BY <1>3 DEF NamedFlags
    <2>3. at \in Nat
      BY <1>2
    <2>4. Below(NamedFlags(name), at') = IF at \in NamedFlags(name)
                                           THEN Below(NamedFlags(name), at) \cup {at}
                                           ELSE Below(NamedFlags(name), at)
      BY <1>3, <2>1, <2>2, <2>3, Pass
    <2> QED
      BY <2>1, <2>4 DEF SeenFlags
  <1> QED
    BY <1>1, <1>2, <1>4

\* The last of the flags seen is the one just read.
LEMMA SeenLast ==
  ASSUME NEW name, at \in Nat
  PROVE  LastOf(SeenFlags(name, at) \cup {at}) = at
  <1> DEFINE S == SeenFlags(name, at) \cup {at}
  <1>1. S \in SUBSET Nat /\ at \in S /\ \A y \in S : y <= at
    BY DEF SeenFlags, Below, NamedFlags
  <1> HIDE DEF S
  <1>2. LastOf(S) = at
    BY <1>1, LastIs
  <1> QED
    BY <1>2 DEF S

\* A global flag that is read is one of those given.
LEMMA GlobalIsTaken ==
  ASSUME ArgvInv, GlobalsInv, GlobalsGiven(at), TakeGlobal \/ DeclineAdvisory
  PROVE  GlobalsGiven(at)'
  <1>1. /\ argv' = argv /\ at \in Nat \ {0}
        /\ \A name : SeenFlags(name, at') = IF name = Token.name
                                              THEN SeenFlags(name, at) \cup {at}
                                              ELSE SeenFlags(name, at)
    BY SeenNext DEF TakeGlobal, DeclineAdvisory, Proceed
  <1>2. /\ \A name : SeenFlags(name, at)' = SeenFlags(name, at')
        /\ \A i : TextOf(i)' = TextOf(i)
    BY <1>1, SeenKeep
  <1>3. CASE TakeGlobal /\ Token.name = "--log-level"
    <2>1. globals' = With(globals, "log_level", TextOf(at))
      BY <1>3, GlobalTable DEF TakeGlobal
    <2>2. /\ DOMAIN globals' = DOMAIN globals \cup {"log_level"}
          /\ globals'["log_level"] = TextOf(at)
          /\ \A k \in DOMAIN globals : k # "log_level" => globals'[k] = globals[k]
      BY <2>1 DEF With
    <2>3. /\ SeenFlags("--log-level", at)' = SeenFlags("--log-level", at) \cup {at}
          /\ LastOf(SeenFlags("--log-level", at)') = at
          /\ SeenFlags("--no-irig-day-advisory", at)' = SeenFlags("--no-irig-day-advisory", at)
      BY <1>1, <1>2, <1>3, SeenLast
    <2> QED
      BY <1>2, <2>2, <2>3 DEF GlobalsGiven
  <1>4. CASE TakeGlobal /\ Token.name = "--config"
    <2>1. globals' = With(globals, "config", TextOf(at))
      BY <1>4, GlobalTable DEF TakeGlobal
    <2>2. /\ DOMAIN globals' = DOMAIN globals \cup {"config"}
          /\ \A k \in DOMAIN globals : k # "config" => globals'[k] = globals[k]
      BY <2>1 DEF With
    <2>3. /\ SeenFlags("--log-level", at)' = SeenFlags("--log-level", at)
          /\ SeenFlags("--no-irig-day-advisory", at)' = SeenFlags("--no-irig-day-advisory", at)
      BY <1>1, <1>2, <1>4
    <2> QED
      BY <1>2, <2>2, <2>3 DEF GlobalsGiven
  <1>5. CASE DeclineAdvisory
    <2>1. globals' = With(globals, "irig_day_advisory", FALSE)
          /\ Token.name = "--no-irig-day-advisory"
      BY <1>5 DEF DeclineAdvisory
    <2>2. /\ DOMAIN globals' = DOMAIN globals \cup {"irig_day_advisory"}
          /\ globals'["irig_day_advisory"] = FALSE
          /\ \A k \in DOMAIN globals : k # "irig_day_advisory" => globals'[k] = globals[k]
      BY <2>1 DEF With
    <2>3. /\ SeenFlags("--log-level", at)' = SeenFlags("--log-level", at)
          /\ SeenFlags("--no-irig-day-advisory", at)'
               = SeenFlags("--no-irig-day-advisory", at) \cup {at}
      BY <1>1, <1>2, <2>1
    <2> QED
      BY <1>2, <2>2, <2>3 DEF GlobalsGiven
  <1> QED
    BY <1>3, <1>4, <1>5, GlobalTable DEF TakeGlobal

\* What was given stays so while the line and the values do.
LEMMA GivenStays ==
  ASSUME argv' = argv, globals' = globals, NEW n, GlobalsGiven(n)
  PROVE  GlobalsGiven(n)'
  BY SeenKeep DEF GlobalsGiven

\* The subcommand is found with every global flag before it.
LEMMA CommandSeesGlobals ==
  ASSUME ArgvInv, GlobalsInv, GlobalsGiven(at), TakeCommand
  PROVE  GlobalsGiven(CommandPosition)'
  <1>1. /\ CommandPosition = CommandAt /\ CommandAt \in {at, at + 1} /\ at \in Nat
        /\ argv' = argv /\ globals' = globals
    BY CommandIsFound DEF ArgvInv, TakeCommand, Proceed
  <1>2. CommandAt # at => Token.name = "--"
    BY DEF CommandAt, IsSeparator
  <1>3. ASSUME NEW name, name # "--"
        PROVE  SeenFlags(name, CommandAt) = SeenFlags(name, at)
    <2>1. CASE CommandAt = at
      BY <2>1
    <2>2. CASE CommandAt = at + 1 /\ CommandAt # at
      <3>1. at \notin NamedFlags(name) /\ NamedFlags(name) \in SUBSET Nat
        BY <1>2, <1>3, <2>2 DEF NamedFlags, Token
      <3>2. \A i \in NamedFlags(name) : i < at + 1 <=> i < at
        BY <1>1, <3>1
      <3> QED
        BY <2>2, <3>2 DEF SeenFlags, Below
    <2> QED
      BY <1>1, <2>1, <2>2
  <1>4. GlobalsGiven(CommandPosition)
    BY <1>1, <1>3 DEF GlobalsGiven
  <1>5. CommandPosition' = CommandPosition
    BY <1>1 DEF CommandPosition, IsSeparator, IsValueOf, Bare
  <1>6. \A n : GlobalsGiven(n) => GlobalsGiven(n)'
    BY <1>1, GivenStays
  <1> QED
    BY <1>4, <1>5, <1>6

\* count has no flags of its own.
LEMMA CountTakesNone ==
  DOMAIN Switches["count"] = {} /\ DOMAIN ValueFlags["count"] = {}
  BY DEF Switches, ValueFlags, Table

\* Each token read keeps the values to the flags.
LEMMA GivenKeeps ==
  ASSUME ArgvInv, LineInv, GivenInv, ReadToken
  PROVE  GivenInv'
  <1>1. GlobalsInv /\ reading \in {"globals"} \cup Subcommands /\ "globals" \notin Subcommands
    BY DEF LineInv, Subcommands
  <1>2. CASE TakeGlobal \/ DeclineAdvisory
    <2>1. /\ reading = "globals" /\ verdict = "reading" /\ UNCHANGED <<reading, args>>
      BY <1>2 DEF TakeGlobal, DeclineAdvisory, AtGlobal, InGlobals
    <2>2. GlobalsGiven(at)'
      BY <1>1, <1>2, <2>1, GlobalIsTaken DEF GivenInv
    <2> QED
      BY <1>1, <2>1, <2>2 DEF GivenInv
  <1>3. CASE TakeCommand
    <2>1. /\ reading = "globals" /\ verdict = "reading" /\ args' = args
          /\ reading' \in Subcommands
      BY <1>3 DEF TakeCommand, ReachesCommand, AtGlobal, InGlobals
    <2>2. GlobalsGiven(CommandPosition)'
      BY <1>1, <1>3, <2>1, CommandSeesGlobals DEF GivenInv
    <2>3. DOMAIN args' = {}
      BY <2>1 DEF GivenInv
    <2> QED
      BY <1>1, <2>1, <2>2, <2>3 DEF GivenInv
  <1>4. CASE EndOptions \/ TakePath \/ SetSwitch \/ TakeValue \/ EndOfArguments
    <2>1. /\ reading \in Subcommands /\ verdict = "reading"
          /\ UNCHANGED <<argv, reading, globals>>
      BY <1>4
      DEF EndOptions, TakePath, AtPath, SetSwitch, TakeValue, EndOfArguments, Answer, Proceed,
          AtFlag, InCommand
    <2>2. CommandPosition' = CommandPosition
      BY <2>1, PositionsKeep
    <2>3. \A n : GlobalsGiven(n) => GlobalsGiven(n)'
      BY <2>1, GivenStays
    <2>4. GlobalsGiven(CommandPosition)
      BY <2>1 DEF GivenInv
    <2>5. reading = "count" => args' = args
      BY <1>4, CountTakesNone
      DEF EndOptions, TakePath, SetSwitch, SetsSwitch, TakeValue, TakesValue, EndOfArguments,
          Answer
    <2> QED
      BY <1>1, <2>1, <2>2, <2>3, <2>4, <2>5 DEF GivenInv
  <1>5. CASE \/ NoCommand \/ GlobalHelp \/ GlobalVersion \/ GlobalWithoutValue
             \/ UnknownCommand \/ SecondPath \/ CommandHelp \/ RefuseValue
             \/ FlagWithoutValue \/ RefuseFlag
    <2>1. /\ UNCHANGED <<reading, args>> /\ verdict' \in {"usage", "help", "version"}
      BY <1>5
      DEF NoCommand, GlobalHelp, GlobalVersion, GlobalWithoutValue, UnknownCommand,
          SecondPath, CommandHelp, RefuseValue, FlagWithoutValue, RefuseFlag, Fail, Answer
    <2> QED
      BY <2>1 DEF GivenInv
  <1> QED
    BY <1>2, <1>3, <1>4, <1>5 DEF ReadToken

-----------------------------------------------------------------------------
(* The settings of a run.                                                  *)

\* The level and the advisory are the wanted ones.
Resolved == level = WantedLevel /\ advisory = WantedAdvisory

\* From stage to stage: an accepted line, the level of its flag, a file that
\* was loaded, the level and the advisory, and then the settings.
SettledInv ==
  /\ stage \in {"arguments", "config"} => settings = None
  /\ stage \notin {"arguments", "exited"} => verdict = "parsed"
  /\ stage = "config" /\ LevelGiven => level = Value("log_level", globals["log_level"][1])
  /\ stage \notin {"arguments", "config", "exited"} => loading = "loaded" /\ Resolved
  /\ stage = "count" => reading = "count"
  /\ settings # None =>
       /\ stage # "arguments" /\ Resolved
       /\ \A field \in DOMAIN Defaults \ {"log_level", "irig_day_advisory"} :
            settings[field] = FromLine(field)

\* What the run should have goes with the line and the file.
LEMMA WantedKeep ==
  ASSUME UNCHANGED <<argv, reading, globals>>, configFile' = configFile
  PROVE  /\ WantedLevel' = WantedLevel /\ WantedAdvisory' = WantedAdvisory
         /\ \A field : FromLine(field)' = FromLine(field)
  <1>1. \A field : FromFile(field)' = FromFile(field)
    BY VerdictKeeps DEF ConfigGiven
  <1>2. /\ CommandPosition' = CommandPosition /\ FlagPositions' = FlagPositions
    BY PositionsKeep
  <1>3. \A name : GlobalPositions(name)' = GlobalPositions(name)
    BY <1>2 DEF GlobalPositions, IsValueOf, Bare
  <1>4. /\ \A i : TextOf(i)' = TextOf(i)
        /\ \A i : FieldAt(i)' = FieldAt(i)
    BY DEF TextOf, Bare, FieldAt
  <1>5. /\ \A i : ValueAt(i)' = ValueAt(i)
        /\ \A i : FilterValuesAt(i)' = FilterValuesAt(i)
    BY <1>4 DEF ValueAt, FilterValuesAt
  <1>6. WantedLevel' = WantedLevel
    BY <1>1, <1>3, <1>4 DEF WantedLevel
  <1>7. WantedAdvisory' = WantedAdvisory
    BY <1>1, <1>3 DEF WantedAdvisory
  <1>8. \A field : FromLine(field)' = FromLine(field)
    BY <1>1, <1>2, <1>4, <1>5 DEF FromLine
  <1> QED
    BY <1>6, <1>7, <1>8

\* The global flags of an accepted line.
LEMMA GlobalsAre ==
  ASSUME ReadInv, LineInv, GivenInv, verdict = "parsed"
  PROVE  /\ DOMAIN globals \subseteq {"log_level", "config", "irig_day_advisory"}
         /\ LevelGiven <=> GlobalPositions("--log-level") # {}
         /\ LevelGiven => globals["log_level"] = TextOf(Max(GlobalPositions("--log-level")))
         /\ "irig_day_advisory" \in DOMAIN globals
              <=> GlobalPositions("--no-irig-day-advisory") # {}
         /\ "irig_day_advisory" \in DOMAIN globals => globals["irig_day_advisory"] = FALSE
  <1>1. reading \in Subcommands /\ CommandPosition \in Nat \ {0}
    BY ParsedMatches DEF ArgvInv
  <1>2. GlobalsGiven(CommandPosition)
    BY <1>1 DEF GivenInv
  <1>3. ASSUME NEW name
        PROVE  /\ GlobalPositions(name) = SeenFlags(name, CommandPosition)
               /\ GlobalPositions(name) \subseteq 1 .. CommandPosition - 1
    <2>1. \A i : i \in 1 .. CommandPosition - 1 <=> i \in Nat \ {0} /\ i < CommandPosition
      BY <1>1
    <2> QED
      BY <2>1 DEF GlobalPositions, SeenFlags, Below, NamedFlags
  <1>4. GlobalPositions("--log-level") # {}
          => Max(GlobalPositions("--log-level")) = LastOf(GlobalPositions("--log-level"))
    <2>1. CommandPosition - 1 \in Nat
      BY <1>1
    <2> QED
      BY <1>3, <2>1, MaxIsLast
  <1> QED
    BY <1>2, <1>3, <1>4 DEF GlobalsGiven, LevelGiven

\* The file over the defaults, the flags over both.
LEMMA ResolvedAsWanted ==
  ASSUME ReadInv, LineInv, GivenInv, LoadInv, SettledInv, ResolveConfig
  PROVE  Resolved'
  <1>1. /\ stage = "config" /\ loading = "loaded" /\ verdict = "parsed"
        /\ level' = IF LevelGiven THEN level ELSE config.log_level
        /\ advisory' = IF "irig_day_advisory" \in DOMAIN globals
                         THEN globals["irig_day_advisory"] ELSE config.irig_day_advisory
        /\ UNCHANGED <<argv, reading, globals>> /\ configFile' = configFile
    BY DEF ResolveConfig, SettledInv, cliVars, loadVars
  <1>2. /\ config["log_level"] = FromFile("log_level")
        /\ config["irig_day_advisory"] = FromFile("irig_day_advisory")
    <2>1. "log_level" \in DOMAIN Defaults /\ "irig_day_advisory" \in DOMAIN Defaults
      BY DEF Defaults
    <2> QED
      BY <1>1, <2>1 DEF LoadInv
  <1>3. level' = WantedLevel
    BY <1>1, <1>2, GlobalsAre DEF WantedLevel, SettledInv
  <1>4. advisory' = WantedAdvisory
    BY <1>1, <1>2, GlobalsAre DEF WantedAdvisory
  <1> QED
    BY <1>1, <1>3, <1>4, WantedKeep DEF Resolved

\* What the flags of the command say of a field.
LEMMA ArgsSay ==
  ASSUME ReadInv, LineInv, verdict = "parsed", NEW field
  PROVE  FromLine(field) = IF field \notin DOMAIN args THEN FromFile(field)
                           ELSE IF field \in FilterFields THEN FromFile(field) \cup args[field]
                           ELSE args[field]
  <1> DEFINE flags == {i \in FlagPositions : FieldAt(i) = field}
  <1>1. DOMAIN args = {FieldAt(i) : i \in FlagPositions}
    BY ParsedMatches DEF ArgsMatch
  <1>2. field \in DOMAIN args <=> flags # {}
    BY <1>1
  <1>3. field \in DOMAIN args => args[field] = FieldValue(field, flags)
    BY ParsedMatches DEF ArgsMatch
  <1>4. FromLine(field) = IF flags = {} THEN FromFile(field)
                          ELSE IF field \in FilterFields
                            THEN FromFile(field) \cup UNION {FilterValuesAt(i) : i \in flags}
                          ELSE ValueAt(Max(flags))
    BY DEF FromLine
  <1>5. flags # {} => Max(flags) = LastOf(flags)
    <2>1. flags \in SUBSET (1 .. Len(argv)) /\ Len(argv) \in Nat
      BY ParsedMatches, PlaceFacts DEF ArgvInv
    <2> HIDE DEF flags
    <2> QED
      BY <2>1, MaxIsLast
  <1> HIDE DEF flags
  <1> QED
    BY <1>2, <1>3, <1>4, <1>5 DEF FieldValue

\* What a decode runs with.
LEMMA DecodeSettled ==
  ASSUME ReadInv, LineInv, GivenInv, LoadInv, SettledInv, FindInputs,
         NEW field \in DOMAIN Defaults \ {"log_level", "irig_day_advisory"}
  PROVE  settings'[field] = FromLine(field)
  <1>1. /\ stage = "decode" /\ loading = "loaded" /\ verdict = "parsed"
        /\ settings' = WithOverrides(config, Overrides)
    BY DEF FindInputs, SettledInv
  <1>2. DOMAIN config = DOMAIN Defaults /\ config[field] = FromFile(field)
    BY <1>1 DEF LoadInv
  <1>3. DOMAIN globals \subseteq {"log_level", "config", "irig_day_advisory"}
    BY <1>1, GlobalsAre
  <1>4. field \notin DOMAIN globals /\ field # "config"
    BY <1>3 DEF Defaults
  <1>5. field \in DOMAIN Overrides <=> field \in DOMAIN args
    BY <1>4 DEF Overrides
  <1>6. field \in DOMAIN args => Overrides[field] = args[field]
    BY <1>4 DEF Overrides
  <1>7. settings'[field] = IF field \notin DOMAIN Overrides THEN config[field]
                           ELSE IF field \in FilterFields THEN config[field] \cup Overrides[field]
                           ELSE Overrides[field]
    BY <1>1, <1>2 DEF WithOverrides
  <1> QED
    BY <1>1, <1>2, <1>5, <1>6, <1>7, ArgsSay

\* What a count runs with.
LEMMA CountSettled ==
  ASSUME ReadInv, LineInv, GivenInv, LoadInv, SettledInv, ChooseCounted,
         NEW field \in DOMAIN Defaults \ {"log_level", "irig_day_advisory"}
  PROVE  settings'[field] = FromLine(field)
  <1>1. /\ stage = "count" /\ loading = "loaded" /\ verdict = "parsed" /\ reading = "count"
        /\ settings' = config
    BY DEF ChooseCounted, SettledInv
  <1>2. DOMAIN args = {} /\ config[field] = FromFile(field)
    BY <1>1 DEF LoadInv, GivenInv
  <1> QED
    BY <1>1, <1>2, ArgsSay

\* A step that leaves alone what the settings are made from.
Settling ==
  /\ UNCHANGED <<cliVars, loadVars, settings, level, advisory>>
  /\ \/ stage' \in {stage, "exited"}
     \/ {stage, stage'} \cap {"arguments", "config", "count", "exited"} = {}

\* Which steps leave them alone.
LEMMA SettlingSteps ==
  ASSUME Next
  PROVE  \/ Settling \/ ReadArguments \/ ApplyLogLevel \/ ReadConfig \/ ResolveConfig
         \/ FindInputs \/ ChooseCounted
  <1>1. CASE PrintAnswer \/ RefuseArguments \/ RefuseLogLevel \/ RefuseConfig
    BY <1>1
    DEF PrintAnswer, RefuseArguments, RefuseLogLevel, RefuseConfig, ExitAfterPrinting, Exit,
        Ended, pipelineVars, Settling
  <1>2. CASE InputsUnreadable \/ InputsMiscounted \/ OpenInputs
    BY <1>2
    DEF InputsUnreadable, InputsMiscounted, OpenInputs, Exit, Ended, pipelineVars, Settling
  <1>3. CASE InputUnopened \/ RefuseCollision \/ RefuseRendering
    BY <1>3
    DEF InputUnopened, RefuseCollision, RefuseRendering, Exit, Ended, pipelineVars, Settling
  <1>4. CASE Begin
    BY <1>4
    DEF Begin, PrimingFails, RefuseOutput, StartStream, Fails, Exit, Ended, pipelineVars,
        Settling
  <1>5. CASE PullStream
    BY <1>5 DEF PullStream, Pull, Settling
  <1>6. CASE WriteRow \/ RowUnrenderable \/ StreamEnds
    BY <1>6 DEF WriteRow, RowUnrenderable, StreamEnds, Fails, Exit, Ended, pipelineVars, Settling
  <1>7. CASE StdoutFails \/ StreamFailed \/ CommitFails \/ Conclude
    BY <1>7
    DEF StdoutFails, StreamFailed, CommitFails, Conclude, Fails, Exit, Ended, pipelineVars,
        Settling
  <1>8. CASE CommitMain \/ CommitErrors
    BY <1>8 DEF CommitMain, CommitErrors, Committing, Commit, pipelineVars, Settling
  <1>9. CASE CountUnopened \/ OpenCounted
    BY <1>9 DEF CountUnopened, OpenCounted, Exit, Ended, pipelineVars, Settling
  <1>10. CASE Count
    BY <1>10
    DEF Count, CountMessage, CountFails, PrintCount, Fails, ExitAfterPrinting, Exit, Ended,
        pipelineVars, Settling
  <1>11. CASE DumpUnreadable \/ Dumping
    BY <1>11
    DEF DumpUnreadable, Dumping, DumpRaw, DumpRecords, DumpRecord, DumpDone, DumpStops, DumpCut,
        DumpEnds, DumpSteps, Exit, Ended, pipelineVars, Settling
  <1>12. CASE Exited
    BY <1>12 DEF Exited, vars, pipelineVars, Settling
  <1> QED
    BY <1>1, <1>2, <1>3, <1>4, <1>5, <1>6, <1>7, <1>8, <1>9, <1>10, <1>11, <1>12
    DEF Next, Decode

\* The whole invariant of the settings.
ChosenInv == GivenInv /\ LoadInv /\ SettledInv

\* Without a token read, what was given stays.
LEMMA GivenSame ==
  ASSUME GivenInv, UNCHANGED cliVars
  PROVE  GivenInv'
  <1>1. UNCHANGED <<argv, at, reading, globals, args, verdict>>
    BY DEF cliVars
  <1>2. CommandPosition' = CommandPosition
    BY <1>1, PositionsKeep
  <1>3. \A n : GlobalsGiven(n) => GlobalsGiven(n)'
    BY <1>1, GivenStays
  <1> QED
    BY <1>1, <1>2, <1>3 DEF GivenInv

\* Without a line read, what was loaded stays.
LEMMA LoadSame ==
  ASSUME LoadInv, UNCHANGED loadVars, ConfigGiven' <=> ConfigGiven,
         stage' = "arguments" => stage = "arguments"
  PROVE  LoadInv'
  <1>1. /\ configFile' = configFile /\ loading' = loading /\ config' = config
        /\ UNCHANGED <<line, section, seenSections, entries>>
    BY DEF loadVars
  <1>2. /\ BadConfigFile' <=> BadConfigFile
        /\ \A field : FromFile(field)' = FromFile(field)
    BY <1>1, VerdictKeeps
  <1>3. LinesRead => LinesRead'
    BY <1>1, FileKeeps DEF LinesRead
  <1> QED
    BY <1>1, <1>2, <1>3 DEF LoadInv

\* At the start no file has been opened.
LEMMA LoadInit ==
  ASSUME Init
  PROVE  LoadInv
  <1>1. PICK family \in Families : \E given \in family : StartLoading(given.configFile)
    BY DEF Init
  <1>2. PICK given \in family : StartLoading(given.configFile)
    BY <1>1
  <1>3. /\ configFile = given.configFile /\ loading = "idle" /\ line = 1 /\ section = ""
        /\ seenSections = {} /\ DOMAIN entries = {} /\ config = None
    BY <1>2 DEF StartLoading
  <1>4. /\ Len(configFile.lines) \in Nat
        /\ DOMAIN configFile.lines = 1 .. Len(configFile.lines)
    BY <1>1, <1>2, <1>3, ConfigFilesAssumption
  <1> QED
    BY <1>3, <1>4 DEF LoadInv

\* At the start no flag has been read.
LEMMA GivenInit ==
  ASSUME Init
  PROVE  GivenInv
  <1>1. PICK family \in Families : \E given \in family : StartReading(given.argv)
    BY DEF Init
  <1>2. PICK given \in family : StartReading(given.argv)
    BY <1>1
  <1>3. /\ at = 1 /\ verdict = "reading" /\ reading = "globals"
        /\ DOMAIN globals = {} /\ DOMAIN args = {}
    BY <1>2 DEF StartReading, Nothing
  <1>4. \A name : SeenFlags(name, 1) = {}
    BY DEF SeenFlags, Below, NamedFlags
  <1>5. GlobalsGiven(at)
    BY <1>3, <1>4 DEF GlobalsGiven
  <1> QED
    BY <1>3, <1>5 DEF GivenInv, Subcommands

\* The settings of a run, once they are chosen, stay what was asked for.
LEMMA SettledStays ==
  ASSUME UNCHANGED <<cliVars, loadVars, level, advisory, settings>>, SettledInv
  PROVE  /\ Resolved => Resolved'
         /\ settings' # None =>
              /\ Resolved'
              /\ \A field \in DOMAIN Defaults \ {"log_level", "irig_day_advisory"} :
                   settings'[field] = FromLine(field)'
  <1>1. /\ WantedLevel' = WantedLevel /\ WantedAdvisory' = WantedAdvisory
        /\ \A field : FromLine(field)' = FromLine(field)
    BY WantedKeep DEF cliVars, loadVars
  <1> QED
    BY <1>1 DEF SettledInv, Resolved

\* Every step keeps the settings to what was asked for.
LEMMA ChoosingSteps ==
  ASSUME ReadInv, LineInv, ChosenInv, Next
  PROVE  ChosenInv'
  <1>0. GivenInv /\ LoadInv /\ SettledInv /\ ArgvInv
    BY DEF ChosenInv, ReadInv
  <1>1. CASE ReadArguments
    <2>1. /\ ReadToken /\ stage = "arguments"
          /\ UNCHANGED <<loadVars, settings, stage, level, advisory>>
      BY <1>1 DEF ReadArguments, pipelineVars
    <2>2. GivenInv'
      BY <1>0, <2>1, GivenKeeps
    <2>3. loading = "idle" /\ config = None /\ settings = None
      BY <1>0, <2>1 DEF LoadInv, SettledInv
    <2>4. LoadInv'
      <3>1. /\ UNCHANGED <<configFile, loading, line, section, seenSections, entries, config>>
        BY <2>1 DEF loadVars
      <3> QED
        BY <1>0, <2>1, <2>3, <3>1 DEF LoadInv
    <2>5. SettledInv'
      BY <2>1, <2>3 DEF SettledInv
    <2> QED
      BY <2>2, <2>4, <2>5 DEF ChosenInv
  <1>2. ASSUME UNCHANGED cliVars
        PROVE  GivenInv' /\ (ConfigGiven' <=> ConfigGiven)
    BY <1>0, <1>2, GivenSame DEF cliVars, ConfigGiven
  <1>3. CASE Settling
    <2>1. /\ UNCHANGED <<cliVars, loadVars, settings, level, advisory>>
          /\ stage' \in {stage, "exited"}
             \/ {stage, stage'} \cap {"arguments", "config", "count", "exited"} = {}
      BY <1>3 DEF Settling
    <2>2. LoadInv'
      BY <1>0, <1>2, <2>1, LoadSame
    <2>3. UNCHANGED <<verdict, globals, reading, loading>>
      BY <2>1 DEF cliVars, loadVars
    <2>4. LevelGiven' <=> LevelGiven
      BY <2>3 DEF LevelGiven
    <2>5. /\ Resolved => Resolved'
          /\ settings' # None =>
               /\ Resolved'
               /\ \A field \in DOMAIN Defaults \ {"log_level", "irig_day_advisory"} :
                    settings'[field] = FromLine(field)'
      BY <1>0, <2>1, SettledStays
    <2>6. SettledInv'
      <3>1. CASE stage' = stage
        BY <1>0, <2>1, <2>3, <2>4, <2>5, <3>1 DEF SettledInv
      <3>2. CASE stage' = "exited"
        BY <1>0, <2>1, <2>3, <2>4, <2>5, <3>2 DEF SettledInv
      <3>3. CASE {stage, stage'} \cap {"arguments", "config", "count", "exited"} = {}
        BY <1>0, <2>1, <2>3, <2>4, <2>5, <3>3 DEF SettledInv
      <3> QED
        BY <2>1, <3>1, <3>2, <3>3
    <2> QED
      BY <1>2, <2>1, <2>2, <2>6 DEF ChosenInv
  <1>4. CASE ApplyLogLevel
    <2>1. /\ stage = "arguments" /\ verdict = "parsed" /\ stage' = "config"
          /\ UNCHANGED <<cliVars, loadVars, settings>>
          /\ level' = IF LevelGiven THEN Value("log_level", globals["log_level"][1])
                                    ELSE "warning"
      BY <1>4 DEF ApplyLogLevel, pipelineVars
    <2>2. LoadInv'
      BY <1>0, <1>2, <2>1, LoadSame
    <2>3. settings' = None /\ verdict' = verdict /\ globals' = globals
      BY <1>0, <2>1 DEF SettledInv, cliVars
    <2>4. SettledInv'
      BY <2>1, <2>3 DEF SettledInv, LevelGiven
    <2> QED
      BY <1>2, <2>1, <2>2, <2>4 DEF ChosenInv
  <1>5. CASE ReadConfig
    <2>1. /\ stage = "config" /\ stage' = stage /\ LoadConfig(ConfigGiven)
          /\ UNCHANGED <<cliVars, settings, level, advisory>>
      BY <1>5 DEF ReadConfig, pipelineVars, ConfigGiven
    <2>2. LoadInv'
      BY <1>0, <1>2, <2>1, LoadKeeps
    <2>3. settings' = None /\ verdict' = verdict /\ globals' = globals /\ verdict = "parsed"
      BY <1>0, <2>1 DEF SettledInv, cliVars
    <2>4. SettledInv'
      BY <1>0, <2>1, <2>3 DEF SettledInv, LevelGiven
    <2> QED
      BY <1>2, <2>1, <2>2, <2>4 DEF ChosenInv
  <1>6. CASE ResolveConfig
    <2>1. /\ stage = "config" /\ loading = "loaded" /\ stage' = reading
          /\ UNCHANGED <<cliVars, loadVars, settings>>
      BY <1>6 DEF ResolveConfig, pipelineVars
    <2>2. verdict = "parsed" /\ settings = None
      BY <1>0, <2>1 DEF SettledInv
    <2>3. reading \in Subcommands
      BY <2>2 DEF LineInv
    <2>4. LoadInv'
      BY <1>0, <1>2, <2>1, <2>3, LoadSame DEF Subcommands
    <2>5. UNCHANGED <<verdict, reading, loading>>
      BY <2>1 DEF cliVars, loadVars
    <2>6. SettledInv'
      BY <1>0, <1>6, <2>1, <2>2, <2>3, <2>5, ResolvedAsWanted DEF SettledInv, Subcommands
    <2> QED
      BY <1>2, <2>1, <2>4, <2>6 DEF ChosenInv
  <1>7. CASE FindInputs \/ ChooseCounted
    <2>1. /\ stage \in {"decode", "count"} /\ stage' \in {"open", "counting"}
          /\ UNCHANGED <<cliVars, loadVars, level, advisory>>
      BY <1>7 DEF FindInputs, ChooseCounted
    <2>2. verdict = "parsed" /\ loading = "loaded" /\ Resolved
      BY <1>0, <2>1 DEF SettledInv
    <2>3. LoadInv'
      BY <1>0, <1>2, <2>1, LoadSame
    <2>4. UNCHANGED <<verdict, reading, loading>>
      BY <2>1 DEF cliVars, loadVars
    <2>5. /\ WantedLevel' = WantedLevel /\ WantedAdvisory' = WantedAdvisory
          /\ \A field : FromLine(field)' = FromLine(field)
      BY <2>1, WantedKeep DEF cliVars, loadVars
    <2>6. Resolved'
      BY <2>1, <2>2, <2>5 DEF Resolved
    <2>7. \A field \in DOMAIN Defaults \ {"log_level", "irig_day_advisory"} :
            settings'[field] = FromLine(field)
      BY <1>0, <1>7, DecodeSettled, CountSettled
    <2>8. SettledInv'
      BY <2>1, <2>2, <2>4, <2>5, <2>6, <2>7 DEF SettledInv
    <2> QED
      BY <1>2, <2>1, <2>3, <2>8 DEF ChosenInv
  <1> QED
    BY <1>1, <1>3, <1>4, <1>5, <1>6, <1>7, SettlingSteps

\* The invariant of the settings.
LEMMA ChosenInvariance == Spec => []ChosenInv
  <1>1. Init => ChosenInv
    <2> SUFFICES ASSUME Init PROVE ChosenInv
      OBVIOUS
    <2>1. stage = "arguments" /\ settings = None
      BY DEF Init, StartPipeline
    <2>2. SettledInv
      BY <2>1 DEF SettledInv
    <2> QED
      BY <2>2, LoadInit, GivenInit DEF ChosenInv
  <1>2. ReadInv /\ LineInv /\ ChosenInv /\ [Next]_vars => ChosenInv'
    <2> SUFFICES ASSUME ReadInv, LineInv, ChosenInv, [Next]_vars PROVE ChosenInv'
      OBVIOUS
    <2>1. CASE Next
      BY <2>1, ChoosingSteps
    <2>2. CASE UNCHANGED vars
      <3>1. UNCHANGED cliVars /\ UNCHANGED loadVars /\ UNCHANGED <<settings, stage, level, advisory>>
        BY <2>2 DEF vars, pipelineVars
      <3>2. GivenInv'
        BY <3>1, GivenSame DEF ChosenInv
      <3>3. LoadInv'
        BY <3>1, LoadSame DEF ChosenInv, cliVars, ConfigGiven
      <3>4. /\ UNCHANGED <<verdict, globals, reading, loading>>
        BY <3>1 DEF cliVars, loadVars
      <3>5. SettledInv'
        BY <3>1, <3>4, SettledStays DEF ChosenInv, SettledInv, LevelGiven
      <3> QED
        BY <3>2, <3>3, <3>5 DEF ChosenInv
    <2> QED
      BY <2>1, <2>2
  <1> QED
    BY <1>1, <1>2, ReadInvariance, LineInvariance, PTL DEF Spec

\* L2-CFG-003, L2-CFG-009, L2-CFG-010: a run has the settings of its last
\* flags, then of the file, then the defaults, and a file is refused exactly
\* when something in it is bad, however long the line and the file are.
THEOREM SettingsAreHonoured == Spec => []SettingsHonoured
  <1>1. ChosenInv => SettingsHonoured
    <2> SUFFICES ASSUME LoadInv, SettledInv PROVE SettingsHonoured
      BY DEF ChosenInv
    <2>1. loading = "refused" => BadConfigFile
      BY DEF LoadInv
    <2>2. config # None =>
            /\ ~BadConfigFile
            /\ \A field \in DOMAIN Defaults : config[field] = FromFile(field)
      BY DEF LoadInv
    <2> QED
      BY <2>1, <2>2 DEF SettingsHonoured, SettledInv, Resolved
  <1> QED
    BY <1>1, ChosenInvariance, PTL
=============================================================================
