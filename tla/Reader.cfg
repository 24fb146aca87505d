\* Every recording of three segments, in both modes and every format.
CONSTANTS
  Files <- SmallFiles
  Configs <- AllConfigs
  MinWords <- Minima
  ScanWindow = 4
  Sample = 3
SPECIFICATION FairSpec
INVARIANTS TypeOK RowsDisjoint NoValidRecordLost ContinuationHonest LossesCounted StrictSurfaces CleanEndNearEof
PROPERTIES Terminates
CHECK_DEADLOCK FALSE
