\* Whole runs of the program, in families of what they are given.
CONSTANTS
  None = None
  Families <- AllFamilies
  MaxMergeFiles = 3
  ScanWindow = 20
  Sample = 4
  MaxRecords = 12
SPECIFICATION Spec
INVARIANTS HelpIsAnswered NoTokenSwallowed SettingsHonoured RowsExact ExitHonest InputsSurvive DumpHonest
