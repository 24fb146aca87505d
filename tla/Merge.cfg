\* Every pair of short recordings, in every mode.
CONSTANTS
  message = message
  spurious = spurious
  N = 2
  Times <- ThreeTimes
  Contents <- BothContents
  DeltaKeys <- OnlyMessages
  Configs <- MixedConfigs
  MaxRecords = 4
SPECIFICATION Spec
INVARIANTS TypeOK MergedInOrder NoRowLost CollapsedIffWitnessed SurvivorsBounded FailureNeverSilent DeltaInScope
CHECK_DEADLOCK FALSE
