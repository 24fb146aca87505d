\* Hard links work: the guarantees of the link path under mixed options.
CONSTANTS
  r1 = r1
  r2 = r2
  Runs = {r1, r2}
  Nobody = Nobody
  Configs <- MixedConfigs
  ForeignTargets <- OneOlderFile
  StaleTemps <- OneRunsTemps
  LinkMayFail = FALSE
  MaxRows = 1
  MaxAttempts = 2
  MaxUnlinkFaults = 2
SPECIFICATION Spec
INVARIANTS TypeOK WholeAtTargets OutcomeHonest TempsReclaimed
PROPERTIES NoClobber InputUntouched PublishesAtomically
CHECK_DEADLOCK FALSE
