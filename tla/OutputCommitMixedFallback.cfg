\* Hard links may fail, and a replacing run shares the directory.
CONSTANTS
  r1 = r1
  r2 = r2
  Runs = {r1, r2}
  Nobody = Nobody
  Configs <- MixedConfigs
  ForeignTargets <- OneOlderFile
  StaleTemps <- NoFiles
  LinkMayFail = TRUE
  MaxRows = 1
  MaxAttempts = 2
  MaxUnlinkFaults = 1
SPECIFICATION Spec
PROPERTIES NoClobber
CHECK_DEADLOCK FALSE
