\* Hard links may fail, every run refuses to clobber: the reservation path.
CONSTANTS
  r1 = r1
  r2 = r2
  Runs = {r1, r2}
  Nobody = Nobody
  Configs <- RefusingConfigs
  ForeignTargets <- NoFiles
  StaleTemps <- OneRunsTemps
  LinkMayFail = TRUE
  MaxRows = 1
  MaxAttempts = 2
  MaxUnlinkFaults = 1
SPECIFICATION FairSpec
INVARIANTS NoMixedPair ReservationsAccounted
PROPERTIES NoClobber PublishesAtomically Terminates
CHECK_DEADLOCK FALSE
