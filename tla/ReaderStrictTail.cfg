\* What is required of a truncated record in strict mode.
CONSTANTS
  Files <- SmallFiles
  Configs <- AllConfigs
  MinWords <- Minima
  ScanWindow = 4
  Sample = 3
SPECIFICATION Spec
INVARIANTS StrictTailSurfaces
CHECK_DEADLOCK FALSE
