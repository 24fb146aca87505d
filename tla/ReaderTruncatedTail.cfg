\* What is required of a truncated final record in lenient mode.
CONSTANTS
  Files <- SmallFiles
  Configs <- AllConfigs
  MinWords <- Minima
  ScanWindow = 4
  Sample = 3
SPECIFICATION Spec
INVARIANTS TruncatedTailStops
CHECK_DEADLOCK FALSE
