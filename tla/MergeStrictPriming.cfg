\* A strict merge that may write a .partial.
CONSTANTS
  message = message
  spurious = spurious
  N = 2
  Times <- ThreeTimes
  Contents <- OnlyMessages
  DeltaKeys <- OnlyMessages
  Configs <- StrictPartial
  MaxRecords = 3
SPECIFICATION Spec
INVARIANTS StrictFailureSurfaces
CHECK_DEADLOCK FALSE
