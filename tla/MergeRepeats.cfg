\* One recorder repeats a message within the window.
CONSTANTS
  message = message
  spurious = spurious
  N = 2
  Times <- ThreeTimes
  Contents <- OnlyMessages
  DeltaKeys <- OnlyMessages
  Configs <- WideWindow
  MaxRecords = 3
SPECIFICATION Spec
INVARIANTS RepeatsOfOneInputKept
CHECK_DEADLOCK FALSE
