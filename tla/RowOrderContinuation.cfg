\* What the error catalog says of the row above a continuation.
CONSTANTS
  Times <- TwoTimes
  Keys <- TwoKeys
  Kinds <- AllKinds
  Caps <- LargeCap
  MaxRecords = 4
SPECIFICATION Spec
INVARIANTS ContinuationUnderItsError
CHECK_DEADLOCK FALSE
