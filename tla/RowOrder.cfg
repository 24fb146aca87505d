\* Every stream of five records or fewer, through every cap.
CONSTANTS
  Times <- TwoTimes
  Keys <- TwoKeys
  Kinds <- SortedKinds
  Caps <- SomeCaps
  MaxRecords = 5
SPECIFICATION Spec
INVARIANTS TypeOK BufferBounded CanonicalOrder RowsBeforeResult KeyOrderKept PinsTravel
CHECK_DEADLOCK FALSE
