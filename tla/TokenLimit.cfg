SPECIFICATION FairLimitSpec
CONSTANTS
  MaxRecords = 21
  LimitBound = 23
INVARIANTS AcceptedExactly
PROPERTIES SearchEnds
CHECK_DEADLOCK FALSE
