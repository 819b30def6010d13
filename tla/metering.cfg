SPECIFICATION FairSpec
CONSTANTS
  MaxRequests = 2
  MaxHour = 2
  MaxRotations = 1
  MaxJobFaults = 1
  MaxBillFaults = 1
  BatchSize = 1
  Retention = 1
INVARIANTS
  TypeOK
  CountedOnce
  NothingSkipped
  BilledAsCounted
  BilledAfterItsHour
PROPERTIES
  RowsAreReported
  LinesAreCounted
