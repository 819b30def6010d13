SPECIFICATION Spec
CONSTANTS
  MaxRequests = 2
  MaxHour = 2
  MaxRotations = 1
  MaxJobFaults = 0
  MaxBillFaults = 0
  BatchSize = 1
  Retention = 1
PROPERTY ReportedIsComplete
