SPECIFICATION Spec
CONSTANTS
  Web = {w1}
  Worker = q
  Keep = 1
  MaxCode = 2
  MaxSecond = 2
  MaxRows = 3
  MaxFaults = 1
  MaxByHand = 1
INVARIANTS
  TypeOK
  SnapshotAsDeployed
  VmRunsLastRow
  FewSnapshots
PROPERTY NoCodeNoDeploy
CHECK_DEADLOCK FALSE
