SPECIFICATION FairSpec
CONSTANTS
  Web = {w1}
  Worker = q
  Keep = 1
  MaxCode = 1
  MaxSecond = 1
  MaxRows = 2
  MaxFaults = 2
  MaxByHand = 1
PROPERTY BuildingEnds
CHECK_DEADLOCK FALSE
