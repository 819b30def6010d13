SPECIFICATION Spec
CONSTANTS
  Web = {w1}
  Worker = q
  Keep = 5
  MaxCode = 2
  MaxSecond = 2
  MaxRows = 3
  MaxFaults = 0
  MaxByHand = 0
PROPERTY BuildFollowsRollback
CHECK_DEADLOCK FALSE
