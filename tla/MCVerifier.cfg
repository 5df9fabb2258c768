CONSTANTS
  Item = {i, j}
  MaxSubmits = 4
SPECIFICATION FairSpec
CHECK_DEADLOCK FALSE
INVARIANTS NoLostWakeup StopDrains
PROPERTIES GateSpec EveryItemVerified StopReturns
