CONSTANTS
  NPid = 3
  NSlots = 3
  NWait = 3
  WakeMax = 1
  Depth = 4
  MaxOff = 3
  Asks <- MCAsks
  MaxCalls = 4
  MaxKill = 1
SPECIFICATION Spec
INVARIANTS TypeOK Canonical WaitersCurrent SleeperBlocked
PROPERTIES ImplementsByteLocks
CHECK_DEADLOCK FALSE
