CONSTANTS
  NPid = 3
  NSlots = 3
  NWait = 3
  WakeMax = 1
  Depth = 4
  MaxOff = 3
  Asks <- MCAsks
  MaxCalls = 5
  MaxKill = 1
SPECIFICATION Spec
INVARIANTS NoOrphanEdge
CHECK_DEADLOCK FALSE
