CONSTANTS
  NPid = 3
  NSlots = 3
  NWait = 3
  WakeMax = 4
  Depth = 4
  MaxOff = 3
  Asks <- MCAsks
  MaxCalls = 5
  MaxKill = 0
SPECIFICATION Spec
INVARIANTS NotAllAsleep
CHECK_DEADLOCK FALSE
