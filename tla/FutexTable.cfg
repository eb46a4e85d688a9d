CONSTANTS
  pA = pA  pB = pB
  NThr = 3
  ProcOf <- MCProcOf
  Shared = Shared
  Word = {w1}
  NoWord = NoWord
  Bits = {b1}
  NSlots = 2
  NRobust = 1
  Owners = {1}
  Timed = {2}
  MaxLife = 2
SPECIFICATION FairSpec
INVARIANTS TypeOK SleeperQueued
PROPERTIES VerdictStable TimedWaitEnds
CHECK_DEADLOCK FALSE
