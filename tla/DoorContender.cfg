CONSTANTS
  NThr = 4
  Client = {1, 3, 4}
  Server = {2}
  Timed = {1, 3}
  Killable = {}
  MaxCalls = 3
  WakeMax = 8
  Tracked = TRUE
  Abortable = FALSE
  ServerReplies = TRUE
SPECIFICATION FairSpec
PROPERTIES SlotReached
CHECK_DEADLOCK FALSE
