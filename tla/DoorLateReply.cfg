CONSTANTS
  NThr = 3
  Client = {1, 3}
  Server = {2}
  Timed = {}
  Killable = {1}
  MaxCalls = 2
  WakeMax = 8
  Tracked = TRUE
  Abortable = FALSE
  ServerReplies = TRUE
SPECIFICATION Spec
INVARIANTS OwnReply
CHECK_DEADLOCK FALSE
