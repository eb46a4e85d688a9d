CONSTANTS
  NThr = 4
  Client = {1, 3}
  Server = {2, 4}
  Timed = {1, 3}
  Killable = {2, 4}
  MaxCalls = 3
  WakeMax = 8
  Tracked = FALSE
  Abortable = TRUE
  ServerReplies = TRUE
SPECIFICATION Spec
INVARIANTS OwnReply ServeWindow
CHECK_DEADLOCK FALSE
