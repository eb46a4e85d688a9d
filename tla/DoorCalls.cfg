CONSTANTS
  NThr = 4
  Client = {1, 3, 4}
  Server = {2}
  Timed = {1, 3}
  Killable = {1, 2}
  MaxCalls = 3
  WakeMax = 1
  Tracked = TRUE
  Abortable = TRUE
  ServerReplies = TRUE
SPECIFICATION FairSpec
INVARIANTS TypeOK SingleFlight
PROPERTIES NotDemoted FlightEnds CallEnds
CHECK_DEADLOCK FALSE
