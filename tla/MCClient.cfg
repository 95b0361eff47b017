SPECIFICATION FairSpec
CONSTANTS
  Cmd = {x1}
  MaxInbox = 2
  MaxQueue = 2
  HeartbeatInterval = 2
  ReadTimeout = 9
  Tolerated = 2
CHECK_DEADLOCK FALSE
INVARIANTS KillIsFinal HeartbeatSuffices StatusTruthful
PROPERTIES CommandsStop KeepsTrying StopsClean
