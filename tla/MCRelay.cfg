SPECIFICATION FairSpec
CONSTANTS
  Conn = {c1, c2}
  Code = {k1, k2}
  Req = {r1}
  Killer = {p1}
  NoConn = NoConn
  NoCode = NoCode
  MaxChunks = 1
INVARIANTS NoStaleRecord Routed NoLostWakeup KilledAreWoken CompleteOutput
PROPERTIES ImplementsService ClosedSilent AbortedEnds KillCloses
