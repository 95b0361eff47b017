SPECIFICATION Spec
CONSTANTS
  Conn = {c1, c2, c3}
  Code = {k1, k2}
  NoConn = NoConn
  NoCode = NoCode
  TTL = 3
  Period = 2
  MaxTime = 6
SYMMETRY Symmetry
CHECK_DEADLOCK FALSE
INVARIANT KeptAlive
PROPERTIES NoRevival ImplementsDirectory
