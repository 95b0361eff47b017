SPECIFICATION Spec
CONSTANTS
  Conn = {c1}
  Code = {k1}
  Req = {r1}
  Killer = {p1}
  NoConn = NoConn
  NoCode = NoCode
  MaxChunks = 1
INVARIANTS KillIsWhole
