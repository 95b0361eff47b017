SPECIFICATION Spec
CONSTANTS
  Kin = {k1}
  MaxOutput = 1
  Capacity = 1
  Spelled <- Bytes
  Overflow = 128
  Character <- AllChars
  Second = 4
  DefaultLimit = 12
  MaxLimit = 24
  MaxLine = 6
  Requests <- AllRequests
CHECK_DEADLOCK FALSE
INVARIANT TreeIsKilled
