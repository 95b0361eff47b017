SPECIFICATION Spec
CONSTANTS
  Code = {k1, k2}
  MaxCommands = 3
  RateLimit = 2
  Window = 3
  MaxTime = 5
INVARIANTS RateRespected RateRefusalJustified
