SPECIFICATION Spec
CONSTANTS
  Reader = {r1}
  Writer = {w1, w2}
  Original = original
  Program = program
  NoFile = nofile
  Chunk = 3
  Cap = 8
  Sizes = {4, 9}
  Offsets = {0, 5}
  Limits = {0, 4}
  MaxGrowth = 1
CHECK_DEADLOCK FALSE
INVARIANT ReadReachesCap
