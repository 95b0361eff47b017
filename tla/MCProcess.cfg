SPECIFICATION FairSpec
CONSTANTS
  Kin = {k1}
  MaxOutput = 2
  Capacity = 2
  Spelled <- Bytes
  Overflow = 128
  Character <- AllChars
  Second = 4
  DefaultLimit = 12
  MaxLimit = 24
  MaxLine = 6
  Requests <- AllRequests
CHECK_DEADLOCK FALSE
INVARIANTS ArgumentsSurvive OneFaithfulLine DeadlineFits OutputInPlace ResultIsLast SuccessIsReal
PROPERTY AnswerComes
