SPECIFICATION EndedSpec
CONSTANTS
  Process = {p1}
  NoProcess = NoProcess
  NoFile = NoFile
  Recaller = Recaller
  Lines = 2
  Kind <- TwoSaid
  RetainEvery = 1
  BreakerAt = 2
  PoisonAt = 2
  FullMode = FALSE
  MaxChunk = 4
  Bound <- OneFailure
CHECK_DEADLOCK FALSE
PROPERTY FailedIsResent
