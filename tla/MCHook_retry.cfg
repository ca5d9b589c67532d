SPECIFICATION LivingSpec
CONSTANTS
  Process = {p1}
  NoProcess = NoProcess
  NoFile = NoFile
  Recaller = Recaller
  Lines = 2
  Kind <- BriefSaid
  RetainEvery = 2
  BreakerAt = 2
  PoisonAt = 2
  FullMode = FALSE
  MaxChunk = 4
  Bound <- Outages
CHECK_DEADLOCK FALSE
PROPERTY EveryLineTakenIn
