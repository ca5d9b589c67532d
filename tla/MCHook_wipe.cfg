SPECIFICATION Spec
CONSTANTS
  Process = {p1}
  NoProcess = NoProcess
  NoFile = NoFile
  Recaller = Recaller
  Lines = 3
  Kind <- AllSaid
  RetainEvery = 1
  BreakerAt = 1
  PoisonAt = 1
  FullMode = FALSE
  MaxChunk = 4
  Bound <- OneWipe
CHECK_DEADLOCK FALSE
INVARIANT ProvenanceKept
