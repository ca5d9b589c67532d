SPECIFICATION Spec
CONSTANTS
  Process = {p1, p2}
  NoProcess = NoProcess
  NoFile = NoFile
  Recaller = Recaller
  Lines = 2
  Kind <- TwoSaid
  RetainEvery = 1
  BreakerAt = 1
  PoisonAt = 1
  FullMode = TRUE
  MaxChunk = 4
  Bound <- EachOnce
CHECK_DEADLOCK FALSE
INVARIANT NothingSkipped
INVARIANT NoStacking
INVARIANT MirrorIsDurable
INVARIANT LockKeepsProvenance
CONSTRAINT Few
