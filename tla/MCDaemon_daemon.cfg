SPECIFICATION DaemonSpec
CONSTANTS
  Part = {"rounds", "models", "gone", "start", "vectors", "edges", "calls", "ledger"}
  Tick = Tick  Post = Post
  BatchSize = 2  LlmBatch = 2  Adjudications = 1
  MaxFacts = 2  MaxCreates = 1  MaxObs = 2  MaxHides = 1  MaxFaults = 1
  PerPass = 2  RecallLimit = 2  PromptFacts = 1  Fires = {1, 2}
  MaxModels = 1  MaxCommits = 2  MaxTime = 2  MaxEdits = 1  MaxFailures = 1
  EmbedBatch = 2  MaxRow = 3  MaxText = 4  MaxMisses = 1
  Bank = {k1, k2}  MaxNode = 3  MaxStamp = 1  MaxBatch = 2  MaxPairs = 1
  i1 = i1  i2 = i2  g1 = g1
  Interactive = {i1, i2}  Background = {g1}  MaxConcurrent = 1  MaxRetries = 1
  LedgerBank = {l1, l2}  MaxJobs = 3  MaxTicks = 2  MaxDrops = 1
CHECK_DEADLOCK FALSE
INVARIANTS WatermarkIsDecided ReplaysAreSpoils NoRetractionCycle
INVARIANTS VectorsAreAccountedFor DocumentsAreCurrent ModelIsAccountedFor
PROPERTIES SourcesAreMoved FactsAreDecided BacklogDrains DueIsRefreshed CallsEnd LedgerNeverGoesBack
