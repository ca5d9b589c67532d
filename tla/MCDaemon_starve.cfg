SPECIFICATION DaemonSpec
CONSTANTS
  Part = {"models"}
  Tick = Tick  Post = Post
  BatchSize = 1  LlmBatch = 1  Adjudications = 1
  MaxFacts = 0  MaxCreates = 0  MaxObs = 0  MaxHides = 0  MaxFaults = 0
  PerPass = 1  RecallLimit = 1  PromptFacts = 1  Fires = {1}
  MaxModels = 2  MaxCommits = 0  MaxTime = 1  MaxEdits = 0  MaxFailures = 0
  EmbedBatch = 1  MaxRow = 0  MaxText = 0  MaxMisses = 0
  Bank = {k1}  MaxNode = 0  MaxStamp = 0  MaxBatch = 0  MaxPairs = 0
  i1 = i1  i2 = i2  g1 = g1
  Interactive = {i1, i2}  Background = {g1}  MaxConcurrent = 1  MaxRetries = 0
  LedgerBank = {l1}  MaxJobs = 0  MaxTicks = 1  MaxDrops = 0
CHECK_DEADLOCK FALSE
PROPERTY DueIsRefreshed
