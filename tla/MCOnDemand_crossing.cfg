SPECIFICATION OnDemandSpec
CONSTANTS
  Part = {"joins"}
  LegacyBank = {m1}  NoFile = NoFile
  MaxRuns = 4  MaxWrites = 1  MaxStops = 1  MaxNative = 1  MaxRounds = 1
  e1 = e1  e2 = e2  HookEvents <- MCHookEvents  Other = Other  Missing = Missing
  Runs = {r1, r2}  MaxCommands = 2  MaxForeign = 2
  Home = "home"  FallbackBanks <- MCFallbackBanks
  TableAtFirst <- MCTable  TextOfNew <- MCTextOfNew
  Limit = 2  MaxTokens = 2  FallbackLimit = 1  FallbackFloor = 1
  Nearest = 1  Seeds = 1  TopK = 2  MaxChanges = 1
  n1 = n1  n2 = n2
  GraphBank = {b1, b2}  Name = {n1, n2}  Near <- MCNear  MaxCandidates = 1  Linker = {backlog}
  ChunkFacts = 2  MaxGraphRow = 3  MaxChunks = 2  MaxWipes = 1
  InFile <- MCInFile  InEnv <- MCInEnv  MaxInFile = 3  MaxInEnv = 2
  v1 = v1  v2 = v2  v3 = v3  Schema <- MCSchema  Published <- MCPublished
  FirstBuild = v1  NoBinary = NoBinary  Snoozes = {2}  LastDay = 3
  MaxUpdates = 2  MaxStopped = 1  MaxFalls = 1  MaxSnoozes = 1
  Memory = {u1, u2}  Mode = "full"  InjectedCap = 1  BreakerAfter = 2  NoState = NoState
  MaxPrompts = 2  MaxClears = 1  MaxKills = 1  MaxLosses = 1
  Bank = {b1, b2}  Key = {k1}  c1 = c1  c2 = c2  Content = {c1, c2}  NoHash = NoHash
  ChunksOf <- MCChunks  Client = {h1, h2}  MaxPosts = 2  MaxDeletions = 1
CHECK_DEADLOCK FALSE
INVARIANT LinksStayInBank
