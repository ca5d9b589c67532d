SPECIFICATION InputsSpec
CONSTANTS
  Part = {"transcript", "chunks", "reply", "query", "response", "verify"}
  Messages <- MCMessages  MaxMessages = 3  MaxInitial = 2
  FieldMax = 2  TotalMax = 3  ResultMax = 1  FileTagCap = 1
  PriorityKeys = {"path"}  Operational = {"recall"}  Mutating = {"edit"}
  Letter = "a"  Stop = "."  Blank = " "  Newline = "|"
  Budgets = {0, 3, 5, 8}  MaxPlain = 6  Turns <- MCTurns  MaxTurns = 3
  RawFacts <- MCRawFacts  KnownQuotes <- MCKnownQuotes  ShortQuotes = {"s"}
  NoText = "none"  MaxReply = 4
  Todays <- MCTodays  Written <- MCWritten  Silent = "silent"
  Urls <- MCUrls  Replies <- MCReplies  Expected = "ours"  NoToken = "no token"
  ConnectTime = 2  IoTime = 3  RequestSize = 3  ReadSize = 2  MaxHead = 5  MaxResponse = 4
  ArchiveBank <- MCArchiveBank  ArchiveFacts <- MCArchiveFacts  ArchiveObs <- MCArchiveObs
  ArchiveDocs <- MCArchiveDocs  NativeDoc = "native"
  LegacyTemporal = {1, 4}  BandLow = 145  BandHigh = 175  Wants = {1, 4, 6}
  Altered = "altered"  Unfiled = "none"  MaxDeviations = 2
CHECK_DEADLOCK FALSE
INVARIANTS PrivateStaysOut ChunksAreSound ReferencesAreKept QueryMeansItsPeriod
INVARIANTS AnsweredInTime VerdictIsRight
