SPECIFICATION FairSpec
CONSTANTS
  c1 = c1  c2 = c2  d1 = d1  d2 = d2  s1 = s1
  ca = ca  cb = cb  cc = cc  p1 = p1  p2 = p2  p3 = p3
  Nothing = Nothing
  NoHash = NoHash
  Client = {c1}
  Request <- DeltaPosts
  Doc <- MCDoc
  Session <- MCSession
  Content <- MCContent
  Piece <- MCPiece
  Version = {1, 2}
  Cuts <- MCCuts
  Capacity = 1
  ByteBudget = 2
  MaxJobs = 2
  MaxKills = 1
  MaxTerms = 1
  MaxFaults = 0
  MaxHangups = 0
  Rollback = FALSE
CHECK_DEADLOCK FALSE
INVARIANT ResumeIsSound
PROPERTIES ProgressIsKept AcceptedSettles ShutdownEnds
