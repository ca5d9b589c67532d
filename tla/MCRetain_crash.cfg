SPECIFICATION Spec
CONSTANTS
  c1 = c1  c2 = c2  d1 = d1  d2 = d2  s1 = s1
  ca = ca  cb = cb  cc = cc  p1 = p1  p2 = p2  p3 = p3
  Nothing = Nothing
  NoHash = NoHash
  Client = {c1, c2}
  Request <- AllPosts
  Doc <- MCDoc
  Session <- MCSession
  Content <- MCContent
  Piece <- MCPiece
  Version = {1}
  Cuts <- MCCuts
  Capacity = 1
  ByteBudget = 1
  MaxJobs = 2
  MaxKills = 1
  MaxTerms = 0
  MaxFaults = 1
  MaxHangups = 1
  Rollback = FALSE
CHECK_DEADLOCK FALSE
INVARIANTS HashMeansIngested JobsAreAccountedFor
PROPERTIES ImplementsLedger ConfirmNeverCrossesGap
SYMMETRY MCSymmetry
