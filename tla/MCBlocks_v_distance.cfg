CONSTANTS
  Candidate <- MCCandidate
  P1Input <- MCP1Input
  P2Input <- MCP2Input
  GlobalInvocation <- NoBlock
  Picture <- MCPicture
  Steps = 30
  Modes = {"H"}
SPECIFICATION MCSpec
INVARIANT DistanceIsImplicit
