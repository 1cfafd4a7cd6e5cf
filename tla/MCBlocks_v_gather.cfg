CONSTANTS
  Candidate <- MCCandidate
  P1Input <- MCP1Input
  P2Input <- MCP2Input
  GlobalInvocation <- InnerBlock
  Picture <- MCPicture
  Steps = 30
  Modes = {}
SPECIFICATION MCSpec
INVARIANT TexelsAreOfBlock
