CONSTANTS
  Candidate <- MCCandidate
  P1Input <- MCP1Input
  P2Input <- MCP2Input
  GlobalInvocation <- InnerBlock
  Picture <- MCPicture
  Steps = 30
  Modes = {"T", "H", "planar", "etc1", "solid", "eac"}
SPECIFICATION MCSpec
INVARIANT ModeIsKept
INVARIANT FieldsAreKept
INVARIANT IndicesAreKept
INVARIANT PlanarIsSearchedAsDecoded
INVARIANT BC6HFieldsAreKept
INVARIANT BC6HIndicesAreKept
