CONSTANTS
  Blocks = 2
  Quality = 1
  Input <- TwoBlocks
  limit = 7
  Refined <- MCRefined
  Selectors = {1}
  Subblocks <- MCSubblocks
  Level <- LevelByQuality
  refinement_error_thresh0 = 2
  refinement_error_thresh1 = 6
SPECIFICATION MCSpec
INVARIANT NoDataRace
INVARIANT BlockIsStoredOnce
INVARIANT PackedIsUniform
INVARIANT NothingIsMissed
INVARIANT ErrorIsOfSolution
INVARIANT ConstraintIsKept
