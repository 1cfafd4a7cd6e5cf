CONSTANTS
  None = None
  NULL = NULL
  File <- MCFile
  Bpps = {1, 4, 8, 16, 24, 32}
  CodecName = {"bc1", "etc1", "etc2_rgb"}
  CommandLines <- MCCommandLines
  Qualities = {1, 7, 300}
  Tree <- MCTree
  Side = {1, 2, 3, 4, 5, 8, 15, 16, 17, 31, 32, 33, 36, 70}
SPECIFICATION MCSpec
INVARIANT PictureIsKept
INVARIANT StaysInMemory
INVARIANT RequestIsWhatWasAsked
INVARIANT EveryBlockIsStoredOnce
INVARIANT ExpansionIsRecursive
PROPERTY ExpansionEnds
