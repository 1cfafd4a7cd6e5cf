CONSTANTS
  Input <- MCInput
  Bc1Input <- MCBc1Input
  Dither555Input <- MCDither555Input
  Shaders = {"bc4", "bc1", "dither555"}
SPECIFICATION MCSpec
INVARIANT IndicesAreMerged
INVARIANT IndicesAreOptimal
INVARIANT PaletteIsTheRightOne
INVARIANT FourColoursOrNoBlack
INVARIANT IndicesAreOfEnds
INVARIANT OneColourIsKept
INVARIANT SystemIsSolved
INVARIANT FiveBitsOrFlat
INVARIANT FiveBitIsKept
