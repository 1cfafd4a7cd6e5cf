CONSTANTS
  Input <- MCInput
  Bc1Input <- MCBc1Input
  Dither555Input <- MCDither555Input
  Shaders = {"bc1"}
SPECIFICATION MCSpec
INVARIANT NothingToDiffuse
