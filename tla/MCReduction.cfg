CONSTANTS
  N = 6
  Iterations = 3
  Stride <- MCStride
  Kernel = "etc2_th"
  Error = {0, 1}
SPECIFICATION Spec
INVARIANTS NoDataRace PeerExists
PROPERTY SelectsTheBest
