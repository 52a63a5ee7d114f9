CONSTANTS
  Handles = {h1, h2}
  Inputs = {b1, b2}
  Outputs = {b3}
  None = None
  Kinds = {"deint", "scale"}
  maxInOutBufSize = 1
  VR_YUV_CNT = 3
  CreateFails = {}
  MaxName = 4
  MaxTextures = 7
  MaxTorn = 0
SPECIFICATION Spec
SYMMETRY Symmetry
INVARIANTS TexturesIntact
