CONSTANTS
  Handles = {h1, h2}
  Inputs = {b1, b2}
  Outputs = {b3, b4}
  None = None
  Kinds = {"deint", "scale", "rgb2yuv"}
  maxInOutBufSize = 1
  VR_YUV_CNT = 1
  CreateFails = {"deint", "rgb2yuv"}
  MaxName = 2
  MaxTextures = 4
  MaxTorn = 1
SPECIFICATION Spec
SYMMETRY Symmetry
INVARIANTS TypeOK DrawnOrRefused ReferencesCounted
