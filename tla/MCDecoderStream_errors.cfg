CONSTANTS
  StrmBufSize = 6
  ChunkSizes = {1, 2}
  Stamps = {1, 2}
  Frames = {0, 1}
  Followed = 1
  MaxChunks = 2
  MaxLag = 1
  Failures = TRUE
  Stalls = TRUE
SPECIFICATION Spec
INVARIANT ErrorReported
