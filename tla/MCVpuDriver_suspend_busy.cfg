CONSTANTS
  Files = {f1}
  MaxInstance = 1
  MaxEnc = 0
  MaxDec = 1
  Hangs = FALSE
  Stalls = TRUE
  Reopen = FALSE
  CopyFails = FALSE
SPECIFICATION Spec
INVARIANTS FirmwareSurvives
