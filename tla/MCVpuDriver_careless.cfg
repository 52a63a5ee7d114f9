CONSTANTS
  Files = {f1, f2, f3}
  MaxInstance = 3
  MaxEnc = 2
  MaxDec = 1
  Hangs = FALSE
  Stalls = FALSE
  Reopen = TRUE
  CopyFails = TRUE
SPECIFICATION Spec
SYMMETRY FileSymmetry
INVARIANTS SlotOwnership FirmwareSurvives
PROPERTIES LastCloseSwitchesOff
