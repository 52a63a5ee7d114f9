CONSTANTS
  Files = {f1, f2, f3, f4}
  MaxInstance = 3
  MaxEnc = 2
  MaxDec = 1
  Hangs = TRUE
  Stalls = TRUE
  Reopen = FALSE
  CopyFails = FALSE
SPECIFICATION Spec
SYMMETRY FileSymmetry
INVARIANTS TypeOK Accounting SearchSucceeds FreshSlot LiveHardware
PROPERTIES PoolSpec
