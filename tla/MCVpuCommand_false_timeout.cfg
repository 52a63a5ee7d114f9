CONSTANTS
  MaxCmds = 3
  Signals = FALSE
  Timeouts = TRUE
  SlowIrq = FALSE
  Stalls = FALSE
SPECIFICATION Spec
CHECK_DEADLOCK FALSE
INVARIANTS TimeoutMeansTimeout

