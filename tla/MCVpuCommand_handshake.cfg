CONSTANTS
  MaxCmds = 4
  Signals = TRUE
  Timeouts = TRUE
  SlowIrq = TRUE
  Stalls = TRUE
SPECIFICATION Spec
CHECK_DEADLOCK FALSE
INVARIANTS TypeOK OwnAnswer TrueTimeout GatedWhenQuiet HandlerFindsClock NothingLeftOver
PROPERTIES EveryIoctlReturns
