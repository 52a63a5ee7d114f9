CONSTANTS
  Clients = {c1, c2}
  NoClient = NoClient
  MaxCmdSize = 2
  MaxCalls = 5
  Spurious = FALSE
  ThreadFails = FALSE
SPECIFICATION Spec
CHECK_DEADLOCK FALSE
INVARIANTS TypeOK ServiceMatchesUse StackAlive NoLostWakeUp
PROPERTIES ServiceSpec EveryCommandAnswered LastCloseReturns
