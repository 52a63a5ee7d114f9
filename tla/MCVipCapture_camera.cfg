CONSTANTS
  Queuers = {q1}
  Dequeuers = {d1}
  Buffers = {b1, b2, b3, b4}
  NULL = NULL
  VIP_MAX_BUF_SIZE = 3
  Racing = FALSE
SPECIFICATION Spec
INVARIANTS TypeOK SlotsMatchDevice CountsMemories DequeueWhileStreaming
PROPERTIES LoanSpec DequeueReturns
