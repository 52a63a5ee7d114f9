CONSTANTS
  Elements = {a, b, c}
  MaxElement = 3
  ArraySize = 4
SPECIFICATION Spec
INVARIANTS RingOK
PROPERTIES FifoSpec
