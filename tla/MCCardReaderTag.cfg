CONSTANTS
  RADIX = 2
  PAIRS = 2
  RING = 4
  CALL_MAX = 3
  LOST_MAX = 4
  Codes <- TwoPairs
  NoCode = NoCode
  ByteXor <- ByteXorValue
SPECIFICATION Spec
INVARIANTS ValidTagCode
