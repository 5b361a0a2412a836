CONSTANTS
  RADIX = 2
  PAIRS = 1
  RING = 8
  CALL_MAX = 2
  LOST_MAX = 4
  Codes <- OnePair
  NoCode = NoCode
  ByteXor <- ByteXorValue
SPECIFICATION FairSpec
INVARIANTS TypeOK
PROPERTIES WholeFrameIsChecked FramesGetChecked
