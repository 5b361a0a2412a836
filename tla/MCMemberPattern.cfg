CONSTANTS
  MEMBER = 7
  A = A
  B = B
  n = n
  Cards <- MCCards
  Names <- MCNames
  Strays = {}
  NoWord = NoWord
  Fragment = Fragment
  Junk = Junk
  NullReads <- EmptyNull
  AddLines <- CompleteLines
  SDOutcomes = {TRUE}
  FILE_MAX = 14
SPECIFICATION Spec
CHECK_DEADLOCK FALSE
INVARIANTS FilePattern
