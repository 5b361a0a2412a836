CONSTANTS
  MEMBER = 3
  A = A
  B = B
  n = n
  Cards <- MCCards
  Names <- MCNames
  Strays <- MCStrays
  NoWord = NoWord
  Fragment = Fragment
  Junk = Junk
  NullReads <- MCNullReads
  AddLines <- MCAddLines
  SDOutcomes = {TRUE, FALSE}
  FILE_MAX = 3
SPECIFICATION Spec
CHECK_DEADLOCK FALSE
INVARIANTS TypeOK ResetChangesNothing UnmountedAdmitsNobody
PROPERTIES AddGrants NobodyUnasked ImplementsAccessList
