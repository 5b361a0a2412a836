CONSTANTS
  MAX_NUMBER_OF_EVENTS = 2
  ULONG = 9
  INT_MAX = 2
  Callbacks <- MCCallbacks
  Pins = {}
  DEFAULT_DELAY = 1
  LONG_MAX = 2
  TypedDelays = {0, 2}
  HANDLER_MAX = 1
  DENIED_DELAY = 1
  MEMBER = 2
  A = A
  B = B
  Cards <- MCCards
  Names = {}
  Strays <- MCStrays
  NoWord = NoWord
  Fragment = Fragment
  Junk = Junk
  NullReads <- MCNullReads
  AddLines <- MCAddLines
  SDOutcomes = {TRUE, FALSE}
  FILE_MAX = 1
  Minutes = {0, 1}
SPECIFICATION SmartSpec
CHECK_DEADLOCK FALSE
INVARIANTS SmartTypeOK LocksInTime LockedAsksForCard HeaderShowsTm
PROPERTIES StoredMembersOnly StoredMembersGetIn
