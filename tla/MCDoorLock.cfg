CONSTANTS
  MAX_NUMBER_OF_EVENTS = 3
  ULONG = 14
  INT_MAX = 2
  Callbacks <- MCCallbacks
  Pins = {}
  DEFAULT_DELAY = 2
  LONG_MAX = 4
  TypedDelays <- MCTypedDelays
  HANDLER_MAX = 1
  DENIED_DELAY = 3
SPECIFICATION FairSpec
INVARIANTS TypeOK LockArmed LocksInTime IInv
PROPERTIES NeverEarly ImplementsPromise Relocks
