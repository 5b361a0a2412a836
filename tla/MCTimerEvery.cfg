CONSTANTS
  MAX_NUMBER_OF_EVENTS = 2
  ULONG = 4
  INT_MAX = 2
  Callbacks = {cb}
  Pins = {}
  Periods <- MCPeriods
  RepeatCounts <- MCRepeatCounts
  GAP_MAX = 1
SPECIFICATION FairSpec
INVARIANTS TypeOK
PROPERTIES EarlyOnlyInPass DroppedWhenDone KeepsFiring
