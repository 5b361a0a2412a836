CONSTANTS
  MAX_NUMBER_OF_EVENTS = 2
  ULONG = 6
  INT_MAX = 2
  Callbacks = {}
  Pins = {p}
  Periods <- MCPeriods
  RepeatCounts <- MCRepeatCounts
  GAP_MAX = 2
SPECIFICATION Spec
PROPERTIES PulseEnds
