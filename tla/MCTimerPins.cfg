CONSTANTS
  MAX_NUMBER_OF_EVENTS = 2
  ULONG = 4
  INT_MAX = 3
  Callbacks = {}
  Pins = {p}
  Periods <- OnePeriod
  RepeatCounts <- OverflowCounts
  GAP_MAX = 1
SPECIFICATION Spec
PROPERTIES CyclesEnd DroppedWhenDone
