CONSTANTS
  Sockets = {0, 1}
  Texts <- MCTexts
  COMMAND = 6
  LONG_MAX = 3
  DEFAULT_DELAY = 2
SPECIFICATION Spec
CHECK_DEADLOCK FALSE
INVARIANTS TypeOK OwnLine
PROPERTIES ImplementsLineServer Served
