SPECIFICATION Spec
CONSTANTS
  Messages = {1, 2, 3}
  Pieces = 2
  MaxLen = 2
PROPERTY ImplementsStream
CHECK_DEADLOCK FALSE
