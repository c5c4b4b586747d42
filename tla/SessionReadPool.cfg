SPECIFICATION FramedSpec
CONSTANTS
  BodyLength = 5
  MaxId = 2000
  Hello = 1001
  Pieces = 1
  MaxLen = 2
  Streams <- MCStreams
  Chapters = {15}
INVARIANT BodyIsNotHeader
CHECK_DEADLOCK FALSE
