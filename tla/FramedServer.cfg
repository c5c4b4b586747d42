SPECIFICATION FramedSpec
CONSTANTS
  BodyLength = 5
  MaxId = 2000
  Hello = 1001
  Pieces = 1
  MaxLen = 2
  Streams <- MCStreams
  Chapters <- AllChapters
INVARIANTS
  StreamAccounted
  InBounds
  EchoesInOrder
PROPERTIES
  EveryMessageEchoed
CHECK_DEADLOCK FALSE
