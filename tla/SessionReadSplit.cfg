SPECIFICATION FramedSpec
CONSTANTS
  BodyLength = 5
  MaxId = 2000
  Hello = 1001
  Pieces = 1
  MaxLen = 2
  Streams <- MCStreams
  Chapters = {14}
INVARIANT PostsWhatWasSent
CHECK_DEADLOCK FALSE
