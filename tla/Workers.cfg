SPECIFICATION MCSpec
CONSTANTS
  Workers = {w1, w2, w3}
  Tasks = {t1, t2}
  NoTask = NoTask
  Mails = {m1, m2, m3}
  Messages = {n1, n2, n3, n4}
  Pieces = 2
  MaxLen = 3
  CPUs = 2
  Numbers = 9
  GoCapacity = 2
  Items = 5
  RoomFor = 2
  MaxRounds = 3
  Litmus = {1, 2, 4, 5, 6, 7}
  Volume = 5
  MaxThreads = 4
  Share = 2
  Prefill = 3
  Limit = 3
  NodePool = 7
  Offers = 4
  Room = 2
  Volleys = 4
  ChannelRoom = 2
INVARIANTS
  TakenOnce
  WorkIsSpread
  AtMostOneMissesStop
  RunsInOrder
  SharedUseIsSafe
  OneWriter
  NothingStranded
PROPERTIES
  AcceptedWorkRuns
  AllWritten
  ImplementsStream
CHECK_DEADLOCK FALSE
