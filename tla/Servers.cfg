SPECIFICATION MCSpec
CONSTANTS
  Sessions = {s1, s2}
  MaxPosts = 1
  Messages = {1, 2, 3}
  Pieces = 1
  MaxLen = 2
  PostersOutlive = TRUE
  Editions = {6, 7, 8, 9, 10, 11, 12, 13, 14, 15, 17}
  Reads = 3
  Parts = 2
  Styles = {5, 6, 7, 16}
  Arrivals = 4
  Calls = 3
  Room = 2
  Programs = {8, 9, 10, 11, 12, 13, 14, 15, 16, 17, 20}
  Requests = 3
  Names = {f1, f2}
  Blocks = 2
  Visits = 2
  Events = 3
  Width = 3
  Versions = {5, 6, 7, 8, 9, 10, 11, 12, 13, 14, 15, 17}
  Entries = 1
INVARIANTS
  RemovedOnce
  ServedAreKept
  FailedLeave
  BytesInOrder
  AnswersAreTrue
  SendsOnce
  HandledInOrder
  SleepsOnlyWhenEmpty
PROPERTIES
  ConnectionsEnd
  AllWritten
  EveryMessageHandled
CHECK_DEADLOCK FALSE
