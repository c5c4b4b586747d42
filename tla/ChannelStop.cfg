SPECIFICATION ChSpec
CONSTANTS
  Senders = {s1, s2}
  Receivers = {r1}
  ChCapacity = 1
  MaxSends = 1
PROPERTY NothingSentAfterStop
CHECK_DEADLOCK FALSE
