SPECIFICATION RegSpec
CONSTANTS
  Sessions = {s1, s2}
  Editions = {14}
PROPERTY ServerStops
CHECK_DEADLOCK FALSE
