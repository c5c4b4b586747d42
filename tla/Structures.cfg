SPECIFICATION MCSpec
CONSTANTS
  t1 = t1
  t2 = t2
  t3 = t3
  Threads <- MCThreads
  Values = {a}
  Raw = raw
  Capacity = 2
  MaxCalls = 4
  Slots = {s1}
  Walkers <- MCThreads
  Matching = {1, 3}
  MaxNodes = 3
  Keys = {k1, k2, k3}
  Contents = {v, w}
  Absent = none
  Buckets = {1, 2}
  Spinners = {q1, q2, q3}
  Senders = {c1, c2}
  Receivers = {r1, r2}
  ChCapacity = 2
  MaxSends = 2
SYMMETRY MCSymmetry
INVARIANTS
  ListsIntact
  StorageLives
  EliminationIsExact
  NothingOvertaken
  IsTheMap
  OneHolder
  EndMeansEmpty
  NoneForgotten
PROPERTIES
  ImplementsElements
CHECK_DEADLOCK FALSE
