SPECIFICATION MCSpec
CONSTANTS
  p1 = p1
  p2 = p2
  c1 = c1
  c2 = c2
  a = a
  b = b
  raw = raw
  Producers <- MCProducers
  Consumers <- MCConsumers
  Values <- MCValues
  Raw = raw
  Capacity = 2
  MaxEmplaced = 3
  Pushers = {u1, u2}
  Poppers = {o1, o2, o3}
  MaxPushes = 4
  Objects = {x, y}
  Callers = {t1, t2, t3}
  MaxLength = 2
  Attempts = 5
SYMMETRY MCSymmetry
INVARIANTS
  SlotExclusive
  ConstructsOnRaw
  NoElementLeaks
  EndsApart
  NobodyForgotten
PROPERTIES
  ImplementsFifo
