SPECIFICATION MCSpec
CONSTANTS
  w1 = w1
  w2 = w2
  k1 = k1
  k2 = k2
  Janitor = janitor
  Workers = {w1, w2}
  Keys = {k1, k2}
  ServedBy <- OneSilent
  Frags = {1}
  Cap = 2
  HighWater = 1
  MaxObj = 3
INVARIANTS CountExact CompleteLeaves
PROPERTIES RefinesBoundedMap ExpiredRemoved
