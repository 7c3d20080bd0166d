SPECIFICATION Spec
CONSTANTS
  w1 = w1
  w2 = w2
  k1 = k1
  k2 = k2
  Janitor = janitor
  Workers = {w1, w2}
  ServedBy <- Mixed
  Keys = {k1, k2}
  Cap = 2
  MaxPer = 2
  MaxPkts = 3
  MaxBuf = 3
  MaxConn = 1
INVARIANTS CountExact InOrder
PROPERTIES RefinesBoundedMap FlushedAll
