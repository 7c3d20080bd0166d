SPECIFICATION FairSpec
CONSTANTS
  Chains <- MCChains
  Names <- MCNames
  NoSNI = nosni
  Routes <- MCRoutes
  Backends <- MCBackends
  Internal = internal
  Counters = {3}
  None = none
  b1 = b1
  b2 = b2
  b3 = b3
  lobby = lobby
  Workers = {w1}
  Janitor = janitor
  Droppers = {dropper}
  Timeout = 1
  ReadTimeout = 2
  MaxNow = 3
  MaxIn = 2
INVARIANTS ClosedOnce RoutedAsConfigured
PROPERTIES  ReaderEnds
CHECK_DEADLOCK FALSE
