CONSTANTS
  w1 = w1  w2 = w2  a1 = a1  a2 = a2  c1 = c1  c2 = c2
  Workers = {w1, w2}  Janitor = janitor  Signal = signal  Droppers = {}
  Addrs = {a1, a2}  WorkerOf <- TwoWorkers
  DCIDs = {d1, d2}  SCIDs = {}
  Chains = {c1, c2}  FirstChain = c1  Limit <- LimitRaised  Settings <- NoMigration
  ReuseDCID = TRUE  Prompt = FALSE
  MaxCtx = 2  EvictAt = 2  EvictDiv = 2  NoKey = NoKey
SPECIFICATION Spec
INVARIANTS TypeOK SlotAccounting LimitRespected
CHECK_DEADLOCK FALSE
