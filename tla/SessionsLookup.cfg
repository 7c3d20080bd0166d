CONSTANTS
  w1 = w1  w2 = w2  a1 = a1  a2 = a2  c1 = c1  c2 = c2
  Workers = {w1}  Janitor = janitor  Signal = signal  Droppers = {}
  Addrs = {a1, a2}  WorkerOf <- OneWorker
  DCIDs = {d1, d2}  SCIDs = {s1}
  Chains = {c1}  FirstChain = c1  Limit <- Unlimited  Settings <- Migration
  ReuseDCID = FALSE  Prompt = FALSE
  MaxCtx = 2  EvictAt = 9  EvictDiv = 2  NoKey = NoKey
SPECIFICATION Spec
INVARIANTS  NoBackendLeak CountMatchesTable
 
CHECK_DEADLOCK FALSE
