CONSTANTS
  w1 = w1  w2 = w2  a1 = a1  a2 = a2  c1 = c1  c2 = c2
  Workers = {w1}  Janitor = janitor  Signal = signal  Droppers = {h1}
  Addrs = {a1, a2}  WorkerOf <- OneWorker
  DCIDs = {d1, d2}  SCIDs = {}
  Chains = {c1, c2}  FirstChain = c1  Limit <- Unlimited  Settings <- NoMigration
  ReuseDCID = FALSE  Prompt = TRUE
  MaxCtx = 2  EvictAt = 9  EvictDiv = 2  NoKey = NoKey
SPECIFICATION FairSpec
INVARIANTS ShutdownOnce RefsMatchSessions StoppedClean AddrEntriesNameSessions
PROPERTIES ReloadKeepsRetained StopTerminates
CHECK_DEADLOCK FALSE
