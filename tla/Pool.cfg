SPECIFICATION FairSpec
CONSTANTS
  s1 = s1
  s2 = s2
  a2 = a2
  Shards = {s1, s2}
  Addrs = {a1, a2, a3}
  ShardOf <- Hash
  QueueCap = 1
  Buffers = {b1, b2, b3, b4, b5}
  NoBuffer = NoBuffer
  MaxPkts = 3
INVARIANTS BufferOwnedOnce SerialPerClient SweepAfterDrain
PROPERTY QueuedIsHandled
CHECK_DEADLOCK FALSE
