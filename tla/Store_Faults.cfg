CONSTANTS
  s1 = s1  s2 = s2  w1 = w1  w2 = w2  c1 = c1  c2 = c2  c3 = c3  b1 = b1  b2 = b2
  Servers = {s1, s2}
  Workers = {w1, w2}
  Items = {c1, c2, c3}
  Copies = {c1, c2, c3}
  Blocks = {b1,b2}
  BlockOf <- TwoBlocks
  Incomplete = {c3}
  Enabled = TRUE
  QueueCap = 1
  CacheCap = 1
  AtomicCopy = TRUE
  Faults = {"crash", "stop", "storeExists", "storeCopy", "dbRead", "dbWrite", "giveUp", "slow"}
  MaxEpoch = 1
  NoOwner = NoOwner
  NoJob = NoJob
SPECIFICATION Spec
INVARIANTS TypeOK CacheSound RecordSound
CHECK_DEADLOCK FALSE
