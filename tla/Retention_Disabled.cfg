CONSTANTS
  s1 = s1  s2 = s2  w1 = w1  w2 = w2  c1 = c1  c2 = c2  c3 = c3  b1 = b1  b2 = b2
  state = state  badBlock = badBlock  badBlob = badBlob  trace = trace
  execBadBlock = execBadBlock
  Servers = {s1}
  Workers = {w1}
  Items = {c1, trace}
  Copies = {c1}
  Blocks = {b1}
  BlockOf <- Block
  KindOf <- Kind
  Incomplete = {}
  Enabled = FALSE
  QueueCap = 3
  CacheCap = 1
  AtomicCopy = TRUE
  Faults = {}
  MaxEpoch = 0
  MissingIsError = FALSE
  NoOwner = NoOwner
  NoJob = NoJob
  NoItem = NoItem
SPECIFICATION RSpec
PROPERTIES EventuallyPurged
CHECK_DEADLOCK FALSE
