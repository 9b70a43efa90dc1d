CONSTANTS
  s1 = s1  s2 = s2  w1 = w1  w2 = w2  c1 = c1  c2 = c2  c3 = c3  b1 = b1  b2 = b2
  state = state  badBlock = badBlock  badBlob = badBlob  trace = trace
  execBadBlock = execBadBlock
  Servers = {s1, s2}
  Workers = {w1}
  Items = {c1, c2}
  Copies = {c1, c2}
  Blocks = {b1}
  BlockOf <- Block
  KindOf <- Kind
  Incomplete = {}
  Enabled = TRUE
  QueueCap = 1
  CacheCap = 1
  AtomicCopy = TRUE
  Faults = {"crash", "storeDelete"}
  MaxEpoch = 1
  MissingIsError = FALSE
  NoOwner = NoOwner
  NoJob = NoJob
  NoItem = NoItem
SPECIFICATION RSpec
INVARIANTS RTypeOK AtLeastOneCopy NoOrphans OneWriter
PROPERTIES ImplementsCustody HangsOnlyIfDropped
SYMMETRY Symmetry
CHECK_DEADLOCK FALSE
