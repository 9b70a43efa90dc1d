CONSTANTS
  block1 = block1  block2 = block2  other = other
  blob1 = blob1  blob2 = blob2  hash1 = hash1  hash2 = hash2
  Items = {block1, block2, other, blob1, blob2, hash1, hash2}
  KindOf <- Kind
  Foreign = {other}
  Clients = {"prysm", "lighthouse", "lodestar"}
  FeatureSets = {{"bad_block"}, {"bad_blob"}, {"execution_bad_block"}}
  QueueCap = 2
  MaxDumps = 2
  Faults = {"source", "list", "compress", "save", "spec", "create", "reply", "remove", "timeout", "crash"}
  MaxFaults = 3
  NoItem = NoItem
SPECIFICATION Spec
INVARIANTS BTypeOK NoFileLost
PROPERTIES ImplementsArchive BadDataCaptured
