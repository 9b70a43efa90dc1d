CONSTANTS
  StartSlot = 0
  MaxSlot = 2
  MaxFork = 1
  FeatureSets = {{"state"}, {"block"}, {"trace"}}
  QueueCap = 1
  SyncTolerance = 0
  StateAge = 0
  SlotsPerEpoch = 2
  Word = 16
  Lag = 0
  ByRoot = TRUE
  Faults = {"node", "list", "save", "create", "timeout"}
  MaxCrashes = 1
  None = None
SPECIFICATION Spec
INVARIANTS CTypeOK StoredUnderItsRoot
PROPERTIES ImplementsArchive
CHECK_DEADLOCK FALSE
