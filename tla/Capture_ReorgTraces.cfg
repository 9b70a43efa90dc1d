CONSTANTS
  StartSlot = 2
  MaxSlot = 3
  MaxFork = 1
  FeatureSets = {{"trace"}}
  QueueCap = 1
  SyncTolerance = 1
  StateAge = 1
  SlotsPerEpoch = 2
  Word = 16
  Lag = 0
  ByRoot = TRUE
  Faults = {}
  MaxCrashes = 0
  None = None
SPECIFICATION Spec
PROPERTY TracesIndexed
CHECK_DEADLOCK FALSE
