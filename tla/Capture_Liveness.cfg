CONSTANTS
  StartSlot = 1
  MaxSlot = 2
  MaxFork = 1
  FeatureSets = {{"state", "block"}, {"trace"}}
  QueueCap = 1
  SyncTolerance = 1
  StateAge = 1
  SlotsPerEpoch = 2
  Word = 16
  Lag = 0
  ByRoot = TRUE
  Faults = {}
  MaxCrashes = 0
  None = None
SPECIFICATION Spec
PROPERTIES BeaconDataIndexed TracesIndexedIfNoneMissed
CHECK_DEADLOCK FALSE
