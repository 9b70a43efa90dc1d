CONSTANTS
  Items <- OneOfEach
  Starts <- AllStarts
  Edits <- SomeEdits
  MaxSteps = 3
  MaxEntries = 3
  None = None
SPECIFICATION Spec
INVARIANTS WTypeOK PageFollowsPath AddressDescribesPage CommandIsOfSelection
PROPERTIES ReloadRestoresPage EffectsSettle
CHECK_DEADLOCK FALSE
