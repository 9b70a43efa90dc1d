CONSTANTS
  Sessions <- AllSessions
  ItemsPerPage = 1
  None = None
SPECIFICATION Spec
INVARIANT ShownRowsAreWanted
CHECK_DEADLOCK FALSE
