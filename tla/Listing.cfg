CONSTANTS
  Sessions <- AllSessions
  ItemsPerPage = 1
  None = None
SPECIFICATION Spec
INVARIANTS LTypeOK ShownIsTheCurrentPage CountExplainsPage InputShowsFilter LoadingMeansFetching
PROPERTIES FilterKeepsItsRow ButtonsLeadBack SettlesOnWhatIsTyped
CHECK_DEADLOCK FALSE
