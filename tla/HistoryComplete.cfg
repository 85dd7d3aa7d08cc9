SPECIFICATION HistorySpec
CONSTANTS
  MaxSaved = 5
  Limits = {2}
INVARIANTS
  HistoryComplete
CHECK_DEADLOCK FALSE
