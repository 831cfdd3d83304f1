SPECIFICATION Spec
CONSTANTS
  v1 = v1
  v2 = v2
  Latest = Latest
  None = None
  NumNames = 4
  Rows <- AllRows
  Queries <- AllQueries
  Limits <- AllLimits
  DefaultLimit = 2
  MaxLimit = 3
  MaxChanges = 2
INVARIANTS
  UnchangedIsListedOnce
  RefusedOnlyWhenChanged
CHECK_DEADLOCK FALSE
