SPECIFICATION Spec
CONSTANTS
  PageSize = 1
  MaxRevisions = 3
  MaxChanges = 2
  MaxLoads = 2
INVARIANT
  NothingUnreachable
CHECK_DEADLOCK FALSE
