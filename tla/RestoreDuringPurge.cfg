SPECIFICATION Spec
CONSTANTS
  Ids = {d1}
  NoParent = NoParent
  Bases = {"a"}
  TypedNames <- OneName
  Requests = {r1}
  TrashTTL = 1
  MaxTime = 1
  MaxFaults = 0
  NoDocument = NoDocument
  Files = {f1}
INVARIANT
  RestoreShowsFiles
CHECK_DEADLOCK FALSE
