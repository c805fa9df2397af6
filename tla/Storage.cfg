SPECIFICATION Spec
CONSTANTS
  Ids = {d1, d2}
  NoParent = NoParent
  Bases = {"a"}
  TypedNames <- OneName
  Requests = {r1, r2}
  TrashTTL = 1
  MaxTime = 1
  MaxFaults = 1
  NoDocument = NoDocument
  Files = {f1, f2}
PROPERTIES
  OnlyExpiredFilesGo
  BytesSettle
CHECK_DEADLOCK FALSE
