SPECIFICATION FaultySpec
CONSTANTS
  Ids = {d1, d2}
  NoParent = NoParent
  Bases = {"a"}
  TypedNames <- OneName
  Requests = {r1, r2}
  TrashTTL = 1
  MaxTime = 2
  MaxFaults = 1
  NoDocument = NoDocument
  Files = {f1, f2}
VIEW PlacesOnly
SYMMETRY Symmetry
INVARIANTS
  RecordsWhole
PROPERTIES
  EntriesGoWithoutFiles
CHECK_DEADLOCK FALSE
