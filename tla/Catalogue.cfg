SPECIFICATION Spec
CONSTANTS
  Ids = {d1, d2, d3, d4}
  NoParent = NoParent
  Bases = {"a"}
  TypedNames <- OneName
  Requests = {r1}
  TrashTTL = 1
  MaxTime = 1
  MaxFaults = 0
SYMMETRY Symmetry
INVARIANTS
  TypeOK
  NoCycle
  SiblingNamesUnique
  OnePlace
PROPERTY
  KeepsThePromise
CHECK_DEADLOCK FALSE
