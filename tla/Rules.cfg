SPECIFICATION RulesSpec
CONSTANTS
  d1 = d1
  d2 = d2
  d3 = d3
  d4 = d4
  Ids = {d1, d2, d3, d4}
  NoParent = NoParent
  Bases = {"a"}
  Order <- FileOrder
  Cases <- Inputs
  Null = Null
  Missing = Missing
  MAX_LIST_DEPTH = 3
  Steps = 4
INVARIANTS
  ReturnsSubtree
  RulesAgree
  RestoreReadsBack
PROPERTY Terminates
CHECK_DEADLOCK FALSE
