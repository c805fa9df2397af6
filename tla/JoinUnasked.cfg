SPECIFICATION Spec
CONSTANTS
  Nicknames = {n1, n2}
  None = None
  MaxEdits = 2
PROPERTY DisplacesTheOneAsked
CHECK_DEADLOCK FALSE
