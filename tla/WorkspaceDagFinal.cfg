SPECIFICATION Spec
CONSTANTS
  Looking = FALSE
  MaxEdits = 1
  MaxCalls = 2
  None = None
PROPERTIES
  FinalIsUnion
CHECK_DEADLOCK FALSE
