CONSTANTS
  Owners = {o1, o2, o3}
  NoOne = NoOne
SPECIFICATION Spec
INVARIANTS
  RecordNamesHolder
CHECK_DEADLOCK FALSE
