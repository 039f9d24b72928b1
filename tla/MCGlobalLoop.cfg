CONSTANTS
  Undef = Undef
  Units <- MCUnits
  Inputs = {}
SPECIFICATION ViewSpec
PROPERTY PlusAssignsDst
CHECK_DEADLOCK FALSE
