CONSTANTS
  Undef = Undef
  Units <- MCUnits
  Inputs <- MCInputs
SPECIFICATION ViewSpec
INVARIANTS StoresStayInFrame LoadsAreDefined StackIsBalanced
PROPERTIES Implements Exits
CHECK_DEADLOCK FALSE
