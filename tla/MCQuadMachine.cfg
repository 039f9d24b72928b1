CONSTANTS
  Undef = Undef
  Units <- MCUnits
  Inputs <- MCInputs
SPECIFICATION Spec
INVARIANTS PrintsAnOutcome OperandsAreDefined CallsMatchPushes
PROPERTY Exits
CHECK_DEADLOCK FALSE
