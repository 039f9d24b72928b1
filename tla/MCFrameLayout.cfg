SPECIFICATION Spec
CONSTANTS
  Addr = {a1, a2, a3, a4, a5}
  Widths = {8}
  NumRegs = 2
  MaxFuncs = 2
  MaxArgs = 2
  MaxCalls = 2
SYMMETRY Symmetry
INVARIANTS
  NoOverlap
  WithinFrame
  PushesFit
  ParamsMeetArgs
  ArraysAgree
  IInv
PROPERTIES
  ResolvedOnce
\* The translation unit ends after its last function.
CHECK_DEADLOCK FALSE
