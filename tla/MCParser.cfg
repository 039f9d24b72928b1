SPECIFICATION Spec
CONSTANT Texts <- MCTexts
INVARIANTS
  BuildsTheTree
  ReportsTheFault
  ReportsTheRepair
  RecoversTheTree
PROPERTY
  Finishes
