CONSTANTS
  Null = Null
  MaxOffset = 2
  MaxPopped = 12
SPECIFICATION Spec
INVARIANTS
  TypeOK
  QueueIsInOrder
PROPERTY
  IsACursor
