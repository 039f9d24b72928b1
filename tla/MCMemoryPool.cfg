CONSTANTS
  Blocks = {b1, b2}
  COUNT = 3
  Null = Null
  Data = Data
SPECIFICATION Spec
INVARIANTS TypeOK LinksAreSound NoChunkLost
PROPERTY NeverHandedOutTwice
CHECK_DEADLOCK FALSE
