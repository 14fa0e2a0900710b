SPECIFICATION Spec
CONSTANTS
  MaxPeers = 1
  Vertices = {1, 2}
  Blocks = {3}
  ChanCap = 1
  None = None
CHECK_DEADLOCK FALSE
INVARIANTS
  TypeOK
  QuietWhenDown
  VerticesInOrder
PROPERTIES
  VerticesArePassedOn
  StartAndStopEnd
