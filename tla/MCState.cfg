SPECIFICATION Spec
CONSTANTS
  g = g
  a1 = a1
  b1 = b1
  a2 = a2
  c1 = c1
  Genesis = g
  Vertices <- MCVertices
  RoundOf <- MCRoundOf
  Parents <- MCParents
  Blocks = {p, q}
  p = p
  q = q
  MaxRound = 3
  MaxBuffer = 3
INVARIANTS
  ProposalsInOrder
  CausallyClosed
  NothingLost
  NothingReadyWaits
  OrderIndependent
PROPERTIES
  ScanEnds
  ImplementsCausalDelivery
