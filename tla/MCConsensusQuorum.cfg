SPECIFICATION SafeSpec
CONSTANTS
  g = g
  x0 = x0
  a1 = a1
  b1 = b1
  c1 = c1
  a2 = a2
  b2 = b2
  n1 = n1
  n2 = n2
  n3 = n3
  Idle = Idle
  NoBlock = NoBlock
  Genesis = g
  Vertices = {g, a1, b1, c1}
  RoundOf <- MCRoundOf
  Parents <- MCParents
  Owner <- MCOwner
  Callers = {"w1"}
  Validators = {n1, n2, n3}
  Messages <- AllMessages
  ChanCap = 1
  InitialRound = 0
  RoundModulus = 3
CHECK_DEADLOCK FALSE
INVARIANT BlockHasQuorum
