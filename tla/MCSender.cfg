SPECIFICATION Spec
CONSTANTS
  c1 = c1
  c2 = c2
  a1 = a1
  a2 = a2
  NoConn = NoConn
  NoOne = NoOne
  Callers = {c1, c2}
  Addrs = {a1, a2}
  Targets <- MCTargets
  Conns = {"k1", "k2", "k3", "k4"}
INVARIANTS
  TypeOK
  NeverRelocks
  NoConnectionLeaks
  FramesWhole
  FailureIsLocal
PROPERTIES
  SendEnds
