SPECIFICATION Spec
CONSTANTS
  g = g
  a1 = a1
  b1 = b1
  a2 = a2
  a4 = a4
  b4 = b4
  Nil = Nil
  Genesis = g
  Vertices <- MCVertices
  RoundOf <- MCRoundOf
  Parents <- MCParents
  Waves = {0, 1}
PROPERTY LeaderIsDetermined
