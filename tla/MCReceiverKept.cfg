SPECIFICATION SafeSpec
CONSTANTS
  c1 = c1
  c2 = c2
  None = None
  Conns = {c1, c2}
  Lengths <- MCLengths
  HeaderSize = 2
  MaxMessageSize = 1
  NumWorkers = 1
  Buffers = {"b1", "b2", "b3"}
  MaxFrames <- MCMaxFrames
  HandlerCopies = FALSE
CHECK_DEADLOCK FALSE
INVARIANT MessagesStayIntact
