SPECIFICATION Spec
CONSTANTS
  t1 = t1
  t2 = t2
  big = big
  huge = huge
  NoTx = NoTx
  Callers = {"w1", "w2"}
  Txs = {t1, t2, big}
  SizeOf <- MCSizeOf
  BlockSize = 2
  BufferSize = 2
  ChanCap = 1
  MaxHeight = 4
CHECK_DEADLOCK FALSE
INVARIANTS
  BufferBounded
  TransactionsConserved
  CountersAgree
  HeightsGrow
  BlocksFit
  NoEmptyBlock
PROPERTIES
  AcceptedIsBlocked
  StopEnds
