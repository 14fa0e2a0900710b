SPECIFICATION SafeSpec
CONSTANTS
  t1 = t1
  t2 = t2
  big = big
  huge = huge
  NoTx = NoTx
  Callers = {"w1", "w2"}
  Txs = {t1, huge}
  SizeOf <- MCSizeOf
  BlockSize = 2
  BufferSize = 2
  ChanCap = 1
  MaxHeight = 2
CHECK_DEADLOCK FALSE
INVARIANT BlockHasTransaction
