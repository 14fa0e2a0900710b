-------------------- MODULE TransactionCoordinatorProofs --------------------
(***************************************************************************)
(* What TransactionCoordinator guarantees for any number of callers and    *)
(* every set of transactions, their sizes and the limits.  Beyond the      *)
(* invariants themselves, TransactionInv says what createBlock knows after *)
(* its unlocked look at the buffer: only it removes transactions, so the   *)
(* buffer is still not empty when it holds the lock.                       *)
(***************************************************************************)
EXTENDS TransactionCoordinator, SequenceLemmas, FiniteSetTheorems, TLAPS

(* createBlock never finds the buffer empty after its check.               *)
SeenIsThere == loop \in {"seen", "filling"} => txBuffer # <<>>

(* A block that has taken nothing has no size.                             *)
NothingTakenIsEmpty == (loop = "filling" /\ taken = 0) => totalSize = 0

TransactionInv ==
  /\ TypeOK
  /\ BufferBounded
  /\ TransactionsConserved
  /\ SeenIsThere
  /\ NothingTakenIsEmpty
  /\ NoEmptyBlock

bufferVars == <<txBuffer, blockCh, accepted, blocked, loop, taken, totalSize>>

USE TransactionAssumption

(* What holds of the elements of a sequence and of e holds after e is      *)
(* appended: here, that a block carries transactions.                      *)
LEMMA AppendBlock ==
  ASSUME NEW s \in Seq(Block), NEW b \in Block, b.txs # <<>>,
         \A k \in DOMAIN s : s[k].txs # <<>>
  PROVE  \A k \in DOMAIN Append(s, b) : Append(s, b)[k].txs # <<>>
<1> SUFFICES ASSUME NEW k \in DOMAIN Append(s, b) PROVE Append(s, b)[k].txs # <<>>
  OBVIOUS
<1>1. /\ Append(s, b) \in Seq(Block) /\ Len(Append(s, b)) = Len(s) + 1
      /\ \A i \in 1 .. Len(s) : Append(s, b)[i] = s[i]
      /\ Append(s, b)[Len(s) + 1] = b
  BY AppendProperties
<1>2. Len(s) \in Nat /\ DOMAIN s = 1 .. Len(s) /\ k \in 1 .. Len(s) + 1
  BY <1>1, LenProperties
<1>3. CASE k = Len(s) + 1
  BY <1>1, <1>3
<1>4. CASE k \in 1 .. Len(s)
  BY <1>1, <1>2, <1>4
<1> QED
  BY <1>2, <1>3, <1>4

(* New establishes the invariant.                                          *)
LEMMA InitTransactionInv == Init => TransactionInv
<1> SUFFICES ASSUME Init PROVE TransactionInv
  OBVIOUS
<1> USE DEF Init
<1>1. TypeOK
  <2>1. /\ txBuffer \in Seq(Txs) /\ blockCh \in Seq(Block) /\ accepted \in Seq(Txs)
        /\ blocked \in Seq(Txs) /\ consumed \in Seq(Nat) /\ taken \in 0 .. Len(txBuffer)
    BY EmptyIsSeq
  <2>2. metrics \in Metrics
    BY DEF Metrics
  <2>3. ctxDone \in BOOLEAN
    OBVIOUS
  <2> QED
    BY <2>1, <2>2, <2>3 DEF TypeOK
<1>2. BufferBounded /\ TransactionsConserved
  BY EmptyIsSeq DEF BufferBounded, TransactionsConserved
<1>3. SeenIsThere /\ NothingTakenIsEmpty /\ NoEmptyBlock
  BY EmptyIsSeq DEF SeenIsThere, NothingTakenIsEmpty, NoEmptyBlock
<1> QED
  BY <1>1, <1>2, <1>3 DEF TransactionInv

(* Steps that leave the buffer, the blocks and the loop alone.             *)
LEMMA OthersKeep ==
  ASSUME TransactionInv, TypeOK', UNCHANGED bufferVars
  PROVE  TransactionInv'
BY DEF TransactionInv, bufferVars, BufferBounded, TransactionsConserved, SeenIsThere,
       NothingTakenIsEmpty, NoEmptyBlock, EveryTxFits

(* The counters keep their types.                                          *)
LEMMA CountersStayNat ==
  ASSUME metrics \in Metrics
  PROVE  /\ [metrics EXCEPT !.txDropped = @ + 1] \in Metrics
         /\ [metrics EXCEPT !.txReceived = @ + 1] \in Metrics
BY DEF Metrics

(* The counters of a block keep their types.                               *)
LEMMA BlockCountersStayNat ==
  ASSUME metrics \in Metrics, NEW n \in Nat, NEW d \in Nat
  PROVE  [metrics EXCEPT !.blocks = @ + 1, !.txProcessed = @ + n, !.droppedBlocks = d]
           \in Metrics
<1> DEFINE m1 == [metrics EXCEPT !.blocks = @ + 1]
           m2 == [m1 EXCEPT !.txProcessed = @ + n]
<1>1. m1 \in Metrics
  BY DEF Metrics
<1>2. m2 \in Metrics
  <2> HIDE DEF m1
  <2> QED
    BY <1>1 DEF Metrics
<1>3. [m2 EXCEPT !.droppedBlocks = d] \in Metrics
  <2> HIDE DEF m2
  <2> QED
    BY <1>2 DEF Metrics
<1> QED
  BY <1>3 DEF Metrics

(* AddTransaction up to the append, and the count after it.                *)
LEMMA CallerStepsKeep ==
  ASSUME TransactionInv, NEW c \in Callers, NEW t \in Txs,
         \/ AddTransaction(c, t) \/ CheckBuffer(c)
         \/ AppendTransaction(c) /\ DropTransaction(c)
         \/ CountTransaction(c)
  PROVE  TransactionInv'
<1> USE DEF lifeVars, fillVars
<1>0. TypeOK /\ metrics \in Metrics
  BY DEF TransactionInv, TypeOK
<1>1. CASE AddTransaction(c, t)
  <2>1. TypeOK'
    BY <1>0, <1>1 DEF AddTransaction, TypeOK
  <2> QED
    BY <1>1, <2>1, OthersKeep DEF AddTransaction, bufferVars
<1>2. ASSUME DropTransaction(c) PROVE TransactionInv'
  <2>1. TypeOK'
    BY <1>0, <1>2, CountersStayNat DEF DropTransaction, TypeOK
  <2> QED
    BY <1>2, <2>1, OthersKeep DEF DropTransaction, bufferVars
<1>3. CASE CheckBuffer(c) /\ ~DropTransaction(c)
  <2>1. TypeOK'
    BY <1>0, <1>3 DEF CheckBuffer, TypeOK
  <2> QED
    BY <1>3, <2>1, OthersKeep DEF CheckBuffer, bufferVars
<1>4. CASE CountTransaction(c)
  <2>1. TypeOK'
    BY <1>0, <1>4, CountersStayNat DEF CountTransaction, TypeOK
  <2> QED
    BY <1>4, <2>1, OthersKeep DEF CountTransaction, bufferVars
<1> QED
  BY <1>1, <1>2, <1>3, <1>4

(* The append: the second check keeps the bound.                           *)
LEMMA AppendKeeps ==
  ASSUME TransactionInv, NEW c \in Callers, AppendTransaction(c), ~DropTransaction(c)
  PROVE  TransactionInv'
<1> USE DEF AppendTransaction, lifeVars, fillVars
<1>1. /\ TypeOK /\ txOf[c] \in Txs /\ txBuffer \in Seq(Txs) /\ blocked \in Seq(Txs)
      /\ txBuffer' = Append(txBuffer, txOf[c]) /\ accepted' = Append(accepted, txOf[c])
      /\ Len(txBuffer) < BufferSize
  BY DEF TransactionInv, TypeOK, BufferIsFull
<1>2. Len(txBuffer') = Len(txBuffer) + 1 /\ txBuffer' \in Seq(Txs) /\ txBuffer' # <<>>
  BY <1>1
<1>3. TypeOK'
  <2>1. /\ accepted' \in Seq(Txs) /\ taken' \in 0 .. Len(txBuffer')
        /\ step' \in [Callers -> {"idle", "called", "admitted", "counting"}]
        /\ \A d \in Callers : step'[d] \in {"called", "admitted"} => txOf'[d] \in Txs
    <3>1. accepted \in Seq(Txs)
      BY <1>1 DEF TypeOK
    <3>2. accepted' \in Seq(Txs)
      BY <1>1, <3>1, AppendProperties
    <3>3. taken' = taken /\ txOf' = txOf /\ step' = [step EXCEPT ![c] = "counting"]
      BY DEF DropTransaction
    <3>4. taken' \in 0 .. Len(txBuffer')
      BY <1>1, <1>2, <3>3 DEF TypeOK
    <3> QED
      BY <1>1, <3>2, <3>3, <3>4 DEF TypeOK
  <2>2. UNCHANGED <<blockCh, blockHeight, metrics, txOf, loop, totalSize, ctxDone, lifecycle,
                    submitted, blocked, consumed>>
    OBVIOUS
  <2> QED
    BY <1>1, <1>2, <2>1, <2>2 DEF TypeOK
<1>4. BufferBounded'
  BY <1>1, <1>2 DEF BufferBounded
<1>5. TransactionsConserved'
  <2>1. Append(blocked \o txBuffer, txOf[c]) = blocked \o Append(txBuffer, txOf[c])
    <3>1. blocked \in Seq(Txs) /\ txBuffer \in Seq(Txs) /\ txOf[c] \in Txs
      BY <1>1
    <3> QED
      BY ONLY <3>1, AppendAfterConcat
  <2> QED
    BY <1>1, <2>1 DEF TransactionInv, TransactionsConserved
<1>6. SeenIsThere' /\ NothingTakenIsEmpty' /\ NoEmptyBlock'
  BY <1>2 DEF TransactionInv, SeenIsThere, NothingTakenIsEmpty, NoEmptyBlock, EveryTxFits
<1> QED
  BY <1>3, <1>4, <1>5, <1>6 DEF TransactionInv

(* createBlock before the block is made.                                   *)
LEMMA FillingKeeps ==
  ASSUME TransactionInv, Tick \/ LockBuffer \/ TakeTransaction
  PROVE  TransactionInv'
<1> USE DEF callVars, lifeVars, fillVars
<1>0. TypeOK /\ txBuffer \in Seq(Txs)
  BY DEF TransactionInv, TypeOK
<1>1. UNCHANGED <<txBuffer, blockCh, accepted, blocked>>
  BY DEF Tick, LockBuffer, TakeTransaction
<1>2. TypeOK'
  <2>1. CASE Tick
    BY <1>0, <2>1 DEF Tick, TypeOK
  <2>2. CASE LockBuffer
    BY <1>0, <2>2 DEF LockBuffer, TypeOK
  <2>3. CASE TakeTransaction
    <3>1. txBuffer[taken + 1] \in Txs /\ taken' \in 0 .. Len(txBuffer)
      BY <1>0, <2>3 DEF TakeTransaction, NextFits, TypeOK
    <3>2. totalSize' \in Nat
      BY <1>0, <2>3, <3>1 DEF TakeTransaction, TypeOK
    <3> QED
      BY <1>0, <2>3, <3>1, <3>2 DEF TakeTransaction, TypeOK
  <2> QED
    BY <2>1, <2>2, <2>3
<1>3. BufferBounded' /\ TransactionsConserved' /\ NoEmptyBlock'
  BY <1>1 DEF TransactionInv, BufferBounded, TransactionsConserved, NoEmptyBlock, EveryTxFits
<1>4. SeenIsThere' /\ NothingTakenIsEmpty'
  BY DEF TransactionInv, TypeOK, SeenIsThere, NothingTakenIsEmpty, Tick, LockBuffer, TakeTransaction
<1> QED
  BY <1>2, <1>3, <1>4 DEF TransactionInv

(* The block: its transactions leave the buffer together, and it is not    *)
(* empty if every transaction fits.                                        *)
LEMMA EmitBlockKeeps == ASSUME TransactionInv, EmitBlock PROVE TransactionInv'
<1> DEFINE block == [height |-> blockHeight, txs |-> SubSeq(txBuffer, 1, taken)]
           rest == SubSeq(txBuffer, taken + 1, Len(txBuffer))
<1> USE DEF callVars, lifeVars
<1>0. /\ TypeOK /\ txBuffer \in Seq(Txs) /\ blocked \in Seq(Txs) /\ Len(txBuffer) \in Nat
      /\ taken \in 0 .. Len(txBuffer) /\ totalSize \in Nat /\ metrics \in Metrics
  BY DEF TransactionInv, TypeOK
<1>1. /\ txBuffer' = rest /\ blocked' = blocked \o block.txs
      /\ loop' = "waiting" /\ taken' = 0 /\ totalSize' = 0 /\ accepted' = accepted
      /\ blockCh' = blockCh \/ blockCh' = Append(blockCh, block)
  BY DEF EmitBlock
<1>2. /\ block.txs \in Seq(Txs) /\ Len(block.txs) = taken
      /\ rest \in Seq(Txs) /\ Len(rest) = Len(txBuffer) - taken
  BY <1>0
<1>3. TypeOK'
  <2>1. block \in Block
    BY <1>0, <1>2 DEF Block, TypeOK
  <2>2. blockCh' \in Seq(Block)
    <3>1. blockCh \in Seq(Block)
      BY <1>0 DEF TypeOK
    <3> HIDE DEF block
    <3>2. Append(blockCh, block) \in Seq(Block)
      BY <2>1, <3>1, AppendProperties
    <3> QED
      BY <1>1, <3>1, <3>2
  <2>3. metrics' \in Metrics
    <3>1. metrics' = [metrics EXCEPT !.blocks = @ + 1, !.txProcessed = @ + taken,
                        !.droppedBlocks = IF Len(blockCh) < ChanCap THEN @ ELSE @ + 1]
      BY DEF EmitBlock
    <3>2. taken \in Nat
      BY <1>0
    <3> DEFINE drops == IF Len(blockCh) < ChanCap THEN metrics.droppedBlocks
                         ELSE metrics.droppedBlocks + 1
    <3>3. drops \in Nat
      BY <1>0 DEF Metrics
    <3> HIDE DEF drops
    <3>4. [metrics EXCEPT !.blocks = @ + 1, !.txProcessed = @ + taken, !.droppedBlocks = drops]
             \in Metrics
      BY <1>0, <3>2, <3>3, BlockCountersStayNat
    <3> QED
      BY <3>1, <3>4 DEF drops
  <2>4. blocked' \in Seq(Txs) /\ txBuffer' \in Seq(Txs) /\ taken' \in 0 .. Len(txBuffer')
    BY <1>0, <1>1, <1>2
  <2>5. /\ UNCHANGED <<step, txOf, submitted, accepted, ctxDone, lifecycle, consumed>>
        /\ blockHeight' = blockHeight + 1
    BY DEF EmitBlock
  <2>6. /\ blockHeight' \in Nat /\ totalSize' \in Nat
        /\ loop' \in {"new", "waiting", "seen", "filling", "exited"}
    BY <1>0, <1>1, <2>5 DEF TypeOK
  <2> HIDE DEF block, rest
  <2> QED
    BY <1>0, <2>2, <2>3, <2>4, <2>5, <2>6 DEF TypeOK
<1>4. BufferBounded'
  BY <1>0, <1>1, <1>2 DEF TransactionInv, BufferBounded
<1>5. TransactionsConserved'
  <2>1. txBuffer = block.txs \o rest
    BY <1>0, SplitAt
  <2>2. blocked \o (block.txs \o rest) = (blocked \o block.txs) \o rest
    <3> DEFINE front == block.txs
    <3>1. blocked \in Seq(Txs) /\ front \in Seq(Txs) /\ rest \in Seq(Txs)
      BY <1>0, <1>2
    <3> HIDE DEF front, rest
    <3>2. (blocked \o front) \o rest = blocked \o (front \o rest)
      BY ONLY <3>1, ConcatAssociative
    <3> QED
      BY <3>2 DEF front
  <2> HIDE DEF block, rest
  <2> QED
    BY <1>1, <2>1, <2>2 DEF TransactionInv, TransactionsConserved
<1>6. SeenIsThere' /\ NothingTakenIsEmpty'
  BY <1>1 DEF SeenIsThere, NothingTakenIsEmpty
<1>7. NoEmptyBlock'
  <2> SUFFICES ASSUME EveryTxFits, NEW i \in DOMAIN blockCh' PROVE blockCh'[i].txs # <<>>
    BY DEF NoEmptyBlock, EveryTxFits
  <2>1. taken # 0
    <3> SUFFICES ASSUME taken = 0 PROVE FALSE
      OBVIOUS
    <3>1. loop = "filling" /\ ~NextFits
      BY DEF EmitBlock
    <3>2. totalSize = 0 /\ txBuffer # <<>>
      BY <3>1 DEF TransactionInv, SeenIsThere, NothingTakenIsEmpty
    <3>3. 0 < Len(txBuffer) /\ txBuffer[1] \in Txs
      BY <1>0, <3>2
    <3>4. SizeOf[txBuffer[1]] \in Nat /\ SizeOf[txBuffer[1]] <= BlockSize
      BY <3>3 DEF EveryTxFits
    <3> QED
      BY <3>1, <3>2, <3>3, <3>4 DEF NextFits
  <2>2. block.txs # <<>>
    BY <1>0, <1>2, <2>1
  <2>3. blockCh \in Seq(Block)
    BY <1>0 DEF TypeOK
  <2>4. \A k \in DOMAIN blockCh : blockCh[k].txs # <<>>
    BY DEF TransactionInv, NoEmptyBlock, EveryTxFits
  <2>5. block \in Block
    BY <1>0, <1>2 DEF Block, TypeOK
  <2> HIDE DEF block
  <2>6. \A k \in DOMAIN Append(blockCh, block) : Append(blockCh, block)[k].txs # <<>>
    BY <2>2, <2>3, <2>4, <2>5, AppendBlock
  <2> QED
    BY <1>1, <2>4, <2>6
<1> QED
  BY <1>3, <1>4, <1>5, <1>6, <1>7 DEF TransactionInv

(* The consumer takes the first block.                                     *)
LEMMA ConsumeKeeps == ASSUME TransactionInv, Consume PROVE TransactionInv'
<1> USE DEF Consume, callVars, lifeVars, fillVars
<1>1. TypeOK /\ blockCh \in Seq(Block) /\ Head(blockCh) \in Block /\ blockCh' \in Seq(Block)
  BY DEF TransactionInv, TypeOK
<1>2. consumed' \in Seq(Nat)
  BY <1>1 DEF TypeOK, Block
<1>3. TypeOK'
  BY <1>1, <1>2 DEF TypeOK
<1>4. NoEmptyBlock'
  BY <1>1 DEF TransactionInv, NoEmptyBlock, EveryTxFits
<1> QED
  BY <1>3, <1>4 DEF TransactionInv, BufferBounded, TransactionsConserved, SeenIsThere,
                    NothingTakenIsEmpty

(* Start, Stop and the end of the loop.                                    *)
LEMMA LifecycleKeeps ==
  ASSUME TransactionInv, Start \/ ExitRun \/ Stop \/ StopReturns \/ UNCHANGED vars
  PROVE  TransactionInv'
<1> USE DEF callVars, lifeVars, fillVars, vars, Start, ExitRun, Stop, StopReturns
<1>1. TypeOK'
  BY DEF TransactionInv, TypeOK
<1>2. UNCHANGED <<txBuffer, blockCh, accepted, blocked, taken, totalSize>>
  OBVIOUS
<1>3. loop' = loop \/ loop' \notin {"seen", "filling"}
  OBVIOUS
<1> QED
  BY <1>1, <1>2, <1>3 DEF TransactionInv, BufferBounded, TransactionsConserved, SeenIsThere,
                          NothingTakenIsEmpty, NoEmptyBlock, EveryTxFits

(* Every step keeps the invariant.                                         *)
LEMMA NextTransactionInv == TransactionInv /\ [Next]_vars => TransactionInv'
<1> SUFFICES ASSUME TransactionInv, [Next]_vars PROVE TransactionInv'
  OBVIOUS
<1>1. ASSUME NEW c \in Callers, NEW t \in Txs, AddTransaction(c, t) PROVE TransactionInv'
  BY <1>1, CallerStepsKeep
<1>2. ASSUME NEW c \in Callers, CheckBuffer(c) PROVE TransactionInv'
  <2>1. txOf[c] \in Txs
    BY <1>2 DEF TransactionInv, TypeOK, CheckBuffer
  <2> QED
    BY <1>2, <2>1, CallerStepsKeep
<1>3. ASSUME NEW c \in Callers, AppendTransaction(c) PROVE TransactionInv'
  <2>1. txOf[c] \in Txs
    BY <1>3 DEF TransactionInv, TypeOK, AppendTransaction
  <2> QED
    BY <1>3, <2>1, AppendKeeps, CallerStepsKeep
<1>4. ASSUME NEW c \in Callers, CountTransaction(c) PROVE TransactionInv'
  <2>1. metrics \in Metrics /\ TypeOK
    BY DEF TransactionInv, TypeOK
  <2>2. TypeOK'
    BY <1>4, <2>1, CountersStayNat DEF CountTransaction, TypeOK, lifeVars, fillVars
  <2> QED
    BY <1>4, <2>2, OthersKeep DEF CountTransaction, bufferVars, fillVars
<1>5. CASE createBlock
  BY <1>5, FillingKeeps, EmitBlockKeeps DEF createBlock
<1>6. CASE Consume
  BY <1>6, ConsumeKeeps
<1>7. CASE Start \/ ExitRun \/ Stop \/ StopReturns \/ UNCHANGED vars
  BY <1>7, LifecycleKeeps
<1> QED
  BY <1>1, <1>2, <1>3, <1>4, <1>5, <1>6, <1>7 DEF Next, CallStep

(* The invariant of the transaction coordinator holds always.              *)
THEOREM TransactionInvariant == SafeSpec => []TransactionInv
BY InitTransactionInv, NextTransactionInv, PTL DEF SafeSpec

(* The double check of AddTransaction keeps the buffer within its size for *)
(* any number of callers.                                                  *)
THEOREM BufferStaysBounded == SafeSpec => []BufferBounded
<1>1. TransactionInv => BufferBounded
  BY DEF TransactionInv
<1> QED
  BY <1>1, TransactionInvariant, PTL

(* Accepted transactions go into blocks in order, none lost or doubled     *)
(* between the buffer and the blocks of createBlock.                       *)
THEOREM FirstInFirstOut == SafeSpec => []TransactionsConserved
<1>1. TransactionInv => TransactionsConserved
  BY DEF TransactionInv
<1> QED
  BY <1>1, TransactionInvariant, PTL

(* If every transaction fits into a block, createBlock makes no empty one. *)
THEOREM BlocksAreNotEmpty == SafeSpec => []NoEmptyBlock
<1>1. TransactionInv => NoEmptyBlock
  BY DEF TransactionInv
<1> QED
  BY <1>1, TransactionInvariant, PTL

(* The buffer, the channel and the counters of transaction.go keep their   *)
(* types, and a block takes no more than the buffer holds.                 *)
THEOREM TransactionTypes == SafeSpec => []TypeOK
<1>1. TransactionInv => TypeOK
  BY DEF TransactionInv
<1> QED
  BY <1>1, TransactionInvariant, PTL

(* f[n] is the size of the first n transactions of s.                      *)
IsSum(f, s) ==
  f = [n \in 0 .. Len(s) |-> IF n = 0 THEN 0 ELSE f[n - 1] + SizeOf[s[n]]]

(* What the recursive definition of the prefix sums says of its values.    *)
LEMMA SumValues ==
  ASSUME NEW s \in Seq(Txs), NEW f, IsSum(f, s)
  PROVE  /\ f[0] = 0
         /\ \A n \in 1 .. Len(s) : f[n] = f[n - 1] + SizeOf[s[n]]
         /\ DOMAIN f = 0 .. Len(s)
<1>1. Len(s) \in Nat
  BY LenProperties
<1> DEFINE g == [n \in 0 .. Len(s) |-> IF n = 0 THEN 0 ELSE f[n - 1] + SizeOf[s[n]]]
<1>2. f = g
  BY DEF IsSum
<1>3. DOMAIN g = 0 .. Len(s) /\ g[0] = 0
  BY <1>1
<1>4. ASSUME NEW n \in 1 .. Len(s) PROVE g[n] = f[n - 1] + SizeOf[s[n]]
  BY <1>1
<1> HIDE DEF g
<1> QED
  BY <1>2, <1>3, <1>4

(* Sequences that agree up to k have the same sums up to k.                *)
LEMMA SumUnique ==
  ASSUME NEW s \in Seq(Txs), NEW r \in Seq(Txs), NEW f, NEW g, IsSum(f, s), IsSum(g, r),
         NEW k \in Nat, k <= Len(s), k <= Len(r), \A i \in 1 .. k : s[i] = r[i]
  PROVE  f[k] = g[k]
<1>0. Len(s) \in Nat /\ Len(r) \in Nat
  BY LenProperties
<1> DEFINE Bad == {n \in 0 .. k : f[n] # g[n]}
<1> SUFFICES ASSUME Bad # {} PROVE FALSE
  BY <1>0
<1>1. PICK m \in Bad : \A n \in Bad : m <= n
  <2>1. Bad \in SUBSET Nat
    OBVIOUS
  <2> HIDE DEF Bad
  <2> QED
    BY <2>1, LeastNatural
<1>2. CASE m = 0
  BY <1>2, SumValues
<1>3. CASE m # 0
  <2>1. m \in 1 .. k /\ m - 1 \in 0 .. k /\ m - 1 \notin Bad
    BY <1>1, <1>3
  <2>2. f[m - 1] = g[m - 1]
    BY <2>1
  <2>3. f[m] = f[m - 1] + SizeOf[s[m]]
    <3>1. \A n \in 1 .. Len(s) : f[n] = f[n - 1] + SizeOf[s[n]]
      BY SumValues
    <3> QED
      BY <1>0, <2>1, <3>1
  <2>4. g[m] = g[m - 1] + SizeOf[r[m]]
    <3>1. \A n \in 1 .. Len(r) : g[n] = g[n - 1] + SizeOf[r[n]]
      BY SumValues
    <3> QED
      BY <1>0, <2>1, <3>1
  <2> QED
    BY <1>1, <2>1, <2>2, <2>3, <2>4
<1> QED
  BY <1>2, <1>3

(* The prefix sums of a sequence are extended by one more element.         *)
LEMMA SumExtends ==
  ASSUME NEW s \in Seq(Txs), NEW t \in Txs, NEW f, IsSum(f, s)
  PROVE  \E g : IsSum(g, Append(s, t))
<1> DEFINE n1 == Len(s) + 1
           w == Append(s, t)
           g == [n \in 0 .. n1 |-> IF n = n1 THEN f[Len(s)] + SizeOf[t] ELSE f[n]]
           h == [n \in 0 .. n1 |-> IF n = 0 THEN 0 ELSE g[n - 1] + SizeOf[w[n]]]
<1>1. /\ Len(s) \in Nat /\ n1 \in Nat /\ Len(w) = n1
      /\ \A i \in 1 .. Len(s) : w[i] = s[i]
      /\ w[n1] = t
  BY LenProperties, AppendProperties
<1>2. /\ f[0] = 0
      /\ \A n \in 1 .. Len(s) : f[n] = f[n - 1] + SizeOf[s[n]]
  BY SumValues
<1>3. ASSUME NEW n \in 0 .. n1 PROVE g[n] = h[n]
  <2>1. CASE n = 0
    BY <1>1, <1>2, <2>1
  <2>2. CASE n = n1
    BY <1>1, <2>2
  <2>3. CASE n \in 1 .. Len(s)
    BY <1>1, <1>2, <2>3
  <2> QED
    BY <1>1, <2>1, <2>2, <2>3
<1>4. g = h
  BY <1>3
<1> QED
  BY <1>1, <1>4 DEF IsSum

(* Every sequence of transactions has its prefix sums.                     *)
LEMMA SumExists == ASSUME NEW s \in Seq(Txs) PROVE \E f : IsSum(f, s)
<1> DEFINE Bad == {n \in 0 .. Len(s) : ~\E f : IsSum(f, SubSeq(s, 1, n))}
<1>0. Len(s) \in Nat /\ s = SubSeq(s, 1, Len(s)) /\ \A i \in 1 .. Len(s) : s[i] \in Txs
  BY LenProperties, SubSeqFull, ElementOfSeq
<1> SUFFICES ASSUME Bad # {} PROVE FALSE
  <2>1. Bad = {} => \E f : IsSum(f, SubSeq(s, 1, Len(s)))
    BY <1>0
  <2> HIDE DEF Bad
  <2> QED
    BY <1>0, <2>1
<1>1. PICK m \in Bad : \A n \in Bad : m <= n
  <2>1. Bad \in SUBSET Nat
    OBVIOUS
  <2> HIDE DEF Bad
  <2> QED
    BY <2>1, LeastNatural
<1>2. CASE m = 0
  <2> DEFINE f == [n \in 0 .. 0 |-> 0]
  <2>1. SubSeq(s, 1, 0) = <<>>
    BY SubSeqEmpty
  <2>2. f = [n \in 0 .. 0 |-> IF n = 0 THEN 0 ELSE f[n - 1] + SizeOf[(<<>>)[n]]]
    OBVIOUS
  <2>3. IsSum(f, <<>>)
    BY <2>2, EmptyIsSeq DEF IsSum
  <2> HIDE DEF f
  <2> QED
    BY <1>1, <1>2, <2>1, <2>3
<1>3. CASE m # 0
  <2> DEFINE r == SubSeq(s, 1, m - 1)
  <2>1. m \in 1 .. Len(s) /\ m - 1 \in 0 .. Len(s) /\ m - 1 \notin Bad
    <3>1. m \in 0 .. Len(s)
      OBVIOUS
    <3>2. m - 1 \in 0 .. Len(s) /\ ~(m <= m - 1)
      BY <1>0, <1>3, <3>1
    <3> HIDE DEF Bad
    <3> QED
      BY <1>0, <1>1, <1>3, <3>1, <3>2
  <2>2. PICK f : IsSum(f, r)
    BY <2>1
  <2>3. r \in Seq(Txs) /\ s[m] \in Txs
    BY <1>0, <2>1, SubSeqProperties
  <2>4. SubSeq(s, 1, m) = r \o <<s[m]>>
    BY <1>0, <2>1, SubSeqRecursiveSecond
  <2>5. SubSeq(s, 1, m) = Append(r, s[m])
    <3> HIDE DEF r
    <3> QED
      BY <2>3, <2>4, AppendIsConcat
  <2>6. \E g : IsSum(g, Append(r, s[m]))
    BY <2>2, <2>3, SumExtends
  <2> QED
    BY <1>1, <2>5, <2>6
<1> QED
  BY <1>2, <1>3

(* The size of a list of transactions is the last of its prefix sums.      *)
LEMMA BytesIsSum ==
  ASSUME NEW s \in Seq(Txs), NEW f, IsSum(f, s)
  PROVE  Bytes(s) = f[Len(s)]
<1> DEFINE g == CHOOSE h : IsSum(h, s)
<1>1. IsSum(g, s)
  BY SumExists
<1>2. Bytes(s) = g[Len(s)]
  BY DEF Bytes, IsSum
<1> HIDE DEF g
<1>3. Len(s) \in Nat
  BY LenProperties
<1>4. f[Len(s)] = g[Len(s)]
  BY <1>1, <1>3, SumUnique
<1> QED
  BY <1>2, <1>4

(* One more transaction adds its own size.                                 *)
LEMMA BytesOfPrefix ==
  ASSUME NEW s \in Seq(Txs), NEW k \in 0 .. Len(s) - 1
  PROVE  Bytes(SubSeq(s, 1, k + 1)) = Bytes(SubSeq(s, 1, k)) + SizeOf[s[k + 1]]
<1> DEFINE r == SubSeq(s, 1, k)
           w == SubSeq(s, 1, k + 1)
<1>1. /\ Len(s) \in Nat /\ r \in Seq(Txs) /\ w \in Seq(Txs)
      /\ Len(r) = k /\ Len(w) = k + 1 /\ w[k + 1] = s[k + 1]
      /\ \A i \in 1 .. k : r[i] = w[i]
  OBVIOUS
<1> HIDE DEF r, w
<1>2. PICK f : IsSum(f, r)
  BY <1>1, SumExists
<1>3. PICK g : IsSum(g, w)
  BY <1>1, SumExists
<1>4. Bytes(r) = f[k] /\ Bytes(w) = g[k + 1]
  BY <1>1, <1>2, <1>3, BytesIsSum
<1>5. f[k] = g[k]
  <2>1. /\ r \in Seq(Txs) /\ w \in Seq(Txs) /\ IsSum(f, r) /\ IsSum(g, w)
        /\ k \in Nat /\ k <= Len(r) /\ k <= Len(w) /\ \A i \in 1 .. k : r[i] = w[i]
    BY <1>1, <1>2, <1>3
  <2> QED
    BY ONLY <2>1, SumUnique
<1>6. g[k + 1] = g[k] + SizeOf[w[k + 1]]
  <2>1. k + 1 \in 1 .. Len(w) /\ (k + 1) - 1 = k
    BY <1>1
  <2>2. \A n \in 1 .. Len(w) : g[n] = g[n - 1] + SizeOf[w[n]]
    <3>1. w \in Seq(Txs) /\ IsSum(g, w)
      BY <1>1, <1>3
    <3> QED
      BY ONLY <3>1, SumValues
  <2> QED
    BY <2>1, <2>2
<1> QED
  BY <1>1, <1>4, <1>5, <1>6 DEF r, w

(* No transactions, no bytes.                                              *)
LEMMA BytesOfNone == Bytes(<<>>) = 0
<1>1. <<>> \in Seq(Txs) /\ Len(<<>>) = 0
  BY EmptyIsSeq
<1>2. PICK f : IsSum(f, <<>>)
  BY <1>1, SumExists
<1> QED
  <2>1. f[0] = 0
    BY ONLY <1>1, <1>2, SumValues
  <2> QED
    BY <1>1, <1>2, <2>1, BytesIsSum

(* createBlock's running total is the size of what it has taken, and the   *)
(* limit holds for it after every transaction.                             *)
FillSize ==
  loop = "filling" => totalSize = Bytes(SubSeq(txBuffer, 1, taken)) /\ totalSize <= BlockSize

(* What holds of the size of the blocks in a channel and of b holds after  *)
(* b is appended.                                                          *)
LEMMA AppendFits ==
  ASSUME NEW s \in Seq(Block), NEW b \in Block, Bytes(b.txs) <= BlockSize,
         \A k \in DOMAIN s : Bytes(s[k].txs) <= BlockSize
  PROVE  \A k \in DOMAIN Append(s, b) : Bytes(Append(s, b)[k].txs) <= BlockSize
<1> SUFFICES ASSUME NEW k \in DOMAIN Append(s, b) PROVE Bytes(Append(s, b)[k].txs) <= BlockSize
  OBVIOUS
<1>1. /\ Append(s, b) \in Seq(Block) /\ Len(Append(s, b)) = Len(s) + 1
      /\ \A i \in 1 .. Len(s) : Append(s, b)[i] = s[i]
      /\ Append(s, b)[Len(s) + 1] = b
  BY AppendProperties
<1>2. Len(s) \in Nat /\ DOMAIN s = 1 .. Len(s) /\ k \in 1 .. Len(s) + 1
  BY <1>1, LenProperties
<1>3. CASE k = Len(s) + 1
  BY <1>1, <1>3
<1>4. CASE k \in 1 .. Len(s)
  BY <1>1, <1>2, <1>4
<1> QED
  BY <1>2, <1>3, <1>4

(* The steps of createBlock keep the running total and the blocks' sizes.  *)
LEMMA NextKeepsSizes ==
  TransactionInv /\ FillSize /\ BlocksFit /\ [Next]_vars => FillSize' /\ BlocksFit'
<1> SUFFICES ASSUME TransactionInv, FillSize, BlocksFit, [Next]_vars
             PROVE  FillSize' /\ BlocksFit'
  OBVIOUS
<1> USE DEF callVars, lifeVars, fillVars
<1>0. /\ txBuffer \in Seq(Txs) /\ Len(txBuffer) \in Nat /\ taken \in 0 .. Len(txBuffer)
      /\ totalSize \in Nat /\ blockCh \in Seq(Block) /\ blockHeight \in Nat
  BY DEF TransactionInv, TypeOK
<1>1. ASSUME UNCHANGED <<txBuffer, blockCh, loop, taken, totalSize>>
      PROVE  FillSize' /\ BlocksFit'
  BY <1>1 DEF FillSize, BlocksFit
<1>2. ASSUME NEW c \in Callers, AppendTransaction(c) PROVE FillSize' /\ BlocksFit'
  <2>1. loop' # "filling" /\ blockCh' = blockCh
    BY <1>2 DEF AppendTransaction, DropTransaction, LockIsFree
  <2> QED
    BY <2>1 DEF FillSize, BlocksFit
<1>3. CASE Tick \/ ExitRun \/ Start
  <2>1. loop' # "filling" /\ blockCh' = blockCh
    BY <1>3 DEF Tick, ExitRun, Start
  <2> QED
    BY <2>1 DEF FillSize, BlocksFit
<1>4. CASE LockBuffer
  <2>1. taken' = 0 /\ totalSize' = 0 /\ blockCh' = blockCh
    BY <1>4 DEF LockBuffer
  <2>2. Bytes(SubSeq(txBuffer', 1, 0)) = 0
    <3> DEFINE none == SubSeq(txBuffer', 1, 0)
    <3>1. none = <<>>
      BY SubSeqEmpty
    <3> HIDE DEF none
    <3>2. Bytes(none) = 0
      BY <3>1, BytesOfNone
    <3> QED
      BY <3>2 DEF none
  <2>3. FillSize'
    BY <2>1, <2>2 DEF FillSize
  <2> QED
    BY <2>1, <2>3 DEF BlocksFit
<1>5. CASE TakeTransaction
  <2>1. /\ loop = "filling" /\ taken < Len(txBuffer) /\ taken' = taken + 1
        /\ totalSize' = totalSize + SizeOf[txBuffer[taken + 1]] /\ totalSize' <= BlockSize
        /\ txBuffer' = txBuffer /\ blockCh' = blockCh
    BY <1>5 DEF TakeTransaction, NextFits
  <2>2. taken \in 0 .. Len(txBuffer) - 1
    BY <1>0, <2>1
  <2>3. Bytes(SubSeq(txBuffer, 1, taken + 1))
          = Bytes(SubSeq(txBuffer, 1, taken)) + SizeOf[txBuffer[taken + 1]]
    BY <1>0, <2>2, BytesOfPrefix
  <2> QED
    BY <2>1, <2>3 DEF FillSize, BlocksFit
<1>6. CASE EmitBlock
  <2> DEFINE block == [height |-> blockHeight, txs |-> SubSeq(txBuffer, 1, taken)]
  <2>1. /\ loop = "filling" /\ loop' = "waiting"
        /\ blockCh' = blockCh \/ blockCh' = Append(blockCh, block)
    BY <1>6 DEF EmitBlock
  <2>2. block \in Block
    BY <1>0 DEF Block
  <2>3. Bytes(block.txs) <= BlockSize
    BY <2>1 DEF FillSize
  <2>4. \A k \in DOMAIN blockCh : Bytes(blockCh[k].txs) <= BlockSize
    BY DEF BlocksFit
  <2> HIDE DEF block
  <2>5. \A k \in DOMAIN Append(blockCh, block) : Bytes(Append(blockCh, block)[k].txs) <= BlockSize
    BY <1>0, <2>2, <2>3, <2>4, AppendFits
  <2>6. FillSize'
    BY <2>1 DEF FillSize
  <2> QED
    BY <2>1, <2>4, <2>5, <2>6 DEF BlocksFit
<1>7. CASE Consume
  <2>1. /\ blockCh # <<>> /\ blockCh' = Tail(blockCh)
        /\ UNCHANGED <<txBuffer, loop, taken, totalSize>>
    BY <1>7 DEF Consume
  <2>2. /\ Tail(blockCh) \in Seq(Block) /\ Len(Tail(blockCh)) = Len(blockCh) - 1
        /\ \A i \in 1 .. Len(Tail(blockCh)) : Tail(blockCh)[i] = blockCh[i + 1]
    BY <1>0, <2>1, HeadTailProperties
  <2>3. Len(blockCh) \in Nat /\ DOMAIN blockCh = 1 .. Len(blockCh)
        /\ DOMAIN Tail(blockCh) = 1 .. Len(Tail(blockCh))
    BY <1>0, <2>2, LenProperties
  <2>4. ASSUME NEW i \in DOMAIN Tail(blockCh)
        PROVE  Bytes(Tail(blockCh)[i].txs) <= BlockSize
    <3>1. i + 1 \in DOMAIN blockCh /\ Tail(blockCh)[i] = blockCh[i + 1]
      BY <2>2, <2>3
    <3> QED
      BY <3>1 DEF BlocksFit
  <2>5. FillSize'
    BY <2>1 DEF FillSize
  <2> QED
    BY <2>1, <2>4, <2>5 DEF BlocksFit
<1>8. (\E c \in Callers : (\E t \in Txs : AddTransaction(c, t)) \/ CheckBuffer(c) \/ CountTransaction(c))
        => UNCHANGED <<txBuffer, blockCh, loop, taken, totalSize>>
  BY DEF AddTransaction, CheckBuffer, DropTransaction, CountTransaction
<1>9. Stop \/ StopReturns \/ UNCHANGED vars => UNCHANGED <<txBuffer, blockCh, loop, taken, totalSize>>
  BY DEF Stop, StopReturns, vars
<1> QED
  BY <1>1, <1>2, <1>3, <1>4, <1>5, <1>6, <1>7, <1>8, <1>9 DEF Next, CallStep, createBlock

(* No block of createBlock is larger than the limit, whatever the sizes of *)
(* the transactions are.                                                   *)
THEOREM BlocksStayWithinLimit == SafeSpec => []BlocksFit
<1>1. Init => FillSize /\ BlocksFit
  BY EmptyIsSeq DEF Init, FillSize, BlocksFit
<1> QED
  BY <1>1, NextKeepsSizes, TransactionInvariant, PTL DEF SafeSpec

(* A caller that starts or ends counting changes the number of those that  *)
(* count by one.                                                           *)
LEMMA CountingChanges ==
  ASSUME TypeOK, NEW c \in Callers
  PROVE  /\ Cardinality(Counting) \in Nat
         /\ (step[c] # "counting" /\ step' = [step EXCEPT ![c] = "counting"])
              => Cardinality(Counting') = Cardinality(Counting) + 1
         /\ (step[c] = "counting" /\ step' = [step EXCEPT ![c] = "idle"])
              => Cardinality(Counting') = Cardinality(Counting) - 1
<1>1. IsFiniteSet(Counting)
  BY FS_Subset DEF Counting
<1>2. ASSUME step[c] # "counting", step' = [step EXCEPT ![c] = "counting"]
      PROVE  Cardinality(Counting') = Cardinality(Counting) + 1
  <2>1. Counting' = Counting \cup {c} /\ c \notin Counting
    BY <1>2 DEF Counting, TypeOK
  <2> QED
    BY <1>1, <2>1, FS_AddElement
<1>3. ASSUME step[c] = "counting", step' = [step EXCEPT ![c] = "idle"]
      PROVE  Cardinality(Counting') = Cardinality(Counting) - 1
  <2>1. Counting' = Counting \ {c} /\ c \in Counting
    BY <1>3 DEF Counting, TypeOK
  <2> QED
    BY <1>1, <2>1, FS_RemoveElement
<1> QED
  BY <1>1, <1>2, <1>3, FS_CardinalityType

(* The counters a block changes.                                           *)
LEMMA BlockCounters ==
  ASSUME metrics \in Metrics, NEW n, NEW d,
         metrics' = [metrics EXCEPT !.blocks = @ + 1, !.txProcessed = @ + n, !.droppedBlocks = d]
  PROVE  /\ metrics'.blocks = metrics.blocks + 1
         /\ metrics'.txProcessed = metrics.txProcessed + n
         /\ metrics'.droppedBlocks = d
         /\ metrics'.txReceived = metrics.txReceived
BY DEF Metrics

counterVars == <<metrics, Counting, accepted, blocked, blockHeight, consumed, blockCh>>

(* Every step counts what it does.                                         *)
LEMMA NextKeepsCounters == TypeOK /\ CountersAgree /\ [Next]_vars => CountersAgree'
<1> SUFFICES ASSUME TypeOK, CountersAgree, [Next]_vars PROVE CountersAgree'
  OBVIOUS
<1> USE DEF callVars, lifeVars, fillVars
<1>0. /\ metrics \in Metrics /\ accepted \in Seq(Txs) /\ blocked \in Seq(Txs)
      /\ consumed \in Seq(Nat) /\ blockCh \in Seq(Block) /\ blockHeight \in Nat
      /\ step \in [Callers -> {"idle", "called", "admitted", "counting"}]
  BY DEF TypeOK
<1>1. ASSUME UNCHANGED counterVars PROVE CountersAgree'
  BY <1>1 DEF CountersAgree, counterVars
<1>2. ASSUME NEW c \in Callers, NEW t \in Txs, AddTransaction(c, t) PROVE CountersAgree'
  <2>1. Counting' = Counting
    BY <1>0, <1>2 DEF AddTransaction, Counting
  <2> QED
    BY <1>1, <1>2, <2>1 DEF AddTransaction, counterVars
<1>3. ASSUME NEW c \in Callers, DropTransaction(c), step[c] # "counting" PROVE CountersAgree'
  <2>1. Counting' = Counting
    BY <1>0, <1>3 DEF DropTransaction, Counting
  <2>2. /\ metrics'.txReceived = metrics.txReceived /\ metrics'.txProcessed = metrics.txProcessed
        /\ metrics'.blocks = metrics.blocks /\ metrics'.droppedBlocks = metrics.droppedBlocks
    BY <1>0, <1>3 DEF DropTransaction, Metrics
  <2>3. UNCHANGED <<accepted, blocked, blockHeight, consumed, blockCh>>
    BY <1>3 DEF DropTransaction
  <2> QED
    BY <2>1, <2>2, <2>3 DEF CountersAgree
<1>4. ASSUME NEW c \in Callers, CheckBuffer(c) PROVE CountersAgree'
  <2>1. CASE DropTransaction(c)
    BY <1>3, <1>4, <2>1 DEF CheckBuffer
  <2>2. CASE ~DropTransaction(c)
    <3>1. Counting' = Counting
      BY <1>0, <1>4, <2>2 DEF CheckBuffer, Counting
    <3> QED
      BY <1>1, <1>4, <2>2, <3>1 DEF CheckBuffer, counterVars
  <2> QED
    BY <2>1, <2>2
<1>5. ASSUME NEW c \in Callers, AppendTransaction(c) PROVE CountersAgree'
  <2>1. CASE DropTransaction(c)
    BY <1>3, <1>5, <2>1 DEF AppendTransaction
  <2>2. CASE ~DropTransaction(c)
    <3>1. /\ step[c] = "admitted" /\ step' = [step EXCEPT ![c] = "counting"]
          /\ accepted' = Append(accepted, txOf[c])
          /\ UNCHANGED <<metrics, blocked, blockHeight, consumed, blockCh>>
      BY <1>5, <2>2 DEF AppendTransaction
    <3>2. txOf[c] \in Txs
      BY <3>1 DEF TypeOK
    <3>3. Len(accepted') = Len(accepted) + 1
      BY <1>0, <3>1, <3>2, AppendProperties
    <3>4. Cardinality(Counting') = Cardinality(Counting) + 1 /\ Cardinality(Counting) \in Nat
      BY <3>1, CountingChanges
    <3>5. metrics.txReceived \in Nat
      BY <1>0 DEF Metrics
    <3>6. metrics.txReceived + Cardinality(Counting) = Len(accepted)
      BY DEF CountersAgree
    <3>7. metrics'.txReceived + Cardinality(Counting') = Len(accepted')
      BY <3>1, <3>3, <3>4, <3>5, <3>6
    <3> QED
      BY <3>1, <3>7 DEF CountersAgree
  <2> QED
    BY <2>1, <2>2
<1>6. ASSUME NEW c \in Callers, CountTransaction(c) PROVE CountersAgree'
  <2>1. /\ step[c] = "counting" /\ step' = [step EXCEPT ![c] = "idle"]
        /\ metrics' = [metrics EXCEPT !.txReceived = @ + 1]
        /\ UNCHANGED <<accepted, blocked, blockHeight, consumed, blockCh>>
    BY <1>6 DEF CountTransaction
  <2>2. Cardinality(Counting') = Cardinality(Counting) - 1 /\ Cardinality(Counting) \in Nat
    BY <2>1, CountingChanges
  <2>3. /\ metrics.txReceived \in Nat /\ metrics'.txReceived = metrics.txReceived + 1
        /\ metrics'.txProcessed = metrics.txProcessed
        /\ metrics'.blocks = metrics.blocks /\ metrics'.droppedBlocks = metrics.droppedBlocks
    BY <1>0, <2>1 DEF Metrics
  <2>4. metrics'.txReceived + Cardinality(Counting') = metrics.txReceived + Cardinality(Counting)
    BY <2>2, <2>3
  <2> QED
    BY <2>1, <2>3, <2>4 DEF CountersAgree
<1>7. CASE EmitBlock
  <2> DEFINE front == SubSeq(txBuffer, 1, taken)
             block == [height |-> blockHeight, txs |-> front]
             sent == Len(blockCh) < ChanCap
             drops == IF sent THEN metrics.droppedBlocks ELSE metrics.droppedBlocks + 1
  <2>1. /\ blockCh' = IF sent THEN Append(blockCh, block) ELSE blockCh
        /\ metrics' = [metrics EXCEPT !.blocks = @ + 1, !.txProcessed = @ + taken,
                                      !.droppedBlocks = drops]
        /\ blocked' = blocked \o front
        /\ blockHeight' = blockHeight + 1
        /\ UNCHANGED <<step, accepted, consumed>>
    BY <1>7 DEF EmitBlock
  <2>2. front \in Seq(Txs) /\ Len(front) = taken /\ taken \in Nat
    BY DEF TypeOK
  <2>3. block \in Block
    BY <1>0, <2>2 DEF Block
  <2> HIDE DEF front, block, drops
  <2>4. Len(blocked') = Len(blocked) + taken
    BY <1>0, <2>1, <2>2, ConcatProperties
  <2>5. Len(blockCh') = IF sent THEN Len(blockCh) + 1 ELSE Len(blockCh)
    BY <1>0, <2>1, <2>3, AppendProperties
  <2>6. /\ metrics'.blocks = metrics.blocks + 1
        /\ metrics'.txProcessed = metrics.txProcessed + taken
        /\ metrics'.droppedBlocks = drops
        /\ metrics'.txReceived = metrics.txReceived
    BY <1>0, <2>1, BlockCounters
  <2>7. /\ metrics.droppedBlocks \in Nat /\ metrics.blocks \in Nat /\ metrics.txProcessed \in Nat
        /\ Len(consumed) \in Nat /\ Len(blockCh) \in Nat /\ Len(blocked) \in Nat
    BY <1>0, LenProperties DEF Metrics
  <2>8. blockHeight' = Len(consumed') + Len(blockCh') + metrics'.droppedBlocks
    BY <1>0, <2>1, <2>5, <2>6, <2>7 DEF CountersAgree, drops
  <2>9. Counting' = Counting
    BY <2>1 DEF Counting
  <2> QED
    BY <2>1, <2>2, <2>4, <2>6, <2>8, <2>9 DEF CountersAgree
<1>8. CASE Consume
  <2>1. /\ blockCh # <<>> /\ blockCh' = Tail(blockCh)
        /\ consumed' = Append(consumed, Head(blockCh).height)
        /\ UNCHANGED <<metrics, step, accepted, blocked, blockHeight>>
    BY <1>8 DEF Consume
  <2>2. Head(blockCh).height \in Nat
    <3>1. Head(blockCh) \in Block
      BY <1>0, <2>1, HeadTailProperties
    <3> QED
      BY <3>1 DEF Block
  <2>3. Len(blockCh') = Len(blockCh) - 1 /\ Len(consumed') = Len(consumed) + 1
    BY <1>0, <2>1, <2>2, HeadTailProperties, AppendProperties
  <2>4. Len(consumed) \in Nat /\ Len(blockCh) \in Nat /\ metrics.droppedBlocks \in Nat
    BY <1>0, LenProperties DEF Metrics
  <2>5. Len(consumed') + Len(blockCh') = Len(consumed) + Len(blockCh)
    BY <2>3, <2>4
  <2>6. Counting' = Counting
    BY <2>1 DEF Counting
  <2> QED
    BY <2>1, <2>5, <2>6 DEF CountersAgree
<1>9. Tick \/ LockBuffer \/ TakeTransaction \/ ExitRun \/ Start \/ Stop \/ StopReturns \/ UNCHANGED vars
        => UNCHANGED counterVars
  BY DEF Tick, LockBuffer, TakeTransaction, ExitRun, Start, Stop, StopReturns, vars, counterVars,
         Counting
<1> QED
  BY <1>1, <1>2, <1>4, <1>5, <1>6, <1>7, <1>8, <1>9 DEF Next, CallStep, createBlock

(* The metrics of transaction.go agree with what was accepted, put into    *)
(* blocks, sent, consumed and dropped, for any number of callers that are  *)
(* between their append and their count.                                   *)
THEOREM MetricsAgree == SafeSpec => []CountersAgree
<1>1. Init => CountersAgree
  <2> SUFFICES ASSUME Init PROVE CountersAgree
    OBVIOUS
  <2>1. Counting = {}
    BY DEF Init, Counting
  <2>2. Cardinality(Counting) = 0
    BY <2>1, FS_EmptySet
  <2> QED
    BY <2>2, EmptyIsSeq DEF Init, CountersAgree
<1> QED
  BY <1>1, NextKeepsCounters, TransactionTypes, PTL DEF SafeSpec

(* The heights of the blocks in s.                                         *)
HeightsOf(s) == [i \in DOMAIN s |-> s[i].height]

(* Numbers below n, each larger than those before it.                      *)
Ascending(h, n) ==
  /\ \A i \in DOMAIN h : h[i] < n
  /\ \A i, j \in DOMAIN h : i < j => h[i] < h[j]

(* The heights of a sequence of blocks are a sequence of numbers.          *)
LEMMA HeightsOfType ==
  ASSUME NEW s \in Seq(Block)
  PROVE  /\ HeightsOf(s) \in Seq(Nat) /\ Len(HeightsOf(s)) = Len(s)
         /\ \A i \in 1 .. Len(s) : HeightsOf(s)[i] = s[i].height
<1>1. Len(s) \in Nat /\ DOMAIN s = 1 .. Len(s) /\ \A i \in 1 .. Len(s) : s[i] \in Block
  BY LenProperties, ElementOfSeq
<1>2. \A i \in 1 .. Len(s) : s[i].height \in Nat
  BY <1>1 DEF Block
<1>3. HeightsOf(s) = [i \in 1 .. Len(s) |-> s[i].height]
  BY <1>1 DEF HeightsOf
<1> QED
  BY <1>1, <1>2, <1>3

(* A block at the end adds its height at the end.                          *)
LEMMA HeightsOfAppend ==
  ASSUME NEW s \in Seq(Block), NEW b \in Block
  PROVE  HeightsOf(Append(s, b)) = Append(HeightsOf(s), b.height)
<1> DEFINE w == Append(s, b)
           h == HeightsOf(s)
           v == Append(h, b.height)
<1>1. /\ w \in Seq(Block) /\ Len(w) = Len(s) + 1 /\ Len(s) \in Nat
      /\ \A i \in 1 .. Len(s) : w[i] = s[i]
      /\ w[Len(s) + 1] = b
  BY AppendProperties, LenProperties
<1>2. /\ h \in Seq(Nat) /\ Len(h) = Len(s) /\ b.height \in Nat
      /\ \A i \in 1 .. Len(s) : h[i] = s[i].height
  BY HeightsOfType DEF Block
<1> HIDE DEF h
<1>3. /\ v \in Seq(Nat) /\ Len(v) = Len(s) + 1
      /\ \A i \in 1 .. Len(s) : v[i] = h[i]
      /\ v[Len(s) + 1] = b.height
  BY <1>2, AppendProperties
<1> HIDE DEF w, v
<1>4. /\ HeightsOf(w) \in Seq(Nat) /\ Len(HeightsOf(w)) = Len(w)
      /\ \A i \in 1 .. Len(w) : HeightsOf(w)[i] = w[i].height
  BY <1>1, HeightsOfType
<1>5. ASSUME NEW i \in 1 .. Len(w) PROVE HeightsOf(w)[i] = v[i]
  <2>1. CASE i = Len(s) + 1
    BY <1>1, <1>3, <1>4, <2>1
  <2>2. CASE i \in 1 .. Len(s)
    <3>1. HeightsOf(w)[i] = w[i].height
      BY <1>4
    <3>2. w[i] = s[i]
      BY <1>1, <2>2
    <3>3. v[i] = s[i].height
      BY <1>2, <1>3, <2>2
    <3> QED
      BY <3>1, <3>2, <3>3
  <2> QED
    BY <1>1, <2>1, <2>2
<1>6. HeightsOf(w) = v
  BY ONLY <1>1, <1>3, <1>4, <1>5, SeqEqual
<1> QED
  BY <1>6 DEF w, v, h

(* The first block taken away takes the first height with it.              *)
LEMMA HeightsOfTail ==
  ASSUME NEW s \in Seq(Block), s # <<>>
  PROVE  /\ HeightsOf(s) # <<>> /\ Head(HeightsOf(s)) = Head(s).height
         /\ HeightsOf(Tail(s)) = Tail(HeightsOf(s))
<1> DEFINE r == Tail(s)
           h == HeightsOf(s)
           v == Tail(h)
<1>1. /\ Head(s) = s[1] /\ r \in Seq(Block) /\ Len(r) = Len(s) - 1 /\ Len(s) \in Nat \ {0}
      /\ \A i \in 1 .. Len(r) : r[i] = s[i + 1]
  BY HeadTailProperties, LenProperties, EmptySeq
<1>2. /\ h \in Seq(Nat) /\ Len(h) = Len(s)
      /\ \A i \in 1 .. Len(s) : h[i] = s[i].height
  BY HeightsOfType
<1> HIDE DEF h
<1>3. h # <<>> /\ Head(h) = h[1]
  BY <1>1, <1>2, EmptyIsSeq
<1>4. /\ v \in Seq(Nat) /\ Len(v) = Len(s) - 1
      /\ \A i \in 1 .. Len(v) : v[i] = h[i + 1]
  BY <1>2, <1>3, HeadTailProperties
<1> HIDE DEF r, v
<1>5. /\ HeightsOf(r) \in Seq(Nat) /\ Len(HeightsOf(r)) = Len(r)
      /\ \A i \in 1 .. Len(r) : HeightsOf(r)[i] = r[i].height
  BY <1>1, HeightsOfType
<1>6. ASSUME NEW i \in 1 .. Len(r) PROVE HeightsOf(r)[i] = v[i]
  <2>1. i \in 1 .. Len(v) /\ i + 1 \in 1 .. Len(s)
    BY <1>1, <1>4
  <2> QED
    BY <1>1, <1>2, <1>4, <1>5, <2>1
<1>7. HeightsOf(r) = v
  BY ONLY <1>1, <1>4, <1>5, <1>6, SeqEqual
<1> QED
  BY <1>1, <1>2, <1>3, <1>7 DEF r, v, h

(* A number that is not below the bound may be appended.                   *)
LEMMA AscendingAppend ==
  ASSUME NEW h \in Seq(Nat), NEW n \in Nat, Ascending(h, n)
  PROVE  Ascending(Append(h, n), n + 1) /\ Ascending(h, n + 1)
<1> DEFINE w == Append(h, n)
<1>1. /\ w \in Seq(Nat) /\ Len(w) = Len(h) + 1 /\ Len(h) \in Nat
      /\ \A i \in 1 .. Len(h) : w[i] = h[i] /\ h[i] \in Nat
      /\ w[Len(h) + 1] = n
  BY AppendProperties, LenProperties, ElementOfSeq
<1>2. DOMAIN w = 1 .. Len(h) + 1 /\ DOMAIN h = 1 .. Len(h)
  BY <1>1, LenProperties
<1> HIDE DEF w
<1>3. ASSUME NEW i \in 1 .. Len(h) PROVE h[i] < n + 1
  <2>1. h[i] \in Nat /\ h[i] < n
    BY <1>1, <1>2 DEF Ascending
  <2> QED
    BY <2>1
<1>4. ASSUME NEW i \in DOMAIN w PROVE w[i] < n + 1
  BY <1>1, <1>2, <1>3
<1>5. ASSUME NEW i \in DOMAIN w, NEW j \in DOMAIN w, i < j PROVE w[i] < w[j]
  <2>1. i \in 1 .. Len(h)
    BY <1>1, <1>2, <1>5
  <2>2. CASE j = Len(h) + 1
    BY <1>1, <1>2, <2>1, <2>2 DEF Ascending
  <2>3. CASE j \in 1 .. Len(h)
    BY <1>1, <1>2, <1>5, <2>1, <2>3 DEF Ascending
  <2> QED
    BY <1>1, <1>2, <2>2, <2>3
<1>6. Ascending(w, n + 1)
  BY <1>4, <1>5 DEF Ascending
<1>7. Ascending(h, n + 1)
  BY <1>2, <1>3 DEF Ascending
<1> QED
  BY <1>6, <1>7 DEF w

(* All heights, those the consumer took first.                             *)
Heights == consumed \o HeightsOf(blockCh)

(* HeightsGrow is about that line.                                         *)
LEMMA HeightsAscend == HeightsGrow <=> Ascending(Heights, blockHeight)
<1>1. Heights = consumed \o [i \in DOMAIN blockCh |-> blockCh[i].height]
  BY Zenon DEF Heights, HeightsOf
<1> QED
  BY <1>1, Zenon DEF HeightsGrow, Ascending

(* Only createBlock changes the heights there are.                         *)
LEMMA NextKeepsHeights == TypeOK /\ HeightsGrow /\ [Next]_vars => HeightsGrow'
<1> SUFFICES ASSUME TypeOK, HeightsGrow, [Next]_vars PROVE HeightsGrow'
  OBVIOUS
<1> USE DEF callVars, lifeVars, fillVars
<1>1. HeightsGrow <=> Ascending(Heights, blockHeight)
  BY HeightsAscend
<1>2. HeightsGrow' <=> Ascending(Heights', blockHeight')
  <2>1. Heights' = consumed' \o [i \in DOMAIN blockCh' |-> blockCh'[i].height]
    BY Zenon DEF Heights, HeightsOf
  <2> QED
    BY <2>1, Zenon DEF HeightsGrow, Ascending
<1>3. /\ blockCh \in Seq(Block) /\ consumed \in Seq(Nat) /\ blockHeight \in Nat
      /\ HeightsOf(blockCh) \in Seq(Nat)
  BY HeightsOfType DEF TypeOK
<1>4. Heights \in Seq(Nat)
  BY <1>3, ConcatProperties DEF Heights
<1>5. ASSUME UNCHANGED <<consumed, blockCh, blockHeight>> PROVE HeightsGrow'
  BY <1>5, ZenonT(60) DEF HeightsGrow
<1>6. CASE EmitBlock
  <2> DEFINE block == [height |-> blockHeight, txs |-> SubSeq(txBuffer, 1, taken)]
  <2>1. /\ blockCh' = blockCh \/ blockCh' = Append(blockCh, block)
        /\ blockHeight' = blockHeight + 1 /\ consumed' = consumed
    BY <1>6 DEF EmitBlock
  <2>2. block \in Block /\ block.height = blockHeight
    BY <1>3 DEF TypeOK, Block
  <2> HIDE DEF block
  <2>3. CASE blockCh' = blockCh
    <3>1. Heights' = Heights
      BY <2>1, <2>3 DEF Heights
    <3> QED
      BY <1>1, <1>2, <1>3, <1>4, <2>1, <3>1, AscendingAppend
  <2>4. CASE blockCh' = Append(blockCh, block)
    <3>1. HeightsOf(blockCh') = Append(HeightsOf(blockCh), blockHeight)
      BY <1>3, <2>2, <2>4, HeightsOfAppend
    <3>2. Append(Heights, blockHeight) = consumed \o Append(HeightsOf(blockCh), blockHeight)
      <4> DEFINE h == HeightsOf(blockCh)
      <4>1. /\ consumed \in Seq(Nat) /\ h \in Seq(Nat) /\ blockHeight \in Nat
            /\ Heights = consumed \o h
        BY <1>3 DEF Heights
      <4> HIDE DEF h
      <4>2. Append(Heights, blockHeight) = consumed \o Append(h, blockHeight)
        BY ONLY <4>1, AppendAfterConcat
      <4> QED
        BY <4>2 DEF h
    <3>3. Heights' = Append(Heights, blockHeight)
      BY <2>1, <3>1, <3>2 DEF Heights
    <3> QED
      BY <1>1, <1>2, <1>3, <1>4, <2>1, <3>3, AscendingAppend
  <2> QED
    BY <2>1, <2>3, <2>4
<1>7. CASE Consume
  <2>1. /\ blockCh # <<>> /\ blockCh' = Tail(blockCh)
        /\ consumed' = Append(consumed, Head(blockCh).height) /\ blockHeight' = blockHeight
    BY <1>7 DEF Consume
  <2>2. /\ HeightsOf(blockCh) # <<>> /\ Head(HeightsOf(blockCh)) = Head(blockCh).height
        /\ HeightsOf(blockCh') = Tail(HeightsOf(blockCh))
    BY <1>3, <2>1, HeightsOfTail
  <2>3. Append(consumed, Head(HeightsOf(blockCh))) \o Tail(HeightsOf(blockCh))
          = consumed \o HeightsOf(blockCh)
    BY <1>3, <2>2, MoveHead
  <2>4. Heights' = Heights
    BY <2>1, <2>2, <2>3 DEF Heights
  <2> QED
    BY <1>1, <1>2, <2>1, <2>4
<1>8. (\E c \in Callers : (\E t \in Txs : AddTransaction(c, t)) \/ CallStep(c))
        => UNCHANGED <<consumed, blockCh, blockHeight>>
  BY DEF CallStep, AddTransaction, CheckBuffer, DropTransaction, AppendTransaction, CountTransaction
<1>9. Tick \/ LockBuffer \/ TakeTransaction \/ ExitRun \/ Start \/ Stop \/ StopReturns \/ UNCHANGED vars
        => UNCHANGED <<consumed, blockCh, blockHeight>>
  BY DEF Tick, LockBuffer, TakeTransaction, ExitRun, Start, Stop, StopReturns, vars
<1> QED
  BY <1>5, <1>6, <1>7, <1>8, <1>9 DEF Next, createBlock

(* The consumer of createBlock's blocks sees heights that only grow, after *)
(* a restart of the loop too.                                              *)
THEOREM HeightsKeepGrowing == SafeSpec => []HeightsGrow
<1>1. Init => HeightsGrow
  <2> SUFFICES ASSUME Init PROVE HeightsGrow
    OBVIOUS
  <2>1. HeightsOf(blockCh) = <<>>
    BY EmptyIsSeq DEF Init, HeightsOf
  <2>2. consumed \o HeightsOf(blockCh) = <<>>
    BY <2>1, EmptyIsSeq DEF Init
  <2>3. DOMAIN (consumed \o HeightsOf(blockCh)) = {}
    BY <2>2, EmptyIsSeq
  <2> QED
    BY <2>3 DEF HeightsGrow, HeightsOf
<1> QED
  BY <1>1, NextKeepsHeights, TransactionTypes, PTL DEF SafeSpec
=============================================================================
