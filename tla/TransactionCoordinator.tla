----------------------- MODULE TransactionCoordinator -----------------------
(***************************************************************************)
(* pkg/transaction/transaction.go: callers add transactions to a bounded   *)
(* buffer; a loop driven by a ticker packs them into blocks of limited     *)
(* size and offers each block to a bounded channel, dropping it when the   *)
(* channel is full.                                                        *)
(*                                                                         *)
(* A caller's AddTransaction is four steps, as it holds no lock between    *)
(* them: the context check, the check under the read lock, the append      *)
(* under the write lock and the counter after the unlock.  createBlock     *)
(* looks at the length without a lock, then holds the lock to its end; its *)
(* loop over the buffer is modelled one transaction at a time.  The        *)
(* unlocked read races with appends; reading an old length can only make   *)
(* the tick pass without effect.                                           *)
(***************************************************************************)
EXTENDS Naturals, Sequences, FiniteSets

CONSTANTS
  Callers,     (* goroutines that call AddTransaction                         *)
  Txs,         (* the transactions, each submitted at most once               *)
  SizeOf,      (* len(tx)                                                     *)
  BlockSize,   (* config.Config.BlockSize                                     *)
  BufferSize,  (* Coordinator.bufferSize (100000)                             *)
  ChanCap,     (* model.DefaultChannelCapacity (10000)                        *)
  NoTx,        (* no transaction                                              *)
  MaxHeight    (* bound: at most this many blocks are created                 *)

ASSUME TransactionAssumption ==
  /\ IsFiniteSet(Callers)
  /\ SizeOf \in [Txs -> Nat]
  /\ BlockSize \in Nat
  /\ BufferSize \in Nat
  /\ ChanCap \in Nat
  /\ MaxHeight \in Nat
  /\ NoTx \notin Txs

VARIABLES
  txBuffer,       (* Coordinator.txBuffer                                             *)
  blockCh,        (* Coordinator.blockCh                                              *)
  blockHeight,    (* Coordinator.blockHeight                                          *)
  metrics,        (* Coordinator.metrics: the counters                                *)
  step,           (* step[c]: "idle", "called", "admitted" or "counting"              *)
  txOf,           (* txOf[c]: the transaction c is adding                             *)
  loop,           (* "new", "waiting", "seen" (length checked), "filling" or "exited" *)
  taken,          (* createBlock: how many transactions blockTxs holds                *)
  totalSize,      (* createBlock: local totalSize                                     *)
  ctxDone,        (* the context is cancelled                                         *)
  lifecycle,      (* "new", "started", "stopping" or "stopped"                        *)
  submitted,      (* the transactions handed to AddTransaction so far                 *)
  accepted,       (* history: the transactions appended to the buffer, in order       *)
  blocked,        (* history: the transactions put into blocks, in order              *)
  consumed        (* history: the heights the consumer of blockCh took, in order      *)

fillVars == <<taken, totalSize>>
callVars == <<step, txOf, submitted, accepted>>
lifeVars == <<ctxDone, lifecycle>>
vars == <<txBuffer, blockCh, blockHeight, metrics, step, txOf, loop, taken, totalSize,
          ctxDone, lifecycle, submitted, accepted, blocked, consumed>>

Block == [height : Nat, txs : Seq(Txs)]
Metrics == [txReceived : Nat, txDropped : Nat, txProcessed : Nat,
            blocks : Nat, droppedBlocks : Nat]

TypeOK ==
  /\ txBuffer \in Seq(Txs)
  /\ blockCh \in Seq(Block)
  /\ blockHeight \in Nat
  /\ metrics \in Metrics
  /\ step \in [Callers -> {"idle", "called", "admitted", "counting"}]
  /\ txOf \in [Callers -> Txs \cup {NoTx}]
  /\ \A c \in Callers : step[c] \in {"called", "admitted"} => txOf[c] \in Txs
  /\ loop \in {"new", "waiting", "seen", "filling", "exited"}
  /\ taken \in 0 .. Len(txBuffer)
  /\ totalSize \in Nat
  /\ ctxDone \in BOOLEAN
  /\ lifecycle \in {"new", "started", "stopping", "stopped"}
  /\ submitted \in SUBSET Txs
  /\ accepted \in Seq(Txs)
  /\ blocked \in Seq(Txs)
  /\ consumed \in Seq(Nat)

(* New *)
Init ==
  /\ txBuffer = <<>> /\ blockCh = <<>> /\ blockHeight = 0
  /\ metrics = [txReceived |-> 0, txDropped |-> 0, txProcessed |-> 0,
                blocks |-> 0, droppedBlocks |-> 0]
  /\ step = [c \in Callers |-> "idle"] /\ txOf = [c \in Callers |-> NoTx]
  /\ loop = "new" /\ taken = 0 /\ totalSize = 0
  /\ ctxDone = FALSE /\ lifecycle = "new"
  /\ submitted = {} /\ accepted = <<>> /\ blocked = <<>> /\ consumed = <<>>

-----------------------------------------------------------------------------
(* txMutex is held from one step to the next only inside createBlock. *)
LockIsFree == loop # "filling"

BufferIsFull == Len(txBuffer) >= BufferSize

(* AddTransaction up to the context check.  (With the context cancelled    *)
(* the call returns at once.)                                              *)
AddTransaction(c, t) ==
  /\ step[c] = "idle"
  /\ t \notin submitted
  /\ ~ctxDone
  /\ step' = [step EXCEPT ![c] = "called"]
  /\ txOf' = [txOf EXCEPT ![c] = t]
  /\ submitted' = submitted \cup {t}
  /\ UNCHANGED <<txBuffer, blockCh, blockHeight, metrics, loop, fillVars, lifeVars,
                 accepted, blocked, consumed>>

(* The buffer is full: the transaction is dropped and the call returns. *)
DropTransaction(c) ==
  /\ BufferIsFull
  /\ step' = [step EXCEPT ![c] = "idle"]
  /\ txOf' = [txOf EXCEPT ![c] = NoTx]
  /\ metrics' = [metrics EXCEPT !.txDropped = @ + 1]
  /\ UNCHANGED <<txBuffer, blockCh, blockHeight, loop, fillVars, lifeVars,
                 submitted, accepted, blocked, consumed>>

(* The check under the read lock. *)
CheckBuffer(c) ==
  /\ step[c] = "called"
  /\ LockIsFree
  /\ \/ DropTransaction(c)
     \/ /\ ~BufferIsFull
        /\ step' = [step EXCEPT ![c] = "admitted"]
        /\ UNCHANGED <<txBuffer, blockCh, blockHeight, metrics, txOf, loop, fillVars,
                       lifeVars, submitted, accepted, blocked, consumed>>

(* The second check and the append, under the write lock. *)
AppendTransaction_Mutant_NoSecondCheck(c) ==
  /\ step[c] = "admitted"
  /\ LockIsFree
  /\ txBuffer' = Append(txBuffer, txOf[c])
  /\ accepted' = Append(accepted, txOf[c])
  /\ step' = [step EXCEPT ![c] = "counting"]
  /\ UNCHANGED <<blockCh, blockHeight, metrics, txOf, loop, fillVars, lifeVars,
                 submitted, blocked, consumed>>

AppendTransaction(c) ==
  /\ step[c] = "admitted"
  /\ LockIsFree
  /\ \/ DropTransaction(c)
     \/ /\ ~BufferIsFull
        /\ txBuffer' = Append(txBuffer, txOf[c])
        /\ accepted' = Append(accepted, txOf[c])
        /\ step' = [step EXCEPT ![c] = "counting"]
        /\ UNCHANGED <<blockCh, blockHeight, metrics, txOf, loop, fillVars, lifeVars,
                       submitted, blocked, consumed>>

(* After the unlock. *)
CountTransaction_Mutant_NotCounted(c) ==
  /\ step[c] = "counting"
  /\ step' = [step EXCEPT ![c] = "idle"]
  /\ txOf' = [txOf EXCEPT ![c] = NoTx]
  /\ UNCHANGED <<metrics, txBuffer, blockCh, blockHeight, loop, fillVars, lifeVars,
                 submitted, accepted, blocked, consumed>>

CountTransaction(c) ==
  /\ step[c] = "counting"
  /\ metrics' = [metrics EXCEPT !.txReceived = @ + 1]
  /\ step' = [step EXCEPT ![c] = "idle"]
  /\ txOf' = [txOf EXCEPT ![c] = NoTx]
  /\ UNCHANGED <<txBuffer, blockCh, blockHeight, loop, fillVars, lifeVars,
                 submitted, accepted, blocked, consumed>>

-----------------------------------------------------------------------------
(* A tick of blockTicker: createBlock goes on if it sees a transaction. *)
Tick_Mutant_NoCheck ==
  /\ loop = "waiting"
  /\ blockHeight < MaxHeight
  /\ loop' = "seen"
  /\ UNCHANGED <<txBuffer, blockCh, blockHeight, metrics, callVars, fillVars, lifeVars,
                 blocked, consumed>>

Tick ==
  /\ loop = "waiting"
  /\ txBuffer # <<>>
  /\ blockHeight < MaxHeight
  /\ loop' = "seen"
  /\ UNCHANGED <<txBuffer, blockCh, blockHeight, metrics, callVars, fillVars, lifeVars,
                 blocked, consumed>>

LockBuffer ==
  /\ loop = "seen"
  /\ loop' = "filling"
  /\ taken' = 0 /\ totalSize' = 0
  /\ UNCHANGED <<txBuffer, blockCh, blockHeight, metrics, callVars, lifeVars,
                 blocked, consumed>>

NextFits_Mutant_CheckedBefore == taken < Len(txBuffer) /\ totalSize <= BlockSize

NextFits_Mutant_OffByOne ==
  taken < Len(txBuffer) /\ totalSize + SizeOf[txBuffer[taken + 1]] < BlockSize

NextFits == taken < Len(txBuffer) /\ totalSize + SizeOf[txBuffer[taken + 1]] <= BlockSize

TakeTransaction ==
  /\ loop = "filling"
  /\ NextFits
  /\ taken' = taken + 1
  /\ totalSize' = totalSize + SizeOf[txBuffer[taken + 1]]
  /\ UNCHANGED <<txBuffer, blockCh, blockHeight, metrics, callVars, loop, lifeVars,
                 blocked, consumed>>

(* The rest of createBlock, once the next transaction does not fit. *)
EmitBlock_Mutant_KeptWhenDropped ==
  /\ loop = "filling"
  /\ ~NextFits
  /\ LET block == [height |-> blockHeight, txs |-> SubSeq(txBuffer, 1, taken)]
         sent == Len(blockCh) < ChanCap
     IN  /\ blockCh' = IF sent THEN Append(blockCh, block) ELSE blockCh
         /\ metrics' = [metrics EXCEPT !.blocks = @ + 1, !.txProcessed = @ + taken,
                                       !.droppedBlocks = IF sent THEN @ ELSE @ + 1]
         /\ txBuffer' = IF sent THEN SubSeq(txBuffer, taken + 1, Len(txBuffer)) ELSE txBuffer
         /\ blocked' = blocked \o block.txs
  /\ blockHeight' = blockHeight + 1
  /\ loop' = "waiting" /\ taken' = 0 /\ totalSize' = 0
  /\ UNCHANGED <<callVars, lifeVars, consumed>>

EmitBlock ==
  /\ loop = "filling"
  /\ ~NextFits
  /\ LET block == [height |-> blockHeight, txs |-> SubSeq(txBuffer, 1, taken)]
         sent == Len(blockCh) < ChanCap
     IN  /\ blockCh' = IF sent THEN Append(blockCh, block) ELSE blockCh
         /\ metrics' = [metrics EXCEPT !.blocks = @ + 1, !.txProcessed = @ + taken,
                                       !.droppedBlocks = IF sent THEN @ ELSE @ + 1]
         /\ blocked' = blocked \o block.txs
  /\ txBuffer' = SubSeq(txBuffer, taken + 1, Len(txBuffer))
  /\ blockHeight' = blockHeight + 1
  /\ loop' = "waiting" /\ taken' = 0 /\ totalSize' = 0
  /\ UNCHANGED <<callVars, lifeVars, consumed>>

(* The reader of GetBlockChannel takes a block. *)
Consume ==
  /\ blockCh # <<>>
  /\ consumed' = Append(consumed, Head(blockCh).height)
  /\ blockCh' = Tail(blockCh)
  /\ UNCHANGED <<txBuffer, blockHeight, metrics, callVars, loop, fillVars, lifeVars, blocked>>

-----------------------------------------------------------------------------
(* Start, once the receiver listens; the context is the one New made. *)
Start_Mutant_HeightReset ==
  /\ lifecycle \in {"new", "stopped"}
  /\ lifecycle' = "started"
  /\ loop' = "waiting"
  /\ blockHeight' = 0
  /\ UNCHANGED <<txBuffer, blockCh, metrics, callVars, fillVars, ctxDone, blocked, consumed>>

Start ==
  /\ lifecycle \in {"new", "stopped"}
  /\ lifecycle' = "started"
  /\ loop' = "waiting"
  /\ UNCHANGED <<txBuffer, blockCh, blockHeight, metrics, callVars, fillVars, ctxDone,
                 blocked, consumed>>

ExitRun_Mutant_Ignored == FALSE /\ UNCHANGED vars

ExitRun ==
  /\ loop = "waiting"
  /\ ctxDone
  /\ loop' = "exited"
  /\ UNCHANGED <<txBuffer, blockCh, blockHeight, metrics, callVars, fillVars, lifeVars,
                 blocked, consumed>>

(* Stop: cancel, close the receiver and the sender (of the network, taken  *)
(* to return), then wait for the run loop (if there is one).               *)
Stop ==
  /\ lifecycle \in {"new", "started"}
  /\ lifecycle' = "stopping"
  /\ ctxDone' = TRUE
  /\ UNCHANGED <<txBuffer, blockCh, blockHeight, metrics, callVars, loop, fillVars,
                 blocked, consumed>>

StopReturns ==
  /\ lifecycle = "stopping"
  /\ loop \in {"new", "exited"}
  /\ lifecycle' = "stopped"
  /\ UNCHANGED <<txBuffer, blockCh, blockHeight, metrics, callVars, loop, fillVars, ctxDone,
                 blocked, consumed>>

createBlock == Tick \/ LockBuffer \/ TakeTransaction \/ EmitBlock
CallStep(c) == CheckBuffer(c) \/ AppendTransaction(c) \/ CountTransaction(c)

Next ==
  \/ \E c \in Callers : (\E t \in Txs : AddTransaction(c, t)) \/ CallStep(c)
  \/ createBlock \/ ExitRun \/ Consume
  \/ Start \/ Stop \/ StopReturns

SafeSpec == Init /\ [][Next]_vars

(* Goroutines that can run do run; the tickers tick.  Nothing is assumed   *)
(* of the consumer, nor of the choice among the ready cases of a select.   *)
Spec == SafeSpec /\ WF_vars(createBlock \/ ExitRun) /\ WF_vars(StopReturns)

-----------------------------------------------------------------------------
(* The buffer never exceeds its size, although every caller decides on a   *)
(* length that is stale when it appends (transaction.go, the double check  *)
(* of AddTransaction).                                                     *)
BufferBounded == Len(txBuffer) <= BufferSize

(* First in, first out, nothing lost or doubled on the way: what was       *)
(* appended is what was put into blocks, in order, followed by what waits  *)
(* (transaction.go, AddTransaction, createBlock).                          *)
TransactionsConserved == accepted = blocked \o txBuffer

(* The calls that have appended their transaction and not counted it yet. *)
Counting == {c \in Callers : step[c] = "counting"}

(* The counters agree with what happened, up to the calls that are about   *)
(* to count; a block is in the channel, consumed, or counted as dropped    *)
(* (transaction.go, metrics).                                              *)
CountersAgree ==
  /\ metrics.txReceived + Cardinality(Counting) = Len(accepted)
  /\ metrics.txProcessed = Len(blocked)
  /\ metrics.blocks = blockHeight
  /\ blockHeight = Len(consumed) + Len(blockCh) + metrics.droppedBlocks

(* The consumer sees heights that only grow, with gaps where blocks were   *)
(* dropped, also across a restart (transaction.go, createBlock).           *)
HeightsGrow ==
  LET heights == consumed \o [i \in DOMAIN blockCh |-> blockCh[i].height]
  IN  /\ \A i \in DOMAIN heights : heights[i] < blockHeight
      /\ \A i, j \in DOMAIN heights : i < j => heights[i] < heights[j]

(* No block in the channel is larger than the limit (transaction.go,       *)
(* createBlock, "Take transactions that fit within the max block size").   *)
Bytes(txs) ==
  LET upTo[n \in 0 .. Len(txs)] == IF n = 0 THEN 0 ELSE upTo[n - 1] + SizeOf[txs[n]]
  IN  upTo[Len(txs)]
BlocksFit == \A i \in DOMAIN blockCh : Bytes(blockCh[i].txs) <= BlockSize

(* If every transaction fits into a block, no empty block is ever created, *)
(* although createBlock tests the length without the lock: only it removes *)
(* transactions (transaction.go, createBlock).                             *)
EveryTxFits == \A t \in Txs : SizeOf[t] <= BlockSize
NoEmptyBlock == EveryTxFits => \A i \in DOMAIN blockCh : blockCh[i].txs # <<>>

(* An accepted transaction is put into a block sooner or later, unless the *)
(* coordinator was not started or is stopped; a block that takes it with   *)
(* it when it is dropped counts (transaction.go, run, createBlock).        *)
InBuffer(t) == \E i \in DOMAIN txBuffer : txBuffer[i] = t
AcceptedIsBlocked ==
  \A t \in Txs : (InBuffer(t) /\ lifecycle = "started") ~> (~InBuffer(t) \/ ctxDone)

(* Stop returns: no call that starts after the cancellation adds work, so  *)
(* the loop reaches its exit even if its select prefers the ticker         *)
(* (transaction.go, run, Stop).                                            *)
StopEnds == lifecycle = "stopping" ~> lifecycle = "stopped"

(* transaction_test.go, TestBlockSizeLimits, with transactions "larger     *)
(* than the block limit": a block holds at least one transaction.          *)
BlockHasTransaction == \A i \in DOMAIN blockCh : blockCh[i].txs # <<>>

=============================================================================
