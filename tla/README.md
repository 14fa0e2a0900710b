# A TLA+ verification of go-helios-v2-primitive

This directory holds TLA+ models of the Go program under `src/`, the TLC
configurations that check them on small instances and TLAPS proofs of the most
important results for all values of the constants. Every definition follows the
code; the correspondence, line by line, is the `map` of `PROJECT.json`.

Contents: [1 the system](#1-the-system) · [2 plan](#2-plan) ·
[3 modules and code](#3-modules-and-code) · [4 runs](#4-runs) ·
[5 bounds](#5-bounds) · [6 fairness](#6-fairness) · [7 proofs](#7-proofs) ·
[8 disagreements](#8-where-code-and-documents-disagree) ·
[9 observations](#9-further-observations) · [10 not modelled](#10-what-is-not-modelled)

## 1 The system

A node of a DAG-based consensus prototype. Clients send transactions; a node
packs them into blocks, wraps blocks in vertices that point at vertices of the
previous round, exchanges vertices with the other validators and is meant to
order them.

| Component (source) | State it keeps | Operations |
|---|---|---|
| Vertex graph, `pkg/consensus/dag.go` | vertices by round, strong edges, weak edges | `NewDAG`, `InsertVertex`, `ContainsVertices`, `IsStronglyLinked`, `IsLinked` (a query that stores edges), `IsLinkedWithOthersInRound`, `GetWaveVertexLeader` |
| Vertex store, `pkg/consensus/state.go` | a graph, the current round, delivered vertices, a buffer of early vertices, blocks to propose | `AddVertex`, `AdvanceRound`, `MarkVertexDelivered`, `AddBlockToPropose`, `GetNextBlockToPropose`, the scan `processBuffer` |
| Consensus coordinator, `pkg/consensus/consensus.go` | a graph, round, last block, two bounded channels, a context | `HandleMessage`, `HandleVertex`, `HandleBlock`, the `run` loop with `handleVertex` and `handleBlock`, `Start`, `Stop` |
| Transaction coordinator, `pkg/transaction/transaction.go` | transaction buffer, block height, a bounded channel of blocks, counters, a context | `AddTransaction` from many goroutines, `createBlock` on a ticker, `Start`, `Stop` |
| Message decoding and data types, `pkg/model/vertex.go`, `block.go`, `types.go` | none | hashing, JSON encoding and decoding |
| Committee, `pkg/model/committee.go` | validators and addresses | `Size`, `QuorumThreshold`, address lookups |
| Network sender, `pkg/network/network.go` | a map of connections under a lock | `Send`, `Broadcast`, `getConnection`, `closeConnection`, `Close` |
| Network receiver, `pkg/network/network.go` | a listener, connections, a worker pool, a pool of buffers all receivers share | `Start`, the accept loop, `handleConnection` (framing, dispatch), `Stop` |
| Vertex coordinator, `pkg/vertex/vertex.go` | channels, a sender and a receiver | receives vertices, broadcasts own ones |
| Node, `pkg/node/node.go` | the three coordinators, a running flag | `Start`, `Stop`, the pumps between the channels |
| Commands, `cmd/` | none | client, node command, benchmark |

**Interaction.** The receivers' workers call `HandleMessage` of a coordinator.
The node's pumps move blocks from the transaction coordinator to the consensus
coordinator and vertices between the consensus coordinator and the vertex
coordinator, all through Go channels. Each coordinator has one loop and one
context; `Stop` cancels the context and waits for the loop.

**What is hard.** Vertices come before their parents and rounds, twice, and late.
The buffer of the store is rebuilt while it is scanned. Block messages move the
round under the vertices that fill it. Callers block on bounded channels while
`Stop` cancels and the loop leaves. `AddTransaction` gives up its lock between
check and append; `createBlock` looks at the buffer without a lock; blocks are
dropped after their transactions left the buffer. In the network, connections are
closed under the hands of those who write to them, frames are written in two parts
and read across timeouts, buffers are pooled while handlers use them, and shutdown
waits for peers. In the node, pumps, handlers and loops wait on each other through
full channels while `Stop` takes them down in an order of its own. Each of
these is a hazard in `PROJECT.json`, at its line, with the properties that would
notice it going wrong.

**What correctness means.**
*Graph:* the answer to a link query depends on the stored vertices only, whatever
the order of insertions and queries, and is never taken back.
*Store:* the graph is causally closed; nothing accepted is lost; nothing ready
waits; the result does not depend on the order of arrival; every scan ends.
*Consensus coordinator:* one block per round, in order, each with a full round
behind it; calls and `Stop` return.
*Transaction coordinator:* the buffer is bounded, transactions leave it in order
and exactly once, blocks fit and are not empty, counters and heights agree with
what happened, accepted transactions are blocked, `Stop` returns.
*Sender:* the lock is never taken twice, no connection leaks, frames arrive whole,
a failure stays local, every send returns.
*Receiver:* messages are the frames sent, in order; a message is not overwritten;
every buffer has one holder; every frame is handled; `Stop` returns once the peers
have left.
*Node:* after `Stop` or a failed `Start` nothing runs; vertices pass from the
network to consensus in order and without loss; `Start` and `Stop` return.

## 2 Plan

The order is by how much of the program's own logic a part carries. Done so far:

1. `DAG`, the graph, used by both parts of `pkg/consensus`; `DAGService`, the
   graph behind its public methods.
2. `CausalDelivery`, what a vertex store promises; `ConsensusState`, the store of
   `state.go`, shown to implement it.
3. `ConsensusCoordinator`, on top of `DAG`.
4. `TransactionCoordinator`.
5. `Sender` and `Receiver`, the two halves of `network.go`.
6. `Node`, with the vertex coordinator: the composition of the coordinators'
   lifecycles, channels and connections.
7. Proofs of the safety invariants of 1 to 4 and of the sender's connection map.
8. Proofs of the rest: proposals, block sizes, counters and heights; frames and
   failures of the sender; the receiver; the node. Every invariant a passing run
   checks now has a theorem (section 7).

Left: nothing of the plan. What remains with TLC is liveness, which is out of the
prover's reach.

## 3 Modules and code

| Module | Models |
|---|---|
| `DAG` | the maps and methods of `dag.go`, as state and operators for the modules below |
| `DAGService` | the graph called through its methods, one call after the other, and the answers of `GetWaveVertexLeader` |
| `CausalDelivery` | the abstract specification of a vertex store |
| `ConsensusState` | `state.go` |
| `ConsensusCoordinator` | `consensus.go`, with `Size` and `QuorumThreshold` of `committee.go` and what decoding tells apart |
| `TransactionCoordinator` | `transaction.go` |
| `Sender` | `network.go` from line 200 on |
| `Receiver` | `network.go` up to line 198, and the buffer pool |
| `Node` | `node.go`, `vertex.go`, and of the other coordinators their contexts, channels, loops and receivers |
| `MCDAG`, `MCState`, `MCConsensus`, `MCTransaction`, `MCSender`, `MCReceiver` | the small instances (`Node` needs none: `MCNode.cfg` gives its constants) |
| `DAGProofs`, `ConsensusStateProofs`, `ConsensusCoordinatorProofs`, `TransactionCoordinatorProofs`, `SenderProofs`, `ReceiverProofs`, `NodeProofs` | the theorems |
| `SequenceLemmas` | facts about sequences and the least number that several of these proofs need |

Definitions named `X_Mutant_Y` are variants of `X` with a plausible mistake. No
specification uses them; each one shows that a property would notice the mistake.

**Vertices.** A vertex is a model value with a fixed round and a fixed set of
parents (`RoundOf`, `Parents`), because the hash that identifies it covers both.
For the same reason no vertex is its own ancestor (`ParentsWellFounded`). The map
`round -> hash -> vertex` is the set `vertices`; edge maps are functions to sets.

**`DAG`.** `InsertVertex` writes all parents as strong edges and recomputes the
weak edges from round 3 on. `IsLinked` is an action: the code stores a weak edge
when it answers from the vertex map. Where Go ranges over a map, the model
chooses any order.

**`ConsensusState`.** All methods hold one lock, so they are atomic except that
`processBuffer` is one step per loop iteration: `pc = "scan"` means that the lock
is held inside it. This makes the loop's locals (`idx`, `remaining`, `processed`)
state, so that the invariants speak about a half-rebuilt buffer and termination
is a property. The two arms of `AddVertex` are two actions. `accepted`, `marked`
(the calls of `MarkVertexDelivered`), `added` and `proposed` are history.

**`ConsensusCoordinator`.** A call is two steps, the context check
(`HandleMessage`) and the blocking select (`EnqueueVertex`, `EnqueueBlock` or
`GiveUp`); Stop and the loop run in between. `run` takes one element at a time
from either channel, or exits when the context is cancelled, in any preference.
An iteration is one step because only the loop touches the round, the last block
and the graph. A message is a vertex, a block, or an object that is neither,
which the code decodes as a block of height 0. Blocks are heights: those created
here carry no transactions, and of a received block nothing else is used but its
hash, as the last block. Rounds wrap at `RoundModulus`. As history the model keeps
the heights of all blocks created (`everCreated`) and, in order, of those created
since the round last wrapped (`created`); the block of the last round belongs to the
turn it ends. A vertex's owner need not be a validator, because nothing checks it.
The sends of `handleVertex` go to addresses nobody listens on, and their errors are
only logged; they are left out.

**`TransactionCoordinator`.** `AddTransaction` is four steps: context check, check
under the read lock, check and append under the write lock, counting after the
unlock. `createBlock` is the unlocked look at the length (`Tick`), the lock
(`LockBuffer`), the loop over the buffer (`TakeTransaction`) and the rest
(`EmitBlock`), which removes the transactions before it offers the block to the
channel, and drops the block when the channel is full. A tick that finds the buffer
empty changes nothing and is no step. The unused double buffer
(`activeBuffer`, `head`, `tail`) and the time measurements are left out.

**`Sender`.** A goroutine that sends is a task, one per address of its caller; a
plain `Send` starts one, `Broadcast` all of a caller. `getConnection` is the look
under the read lock (`Lookup`), the test of the connection, the lock, the second look
(`DoubleCheck`) and the dial, during which the lock stays held. The test sets a short
write deadline (`CheckAlive`, `DoubleCheck`) and then clears it (`ClearDeadline`); in
between it holds for a write of another goroutine, which may time out by it.
`Send` goes on with the deadline and two writes, without a lock. A connection is
live, broken by the other end (which only a write notices), or closed here, which is
all that `SetWriteDeadline` tells apart. `stream` is what the other end can make of
the bytes so far. The place where `closeConnection` would lock `connsMux` a second
time is a program point of its own (`"relock"`) with no step out of it. The worker slots
of a broadcast are left out, because with and without a slot the same goroutine sends
at once, and so is the cleanup of `idleConns`, a map nothing fills.

**`Receiver`.** A connection carries frames by position and length; reads take bytes
at `pos`. `ReadHeader` and `ReadBody` are successful reads, `SkipHeader` an oversized
length, `ReadTimeout`, `ReadCutShort` and `ReadEOF` the errors, with any number of
bytes consumed before a timeout. Once a connection is out of step (`inStep`), what it
takes for a header can say anything. A buffer is in the pool, with a reader, or with
a handler call; reading into a buffer spoils every message that still lives in it.
`HandlerCopies` says whether the handler keeps the slice it is given or a copy.

**`Node`.** `Start` and `Stop` are lists of steps (`StartSteps`, `StopSteps`,
`UndoSteps`, `NodeStopSteps`), of which `await` and `drain` wait. Any coordinator may
fail to start. Connections come and go; a handler call runs in a worker or in the
goroutine of its connection, and then keeps that connection from ending. All
channels have the capacity `ChanCap`. The loops only take from and put into their
channels here; a pump holds at most one item. Where nothing waits in between, steps
of `Start` or `Stop` are one: listening and starting the loop, connecting the pumps
and setting the flag, waiting for the connections and closing the sender.

## 4 Runs

| Run | Result | What it shows |
|---|---|---|
| `dag` | pass | With insertions and edge-storing queries in any order, and again and again: weak edges reach only stored vertices more than two rounds below (`WeakEdgesReachFarBelow`); `IsLinked` is a function of the stored vertices (`LinkAnswerIgnoresHistory`), although the edge maps are not; a link once reported stays (`LinksNeverDisappear`), although a second insertion discards stored edges. |
| `state` | pass | Any order of arrival, duplicates, rounds advancing, vertices marked delivered from outside: `CausallyClosed`, `NothingLost` (which also says that `AddVertex` ignores nothing but what is in the graph or was marked from outside), `NothingReadyWaits`, and `OrderIndependent`, which compares the graph with the largest closed subset of what was accepted. `ScanEnds`: the loop under the lock ends. `ImplementsCausalDelivery`: refinement of `CausalDelivery`, fairness included. `ProposalsInOrder`: blocks are proposed once, in order. |
| `consensus` | pass | Vertices and blocks of every height, in any order, across the last value of the round counter: `OneBlockPerRound`, which orders the blocks between two wraps of the counter; `LastBlockNotAhead`, with the one exception that the block of the last round stays the last one while the round is 0; `BlockHasFullRound`, about every block ever created. |
| `consensus_live` | pass | Two callers, channels of capacity one, Stop at any moment, restart with the cancelled context: `StopEnds` whatever the select prefers; `CallEnds` with the fairness of Go's select. |
| `transaction` | pass | Two callers, the block loop, a consumer that may never read, Stop and restart: `BufferBounded`, `TransactionsConserved`, `CountersAgree`, `HeightsGrow`, `BlocksFit`, `NoEmptyBlock`, `AcceptedIsBlocked`, `StopEnds`. |
| `dag_leader` | violation | `LeaderIsDetermined`; see section 8. |
| `consensus_quorum` | violation | `BlockHasQuorum`; see section 8. |
| `sender` | pass | A broadcast to two addresses beside sends to one of them, dials that fail, peers that break connections, timeouts inside frames, `Close` at any moment: `NeverRelocks`, `NoConnectionLeaks`, `FramesWhole`, `FailureIsLocal`, `SendEnds`. |
| `receiver` | pass | Two connections, frames of allowed and excessive length, timeouts at every byte, peers that leave inside a frame, one worker: `MessagesAreFrames`, `MessagesStayIntact` (for handlers that copy or decode), `BuffersHaveOneHolder`, `FramesAreHandled`, `StopEnds`. |
| `node` | pass | `Start` that may fail anywhere, `Stop`, `Stop` again and restart, against connections, handler calls, loops and pumps on channels of capacity one: `QuietWhenDown`, `VerticesInOrder`, `VerticesArePassedOn`, `StartAndStopEnd`. |
| `transaction_oversize` | violation | `BlockHasTransaction`; see section 8. |
| `receiver_kept` | violation | `MessagesStayIntact` for a handler that keeps its slice; see section 8. |

The type invariants of the first four modules and `InsertedIsDelivered` are proved
(section 7) and not checked again; those of the network and the node are also
checked in the runs.
Deadlock is checked in `dag` and `state`, where calls are always possible
(`MarkVertexDelivered` and the queries). The coordinators may stop: once stopped,
with every call returned, nothing needs to happen. The same holds for the receiver
and the node. A sender can always be called, so its run checks deadlock.

## 5 Bounds

- `DAG`: six vertices in rounds 0, 1, 2 and 4. Weak edges need a distance of three
  rounds; round 4 is the first round of wave 1, and its two vertices are the two
  candidates for leader. `Waves = {0, 1}` covers the genesis case and the other.
- `ConsensusState`: five vertices: genesis, two of round 1, one of round 2 above
  both, and one of round 1 above the latter, so that an insertion late in a pass
  makes a vertex ready that was passed over already. `MaxBuffer = 3` admits a
  duplicate beside two others; `MaxRound = 3` lies beyond every vertex's round.
- `ConsensusCoordinator`: two validators and two vertices in each of three rounds,
  all block heights; `RoundModulus = 3` (2^64 in the code) makes the counter
  reach its end and wrap. `ChanCap = 1` (1000 in the code) makes channels full and
  empty. One caller suffices for safety, since the loop sees only the order in
  the channels; liveness has two callers, to compete.
- `TransactionCoordinator`: two callers and three transactions compete for a
  buffer of two (100000); a block of two bytes takes two small transactions or a
  large one; a channel of one (10000) drops blocks; `MaxHeight = 4` blocks are more
  than three transactions fill when each fits into a block.

- `Sender`: a caller with two addresses and one that shares the second, so that one
  address is used by one goroutine at a time and the other is contended. Four
  connections are enough: when a goroutine dials, one other address may be in the map
  and two other goroutines may refer to two more, so one is always free.
- `Receiver`: two connections, two frames on one and one on the other; `HeaderSize`
  is 2 (4 in the code), so that a read can end inside a header; `MaxMessageSize` 1
  with frames of length 1 and 2, the limit and one above; one worker (20) so that
  the second message is handled inline; three buffers, one more than connections.
- `Node`: two vertices and one block, `ChanCap = 1`, one outside connection at a time
  to whichever coordinator (`MaxPeers`), besides the node's own; calls by workers
  outlive their connection, so calls into both coordinators still overlap. Two
  vertices fill a channel and make a pump or a handler wait. Vertices are numbered in
  the order they appear, which saves states and loses nothing. Restarts are not
  limited.

No symmetry is used: the vertices differ in round and parents, and liveness is
checked in the same runs.

## 6 Fairness

- `ConsensusState`: weak fairness of `processBuffer`, a loop inside one method
  call that waits for nothing. Nothing obliges anybody to call a method.
- Coordinators: weak fairness of the run loop, of the return of `Stop`, and of each
  caller that waits in a select: a goroutine that can run does run. For the
  transaction loop this includes that its tickers tick. Callers need not start
  calls, nobody needs to call `Stop`, the consumer of blocks need not read.
- `CallEnds` alone assumes more (`FairSelect`): strong fairness of each select
  case, which Go gives with probability one by choosing at random among the ready
  cases, and of each blocked sender, which Go queues first-in first-out.
- `StopEnds` deliberately needs no such choice: the loop may prefer its channels
  or its ticker for as long as they are ready.
- `Sender`: strong fairness of each goroutine (`Proceed`), without the successful
  write: a dial and a write end by their time limits if nothing else happens. Strong,
  because the lock comes and goes; Go's mutexes hand a lock to a waiter that has
  waited too long. Because the look at a shared connection clears the deadline, a
  write with no deadline may wait: the next send sets it again, and that a deadline
  then passes is what strong fairness adds.
- `Receiver`: weak fairness of the goroutines, and handlers return. Peers owe
  nothing, except that `StopEnds` has as its premise that they close their
  connections: the code gives no other way out.
- `Node`: weak fairness of the caller inside `Start` or `Stop`, of every loop, pump
  and handler call, for a pump also of its exit alone, since Go's select chooses at
  random. `StartAndStopEnd` has the premise `PeersLeave`, and excepts a node that is
  connected to itself (section 9).
- In the coordinators' own modules the sends inside `handleVertex` and the `Stop` of
  the receiver are taken to return; `SendEnds` and `StopEnds` of the receiver say
  when they do.

## 7 Proofs

All theorems hold for every value of the constants that satisfies the named
assumptions. These say that the constants have their types, plus:
`VertexAssumption` (the genesis has round 0 and no parents, as `node.go`
and `consensus.go` make it), `ParentsWellFounded` (used for order independence only), and
`CoordinatorAssumption` (finitely many vertices and validators, a channel capacity
above 0, the initial round below the modulus), and for the transaction coordinator
finitely many callers. The number of connections, buffers, frames, goroutines,
vertices and blocks of the network and the node is not limited. TLC evaluates all
assumptions.

| Module | Inductive invariant | Theorems |
|---|---|---|
| `DAGProofs` | `GraphInv`: types, strong edges are exactly the parents of what is stored, weak edges are far links | `GraphInvariant`, `GraphTypes`, `WeakEdgesAreFar`, `LinkAnswersAgree`, `LinksPersist` |
| `ConsensusStateProofs` | `StateInv`: the invariants plus `PassInv` and `IdleShape` | `StateInvariant`, `StateTypes`, `CausalClosure`, `NoVertexLost`, `GraphIsDelivered`, `ScanIsComplete`, `OrderIndependence`, `CausalDeliveryImplemented` |
| `ConsensusCoordinatorProofs` | `CoordinatorInv`: types with channel bounds, and the three invariants | `CoordinatorInvariant`, `CoordinatorTypes`, `AtMostOneBlockPerRound`, `LastBlockBehindRound`, `BlocksAreBacked` |
| `TransactionCoordinatorProofs` | `TransactionInv`: the invariants plus `SeenIsThere` and `NothingTakenIsEmpty`; then `FillSize` with `BlocksFit`; `CountersAgree` and `HeightsGrow` on top of the types | `TransactionInvariant`, `TransactionTypes`, `BufferStaysBounded`, `FirstInFirstOut`, `BlocksAreNotEmpty`, `BlocksStayWithinLimit`, `MetricsAgree`, `HeightsKeepGrowing` |
| `SenderProofs` | `SenderInv`: types, `NeverRelocks`, and `MapInv`: the map holds open connections only, each for one address, and all of them; then `OwnershipInv`, then `FrameInv` | `SenderInvariant`, `SenderTypes`, `LockIsNotTakenTwice`, `ConnectionsDoNotLeak`, `FailuresStayLocal`, `FramesStayWhole` |
| `ReceiverProofs` | `BaseInv`: types, workers within their number, `ReaderInv`; then `OneHolder`, `NothingSpoiled`, `FrameInv` | `ReceiverTypes`, `BuffersKeepOneHolder`, `CopiedMessagesStayIntact`, `MessagesStayFrames` |
| `NodeProofs` | types; then `LifeInv`; then `OrderInv` | `NodeTypes`, `NothingIsLeftBehind`, `VerticesStayInOrder` |

*Graph.* That answers depend on the stored vertices alone is not inductive: one
has to know what the edge maps can hold. With `GraphInv` an edge that history may
or may not have stored leads to a vertex the third arm of `IsLinked` finds anyway.
`LinksPersist` follows because vertices are never removed.

*Store.* `NothingReadyWaits` says nothing during a scan, so it is not inductive.
`PassInv` carries it through the scan: as long as a pass has inserted nothing, the
vertices it put aside are not ready. When such a pass ends they are the buffer.
`IdleShape` says that the loop's locals play no part between methods.
`OrderIndependence` needs one more argument. The graph is a closed set of accepted
vertices within the round, so it lies in the largest such set. Suppose some such
set D has members outside the graph. By well-foundedness one of them has all its
parents in the graph. It was accepted and is not in the graph, so it waits, and it
is ready, against `NothingReadyWaits`. `CausalDeliveryImplemented` proves that
initial states and steps map to those of `CausalDelivery`.

*Consensus coordinator.* The three invariants are inductive together: that created
blocks lie below the round makes the next one the largest; the stored vertices
only grow, so a full round stays full. When the last round is left the counter wraps
to 0 and the order starts anew. Cardinalities come from `FiniteSetTheorems`.

*Transaction coordinator.* The second check under the write lock keeps the bound.
`NoEmptyBlock` needs that the buffer is still not empty once `createBlock` has the
lock (`SeenIsThere`: nobody else removes) and that the loop starts from size 0
(`NothingTakenIsEmpty`), so that the first transaction fits. `BlocksFit` is about a
sum over a sequence. `FillSize` says that the loop's `totalSize` is that sum over
what it has taken and within the limit; that the sums of a longer sequence begin
with those of a shorter one (`SumUnique`, `SumExtends`, `SumExists`) takes an
induction, done by looking at the least length for which it would fail
(`LeastNatural`). `MetricsAgree` counts the calls between their append and their
count as a finite set that gains and loses one member at a time.
`HeightsKeepGrowing` looks at consumed and waiting blocks as one line, to which a
sent block is added at the end and which a consumed one does not change.

*Sender.* `NeverRelocks` is not inductive: one has to know that the second look
finds no closed connection. `MapInv` says so, and holds because every method that
closes a connection removes it from the map under the same hold of the lock, and a
dial replaces no entry. That two addresses never share a connection is needed for
`closeConnection`, which would otherwise close under another entry. For the last two
theorems one has to know who may use which connection: `OwnershipInv` says that two
goroutines at one address are on record (`shared`), that an open connection in use
is the one in the map, and that without overlap nobody else changes the entry, so a
goroutine that failed can close only its own. `FrameInv` adds that a live
connection's stream consists of whole frames unless its one goroutine is between
header and body or has failed; what was cut short is closed before the address is
used again.

*Receiver.* That a buffer has one holder is proved about who holds it (`OneHolder`);
the cardinalities follow. It needs `ReaderInv`: a goroutine has a buffer exactly
while it reads a body. `MessagesStayIntact` then holds where handlers copy, because
only the holder of a buffer reads into it, and what a handler keeps is in no
buffer; where they do not copy it is false (`receiver_kept`), so `HandlerCopies` is a
premise of the theorem. For `MessagesAreFrames`, `FrameInv` says that frames follow
each other without a gap and that a connection in step stands at the end of the
last message read or behind the header of the next one.

*Node.* `QuietWhenDown` speaks of the moments when nothing is under way; `LifeInv`
says why they are quiet. While `Start` runs, what is still to be started is silent.
Afterwards, unless the node is up, whatever runs, listens or is connected is named
by a step of `Stop` still to come, and no receiver is waited for before its listener
is closed, since a connection could come in between. It covers the undo list of a
failed `Start` and the second `Stop` alike. `VerticesInOrder` needs that until the
node's context is cancelled the one of consensus is not, so that no pump gives up
what it holds (`NotStopped`).

*Model-checked only.* Liveness (`ScanEnds`, `StopEnds`, `CallEnds`,
`AcceptedIsBlocked`, `SendEnds`, `FramesAreHandled`, `VerticesArePassedOn`,
`StartAndStopEnd`, the fairness part of `ImplementsCausalDelivery`) is beyond the
prover, which has no rules for fairness and `ENABLED`. All invariants, the action
property `LinksNeverDisappear` and the steps of the refinement are proved. The
strengthened invariants were model-checked on the instances of section 5 before
they were proved.

## 8 Where code and documents disagree

Four runs check a statement of a comment, a test or the README, and TLC shows a
behaviour of the code against it.

- `dag_leader`. `dag.go:206`: "Return the first vertex in the round as the leader".
  The list comes from a map, so two calls on the same graph can name two leaders,
  and two nodes with the same graph need not agree.
- `consensus_quorum`. `committee.go:114`: the quorum is "the minimum number of
  validators required for consensus". `handleVertex` counts vertices, not owners,
  and does not consult the quorum: three vertices of one validator complete a
  round of three validators.
- `transaction_oversize`. `transaction_test.go:262` and `283`: with transactions
  "larger than the block limit", the "Block should contain at least one
  transaction". The test's transactions are in fact smaller than the configured
  limit. A transaction that is larger is accepted, fits into no block, and from
  then on every tick makes an empty block while everything behind it waits.
- `receiver_kept`. `network_test.go:165`: "Received message should match sent
  message". The test's handler copies its data. The transaction handler
  (`transaction.go:351`) keeps the slice itself in the transaction buffer, while
  `handleConnection` gives the slice back to the pool as soon as the handler returns;
  a later message, on any receiver of the process, is read into the same bytes. The
  vertex and the consensus handler decode what they get and are not affected.

## 9 Further observations

Met while modelling; no property is stated about them.

- `IsLinked`'s comment (`dag.go:138`) speaks of a path; the code looks for one edge,
  or any stored vertex more than two rounds below.
- A node creates a `State` and hands it out (`node.go:57`, `236`), but no code
  outside the tests calls its methods. Its `GetWaveVertexLeader(0)` takes any vertex
  of round 0, the graph's returns the genesis.
- A vertex that `MarkVertexDelivered` was called with before `AddVertex` (`state.go:173`)
  never enters the graph, and its descendants wait for ever.
- The transactions of a block that is dropped because the channel is full are gone
  (`transaction.go:238`); `TransactionsConserved` counts them as blocked.
- Once the round counter has wrapped, rounds that are full from the turn before get
  their blocks again, one for each vertex that arrives (`consensus.go:225`).
- After `handleBlock` has moved the round to one that is full already, no block is
  made until another vertex arrives (`consensus.go:203`).
- A JSON object that is neither vertex nor block is taken for a block of height 0
  and replaces the last block (`consensus.go:270`).
- The coordinator stores a vertex whether or not its parents are there
  (`consensus.go:200`); the `State` that would hold it back is not on its path,
  although `src/README.md:16` speaks of validation.
- The comment at `network.go:149` says "Message too large, skip it"; only the header is
  skipped, and the body is read as further headers. A read that times out inside a
  frame loses what it has read, with the same effect (`network.go:139`).
  `MessagesAreFrames` and `FramesAreHandled` end there.
- Two sends to one address at the same time can interleave header and body, and a
  send that failed there closes the connection another one has just dialled
  (`network.go:245`, `250`). `FramesWhole` and `FailureIsLocal` exclude such addresses.
- `Receiver.Stop` waits until every peer has closed its connection (`network.go:96`):
  two nodes that keep connections to each other and stop at the same time wait for
  each other, and `Stop` does not wait for the workers (`network.go:168`).
- The comment at `committee.go:206` says "except the given node"; the list has all
  nodes. A broadcast of a vertex therefore connects a node to itself, and its `Stop`
  then waits for a connection that it would close itself only afterwards
  (`vertex.go:69`). Nothing broadcasts vertices in this version.
- `Node.Stop` before the first `Start` dereferences nil; `Start` after `Stop` runs the
  pumps under the cancelled context, so they end at once (`node.go:43`, `160`); two
  concurrent calls of `Start` both pass the check (`node.go:64`).
- The goroutine `NewSender` starts for cleaning up never ends.
- `broadcastCh` and `outputCh` of the consensus coordinator are never written, and
  blocks are sent to addresses without a listener, so nothing is finalized.
- `transaction.go:193` says 2 MB; the configured block size is 4 MB.
- `Start` after `Stop` runs with a cancelled context: transactions are refused and
  the loop ends at once (`transaction_test.go:420` skips its test of this).

## 10 What is not modelled

- Two nodes together. `Node` has one node and arbitrary peers; that peers run the
  same program is used nowhere.
- The bytes TCP carries: `Receiver` has positions and lengths, `Sender` whether the
  other end can still make sense of the stream.
- `handleOutput` of the node and the cleanup of idle connections of the sender: they
  work on a channel and a map nothing writes.
- The construction of hashes and the bytes of encodings: data that no property
  distinguishes; hashes are taken to identify vertices.
- Committee addresses and key generation: configuration.
- Commands, client, benchmark: input and output around the components.
- Logging and time measurements of `transaction.go`: no property is about them.
