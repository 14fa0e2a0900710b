------------------------ MODULE ConsensusCoordinator ------------------------
(***************************************************************************)
(* pkg/consensus/consensus.go: the consensus coordinator of one node.      *)
(* Caller goroutines (the receiver's message workers, the node's pumps)    *)
(* hand it vertices and blocks through two bounded channels; one run loop  *)
(* takes them out, keeps the graph and the round, and creates a block when *)
(* the round is full.  Stop cancels the context and waits for the loop.    *)
(*                                                                         *)
(* round, lastBlock and the graph are touched by the run loop alone, so    *)
(* each of its iterations is one step.  The block it creates is sent to    *)
(* the validators' block addresses, a failure being logged only; no part   *)
(* of the program listens there, so nothing of it is modelled.  A block is *)
(* identified by its height: those made here carry no transactions and the *)
(* hash covers nothing else.                                               *)
(***************************************************************************)
EXTENDS DAG, Sequences

CONSTANTS
  Callers,        (* goroutines that call HandleMessage, HandleVertex or HandleBlock *)
  Validators,     (* the committee                                                   *)
  Owner,          (* Vertex.owner, a validator or not: nothing checks it             *)
  Messages,       (* the messages that may arrive                                    *)
  Idle,           (* no message                                                      *)
  NoBlock,        (* lastBlock = nil                                                 *)
  ChanCap,        (* capacity of vertexCh and of blockCh (1000)                      *)
  InitialRound,   (* NewWithRound                                                    *)
  RoundModulus    (* rounds are unsigned: 2^64                                       *)

(* What HandleMessage can tell apart: JSON with a vertex's fields, JSON of *)
(* a block, and any other JSON object.  Bytes that are not a JSON object   *)
(* are refused before anything changes and are left out.                   *)
VertexMessages == [kind : {"vertex"}, vertex : Vertices]
BlockMessages == [kind : {"block"}, height : 0 .. RoundModulus - 1]
OtherMessages == [kind : {"other"}]

ASSUME CoordinatorAssumption ==
  /\ IsFiniteSet(Vertices)
  /\ IsFiniteSet(Validators)
  /\ Messages \subseteq VertexMessages \cup BlockMessages \cup OtherMessages
  /\ Idle \notin Messages
  /\ ChanCap \in Nat \ {0}
  /\ RoundModulus \in Nat \ {0}
  /\ InitialRound \in 0 .. RoundModulus - 1
  /\ NoBlock \notin 0 .. RoundModulus - 1

VARIABLES
  round,      (* Coordinator.round                                                *)
  lastBlock,  (* Coordinator.lastBlock: the block's height                        *)
  vertexCh,   (* Coordinator.vertexCh                                             *)
  blockCh,    (* Coordinator.blockCh                                              *)
  pending,    (* pending[c]: the message caller c waits to enqueue, Idle if none  *)
  run,        (* the run loop: "new", "running" or "exited"                       *)
  stop,       (* Stop: "no", "called" (context cancelled) or "returned"           *)
  created,    (* history: heights of the blocks created here since the round last *)
              (* wrapped, in order                                                *)
  everCreated (* history: heights of all blocks created here                      *)

chanVars == <<vertexCh, blockCh>>
historyVars == <<created, everCreated>>
vars == <<vertices, strongEdges, weakEdges, round, lastBlock, vertexCh, blockCh,
          pending, run, stop, created, everCreated>>

Size == Cardinality(Validators)
QuorumThreshold == Size - 1
Rounds == 0 .. RoundModulus - 1
TopRound == RoundModulus - 1

TypeOK ==
  /\ DAGTypeOK
  /\ round \in Rounds
  /\ lastBlock \in Rounds \cup {NoBlock}
  /\ vertexCh \in Seq(Vertices) /\ Len(vertexCh) <= ChanCap
  /\ blockCh \in Seq(Rounds) /\ Len(blockCh) <= ChanCap
  /\ pending \in [Callers -> Messages \cup {Idle}]
  /\ run \in {"new", "running", "exited"}
  /\ stop \in {"no", "called", "returned"}
  /\ created \in Seq(Rounds) /\ everCreated \subseteq Rounds

(* NewWithRound *)
Init ==
  /\ NewDAG
  /\ round = InitialRound
  /\ lastBlock = NoBlock
  /\ vertexCh = <<>> /\ blockCh = <<>>
  /\ pending = [c \in Callers |-> Idle]
  /\ run = "new"
  /\ stop = "no"
  /\ created = <<>> /\ everCreated = {}

-----------------------------------------------------------------------------
cancelled == stop # "no"

(* The first select of HandleVertex and HandleBlock, after HandleMessage   *)
(* has decoded the message.  (With the context cancelled the call returns  *)
(* an error and changes nothing.)                                          *)
HandleMessage_Mutant_NoContextCheck(c, m) ==
  /\ pending[c] = Idle
  /\ pending' = [pending EXCEPT ![c] = m]
  /\ UNCHANGED <<dagVars, round, lastBlock, chanVars, run, stop, historyVars>>

HandleMessage(c, m) ==
  /\ pending[c] = Idle
  /\ ~cancelled
  /\ pending' = [pending EXCEPT ![c] = m]
  /\ UNCHANGED <<dagVars, round, lastBlock, chanVars, run, stop, historyVars>>

(* The height a message has once it is decoded as a block: a JSON object   *)
(* without a height leaves the field at zero.                              *)
DecodedHeight(m) == IF m.kind = "block" THEN m.height ELSE 0

(* The second select of HandleVertex. *)
EnqueueVertex(c) ==
  /\ pending[c] # Idle
  /\ pending[c].kind = "vertex"
  /\ Len(vertexCh) < ChanCap
  /\ vertexCh' = Append(vertexCh, pending[c].vertex)
  /\ pending' = [pending EXCEPT ![c] = Idle]
  /\ UNCHANGED <<dagVars, round, lastBlock, blockCh, run, stop, historyVars>>

(* The second select of HandleBlock. *)
EnqueueBlock(c) ==
  /\ pending[c] # Idle
  /\ pending[c].kind # "vertex"
  /\ Len(blockCh) < ChanCap
  /\ blockCh' = Append(blockCh, DecodedHeight(pending[c]))
  /\ pending' = [pending EXCEPT ![c] = Idle]
  /\ UNCHANGED <<dagVars, round, lastBlock, vertexCh, run, stop, historyVars>>

(* The other case of both selects: the call returns an error. *)
GiveUp_Mutant_Never(c) == FALSE /\ UNCHANGED vars

GiveUp(c) ==
  /\ pending[c] # Idle
  /\ cancelled
  /\ pending' = [pending EXCEPT ![c] = Idle]
  /\ UNCHANGED <<dagVars, round, lastBlock, chanVars, run, stop, historyVars>>

-----------------------------------------------------------------------------
(* Start, once the receiver listens; if it cannot listen nothing starts.   *)
(* After a Stop it may be called again: the context stays cancelled, the   *)
(* channels, the graph and the round stay as they are.                     *)
Start ==
  /\ run = "new" \/ (run = "exited" /\ stop = "returned")
  /\ run' = "running"
  /\ UNCHANGED <<dagVars, round, lastBlock, chanVars, pending, stop, historyVars>>

NextRound(r) == (r + 1) % RoundModulus

RoundIsFull(stored) == Cardinality({u \in stored : RoundOf[u] = round}) >= Size

(* The block of the last round is the last one before the round wraps. *)
Record(h) ==
  /\ created' = IF round = TopRound THEN <<>> ELSE Append(created, h)
  /\ everCreated' = everCreated \cup {h}

(* handleVertex: one check of the current round after each insertion. *)
ProcessVertex_Mutant_NextRoundsBlock ==
  /\ run = "running"
  /\ vertexCh # <<>>
  /\ vertexCh' = Tail(vertexCh)
  /\ InsertVertex(Head(vertexCh))
  /\ IF RoundIsFull(vertices \cup {Head(vertexCh)})
     THEN /\ lastBlock' = NextRound(round)
          /\ Record(NextRound(round))
          /\ round' = NextRound(round)
     ELSE UNCHANGED <<lastBlock, historyVars, round>>
  /\ UNCHANGED <<blockCh, pending, run, stop>>

ProcessVertex ==
  /\ run = "running"
  /\ vertexCh # <<>>
  /\ vertexCh' = Tail(vertexCh)
  /\ InsertVertex(Head(vertexCh))
  /\ IF RoundIsFull(vertices \cup {Head(vertexCh)})
     THEN /\ lastBlock' = round
          /\ Record(round)
          /\ round' = NextRound(round)
     ELSE UNCHANGED <<lastBlock, historyVars, round>>
  /\ UNCHANGED <<blockCh, pending, run, stop>>

(* handleBlock: the last block always changes, the round only upwards. *)
ProcessBlock_Mutant_AlwaysSetsRound ==
  /\ run = "running"
  /\ blockCh # <<>>
  /\ blockCh' = Tail(blockCh)
  /\ lastBlock' = Head(blockCh)
  /\ round' = Head(blockCh)
  /\ UNCHANGED <<dagVars, vertexCh, pending, run, stop, historyVars>>

ProcessBlock_Mutant_RoundLeftBehind ==
  /\ run = "running"
  /\ blockCh # <<>>
  /\ blockCh' = Tail(blockCh)
  /\ lastBlock' = Head(blockCh)
  /\ round' = IF Head(blockCh) >= round /\ Head(blockCh) > 0 THEN Head(blockCh) - 1 ELSE round
  /\ UNCHANGED <<dagVars, vertexCh, pending, run, stop, historyVars>>

ProcessBlock ==
  /\ run = "running"
  /\ blockCh # <<>>
  /\ blockCh' = Tail(blockCh)
  /\ lastBlock' = Head(blockCh)
  /\ round' = IF Head(blockCh) >= round THEN Head(blockCh) ELSE round
  /\ UNCHANGED <<dagVars, vertexCh, pending, run, stop, historyVars>>

ExitRun ==
  /\ run = "running"
  /\ cancelled
  /\ run' = "exited"
  /\ UNCHANGED <<dagVars, round, lastBlock, chanVars, pending, stop, historyVars>>

(* Stop: cancel, then wait for the run loop (if there is one).  The        *)
(* receiver and the sender, which Stop closes after that, belong to the    *)
(* network.                                                                *)
Stop ==
  /\ stop = "no"
  /\ stop' = "called"
  /\ UNCHANGED <<dagVars, round, lastBlock, chanVars, pending, run, historyVars>>

StopReturns ==
  /\ stop = "called"
  /\ run # "running"
  /\ stop' = "returned"
  /\ UNCHANGED <<dagVars, round, lastBlock, chanVars, pending, run, historyVars>>

RunStep == ProcessVertex \/ ProcessBlock \/ ExitRun
CallStep(c) == EnqueueVertex(c) \/ EnqueueBlock(c) \/ GiveUp(c)

Next ==
  \/ \E c \in Callers : (\E m \in Messages : HandleMessage(c, m)) \/ CallStep(c)
  \/ Start \/ RunStep
  \/ Stop \/ StopReturns

SafeSpec == Init /\ [][Next]_vars

(* Goroutines that can run do run.  Nothing is assumed of the choice among *)
(* the ready cases of a select.                                            *)
Spec == SafeSpec /\ WF_vars(RunStep) /\ WF_vars(StopReturns)
                 /\ \A c \in Callers : WF_vars(CallStep(c))

-----------------------------------------------------------------------------
(* The blocks this node creates between two wraps of the round counter     *)
(* have strictly increasing heights and lie below its round: duplicates of *)
(* vertices, late vertices and block messages never make it create a       *)
(* second block for a round (consensus.go, handleVertex, handleBlock).     *)
OneBlockPerRound ==
  /\ \A i \in DOMAIN created : created[i] < round
  /\ \A i, j \in DOMAIN created : i < j => created[i] < created[j]

(* The last block, adopted from a message whatever its height, is never    *)
(* ahead of the node's round, except that the block of the very last round *)
(* stays the last one while the round, which has wrapped, is 0             *)
(* (consensus.go, handleVertex, handleBlock).                              *)
LastBlockNotAhead ==
  lastBlock # NoBlock => lastBlock <= round \/ (lastBlock = TopRound /\ round = 0)

(* Behind every block the node ever created stands a full round of stored  *)
(* vertices (consensus.go, handleVertex).                                  *)
BlockHasFullRound ==
  \A h \in everCreated : Cardinality(GetVerticesInRound(h)) >= Size

(* Stop returns: once the context is cancelled only calls already past     *)
(* their first check can still fill the channels, so the loop comes to its *)
(* exit even if its select prefers the channels (consensus.go, run, Stop). *)
StopEnds == stop = "called" ~> stop = "returned"

(* What CallEnds needs beyond Spec: a select takes every case that is      *)
(* ready again and again (Go chooses at random), and a blocked sender is   *)
(* served in turn (Go keeps them in a queue).                              *)
FairSelect ==
  /\ SF_vars(ProcessVertex)
  /\ SF_vars(ProcessBlock)
  /\ \A c \in Callers : SF_vars(EnqueueVertex(c)) /\ SF_vars(EnqueueBlock(c))

(* A call to a coordinator whose loop was started returns, because the     *)
(* loop makes room or because the context is cancelled (consensus.go,      *)
(* HandleVertex, HandleBlock).                                             *)
CallEnds ==
  FairSelect =>
    \A c \in Callers : (pending[c] # Idle /\ run # "new") ~> pending[c] = Idle

(* committee.go: QuorumThreshold "returns the minimum number of validators *)
(* required for consensus".  That many validators own the vertices behind  *)
(* each created block.                                                     *)
BlockHasQuorum ==
  \A h \in everCreated :
    Cardinality({Owner[v] : v \in GetVerticesInRound(h)} \cap Validators) >= QuorumThreshold

=============================================================================
