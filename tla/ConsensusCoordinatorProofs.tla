--------------------- MODULE ConsensusCoordinatorProofs ---------------------
(***************************************************************************)
(* What ConsensusCoordinator guarantees for every committee, set of        *)
(* vertices and messages, number of callers, channel capacity and size of  *)
(* the round counter.  The three invariants are inductive together with    *)
(* the types.                                                              *)
(***************************************************************************)
EXTENDS ConsensusCoordinator, FiniteSetTheorems, TLAPS

CoordinatorInv ==
  TypeOK /\ OneBlockPerRound /\ LastBlockNotAhead /\ BlockHasFullRound

USE VertexAssumption, CoordinatorAssumption

(* The round counter wraps only at its top.                                *)
LEMMA NextRoundFact ==
  ASSUME NEW r \in Rounds
  PROVE  /\ NextRound(r) \in Rounds
         /\ r # TopRound => NextRound(r) = r + 1
         /\ r = TopRound => NextRound(r) = 0
BY DEF NextRound, Rounds, TopRound

(* The empty sequence is a sequence over every set.                        *)
LEMMA EmptySeq == ASSUME NEW S PROVE <<>> \in Seq(S) /\ Len(<<>>) = 0 /\ DOMAIN <<>> = {}
OBVIOUS

(* A round holds no fewer vertices after the graph has grown.              *)
LEMMA RoundsOnlyFill ==
  ASSUME TypeOK, vertices \subseteq vertices', vertices' \subseteq Vertices, NEW h
  PROVE  /\ Cardinality(GetVerticesInRound(h)) \in Nat
         /\ Cardinality(GetVerticesInRound(h)') \in Nat
         /\ Cardinality(GetVerticesInRound(h)) <= Cardinality(GetVerticesInRound(h)')
<1> DEFINE before == GetVerticesInRound(h)
           after == GetVerticesInRound(h)'
<1>1. before \subseteq after /\ after \subseteq Vertices
  BY DEF GetVerticesInRound
<1>2. IsFiniteSet(after) /\ IsFiniteSet(before)
  BY <1>1, FS_Subset
<1> QED
  BY <1>1, <1>2, FS_Subset, FS_CardinalityType

(* NewWithRound establishes the invariant.                                 *)
LEMMA InitCoordinatorInv == Init => CoordinatorInv
<1> SUFFICES ASSUME Init PROVE CoordinatorInv
  OBVIOUS
<1> USE DEF Init, NewDAG
<1>1. TypeOK
  <2>1. vertexCh \in Seq(Vertices) /\ blockCh \in Seq(Rounds) /\ created \in Seq(Rounds)
    BY EmptySeq
  <2>2. Len(vertexCh) <= ChanCap /\ Len(blockCh) <= ChanCap
    BY EmptySeq
  <2>3. DAGTypeOK
    BY DEF DAGTypeOK
  <2> QED
    BY <2>1, <2>2, <2>3 DEF TypeOK, Rounds
<1>2. DOMAIN created = {}
  BY EmptySeq
<1>3. OneBlockPerRound /\ LastBlockNotAhead /\ BlockHasFullRound
  BY <1>2 DEF OneBlockPerRound, LastBlockNotAhead, BlockHasFullRound
<1> QED
  BY <1>1, <1>3 DEF CoordinatorInv

(* The same graph backs the same blocks.                                   *)
LEMMA SameGraphBacks ==
  ASSUME BlockHasFullRound, UNCHANGED <<vertices, everCreated>>
  PROVE  BlockHasFullRound'
<1>1. \A h : GetVerticesInRound(h)' = GetVerticesInRound(h)
  BY DEF GetVerticesInRound
<1> QED
  BY <1>1 DEF BlockHasFullRound, Size

(* Steps that leave the graph, the round and the blocks alone.             *)
LEMMA OthersKeep ==
  ASSUME CoordinatorInv, TypeOK', UNCHANGED <<vertices, round, lastBlock, historyVars>>
  PROVE  CoordinatorInv'
<1>1. OneBlockPerRound' /\ LastBlockNotAhead'
  BY DEF CoordinatorInv, OneBlockPerRound, LastBlockNotAhead, TopRound, historyVars
<1>2. BlockHasFullRound'
  BY SameGraphBacks DEF CoordinatorInv, historyVars
<1> QED
  BY <1>1, <1>2 DEF CoordinatorInv

(* The steps of the callers keep the types.                                *)
LEMMA CallsKeepType ==
  ASSUME TypeOK, NEW c \in Callers, NEW m \in Messages,
         HandleMessage(c, m) \/ CallStep(c)
  PROVE  TypeOK' /\ UNCHANGED <<vertices, round, lastBlock, historyVars>>
<1> USE DEF TypeOK, DAGTypeOK, dagVars, chanVars, historyVars
<1>1. CASE HandleMessage(c, m)
  BY <1>1 DEF HandleMessage
<1>2. CASE EnqueueVertex(c)
  <2>1. pending[c] \in Messages /\ pending[c].kind = "vertex"
    BY <1>2 DEF EnqueueVertex
  <2>2. pending[c].vertex \in Vertices
    BY <2>1 DEF VertexMessages, BlockMessages, OtherMessages
  <2>3. vertexCh' \in Seq(Vertices) /\ Len(vertexCh') <= ChanCap
    BY <1>2, <2>2 DEF EnqueueVertex
  <2> QED
    BY <1>2, <2>3 DEF EnqueueVertex
<1>3. CASE EnqueueBlock(c)
  <2>1. pending[c] \in Messages /\ pending[c].kind # "vertex"
    BY <1>3 DEF EnqueueBlock
  <2>2. DecodedHeight(pending[c]) \in Rounds
    BY <2>1 DEF VertexMessages, BlockMessages, OtherMessages, DecodedHeight, Rounds
  <2>3. blockCh' \in Seq(Rounds) /\ Len(blockCh') <= ChanCap
    BY <1>3, <2>2 DEF EnqueueBlock
  <2> QED
    BY <1>3, <2>3 DEF EnqueueBlock
<1>4. CASE GiveUp(c)
  BY <1>4 DEF GiveUp
<1> QED
  BY <1>1, <1>2, <1>3, <1>4 DEF CallStep

(* Start, Stop, the exit of the loop and stuttering keep the types.        *)
LEMMA LifecycleKeepsType ==
  ASSUME TypeOK, Start \/ ExitRun \/ Stop \/ StopReturns \/ UNCHANGED vars
  PROVE  TypeOK' /\ UNCHANGED <<vertices, round, lastBlock, historyVars>>
BY DEF TypeOK, DAGTypeOK, dagVars, chanVars, historyVars, vars, Start, ExitRun, Stop, StopReturns

(* Blocks stay backed when the graph grows and at most the current round,  *)
(* being full, gets a block.                                               *)
LEMMA GrowingGraphBacks ==
  ASSUME TypeOK, BlockHasFullRound, vertices \subseteq vertices', vertices' \subseteq Vertices,
         \/ everCreated' = everCreated
         \/ everCreated' = everCreated \cup {round} /\ RoundIsFull(vertices')
  PROVE  BlockHasFullRound'
<1> SUFFICES ASSUME NEW h \in everCreated'
             PROVE  Cardinality(GetVerticesInRound(h)') >= Size
  BY DEF BlockHasFullRound, Size
<1>1. Size \in Nat
  BY FS_CardinalityType DEF Size
<1>2. CASE h \in everCreated
  <2>1. Cardinality(GetVerticesInRound(h)) >= Size
    BY <1>2 DEF BlockHasFullRound
  <2> QED
    BY <1>1, <2>1, RoundsOnlyFill
<1>3. CASE h = round /\ RoundIsFull(vertices')
  BY <1>3 DEF RoundIsFull, GetVerticesInRound
<1> QED
  BY <1>2, <1>3

(* A round that gets a block and is left, without wrapping, keeps the      *)
(* blocks in order and below the round.                                    *)
LEMMA NextBlockInOrder ==
  ASSUME TypeOK, OneBlockPerRound, created' = Append(created, round), round' = round + 1
  PROVE  OneBlockPerRound'
<1>1. round \in Rounds /\ created \in Seq(Rounds) /\ Len(created) \in Nat
  BY DEF TypeOK
<1>2. /\ DOMAIN created = 1 .. Len(created)
      /\ DOMAIN created' = 1 .. Len(created) + 1
      /\ \A i \in 1 .. Len(created) : created'[i] = created[i]
      /\ created'[Len(created) + 1] = round
  BY <1>1
<1>3. \A i \in DOMAIN created : created[i] \in Rounds /\ created[i] < round
  BY <1>1 DEF OneBlockPerRound
<1>4. \A i \in DOMAIN created' : created'[i] < round'
  BY <1>1, <1>2, <1>3 DEF Rounds
<1>5. ASSUME NEW i \in DOMAIN created', NEW j \in DOMAIN created', i < j
      PROVE  created'[i] < created'[j]
  <2>1. i \in 1 .. Len(created) /\ (j \in 1 .. Len(created) \/ j = Len(created) + 1)
    BY <1>1, <1>2, <1>5
  <2> QED
    BY <1>2, <1>3, <1>5, <2>1 DEF OneBlockPerRound
<1> QED
  BY <1>4, <1>5 DEF OneBlockPerRound

(* handleVertex: a full round gets its block and is left; the last round   *)
(* is left for round 0, from which the blocks are counted anew.            *)
LEMMA ProcessVertexKeeps == ASSUME CoordinatorInv, ProcessVertex PROVE CoordinatorInv'
<1> DEFINE v == Head(vertexCh)
           full == RoundIsFull(vertices \cup {v})
<1> USE DEF ProcessVertex
<1>1. TypeOK /\ v \in Vertices /\ vertexCh' \in Seq(Vertices) /\ Len(vertexCh') <= ChanCap
  BY DEF CoordinatorInv, TypeOK
<1>2. round \in Rounds /\ created \in Seq(Rounds) /\ everCreated \subseteq Rounds
  BY <1>1 DEF TypeOK
<1>3. vertices' = vertices \cup {v} /\ DAGTypeOK' /\ vertices' \subseteq Vertices
  BY <1>1 DEF TypeOK, DAGTypeOK, InsertVertex, WeakTargets
<1>4. CASE ~full
  <2>1. UNCHANGED <<round, lastBlock, created, everCreated>>
    BY <1>4 DEF historyVars
  <2>2. TypeOK'
    BY <1>1, <1>3, <2>1 DEF TypeOK
  <2>3. OneBlockPerRound' /\ LastBlockNotAhead'
    BY <2>1 DEF CoordinatorInv, OneBlockPerRound, LastBlockNotAhead, TopRound
  <2>4. BlockHasFullRound'
    BY <1>1, <1>3, <2>1, GrowingGraphBacks DEF CoordinatorInv
  <2> QED
    BY <2>2, <2>3, <2>4 DEF CoordinatorInv
<1>5. CASE full
  <2>1. lastBlock' = round /\ round' = NextRound(round) /\ everCreated' = everCreated \cup {round}
    BY <1>5 DEF Record
  <2>2. created' \in Seq(Rounds) /\ OneBlockPerRound' /\ LastBlockNotAhead'
    <3>1. CASE round = TopRound
      <4>1. created' = <<>> /\ round' = 0
        BY <1>2, <1>5, <2>1, <3>1, NextRoundFact DEF Record
      <4>2. created' \in Seq(Rounds) /\ DOMAIN created' = {}
        BY <4>1, EmptySeq
      <4> QED
        BY <2>1, <3>1, <4>1, <4>2 DEF OneBlockPerRound, LastBlockNotAhead, TopRound
    <3>2. CASE round # TopRound
      <4>1. created' = Append(created, round) /\ round' = round + 1
        BY <1>2, <1>5, <2>1, <3>2, NextRoundFact DEF Record
      <4>2. OneBlockPerRound'
        BY <1>1, <4>1, NextBlockInOrder DEF CoordinatorInv
      <4>3. LastBlockNotAhead'
        BY <1>2, <2>1, <4>1 DEF LastBlockNotAhead, Rounds
      <4> QED
        BY <1>2, <4>1, <4>2, <4>3
    <3> QED
      BY <3>1, <3>2
  <2>3. TypeOK'
    BY <1>1, <1>2, <1>3, <2>1, <2>2, NextRoundFact DEF TypeOK
  <2>4. BlockHasFullRound'
    BY <1>1, <1>3, <1>5, <2>1, GrowingGraphBacks DEF CoordinatorInv
  <2> QED
    BY <2>2, <2>3, <2>4 DEF CoordinatorInv
<1> QED
  BY <1>4, <1>5

(* handleBlock: the round follows a higher block and ignores a lower one.  *)
LEMMA ProcessBlockKeeps == ASSUME CoordinatorInv, ProcessBlock PROVE CoordinatorInv'
<1> USE DEF ProcessBlock, historyVars
<1>1. Head(blockCh) \in Rounds /\ blockCh' \in Seq(Rounds) /\ Len(blockCh') <= ChanCap
  BY DEF CoordinatorInv, TypeOK
<1>2. round \in Rounds /\ round' \in Rounds /\ round <= round' /\ lastBlock' <= round'
  BY <1>1 DEF CoordinatorInv, TypeOK, Rounds
<1>3. TypeOK'
  BY <1>1, <1>2 DEF CoordinatorInv, TypeOK, DAGTypeOK, dagVars
<1>4. OneBlockPerRound'
  <2>1. \A i \in DOMAIN created : created[i] \in Rounds
    BY DEF CoordinatorInv, TypeOK
  <2> QED
    BY <1>2, <2>1 DEF CoordinatorInv, OneBlockPerRound, Rounds
<1>5. LastBlockNotAhead'
  BY <1>2 DEF LastBlockNotAhead
<1>6. BlockHasFullRound'
  BY SameGraphBacks DEF CoordinatorInv, dagVars
<1> QED
  BY <1>3, <1>4, <1>5, <1>6 DEF CoordinatorInv

(* Every step keeps the invariant.                                         *)
LEMMA NextCoordinatorInv == CoordinatorInv /\ [Next]_vars => CoordinatorInv'
<1> SUFFICES ASSUME CoordinatorInv, [Next]_vars PROVE CoordinatorInv'
  OBVIOUS
<1>0. TypeOK
  BY DEF CoordinatorInv
<1>1. ASSUME NEW c \in Callers, NEW m \in Messages, HandleMessage(c, m) PROVE CoordinatorInv'
  BY <1>0, <1>1, CallsKeepType, OthersKeep
<1>2. ASSUME NEW c \in Callers, CallStep(c) PROVE CoordinatorInv'
  <2>1. pending[c] \in Messages
    BY <1>0, <1>2 DEF TypeOK, CallStep, EnqueueVertex, EnqueueBlock, GiveUp
  <2> QED
    BY <1>0, <1>2, <2>1, CallsKeepType, OthersKeep
<1>3. CASE Start \/ ExitRun \/ Stop \/ StopReturns \/ UNCHANGED vars
  BY <1>0, <1>3, LifecycleKeepsType, OthersKeep
<1>4. CASE ProcessVertex
  BY <1>4, ProcessVertexKeeps
<1>5. CASE ProcessBlock
  BY <1>5, ProcessBlockKeeps
<1> QED
  BY <1>1, <1>2, <1>3, <1>4, <1>5 DEF Next, RunStep

(* The invariant of the consensus coordinator holds always, types and      *)
(* channel bounds included.                                                *)
THEOREM CoordinatorInvariant == SafeSpec => []CoordinatorInv
BY InitCoordinatorInv, NextCoordinatorInv, PTL DEF SafeSpec

(* Between two wraps of the counter, consensus.go creates at most one      *)
(* block per round, in order, below the current round.                     *)
THEOREM AtMostOneBlockPerRound == SafeSpec => []OneBlockPerRound
<1>1. CoordinatorInv => OneBlockPerRound
  BY DEF CoordinatorInv
<1> QED
  BY <1>1, CoordinatorInvariant, PTL

(* The last block of consensus.go is not ahead of the round, but for the   *)
(* block of the last round after the wrap of the counter.                  *)
THEOREM LastBlockBehindRound == SafeSpec => []LastBlockNotAhead
<1>1. CoordinatorInv => LastBlockNotAhead
  BY DEF CoordinatorInv
<1> QED
  BY <1>1, CoordinatorInvariant, PTL

(* Every block consensus.go creates has a full round of vertices behind it *)
(* for ever after.                                                         *)
THEOREM BlocksAreBacked == SafeSpec => []BlockHasFullRound
<1>1. CoordinatorInv => BlockHasFullRound
  BY DEF CoordinatorInv
<1> QED
  BY <1>1, CoordinatorInvariant, PTL

(* The channels of consensus.go stay within their capacity, and the round  *)
(* within the width of its counter.                                        *)
THEOREM CoordinatorTypes == SafeSpec => []TypeOK
<1>1. CoordinatorInv => TypeOK
  BY DEF CoordinatorInv
<1> QED
  BY <1>1, CoordinatorInvariant, PTL
=============================================================================
