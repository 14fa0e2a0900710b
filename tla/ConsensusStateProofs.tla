------------------------ MODULE ConsensusStateProofs ------------------------
(***************************************************************************)
(* What ConsensusState guarantees for every set of vertices, rounds,       *)
(* parents and blocks and every bound.  StateInv is the inductive          *)
(* invariant: to the invariants themselves it adds what a scan has         *)
(* established so far (PassInv) and what the scan's locals are when no     *)
(* scan runs (IdleShape).                                                  *)
(***************************************************************************)
EXTENDS ConsensusState, SequenceLemmas, TLAPS

(* A pass that has inserted nothing has found nothing ready.               *)
PassInv ==
  (pc = "scan" /\ ~processed) => \A i \in DOMAIN remaining : ~Ready(remaining[i])

(* Between the methods the scan's locals have their initial values.        *)
IdleShape == pc = "idle" => idx = 1 /\ remaining = <<>>

StateInv ==
  /\ TypeOK
  /\ Genesis \in vertices
  /\ CausallyClosed
  /\ NothingLost
  /\ InsertedIsDelivered
  /\ IdleShape
  /\ PassInv
  /\ NothingReadyWaits

USE VertexAssumption

(* The elements of a sequence. *)
Elems(s) == {s[i] : i \in DOMAIN s}

(* Appending to a sequence adds one element.                               *)
LEMMA AppendElems ==
  ASSUME NEW S, NEW s \in Seq(S), NEW e \in S
  PROVE  Elems(Append(s, e)) = Elems(s) \cup {e}
<1> DEFINE t == Append(s, e)
<1>1. Len(s) \in Nat /\ DOMAIN t = 1 .. Len(s) + 1 /\ DOMAIN s = 1 .. Len(s)
  OBVIOUS
<1>2. t[Len(s) + 1] = e /\ \A i \in 1 .. Len(s) : t[i] = s[i]
  OBVIOUS
<1>3. ASSUME NEW i \in DOMAIN t PROVE t[i] \in Elems(s) \cup {e}
  <2>1. i \in 1 .. Len(s) \/ i = Len(s) + 1
    BY <1>1
  <2> QED
    BY <2>1, <1>1, <1>2 DEF Elems
<1>4. ASSUME NEW i \in DOMAIN s PROVE s[i] \in Elems(t)
  <2>1. i \in DOMAIN t
    BY <1>1
  <2> QED
    BY <2>1, <1>1, <1>2 DEF Elems
<1>5. e \in Elems(t)
  <2>1. Len(s) + 1 \in DOMAIN t
    BY <1>1
  <2> QED
    BY <1>2, <2>1 DEF Elems
<1> QED
  BY <1>3, <1>4, <1>5 DEF Elems

(* At the start of a pass, and between the methods, what waits is what the *)
(* buffer holds.                                                           *)
LEMMA WaitingAtStart ==
  ASSUME NEW b \in Seq(Vertices)
  PROVE  {b[i] : i \in 1 .. Len(b)} \cup {(<<>>)[i] : i \in DOMAIN <<>>} = Elems(b)
<1>1. {(<<>>)[i] : i \in DOMAIN <<>>} = {}
  OBVIOUS
<1> QED
  BY <1>1 DEF Elems

(* NewState establishes the invariant.                                     *)
LEMMA InitStateInv == Init => StateInv
<1> SUFFICES ASSUME Init PROVE StateInv
  OBVIOUS
<1> USE DEF Init, NewDAG
<1>1. TypeOK
  <2>1. buffer \in Seq(Vertices) /\ remaining \in Seq(Vertices) /\ idx \in 1 .. Len(buffer) + 1
    BY EmptyIsSeq
  <2>2. blocksToPropose \in Seq(Blocks) /\ added \in Seq(Blocks) /\ proposed \in Seq(Blocks)
    BY EmptyIsSeq
  <2>3. processed \in BOOLEAN
    OBVIOUS
  <2>4. DAGTypeOK
    BY DEF DAGTypeOK
  <2> QED
    BY <2>1, <2>2, <2>3, <2>4 DEF TypeOK
<1>2. Genesis \in vertices /\ CausallyClosed /\ InsertedIsDelivered
  BY DEF CausallyClosed, InsertedIsDelivered
<1>3. NothingLost
  <2>1. Waiting = Elems(<<>>)
    BY EmptyIsSeq, WaitingAtStart DEF Waiting
  <2>2. Elems(<<>>) = {}
    BY DEF Elems
  <2> QED
    BY <2>1, <2>2 DEF NothingLost
<1>4. IdleShape /\ PassInv /\ NothingReadyWaits
  BY DEF IdleShape, PassInv, NothingReadyWaits
<1> QED
  BY <1>1, <1>2, <1>3, <1>4 DEF StateInv

(* Inserting a vertex keeps the types of the graph.                        *)
LEMMA InsertKeepsType ==
  ASSUME DAGTypeOK, NEW v \in Vertices, InsertVertex(v)
  PROVE  DAGTypeOK'
BY DEF DAGTypeOK, InsertVertex, WeakTargets

(* Inserting a ready vertex keeps the graph causally closed.               *)
LEMMA InsertKeepsClosure ==
  ASSUME DAGTypeOK, CausallyClosed, NEW v \in Vertices, Ready(v), InsertVertex(v),
         UNCHANGED currentRound
  PROVE  CausallyClosed'
BY DEF DAGTypeOK, CausallyClosed, Ready, ContainsVertices, InsertVertex

(* AddVertex of a ready vertex, up to the scan it starts.                  *)
LEMMA AddVertexNowKeeps ==
  ASSUME StateInv, NEW v \in Vertices, AddVertexNow(v)
  PROVE  StateInv'
<1> USE DEF AddVertexNow, StateInv
<1>1. DAGTypeOK'
  BY InsertKeepsType DEF TypeOK
<1>2. TypeOK'
  <2>1. remaining' \in Seq(Vertices) /\ idx' \in 1 .. Len(buffer') + 1
    BY EmptyIsSeq DEF TypeOK, StartPass
  <2>2. processed' \in BOOLEAN
    BY DEF StartPass
  <2> QED
    BY <1>1, <2>1, <2>2 DEF TypeOK, StartPass, blockVars
<1>3. Genesis \in vertices' /\ InsertedIsDelivered'
  BY DEF InsertVertex, InsertedIsDelivered
<1>4. CausallyClosed'
  BY InsertKeepsClosure DEF TypeOK
<1>5. NothingLost'
  <2>1. Waiting' = Waiting
    BY DEF Waiting, IdleShape, StartPass
  <2> QED
    BY <2>1 DEF NothingLost, InsertVertex
<1>6. IdleShape' /\ NothingReadyWaits' /\ PassInv'
  BY DEF IdleShape, NothingReadyWaits, PassInv, StartPass
<1> QED
  BY <1>2, <1>3, <1>4, <1>5, <1>6

(* AddVertex of a vertex that has to wait: it is not ready, and nothing    *)
(* else changes.                                                           *)
LEMMA AddVertexLaterKeeps ==
  ASSUME StateInv, NEW v \in Vertices, AddVertexLater(v)
  PROVE  StateInv'
<1> USE DEF AddVertexLater, StateInv, dagVars, scanVars, blockVars
<1>1. TypeOK'
  BY DEF TypeOK, DAGTypeOK
<1>2. Genesis \in vertices' /\ InsertedIsDelivered' /\ CausallyClosed'
  BY DEF InsertedIsDelivered, CausallyClosed
<1>3. idx = 1 /\ remaining = <<>> /\ idx' = 1 /\ remaining' = <<>>
  BY DEF IdleShape
<1>4. Waiting' = Waiting \cup {v}
  <2>1. buffer \in Seq(Vertices) /\ buffer' \in Seq(Vertices)
    BY DEF TypeOK
  <2>2. Waiting = Elems(buffer) /\ Waiting' = Elems(buffer')
    BY <1>3, <2>1, WaitingAtStart DEF Waiting
  <2> QED
    BY <2>1, <2>2, AppendElems
<1>5. NothingLost'
  BY <1>4 DEF NothingLost
<1>6. NothingReadyWaits'
  BY DEF NothingReadyWaits, Ready, ContainsVertices, TypeOK
<1>7. IdleShape' /\ PassInv'
  BY <1>3 DEF IdleShape, PassInv
<1> QED
  BY <1>1, <1>2, <1>5, <1>6, <1>7

(* AdvanceRound, up to the scan it starts: what was closed stays closed    *)
(* under the larger round.                                                 *)
LEMMA AdvanceRoundKeeps == ASSUME StateInv, AdvanceRound PROVE StateInv'
<1> USE DEF AdvanceRound, StateInv, dagVars, blockVars, historyVars, StartPass
<1>1. TypeOK'
  <2>1. remaining' \in Seq(Vertices) /\ idx' \in 1 .. Len(buffer') + 1
    BY EmptyIsSeq DEF TypeOK
  <2>2. processed' \in BOOLEAN
    BY DEF StartPass
  <2> QED
    BY <2>1, <2>2 DEF TypeOK, DAGTypeOK
<1>2. Genesis \in vertices' /\ InsertedIsDelivered'
  BY DEF InsertedIsDelivered
<1>3. CausallyClosed'
  BY DEF CausallyClosed, TypeOK, DAGTypeOK
<1>4. NothingLost'
  <2>1. Waiting' = Waiting
    BY DEF Waiting, IdleShape
  <2> QED
    BY <2>1 DEF NothingLost
<1>5. IdleShape' /\ NothingReadyWaits' /\ PassInv'
  BY DEF IdleShape, NothingReadyWaits, PassInv
<1> QED
  BY <1>1, <1>2, <1>3, <1>4, <1>5

(* A scan step that inserts the vertex at idx.                             *)
LEMMA ScanInsertKeeps == ASSUME StateInv, ScanInsert PROVE StateInv'
<1> DEFINE v == buffer[idx]
<1> USE DEF ScanInsert, StateInv, historyVars
<1>1. v \in Vertices /\ idx \in 1 .. Len(buffer)
  BY DEF TypeOK
<1>2. DAGTypeOK'
  BY <1>1, InsertKeepsType DEF TypeOK
<1>3. TypeOK'
  BY <1>1, <1>2 DEF TypeOK, blockVars
<1>4. Genesis \in vertices' /\ InsertedIsDelivered'
  BY DEF InsertVertex, InsertedIsDelivered
<1>5. CausallyClosed'
  BY <1>1, InsertKeepsClosure DEF TypeOK
<1>6. Waiting = Waiting' \cup {v}
  <2>1. {buffer[i] : i \in idx .. Len(buffer)} = {v} \cup {buffer[i] : i \in idx + 1 .. Len(buffer)}
    BY <1>1 DEF TypeOK
  <2> QED
    BY <2>1 DEF Waiting
<1>7. NothingLost'
  BY <1>6 DEF NothingLost, InsertVertex
<1>8. IdleShape' /\ NothingReadyWaits' /\ PassInv'
  BY DEF IdleShape, NothingReadyWaits, PassInv
<1> QED
  BY <1>3, <1>4, <1>5, <1>7, <1>8

(* A scan step that keeps the vertex at idx for the next pass.             *)
LEMMA ScanKeepKeeps == ASSUME StateInv, ScanKeep PROVE StateInv'
<1> DEFINE v == buffer[idx]
<1> USE DEF ScanKeep, StateInv, historyVars
<1>1. v \in Vertices /\ idx \in 1 .. Len(buffer)
  BY DEF TypeOK
<1>2. TypeOK'
  BY <1>1 DEF TypeOK, DAGTypeOK, dagVars, blockVars
<1>3. Genesis \in vertices' /\ InsertedIsDelivered' /\ CausallyClosed'
  BY DEF InsertedIsDelivered, CausallyClosed, dagVars
<1>4. Waiting' = Waiting
  <2>1. {buffer[i] : i \in idx .. Len(buffer)} = {v} \cup {buffer[i] : i \in idx + 1 .. Len(buffer)}
    BY <1>1 DEF TypeOK
  <2>2. {remaining'[i] : i \in DOMAIN remaining'} = {remaining[i] : i \in DOMAIN remaining} \cup {v}
    <3>1. remaining \in Seq(Vertices) /\ remaining' = Append(remaining, v)
      BY DEF TypeOK
    <3>2. Elems(remaining') = Elems(remaining) \cup {v}
      BY <1>1, <3>1, AppendElems
    <3> QED
      BY <3>2 DEF Elems
  <2> QED
    BY <2>1, <2>2 DEF Waiting
<1>5. NothingLost'
  BY <1>4 DEF NothingLost, dagVars
<1>6. PassInv'
  <2> SUFFICES ASSUME ~processed, NEW i \in DOMAIN remaining' PROVE ~Ready(remaining'[i])
    BY DEF PassInv, Ready, ContainsVertices, dagVars
  <2>1. remaining'[i] = v \/ \E j \in DOMAIN remaining : remaining'[i] = remaining[j]
    <3>1. remaining \in Seq(Vertices) /\ remaining' = Append(remaining, v)
      BY DEF TypeOK
    <3>2. Elems(remaining') = Elems(remaining) \cup {v}
      BY <1>1, <3>1, AppendElems
    <3>3. remaining'[i] \in Elems(remaining')
      BY DEF Elems
    <3> QED
      BY ONLY <3>2, <3>3 DEF Elems
  <2>2. \A j \in DOMAIN remaining : ~Ready(remaining[j])
    BY DEF PassInv
  <2> QED
    BY <2>1, <2>2
<1>7. IdleShape' /\ NothingReadyWaits'
  BY DEF IdleShape, NothingReadyWaits
<1> QED
  BY <1>2, <1>3, <1>5, <1>6, <1>7

(* The end of a pass: a pass that inserted nothing leaves nothing ready.   *)
LEMMA EndPassKeeps == ASSUME StateInv, EndPass PROVE StateInv'
<1> USE DEF EndPass, StateInv, historyVars, StartPass, Return
<1>1. idx' = 1 /\ remaining' = <<>> /\ processed' = FALSE
  OBVIOUS
<1>2. TypeOK'
  <2>1. idx' \in 1 .. Len(buffer') + 1
    BY <1>1 DEF TypeOK
  <2>2. pc' \in {"idle", "scan"}
    OBVIOUS
  <2>3. remaining' \in Seq(Vertices)
    BY <1>1, EmptyIsSeq
  <2>4. processed' \in BOOLEAN
    BY <1>1
  <2> QED
    BY <2>1, <2>2, <2>3, <2>4 DEF TypeOK, DAGTypeOK, dagVars, blockVars
<1>3. Genesis \in vertices' /\ InsertedIsDelivered' /\ CausallyClosed'
  BY DEF InsertedIsDelivered, CausallyClosed, dagVars
<1>4. Waiting' = Waiting
  <2>1. {buffer[i] : i \in idx .. Len(buffer)} = {}
    BY DEF TypeOK
  <2>2. Waiting = Elems(remaining)
    BY <2>1 DEF Waiting, Elems
  <2>3. Waiting' = Elems(buffer')
    BY <1>1, WaitingAtStart DEF TypeOK, Waiting
  <2> QED
    BY <2>2, <2>3
<1>5. NothingLost'
  BY <1>4 DEF NothingLost, dagVars
<1>6. NothingReadyWaits'
  BY DEF NothingReadyWaits, PassInv, Ready, ContainsVertices, dagVars
<1>7. IdleShape' /\ PassInv'
  BY <1>1 DEF IdleShape, PassInv
<1> QED
  BY <1>2, <1>3, <1>5, <1>6, <1>7

(* The methods that leave the graph, the buffer and the scan alone.        *)
LEMMA OthersKeep ==
  ASSUME StateInv,
         UNCHANGED <<dagVars, currentRound, buffer, accepted, scanVars>>,
         delivered \subseteq delivered', delivered' \in SUBSET Vertices,
         marked' \in SUBSET Vertices,
         delivered' \ delivered \subseteq marked', marked \subseteq marked',
         blocksToPropose' \in Seq(Blocks), added' \in Seq(Blocks), proposed' \in Seq(Blocks)
  PROVE  StateInv'
<1> USE DEF StateInv, dagVars, scanVars
<1>1. TypeOK'
  BY DEF TypeOK, DAGTypeOK
<1>2. Genesis \in vertices' /\ InsertedIsDelivered' /\ CausallyClosed'
  BY DEF InsertedIsDelivered, CausallyClosed
<1>3. NothingLost'
  BY DEF NothingLost, Waiting
<1>4. IdleShape' /\ NothingReadyWaits' /\ PassInv'
  BY DEF IdleShape, NothingReadyWaits, PassInv, Ready, ContainsVertices
<1> QED
  BY <1>1, <1>2, <1>3, <1>4

(* Every step keeps the invariant.                                         *)
LEMMA NextStateInv == StateInv /\ [Next]_vars => StateInv'
<1> SUFFICES ASSUME StateInv, [Next]_vars PROVE StateInv'
  OBVIOUS
<1>1. ASSUME NEW v \in Vertices, AddVertexNow(v) PROVE StateInv'
  BY <1>1, AddVertexNowKeeps
<1>2. ASSUME NEW v \in Vertices, AddVertexLater(v) PROVE StateInv'
  BY <1>2, AddVertexLaterKeeps
<1>3. ASSUME NEW v \in Vertices, MarkVertexDelivered(v) PROVE StateInv'
  <2>1. UNCHANGED <<dagVars, currentRound, buffer, accepted, scanVars>>
    BY <1>3 DEF MarkVertexDelivered
  <2>2. /\ delivered \subseteq delivered' /\ delivered' \in SUBSET Vertices
        /\ marked' \in SUBSET Vertices
        /\ delivered' \ delivered \subseteq marked' /\ marked \subseteq marked'
    BY <1>3 DEF MarkVertexDelivered, StateInv, TypeOK
  <2>3. blocksToPropose' \in Seq(Blocks) /\ added' \in Seq(Blocks) /\ proposed' \in Seq(Blocks)
    BY <1>3 DEF MarkVertexDelivered, StateInv, TypeOK, blockVars
  <2> QED
    BY <2>1, <2>2, <2>3, OthersKeep
<1>4. CASE AdvanceRound
  BY <1>4, AdvanceRoundKeeps
<1>5. CASE processBuffer
  BY <1>5, ScanInsertKeeps, ScanKeepKeeps, EndPassKeeps DEF processBuffer
<1>6. ASSUME NEW b \in Blocks, AddBlockToPropose(b) PROVE StateInv'
  <2>1. UNCHANGED <<dagVars, currentRound, buffer, accepted, scanVars>> /\ UNCHANGED <<delivered, marked>>
    BY <1>6 DEF AddBlockToPropose, historyVars
  <2>2. delivered' \in SUBSET Vertices /\ marked' \in SUBSET Vertices
    BY <2>1 DEF StateInv, TypeOK
  <2>3. blocksToPropose' \in Seq(Blocks) /\ added' \in Seq(Blocks) /\ proposed' \in Seq(Blocks)
    BY <1>6 DEF AddBlockToPropose, StateInv, TypeOK
  <2> QED
    BY <2>1, <2>2, <2>3, OthersKeep
<1>7. CASE GetNextBlockToPropose
  <2>1. UNCHANGED <<dagVars, currentRound, buffer, accepted, scanVars>> /\ UNCHANGED <<delivered, marked>>
    BY <1>7 DEF GetNextBlockToPropose, historyVars
  <2>2. delivered' \in SUBSET Vertices /\ marked' \in SUBSET Vertices
    BY <2>1 DEF StateInv, TypeOK
  <2>3. blocksToPropose' \in Seq(Blocks) /\ added' \in Seq(Blocks) /\ proposed' \in Seq(Blocks)
    BY <1>7 DEF GetNextBlockToPropose, StateInv, TypeOK
  <2> QED
    BY <2>1, <2>2, <2>3, OthersKeep
<1>8. CASE UNCHANGED vars
  <2>1. UNCHANGED <<dagVars, currentRound, buffer, accepted, scanVars>> /\ UNCHANGED <<delivered, marked>>
    BY <1>8 DEF vars, dagVars, scanVars
  <2>2. delivered' \in SUBSET Vertices /\ marked' \in SUBSET Vertices
    BY <2>1 DEF StateInv, TypeOK
  <2>3. blocksToPropose' \in Seq(Blocks) /\ added' \in Seq(Blocks) /\ proposed' \in Seq(Blocks)
    BY <1>8 DEF vars, StateInv, TypeOK
  <2> QED
    BY <2>1, <2>2, <2>3, OthersKeep
<1> QED
  BY <1>1, <1>2, <1>3, <1>4, <1>5, <1>6, <1>7, <1>8 DEF Next

(* The invariant of the vertex store holds always: types, causal closure,  *)
(* nothing lost, nothing ready left waiting (state.go).                    *)
THEOREM StateInvariant == SafeSpec => []StateInv
BY InitStateInv, NextStateInv, PTL DEF SafeSpec

(* The graph is closed under parents and within the round at every moment. *)
THEOREM CausalClosure == SafeSpec => []CausallyClosed
<1>1. StateInv => CausallyClosed
  BY DEF StateInv
<1> QED
  BY <1>1, StateInvariant, PTL

(* No vertex AddVertex took in is lost, at any moment of a scan.           *)
THEOREM NoVertexLost == SafeSpec => []NothingLost
<1>1. StateInv => NothingLost
  BY DEF StateInv
<1> QED
  BY <1>1, StateInvariant, PTL

(* No method of state.go leaves a vertex waiting that could be inserted.   *)
THEOREM ScanIsComplete == SafeSpec => []NothingReadyWaits
<1>1. StateInv => NothingReadyWaits
  BY DEF StateInv
<1> QED
  BY <1>1, StateInvariant, PTL

(* In a state of the invariant without a running scan the graph is the     *)
(* largest deliverable set.  A deliverable vertex that were missing would, *)
(* chosen minimal among those missing, have all its parents in the graph;  *)
(* it would then be ready and, not being lost, wait in the buffer.         *)
LEMMA InvGivesOrderIndependence == StateInv => OrderIndependent
<1> SUFFICES ASSUME StateInv, pc = "idle"
             PROVE  vertices = Deliverable(accepted \cup {Genesis}, currentRound)
  BY DEF OrderIndependent
<1> DEFINE given == accepted \cup {Genesis}
           Closed(D) == \A v \in D : RoundOf[v] <= currentRound /\ Parents[v] \subseteq D
<1>1. vertices \in SUBSET given /\ Closed(vertices)
  BY DEF StateInv, NothingLost, CausallyClosed
<1>2. ASSUME NEW D \in SUBSET given, Closed(D) PROVE D \subseteq vertices
  <2> SUFFICES ASSUME D \ vertices # {} PROVE FALSE
    OBVIOUS
  <2>1. D \ vertices \in SUBSET Vertices
    BY DEF StateInv, TypeOK
  <2>2. PICK v \in D \ vertices : Parents[v] \cap (D \ vertices) = {}
    BY <2>1, ParentsWellFounded
  <2>3. Ready(v)
    BY <1>2, <2>2 DEF Ready, ContainsVertices
  <2>4. v \in Waiting
    BY <2>2 DEF StateInv, NothingLost
  <2>5. PICK i \in 1 .. Len(buffer) : v = buffer[i]
    BY <2>4 DEF Waiting, StateInv, IdleShape
  <2>6. ~Ready(v)
    BY <2>5 DEF StateInv, NothingReadyWaits, TypeOK
  <2> QED
    BY <2>3, <2>6
<1> QED
  BY <1>1, <1>2 DEF Deliverable

(* The graph of state.go does not depend on the order in which vertices    *)
(* came, on repetitions, or on when the rounds advanced.                   *)
THEOREM OrderIndependence == SafeSpec => []OrderIndependent
BY InvGivesOrderIndependence, StateInvariant, PTL

(* The vertex store of state.go implements the safety part of causal       *)
(* delivery: each of its steps delivers at most one vertex, whose parents  *)
(* are out and whose round has come, or none.                              *)
THEOREM CausalDeliveryImplemented == SafeSpec => ImplementsCausalDeliverySafety
<1>1. Init => CD!Init
  BY DEF Init, NewDAG, CD!Init
<1>2. StateInv /\ [Next]_vars => [CD!Next]_(CD!vars)
  <2> SUFFICES ASSUME StateInv, [Next]_vars PROVE CD!Next \/ UNCHANGED CD!vars
    OBVIOUS
  <2> USE DEF historyVars
  <2>1. ASSUME NEW v \in Vertices, AddVertexNow(v) PROVE CD!Next
    <3>1. CD!AcceptAndDeliver(v)
      BY <2>1 DEF AddVertexNow, InsertVertex, Ready, ContainsVertices, CD!AcceptAndDeliver, CD!MayLeave
    <3> QED
      BY <3>1 DEF CD!Next
  <2>2. ASSUME NEW v \in Vertices, AddVertexLater(v) PROVE CD!Next
    <3>1. CD!Accept(v)
      BY <2>2 DEF AddVertexLater, dagVars, CD!Accept
    <3> QED
      BY <3>1 DEF CD!Next
  <2>3. CASE ScanInsert
    <3> DEFINE v == buffer[idx]
    <3>1. v \in Vertices /\ v \in Waiting /\ v \in accepted \cup {Genesis}
      BY <2>3 DEF ScanInsert, StateInv, TypeOK, Waiting, NothingLost
    <3>2. CASE v \in vertices
      BY <2>3, <3>2 DEF ScanInsert, InsertVertex, CD!vars
    <3>3. CASE v \notin vertices
      <4>1. CD!Deliver(v)
        BY <2>3, <3>1, <3>3 DEF ScanInsert, InsertVertex, Ready, ContainsVertices, CD!Deliver, CD!MayLeave
      <4> QED
        BY <3>1, <4>1 DEF CD!Next
    <3> QED
      BY <3>2, <3>3
  <2>4. CASE AdvanceRound
    BY <2>4 DEF AdvanceRound, dagVars, CD!Advance, CD!Next
  <2>5. CASE UNCHANGED <<vertices, accepted, currentRound>>
    BY <2>5 DEF CD!vars
  <2>6. ScanKeep \/ EndPass \/ GetNextBlockToPropose \/ UNCHANGED vars
          => UNCHANGED <<vertices, accepted, currentRound>>
    BY DEF ScanKeep, EndPass, GetNextBlockToPropose, vars, dagVars
  <2>7. (\E v \in Vertices : MarkVertexDelivered(v)) \/ (\E b \in Blocks : AddBlockToPropose(b))
          => UNCHANGED <<vertices, accepted, currentRound>>
    BY DEF MarkVertexDelivered, AddBlockToPropose, dagVars
  <2> QED
    BY <2>1, <2>2, <2>3, <2>4, <2>5, <2>6, <2>7 DEF Next, processBuffer
<1> QED
  BY <1>1, <1>2, StateInvariant, PTL DEF SafeSpec, ImplementsCausalDeliverySafety, CD!SafeSpec

(* The state of state.go keeps its types in the middle of a scan too.      *)
THEOREM StateTypes == SafeSpec => []TypeOK
<1>1. StateInv => TypeOK
  BY DEF StateInv
<1> QED
  BY <1>1, StateInvariant, PTL

(* What is in the graph is marked delivered, so AddVertex never takes it   *)
(* in again.                                                               *)
THEOREM GraphIsDelivered == SafeSpec => []InsertedIsDelivered
<1>1. StateInv => InsertedIsDelivered
  BY DEF StateInv
<1> QED
  BY <1>1, StateInvariant, PTL

(* Blocks leave state.go in the order AddBlockToPropose took them in, none *)
(* lost and none twice, whatever the vertices do in between.               *)
THEOREM ProposalsStayInOrder == SafeSpec => []ProposalsInOrder
<1>1. Init => ProposalsInOrder
  BY EmptyIsSeq DEF Init, ProposalsInOrder
<1>2. TypeOK /\ ProposalsInOrder /\ [Next]_vars => ProposalsInOrder'
  <2> SUFFICES ASSUME TypeOK, ProposalsInOrder, [Next]_vars PROVE ProposalsInOrder'
    OBVIOUS
  <2>0. proposed \in Seq(Blocks) /\ blocksToPropose \in Seq(Blocks)
    BY DEF TypeOK
  <2>1. ASSUME NEW b \in Blocks, AddBlockToPropose(b) PROVE ProposalsInOrder'
    <3>1. proposed \in Seq(Blocks) /\ blocksToPropose \in Seq(Blocks) /\ b \in Blocks
      BY <2>0, <2>1
    <3>2. Append(proposed \o blocksToPropose, b) = proposed \o Append(blocksToPropose, b)
      BY ONLY <3>1, AppendAfterConcat
    <3> QED
      BY <2>1, <3>2 DEF AddBlockToPropose, ProposalsInOrder
  <2>2. CASE GetNextBlockToPropose
    <3>1. blocksToPropose # <<>>
      BY <2>2 DEF GetNextBlockToPropose
    <3>2. Append(proposed, Head(blocksToPropose)) \o Tail(blocksToPropose)
            = proposed \o blocksToPropose
      BY ONLY <2>0, <3>1, MoveHead
    <3> QED
      BY <2>2, <3>2 DEF GetNextBlockToPropose, ProposalsInOrder
  <2>3. CASE UNCHANGED blockVars
    BY <2>3 DEF blockVars, ProposalsInOrder
  <2>4. (\E v \in Vertices : AddVertexNow(v) \/ AddVertexLater(v) \/ MarkVertexDelivered(v))
          => UNCHANGED blockVars
    BY DEF AddVertexNow, AddVertexLater, MarkVertexDelivered
  <2>5. AdvanceRound \/ processBuffer \/ UNCHANGED vars => UNCHANGED blockVars
    BY DEF AdvanceRound, processBuffer, ScanInsert, ScanKeep, EndPass, vars, blockVars
  <2> QED
    BY <2>1, <2>2, <2>3, <2>4, <2>5 DEF Next
<1> QED
  BY <1>1, <1>2, StateTypes, PTL DEF SafeSpec
=============================================================================
