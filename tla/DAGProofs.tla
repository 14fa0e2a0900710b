----------------------------- MODULE DAGProofs -----------------------------
(***************************************************************************)
(* What DAGService guarantees for every set of vertices, rounds, parents   *)
(* and waves.  The inductive invariant says what the two edge maps hold;   *)
(* the answers of IsLinked follow from it.                                 *)
(***************************************************************************)
EXTENDS DAGService, TLAPS

(* The edge maps hold exactly the parents, and only far links.             *)
GraphInv == TypeOK /\ StrongEdgesAreParents /\ WeakEdgesReachFarBelow

USE VertexAssumption, WaveAssumption

(* NewDAG leaves a graph without edges.                                    *)
LEMMA InitGraphInv == Init => GraphInv
<1> SUFFICES ASSUME Init PROVE GraphInv
  OBVIOUS
<1>1. TypeOK
  BY DEF Init, NewDAG, TypeOK, DAGTypeOK
<1>2. StrongEdgesAreParents
  BY DEF Init, NewDAG, StrongEdgesAreParents
<1>3. WeakEdgesReachFarBelow
  BY DEF Init, NewDAG, WeakEdgesReachFarBelow
<1> QED
  BY <1>1, <1>2, <1>3 DEF GraphInv

(* InsertVertex, which writes both edge maps of one vertex, keeps the      *)
(* invariant whether the vertex is new or stored already.                  *)
LEMMA InsertKeepsGraphInv ==
  ASSUME GraphInv, NEW v \in Vertices, Insert(v)
  PROVE  GraphInv'
<1> USE DEF GraphInv
<1>1. TypeOK'
  BY DEF TypeOK, DAGTypeOK, Insert, InsertVertex, WeakTargets
<1>2. StrongEdgesAreParents'
  BY DEF TypeOK, DAGTypeOK, Insert, InsertVertex, StrongEdgesAreParents
<1>3. WeakEdgesReachFarBelow'
  BY DEF TypeOK, DAGTypeOK, Insert, InsertVertex, WeakTargets, WeakEdgesReachFarBelow, FarBelow
<1> QED
  BY <1>1, <1>2, <1>3

(* A query stores at most an edge that the invariant allows.               *)
LEMMA QueryKeepsGraphInv ==
  ASSUME GraphInv, NEW v1 \in Vertices, NEW v2 \in Vertices,
         IsLinked(v1, v2), UNCHANGED leader
  PROVE  GraphInv'
<1> USE DEF GraphInv
<1>1. TypeOK'
  BY DEF TypeOK, DAGTypeOK, IsLinked
<1>2. StrongEdgesAreParents'
  BY DEF TypeOK, DAGTypeOK, IsLinked, StrongEdgesAreParents
<1>3. WeakEdgesReachFarBelow'
  BY DEF TypeOK, DAGTypeOK, IsLinked, WeakEdgesReachFarBelow, FarBelow
<1> QED
  BY <1>1, <1>2, <1>3

(* Every call keeps the invariant.                                         *)
LEMMA NextGraphInv == GraphInv /\ [Next]_vars => GraphInv'
<1> SUFFICES ASSUME GraphInv, [Next]_vars PROVE GraphInv'
  OBVIOUS
<1>1. ASSUME NEW v \in Vertices, Insert(v) PROVE GraphInv'
  BY <1>1, InsertKeepsGraphInv
<1>2. ASSUME NEW v1 \in Vertices, NEW v2 \in Vertices, QueryLink(v1, v2) PROVE GraphInv'
  BY <1>2, QueryKeepsGraphInv DEF QueryLink
<1>3. ASSUME NEW v \in Vertices, NEW r, QueryRound(v, r) PROVE GraphInv'
  <2>1. CASE \E u \in GetVerticesInRound(r) \ {v} : Linked(v, u) /\ IsLinked(v, u)
    <3>1. PICK u \in GetVerticesInRound(r) \ {v} : IsLinked(v, u)
      BY <2>1
    <3>2. u \in Vertices
      BY <3>1 DEF GraphInv, TypeOK, DAGTypeOK, GetVerticesInRound
    <3> QED
      BY <1>3, <3>1, <3>2, QueryKeepsGraphInv DEF QueryRound
  <2>2. CASE UNCHANGED dagVars
    BY <1>3, <2>2 DEF QueryRound, GraphInv, TypeOK, DAGTypeOK, dagVars,
                      StrongEdgesAreParents, WeakEdgesReachFarBelow
  <2> QED
    BY <1>3, <2>1, <2>2 DEF QueryRound, IsLinkedWithOthersInRound
<1>4. ASSUME NEW w \in Waves, GetWaveVertexLeader(w) PROVE GraphInv'
  <2>1. leader' \in [Waves -> Vertices \cup {Nil}]
    BY <1>4 DEF GetWaveVertexLeader, WaveLeaders, GetVerticesInRound, GraphInv, TypeOK, DAGTypeOK
  <2> QED
    BY <1>4, <2>1 DEF GetWaveVertexLeader, GraphInv, TypeOK, DAGTypeOK, dagVars,
                      StrongEdgesAreParents, WeakEdgesReachFarBelow
<1>5. CASE UNCHANGED vars
  BY <1>5 DEF vars, GraphInv, TypeOK, DAGTypeOK, StrongEdgesAreParents, WeakEdgesReachFarBelow
<1> QED
  BY <1>1, <1>2, <1>3, <1>4, <1>5 DEF Next

(* The graph invariant holds always: the edge maps of dag.go hold the      *)
(* parents of the stored vertices and far links, nothing else.             *)
THEOREM GraphInvariant == Spec => []GraphInv
BY InitGraphInv, NextGraphInv, PTL DEF Spec

(* In a state of the invariant the weak edges are irrelevant to IsLinked.  *)
LEMMA AnswerIsDetermined == GraphInv => LinkAnswerIgnoresHistory
<1> SUFFICES ASSUME GraphInv, NEW v1 \in Vertices, NEW v2 \in Vertices
             PROVE  Linked(v1, v2) <=> \/ v1 \in vertices /\ v2 \in Parents[v1]
                                       \/ v2 \in vertices /\ FarBelow(v1, v2)
  BY DEF LinkAnswerIgnoresHistory
<1>1. v2 \in strongEdges[v1] <=> v1 \in vertices /\ v2 \in Parents[v1]
  BY DEF GraphInv, StrongEdgesAreParents
<1>2. v2 \in weakEdges[v1] => v2 \in vertices /\ FarBelow(v1, v2)
  BY DEF GraphInv, WeakEdgesReachFarBelow
<1> QED
  BY <1>1, <1>2 DEF Linked, IsStronglyLinked

(* The answers of dag.go's IsLinked depend on the stored vertices alone,   *)
(* not on the order of insertions or on earlier queries.                   *)
THEOREM LinkAnswersAgree == Spec => []LinkAnswerIgnoresHistory
BY GraphInvariant, AnswerIsDetermined, PTL

(* No call removes a vertex from the graph.                                *)
LEMMA VerticesOnlyGrow == ASSUME [Next]_vars PROVE vertices \subseteq vertices'
BY DEF Next, vars, Insert, InsertVertex, QueryLink, QueryRound, IsLinked, dagVars,
       IsLinkedWithOthersInRound, GetWaveVertexLeader

(* A link reported once is reported for ever (dag.go, IsLinked), although  *)
(* a repeated InsertVertex throws stored weak edges away.                  *)
THEOREM LinksPersist == Spec => LinksNeverDisappear
<1>1. GraphInv /\ GraphInv' /\ [Next]_vars
        => [\A v1, v2 \in Vertices : Linked(v1, v2) => Linked(v1, v2)']_vars
  <2> SUFFICES ASSUME GraphInv, GraphInv', [Next]_vars,
                      NEW v1 \in Vertices, NEW v2 \in Vertices, Linked(v1, v2)
               PROVE  Linked(v1, v2)'
    OBVIOUS
  <2>1. \/ v1 \in vertices /\ v2 \in Parents[v1]
        \/ v2 \in vertices /\ FarBelow(v1, v2)
    BY AnswerIsDetermined DEF LinkAnswerIgnoresHistory
  <2>2. CASE v1 \in vertices /\ v2 \in Parents[v1]
    <3>1. v1 \in vertices'
      BY <2>2, VerticesOnlyGrow
    <3> QED
      BY <2>2, <3>1 DEF GraphInv, StrongEdgesAreParents, Linked, IsStronglyLinked
  <2>3. CASE v2 \in vertices /\ FarBelow(v1, v2)
    BY <2>3, VerticesOnlyGrow DEF Linked, FarBelow
  <2> QED
    BY <2>1, <2>2, <2>3
<1> QED
  BY <1>1, GraphInvariant, PTL DEF Spec, LinksNeverDisappear

(* The maps of dag.go hold vertices and edges between vertices.            *)
THEOREM GraphTypes == Spec => []TypeOK
<1>1. GraphInv => TypeOK
  BY DEF GraphInv
<1> QED
  BY <1>1, GraphInvariant, PTL

(* Whatever addWeakEdges and IsLinked store leads to a stored vertex more  *)
(* than two rounds below.                                                  *)
THEOREM WeakEdgesAreFar == Spec => []WeakEdgesReachFarBelow
<1>1. GraphInv => WeakEdgesReachFarBelow
  BY DEF GraphInv
<1> QED
  BY <1>1, GraphInvariant, PTL
=============================================================================
