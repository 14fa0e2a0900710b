-------------------------------- MODULE DAG --------------------------------
(***************************************************************************)
(* The vertex graph of pkg/consensus/dag.go: its maps, what NewDAG puts in *)
(* them and what its methods read and change.  A vertex is identified by   *)
(* its hash, which covers its round and its parents' hashes                *)
(* (pkg/model/vertex.go, calculateHash), so a vertex is a model value with *)
(* a fixed round and a fixed set of parents.  The map                      *)
(* round -> hash -> vertex is the set of vertices it holds, grouped by     *)
(* their rounds; a missing edge entry and an empty one read the same.      *)
(***************************************************************************)
EXTENDS Naturals, FiniteSets

CONSTANTS
  Vertices,   (* the vertices (hashes) that may ever be seen, one node's genesis included *)
  Genesis,    (* the vertex the graph is created with                                     *)
  RoundOf,    (* Vertex.round                                                             *)
  Parents     (* the keys of Vertex.parents                                               *)

(* Rounds per wave: the constant MaxWave of consensus.go. *)
MaxWave == 4

ASSUME VertexAssumption ==
  /\ Genesis \in Vertices
  /\ RoundOf \in [Vertices -> Nat]
  /\ Parents \in [Vertices -> SUBSET Vertices]
  /\ RoundOf[Genesis] = 0
  /\ Parents[Genesis] = {}

(* A vertex's hash covers its parents' hashes, so no vertex is its own     *)
(* ancestor: every non-empty set of vertices has a member without a parent *)
(* in the set.                                                             *)
ASSUME ParentsWellFounded ==
  \A S \in SUBSET Vertices : S # {} => \E v \in S : Parents[v] \cap S = {}

VARIABLES
  vertices,     (* DAG.vertices    *)
  strongEdges,  (* DAG.strongEdges *)
  weakEdges     (* DAG.weakEdges   *)

dagVars == <<vertices, strongEdges, weakEdges>>

DAGTypeOK ==
  /\ vertices \in SUBSET Vertices
  /\ strongEdges \in [Vertices -> SUBSET Vertices]
  /\ weakEdges \in [Vertices -> SUBSET Vertices]

-----------------------------------------------------------------------------
(* NewDAG: the genesis vertex is stored, without edges. *)
NewDAG ==
  /\ vertices = {Genesis}
  /\ strongEdges = [v \in Vertices |-> {}]
  /\ weakEdges = [v \in Vertices |-> {}]

GetVerticesInRound(r) == {v \in vertices : RoundOf[v] = r}

(* The vertices addWeakEdges links a vertex to: everything stored in the   *)
(* rounds 1 .. round - 3 that is not already one of its strong edges.      *)
WeakTargets_Mutant_LastRoundIncluded(v) ==
  {u \in vertices : RoundOf[u] >= 1 /\ RoundOf[u] + 2 <= RoundOf[v] /\ u \notin Parents[v]}

WeakTargets(v) ==
  {u \in vertices : RoundOf[u] >= 1 /\ RoundOf[u] + 2 < RoundOf[v] /\ u \notin Parents[v]}

(* InsertVertex: every parent becomes a strong edge; from round 3 on the   *)
(* weak edges are computed anew from what the graph holds at this moment.  *)
InsertVertex(v) ==
  /\ vertices' = vertices \cup {v}
  /\ strongEdges' = [strongEdges EXCEPT ![v] = Parents[v]]
  /\ weakEdges' = IF RoundOf[v] > 2 THEN [weakEdges EXCEPT ![v] = WeakTargets(v)]
                                    ELSE weakEdges

(* ContainsVertices: each of the hashes is found in some round. *)
ContainsVertices(hashes) == hashes \subseteq vertices

IsStronglyLinked(v1, v2) == v2 \in strongEdges[v1]

(* The result of IsLinked: a strong edge, a weak edge, or a stored vertex  *)
(* more than two rounds below.                                             *)
FarBelow(v1, v2) == RoundOf[v2] + 2 < RoundOf[v1]

Linked_Mutant_EdgesOnly(v1, v2) == v2 \in strongEdges[v1] \cup weakEdges[v1]

Linked(v1, v2) ==
  \/ IsStronglyLinked(v1, v2)
  \/ v2 \in weakEdges[v1]
  \/ FarBelow(v1, v2) /\ v2 \in vertices

(* IsLinked as a step: the query stores the weak edge it answers with when *)
(* neither edge map had one.                                               *)
IsLinked(v1, v2) ==
  /\ weakEdges' = IF /\ v2 \notin strongEdges[v1] \cup weakEdges[v1]
                     /\ FarBelow(v1, v2) /\ v2 \in vertices
                  THEN [weakEdges EXCEPT ![v1] = @ \cup {v2}]
                  ELSE weakEdges
  /\ UNCHANGED <<vertices, strongEdges>>

(* IsLinkedWithOthersInRound: Go iterates over a map in an arbitrary order *)
(* and stops at the first vertex the query links to; the queries before it *)
(* answered false and stored nothing.                                      *)
IsLinkedWithOthersInRound(v, r) ==
  LET others == GetVerticesInRound(r) \ {v} IN
  \/ \E u \in others : Linked(v, u) /\ IsLinked(v, u)
  \/ (\A u \in others : ~Linked(v, u)) /\ UNCHANGED dagVars

(* The leaders GetWaveVertexLeader may return for a wave: the genesis for  *)
(* wave 0, otherwise the first vertex of the wave's first round in Go's    *)
(* arbitrary map order (the empty set: nil).                               *)
WaveLeaders(wave) ==
  IF wave * MaxWave = 0 THEN {Genesis} ELSE GetVerticesInRound(wave * MaxWave)

-----------------------------------------------------------------------------
(* The graph's strong edges are exactly the parents of what it stores.     *)
StrongEdgesAreParents ==
  \A v \in Vertices : strongEdges[v] = IF v \in vertices THEN Parents[v] ELSE {}

(* A weak edge only ever points at a stored vertex more than two rounds    *)
(* below its owner, whether InsertVertex or a query created it.            *)
WeakEdgesReachFarBelow ==
  \A v \in Vertices : \A u \in weakEdges[v] : u \in vertices /\ FarBelow(v, u)
=============================================================================
