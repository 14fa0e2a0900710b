----------------------------- MODULE DAGService -----------------------------
(***************************************************************************)
(* The graph of pkg/consensus/dag.go used through its public methods, one  *)
(* call after the other (its methods rely on the caller for exclusion):    *)
(* vertices are inserted in any order, again and again, queries that store *)
(* edges run in between, and the wave leader is asked for.                 *)
(***************************************************************************)
EXTENDS DAG

CONSTANTS
  Waves,      (* the waves asked about *)
  Nil         (* Go's nil              *)

ASSUME WaveAssumption == Waves \in SUBSET Nat /\ Nil \notin Vertices

VARIABLE leader   (* leader[w]: the last answer of GetWaveVertexLeader(w), Nil before any *)

vars == <<vertices, strongEdges, weakEdges, leader>>

TypeOK == DAGTypeOK /\ leader \in [Waves -> Vertices \cup {Nil}]

Init == NewDAG /\ leader = [w \in Waves |-> Nil]

Insert(v) == InsertVertex(v) /\ UNCHANGED leader

QueryLink(v1, v2) == IsLinked(v1, v2) /\ UNCHANGED leader

QueryRound(v, r) == IsLinkedWithOthersInRound(v, r) /\ UNCHANGED leader

(* The answer is nil for a wave whose round is empty, and otherwise the    *)
(* first vertex in the order in which Go ranges over a map: any of them.   *)
GetWaveVertexLeader(w) ==
  /\ leader' \in {[leader EXCEPT ![w] = l] :
                    l \in IF WaveLeaders(w) = {} THEN {Nil} ELSE WaveLeaders(w)}
  /\ UNCHANGED dagVars

Next ==
  \/ \E v \in Vertices : Insert(v)
  \/ \E v1, v2 \in Vertices : QueryLink(v1, v2)
  \/ \E v \in Vertices : \E r \in {RoundOf[u] : u \in Vertices} : QueryRound(v, r)
  \/ \E w \in Waves : GetWaveVertexLeader(w)

Spec == Init /\ [][Next]_vars

-----------------------------------------------------------------------------
(* What IsLinked answers is a function of the stored vertices alone: the   *)
(* weak edges, which depend on the order of insertions and on the queries  *)
(* made so far, never change an answer.  Two nodes that hold the same      *)
(* vertices therefore answer every link query alike (dag.go, InsertVertex, *)
(* addWeakEdges and IsLinked).                                             *)
LinkAnswerIgnoresHistory ==
  \A v1, v2 \in Vertices :
    Linked(v1, v2) <=>
      \/ v1 \in vertices /\ v2 \in Parents[v1]
      \/ v2 \in vertices /\ FarBelow(v1, v2)

(* A link that was reported once is reported for ever, although inserting  *)
(* a vertex again throws away the weak edges queries stored for it         *)
(* (dag.go, addWeakEdges starts from an empty map).                        *)
LinksNeverDisappear ==
  [][\A v1, v2 \in Vertices : Linked(v1, v2) => Linked(v1, v2)']_vars

(* The comment in GetWaveVertexLeader: "Return the first vertex in the     *)
(* round as the leader".  Asked twice while the wave's round holds the     *)
(* same vertices, it gives the same vertex.                                *)
LeaderIsDetermined ==
  [][\A w \in Waves :
       (leader[w] # Nil /\ UNCHANGED vertices) => leader'[w] = leader[w]]_vars
=============================================================================
