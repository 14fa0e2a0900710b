---------------------------- MODULE MCConsensus ----------------------------
(* ConsensusCoordinator on the genesis and one more vertex of round 0, up  *)
(* to three vertices of round 1, all of one owner, and two of round 2.     *)
EXTENDS ConsensusCoordinator, TLC

CONSTANTS g, x0, a1, b1, c1, a2, b2, n1, n2, n3

AllRounds == g :> 0 @@ x0 :> 0 @@ a1 :> 1 @@ b1 :> 1 @@ c1 :> 1 @@ a2 :> 2 @@ b2 :> 2
AllParents == g :> {} @@ x0 :> {} @@ a1 :> {g, x0} @@ b1 :> {x0} @@ c1 :> {g}
                @@ a2 :> {a1, b1} @@ b2 :> {b1}
AllOwners == g :> n1 @@ x0 :> n2 @@ a1 :> n1 @@ b1 :> n1 @@ c1 :> n1 @@ a2 :> n1 @@ b2 :> n2

MCRoundOf == [v \in Vertices |-> AllRounds[v]]
MCParents == [v \in Vertices |-> AllParents[v] \cap Vertices]
MCOwner == [v \in Vertices |-> AllOwners[v]]

(* Every message there is, and the ones of the liveness run: two vertices, *)
(* a block and an unrelated object.                                        *)
AllMessages == VertexMessages \cup BlockMessages \cup OtherMessages
LiveMessages ==
  {m \in AllMessages : m.kind = "vertex" => m.vertex \in {x0, b1}}
    \ {[kind |-> "block", height |-> 0], [kind |-> "block", height |-> 2]}
=============================================================================
