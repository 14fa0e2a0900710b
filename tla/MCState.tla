------------------------------ MODULE MCState ------------------------------
(* ConsensusState on the genesis, two vertices of round 1, one of round 2  *)
(* above both, and a vertex of round 1 whose parent is the one of round 2  *)
(* (State does not compare a vertex's round with its parents').            *)
EXTENDS ConsensusState, TLC

CONSTANTS g, a1, b1, a2, c1, p, q

MCVertices == {g, a1, b1, a2, c1}
MCRoundOf == g :> 0 @@ a1 :> 1 @@ b1 :> 1 @@ a2 :> 2 @@ c1 :> 1
MCParents == g :> {} @@ a1 :> {g} @@ b1 :> {g} @@ a2 :> {a1, b1} @@ c1 :> {a2}
=============================================================================
