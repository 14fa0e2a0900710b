------------------------------- MODULE MCDAG -------------------------------
(* DAGService on six vertices: the genesis, two vertices of round 1, one   *)
(* of round 2 and the two candidates for the leader of wave 1 in round 4.  *)
EXTENDS DAGService, TLC

CONSTANTS g, a1, b1, a2, a4, b4

MCVertices == {g, a1, b1, a2, a4, b4}
MCRoundOf == g :> 0 @@ a1 :> 1 @@ b1 :> 1 @@ a2 :> 2 @@ a4 :> 4 @@ b4 :> 4
MCParents == g :> {} @@ a1 :> {g} @@ b1 :> {g} @@ a2 :> {a1, b1} @@ a4 :> {a2} @@ b4 :> {b1}
=============================================================================
