--------------------------- MODULE CausalDelivery ---------------------------
(***************************************************************************)
(* What the vertex store of pkg/consensus/state.go promises, without its   *)
(* buffer, its scans or its edge maps: vertices become known in any order, *)
(* a known vertex is put out once the node has reached its round and all   *)
(* its parents are out, and none that may be put out waits for ever.       *)
(***************************************************************************)
EXTENDS Naturals

CONSTANTS Vertices, Genesis, RoundOf, Parents

VARIABLES
  known,    (* the vertices taken in so far    *)
  round,    (* the round the node has reached  *)
  output    (* the vertices put out so far     *)

vars == <<known, round, output>>

Init == known = {Genesis} /\ round = 0 /\ output = {Genesis}

MayLeave(v) == RoundOf[v] <= round /\ Parents[v] \subseteq output

Accept(v) == known' = known \cup {v} /\ UNCHANGED <<round, output>>

AcceptAndDeliver(v) ==
  /\ MayLeave(v)
  /\ known' = known \cup {v}
  /\ output' = output \cup {v}
  /\ UNCHANGED round

Deliver(v) ==
  /\ v \in known \ output
  /\ MayLeave(v)
  /\ output' = output \cup {v}
  /\ UNCHANGED <<known, round>>

Advance == round' = round + 1 /\ UNCHANGED <<known, output>>

Next ==
  \/ \E v \in Vertices : Accept(v) \/ AcceptAndDeliver(v) \/ Deliver(v)
  \/ Advance

SafeSpec == Init /\ [][Next]_vars

Spec == SafeSpec /\ \A v \in Vertices : WF_vars(Deliver(v))
=============================================================================
