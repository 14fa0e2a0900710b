------------------------------ MODULE MCSender ------------------------------
(* Sender with one caller that broadcasts to two addresses and one that    *)
(* sends to either of them.                                                *)
EXTENDS Sender, TLC

CONSTANTS c1, c2, a1, a2

MCTargets == c1 :> <<a1, a2>> @@ c2 :> <<a2>>
=============================================================================
