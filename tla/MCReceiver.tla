----------------------------- MODULE MCReceiver -----------------------------
(* Receiver with a connection of two frames and one of one frame.          *)
EXTENDS Receiver, TLC

CONSTANTS c1, c2

MCLengths == c1 :> {1, 2} @@ c2 :> {1}
MCMaxFrames == c1 :> 2 @@ c2 :> 1
=============================================================================
