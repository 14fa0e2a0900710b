--------------------------- MODULE MCTransaction ---------------------------
(* TransactionCoordinator on two small transactions, a large one that      *)
(* shares a block with neither, and one that fits into no block.           *)
EXTENDS TransactionCoordinator, TLC

CONSTANTS t1, t2, big, huge

MCSizeOf == [t \in Txs |-> (t1 :> 1 @@ t2 :> 1 @@ big :> 2 @@ huge :> 3)[t]]
=============================================================================
