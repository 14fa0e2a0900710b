--------------------------- MODULE ConsensusState ---------------------------
(***************************************************************************)
(* pkg/consensus/state.go: the vertex store of a node.  A vertex that is   *)
(* early (its round is ahead, or a parent is missing) waits in a buffer;   *)
(* every insertion and every new round scans the buffer until a pass       *)
(* inserts nothing.                                                        *)
(*                                                                         *)
(* Every method holds State.mu from beginning to end.  The calls of        *)
(* processBuffer are modelled one loop iteration at a time, with pc =      *)
(* "scan" while the lock is held inside it: no other method can start      *)
(* until the scan is over, as in the code.                                 *)
(***************************************************************************)
EXTENDS DAG, Sequences

CONSTANTS
  Blocks,      (* the blocks handed to AddBlockToPropose, each once      *)
  MaxRound,    (* bound: AdvanceRound is called at most this often       *)
  MaxBuffer    (* bound: the buffer of the code grows without a limit    *)

ASSUME StateBounds == MaxRound \in Nat /\ MaxBuffer \in Nat

VARIABLES
  currentRound,     (* State.currentRound                                       *)
  delivered,        (* State.deliveredVertices                                  *)
  buffer,           (* State.buffer                                             *)
  blocksToPropose,  (* State.blocksToPropose                                    *)
  pc,               (* "scan": inside processBuffer; "idle": the lock is free   *)
  idx,              (* processBuffer: position of the next vertex of this pass  *)
  remaining,        (* processBuffer: local remaining                           *)
  processed,        (* processBuffer: local processed                           *)
  accepted,         (* history: the vertices AddVertex did not ignore           *)
  marked,           (* history: the vertices given to MarkVertexDelivered       *)
  added,            (* history: the blocks added so far, in order               *)
  proposed          (* history: the blocks returned so far, in order            *)

historyVars == <<accepted, marked>>
scanVars == <<pc, idx, remaining, processed>>
blockVars == <<blocksToPropose, added, proposed>>
vars == <<vertices, strongEdges, weakEdges, currentRound, delivered, buffer,
          pc, idx, remaining, processed, accepted, marked, blocksToPropose, added, proposed>>

TypeOK ==
  /\ DAGTypeOK
  /\ currentRound \in Nat
  /\ delivered \in SUBSET Vertices
  /\ buffer \in Seq(Vertices)
  /\ pc \in {"idle", "scan"}
  /\ idx \in 1 .. Len(buffer) + 1
  /\ remaining \in Seq(Vertices)
  /\ processed \in BOOLEAN
  /\ accepted \in SUBSET Vertices
  /\ marked \in SUBSET Vertices
  /\ blocksToPropose \in Seq(Blocks)
  /\ added \in Seq(Blocks)
  /\ proposed \in Seq(Blocks)

(* NewState *)
Init ==
  /\ NewDAG
  /\ currentRound = 0
  /\ delivered = {Genesis}
  /\ buffer = <<>>
  /\ pc = "idle" /\ idx = 1 /\ remaining = <<>> /\ processed = FALSE
  /\ accepted = {} /\ marked = {}
  /\ blocksToPropose = <<>> /\ added = <<>> /\ proposed = <<>>

-----------------------------------------------------------------------------
(* The test AddVertex and processBuffer share. *)
Ready_Mutant_RoundOnly(v) == RoundOf[v] <= currentRound

Ready_Mutant_ParentsOnly(v) == ContainsVertices(Parents[v])

Ready(v) == RoundOf[v] <= currentRound /\ ContainsVertices(Parents[v])

(* The head of processBuffer's loops: a pass starts with the first vertex. *)
StartPass == pc' = "scan" /\ idx' = 1 /\ remaining' = <<>> /\ processed' = FALSE

(* AddVertex of a vertex that can be inserted at once. *)
AddVertexNow(v) ==
  /\ pc = "idle"
  /\ v \notin delivered
  /\ Ready(v)
  /\ InsertVertex(v)
  /\ delivered' = delivered \cup {v}
  /\ accepted' = accepted \cup {v}
  /\ StartPass
  /\ UNCHANGED <<currentRound, buffer, marked, blockVars>>

(* AddVertex of a vertex that has to wait.  A vertex that waits already is *)
(* appended once more.  (AddVertex of a delivered vertex changes nothing.) *)
AddVertexLater(v) ==
  /\ pc = "idle"
  /\ v \notin delivered
  /\ ~Ready(v)
  /\ Len(buffer) < MaxBuffer
  /\ buffer' = Append(buffer, v)
  /\ accepted' = accepted \cup {v}
  /\ UNCHANGED <<dagVars, currentRound, delivered, marked, scanVars, blockVars>>

AdvanceRound_Mutant_NoScan ==
  /\ pc = "idle"
  /\ currentRound < MaxRound
  /\ currentRound' = currentRound + 1
  /\ UNCHANGED <<dagVars, delivered, buffer, historyVars, scanVars, blockVars>>

AdvanceRound ==
  /\ pc = "idle"
  /\ currentRound < MaxRound
  /\ currentRound' = currentRound + 1
  /\ StartPass
  /\ UNCHANGED <<dagVars, delivered, buffer, historyVars, blockVars>>

MarkVertexDelivered(v) ==
  /\ pc = "idle"
  /\ delivered' = delivered \cup {v}
  /\ marked' = marked \cup {v}
  /\ UNCHANGED <<dagVars, currentRound, buffer, accepted, scanVars, blockVars>>

(* One iteration of processBuffer's inner loop: the vertex is inserted ... *)
ScanInsert ==
  /\ pc = "scan"
  /\ idx <= Len(buffer)
  /\ Ready(buffer[idx])
  /\ InsertVertex(buffer[idx])
  /\ delivered' = delivered \cup {buffer[idx]}
  /\ processed' = TRUE
  /\ idx' = idx + 1
  /\ UNCHANGED <<currentRound, buffer, pc, remaining, historyVars, blockVars>>

(* ... or stays for the next pass. *)
ScanKeep_Mutant_Dropped ==
  /\ pc = "scan"
  /\ idx <= Len(buffer)
  /\ ~Ready(buffer[idx])
  /\ idx' = idx + 1
  /\ UNCHANGED <<dagVars, currentRound, delivered, buffer, pc, processed, remaining,
                 historyVars, blockVars>>

ScanKeep ==
  /\ pc = "scan"
  /\ idx <= Len(buffer)
  /\ ~Ready(buffer[idx])
  /\ remaining' = Append(remaining, buffer[idx])
  /\ idx' = idx + 1
  /\ UNCHANGED <<dagVars, currentRound, delivered, buffer, pc, processed, historyVars, blockVars>>

(* The end of a pass: what remains is the buffer; another pass follows if  *)
(* this one inserted a vertex, otherwise the method returns.               *)
Return == pc' = "idle" /\ idx' = 1 /\ remaining' = <<>> /\ processed' = FALSE

EndPass_Mutant_OnePass ==
  /\ pc = "scan"
  /\ idx > Len(buffer)
  /\ buffer' = remaining
  /\ Return
  /\ UNCHANGED <<dagVars, currentRound, delivered, historyVars, blockVars>>

EndPass_Mutant_NotReset ==
  /\ pc = "scan"
  /\ idx > Len(buffer)
  /\ buffer' = remaining
  /\ IF processed THEN pc' = pc /\ idx' = 1 /\ remaining' = <<>> /\ processed' = processed
                  ELSE Return
  /\ UNCHANGED <<dagVars, currentRound, delivered, historyVars, blockVars>>

EndPass ==
  /\ pc = "scan"
  /\ idx > Len(buffer)
  /\ buffer' = remaining
  /\ IF processed THEN StartPass ELSE Return
  /\ UNCHANGED <<dagVars, currentRound, delivered, historyVars, blockVars>>

processBuffer == ScanInsert \/ ScanKeep \/ EndPass

AddBlockToPropose(b) ==
  /\ pc = "idle"
  /\ \A i \in DOMAIN added : added[i] # b
  /\ blocksToPropose' = Append(blocksToPropose, b)
  /\ added' = Append(added, b)
  /\ UNCHANGED <<dagVars, currentRound, delivered, buffer, historyVars, scanVars, proposed>>

GetNextBlockToPropose_Mutant_LastFirst ==
  /\ pc = "idle"
  /\ blocksToPropose # <<>>
  /\ proposed' = Append(proposed, blocksToPropose[Len(blocksToPropose)])
  /\ blocksToPropose' = SubSeq(blocksToPropose, 1, Len(blocksToPropose) - 1)
  /\ UNCHANGED <<dagVars, currentRound, delivered, buffer, historyVars, scanVars, added>>

GetNextBlockToPropose ==
  /\ pc = "idle"
  /\ blocksToPropose # <<>>
  /\ proposed' = Append(proposed, Head(blocksToPropose))
  /\ blocksToPropose' = Tail(blocksToPropose)
  /\ UNCHANGED <<dagVars, currentRound, delivered, buffer, historyVars, scanVars, added>>

Next ==
  \/ \E v \in Vertices : AddVertexNow(v) \/ AddVertexLater(v) \/ MarkVertexDelivered(v)
  \/ AdvanceRound
  \/ processBuffer
  \/ \E b \in Blocks : AddBlockToPropose(b)
  \/ GetNextBlockToPropose

(* A method that holds the lock runs on until it returns. *)
SafeSpec == Init /\ [][Next]_vars
Spec == SafeSpec /\ WF_vars(processBuffer)

-----------------------------------------------------------------------------
Waiting == {buffer[i] : i \in idx .. Len(buffer)} \cup {remaining[i] : i \in DOMAIN remaining}

(* At every moment, also in the middle of a scan, the graph is closed      *)
(* under parents and holds no vertex of a round the node has not reached   *)
(* (state.go, the test before each InsertVertex).                          *)
CausallyClosed ==
  \A v \in vertices : Parents[v] \subseteq vertices /\ RoundOf[v] <= currentRound

(* No vertex that AddVertex took in is ever lost: it is in the graph or it *)
(* still waits, while the buffer is rebuilt as well; and AddVertex ignores *)
(* no vertex but those in the graph and those MarkVertexDelivered was      *)
(* called with (state.go, AddVertex, processBuffer).                       *)
NothingLost ==
  /\ accepted \cup {Genesis} = vertices \cup Waiting
  /\ delivered \subseteq vertices \cup marked

(* When no method runs, no waiting vertex could be inserted: the scan      *)
(* stops only when a whole pass inserted nothing, and every change that    *)
(* can make a vertex ready is followed by a scan (state.go, processBuffer, *)
(* AddVertex, AdvanceRound).                                               *)
NothingReadyWaits ==
  pc = "idle" => \A i \in DOMAIN buffer : ~Ready(buffer[i])

(* The vertices the node may deliver of those it was given: the largest    *)
(* set of them that is closed under parents and within its round.          *)
Deliverable(given, r) ==
  UNION {D \in SUBSET given :
           \A v \in D : RoundOf[v] <= r /\ Parents[v] \subseteq D}

(* When no method runs, the graph is determined by which vertices the node *)
(* was given and by its round, and not by the order in which they came,    *)
(* how often, or when the rounds advanced.  Two nodes that took in the     *)
(* same vertices hold the same graph (state.go, AddVertex, AdvanceRound,   *)
(* processBuffer).                                                         *)
OrderIndependent ==
  pc = "idle" => vertices = Deliverable(accepted \cup {Genesis}, currentRound)

(* Every vertex of the graph is recorded as delivered, so AddVertex never  *)
(* inserts one twice (state.go, the first test of AddVertex).              *)
InsertedIsDelivered == vertices \subseteq delivered

(* Blocks are proposed in the order they were added and each one once      *)
(* (state.go, AddBlockToPropose, GetNextBlockToPropose).                   *)
ProposalsInOrder == added = proposed \o blocksToPropose

(* processBuffer terminates: the lock is always released again.            *)
ScanEnds == pc = "scan" ~> pc = "idle"

(* The store implements causal delivery (CausalDelivery.tla), its promise  *)
(* that no deliverable vertex waits for ever included.                     *)
CD == INSTANCE CausalDelivery
        WITH known <- accepted \cup {Genesis}, round <- currentRound, output <- vertices
ImplementsCausalDelivery == CD!Spec
ImplementsCausalDeliverySafety == CD!SafeSpec
=============================================================================
