-------------------------------- MODULE Node --------------------------------
(***************************************************************************)
(* pkg/node/node.go with pkg/vertex/vertex.go: one node as the composition *)
(* of its three coordinators, each a context, a loop goroutine, a receiver *)
(* with one goroutine per connection, and channels, and of the pumps the   *)
(* node runs between the channels.  What the transaction and the consensus *)
(* loop compute is the subject of their own modules; here they make blocks *)
(* and take what is in their channels.  The vertex coordinator is all      *)
(* here: its handler, its channels, its broadcast loop, Start and Stop.    *)
(*                                                                         *)
(* Start and Stop are called by one goroutine, one after the other         *)
(* (cmd/node/main.go).  Each is a list of steps, todo, some of which wait. *)
(* A HandleMessage call runs in a worker or in the connection's goroutine. *)
(***************************************************************************)
EXTENDS Naturals, FiniteSets, Sequences

CONSTANTS
  MaxPeers,   (* how many connections from outside there are at a time           *)
  Vertices,   (* the vertices, numbers given in the order they appear: arrive or *)
              (* are offered for broadcast                                       *)
  Blocks,     (* the blocks, likewise: arrive or are made                        *)
  ChanCap,    (* capacity of the channels (100, 1000, 10000)                     *)
  None        (* nothing held; a call made by a worker                           *)

Items == Vertices \cup Blocks
Components == {"transaction", "vertex", "consensus"}

(* A connection from outside is named after the coordinator whose receiver *)
(* accepted it; "self" is the one of the node's own vertex sender.         *)
Conns == Components \cup {"self"}
ServedBy(c) == IF c = "self" THEN "vertex" ELSE c

(* blocks: transaction's blockCh; received, tosend: vertexCh, broadcastCh  *)
(* of the vertex coordinator; vertices, ordered, offered: vertexCh,        *)
(* blockCh, broadcastCh of consensus.                                      *)
Channels == {"blocks", "received", "tosend", "vertices", "ordered", "offered"}

(* The pumps of connectComponents.  handleOutput, which counts what comes  *)
(* out of a channel nothing writes, is left out.                           *)
Pumps == {"blocks", "vertices", "broadcast"}
Source == [blocks |-> "blocks", vertices |-> "received", broadcast |-> "offered"]
Target == [blocks |-> "ordered", vertices |-> "vertices", broadcast |-> "tosend"]

ASSUME NodeAssumption ==
  /\ MaxPeers \in Nat /\ ChanCap \in Nat \ {0}
  /\ Vertices \cup Blocks \subseteq Nat /\ Vertices \cap Blocks = {}
  /\ None \notin Items /\ None \notin Conns

VARIABLES
  nodeCancelled, (* Node.ctx is cancelled                                        *)
  running,       (* Node.running                                                 *)
  todo,          (* what is left of the Start or Stop under way                  *)
  cancelled,     (* cancelled[x]: the context of coordinator x is cancelled      *)
  loop,          (* loop[x]: "absent" (no coordinator yet), "none", "running",   *)
                 (* "ended"                                                      *)
  listening,     (* listening[x]: the receiver of x accepts connections          *)
  links,         (* connections whose goroutine runs                             *)
  calls,         (* HandleMessage calls under way: item, coordinator, and the    *)
                 (* connection whose goroutine makes the call, or None           *)
  pump,          (* pump[p]: "none", "running", "ended"                          *)
  held,          (* held[p]: what a pump has taken and not passed on, or None    *)
  chan,          (* chan[n]: what is in channel n                                *)
  fresh,         (* items that have not appeared yet                             *)
  due            (* history: the vertices put into received and not yet passed   *)
                 (* on to consensus, in order, until the node is stopped         *)

lifeVars == <<nodeCancelled, running, todo>>
compVars == <<cancelled, loop, listening>>
netVars == <<links, calls>>
pumpVars == <<pump, held>>
vars == <<lifeVars, compVars, netVars, pumpVars, chan, fresh, due>>

TypeOK ==
  /\ nodeCancelled \in BOOLEAN /\ running \in BOOLEAN
  /\ cancelled \in [Components -> BOOLEAN]
  /\ loop \in [Components -> {"absent", "none", "running", "ended"}]
  /\ listening \in [Components -> BOOLEAN]
  /\ links \subseteq Conns
  /\ calls \subseteq [item : Items, at : Components, by : Conns \cup {None}]
  /\ pump \in [Pumps -> {"none", "running", "ended"}]
  /\ held \in [Pumps -> Items \cup {None}]
  /\ chan \in [Channels -> UNION {[1 .. n -> Items] : n \in 0 .. ChanCap}]
  /\ fresh \subseteq Items

(* Node.New: the coordinators do not exist yet. *)
Init ==
  /\ nodeCancelled = FALSE /\ running = FALSE /\ todo = <<>>
  /\ cancelled = [x \in Components |-> FALSE]
  /\ loop = [x \in Components |-> "absent"]
  /\ listening = [x \in Components |-> FALSE]
  /\ links = {} /\ calls = {}
  /\ pump = [p \in Pumps |-> "none"]
  /\ held = [p \in Pumps |-> None]
  /\ chan = [n \in Channels |-> <<>>]
  /\ fresh = Items
  /\ due = <<>>

-----------------------------------------------------------------------------
(* Stop of a coordinator.  The transaction coordinator waits for its loop  *)
(* last, the others first; all wait for the connections of their receiver  *)
(* before they close their sender.                                         *)
StopSteps(x) ==
  IF x = "transaction"
  THEN << <<"cancel", x>>, <<"unlisten", x>>, <<"drain", x>>, <<"await", x>> >>
  ELSE << <<"cancel", x>>, <<"await", x>>, <<"unlisten", x>>, <<"drain", x>> >>

StartSteps == << <<"start", "transaction">>, <<"start", "vertex">>, <<"start", "consensus">>,
                 <<"connect", "node">> >>

(* What Start does when coordinator x does not start. *)
UndoSteps_Mutant_VertexForgotten(x) ==
  IF x = "transaction" THEN <<>> ELSE StopSteps("transaction")

UndoSteps(x) ==
  CASE x = "transaction" -> <<>>
    [] x = "vertex"      -> StopSteps("transaction")
    [] x = "consensus"   -> StopSteps("transaction") \o StopSteps("vertex")

NodeStopSteps == << <<"cancel", "node">> >> \o StopSteps("consensus") \o StopSteps("transaction")
                   \o StopSteps("vertex") \o << <<"await", "node">> >>

(* Start, called on a node that is not running: new coordinators.  What is *)
(* left of a call into an old one ends there.                              *)
Start ==
  /\ todo = <<>> /\ ~running
  /\ todo' = StartSteps
  /\ cancelled' = [x \in Components |-> FALSE]
  /\ loop' = [x \in Components |-> "none"]
  /\ chan' = [n \in Channels |-> <<>>]
  /\ calls' = {} /\ due' = <<>>
  /\ UNCHANGED <<nodeCancelled, running, listening, links, pumpVars, fresh>>

(* Stop; on a node that was never started there is nothing to stop with.   *)
Stop ==
  /\ todo = <<>> /\ loop["consensus"] # "absent"
  /\ todo' = NodeStopSteps
  /\ UNCHANGED <<nodeCancelled, running, compVars, netVars, pumpVars, chan, fresh, due>>

Doing(op, x) == todo # <<>> /\ Head(todo) = <<op, x>> /\ todo' = Tail(todo)

(* Start of a coordinator: its receiver listens, its loop runs. *)
StartOne(x) ==
  /\ Doing("start", x)
  /\ listening' = [listening EXCEPT ![x] = TRUE]
  /\ loop' = [loop EXCEPT ![x] = "running"]
  /\ UNCHANGED <<nodeCancelled, running, cancelled, netVars, pumpVars, chan, fresh, due>>

(* The receiver cannot listen: nothing of x runs. *)
StartFails(x) ==
  /\ todo # <<>> /\ Head(todo) = <<"start", x>>
  /\ todo' = UndoSteps(x)
  /\ UNCHANGED <<nodeCancelled, running, compVars, netVars, pumpVars, chan, fresh, due>>

(* connectComponents, then SetRunning(true) *)
ConnectComponents_Mutant_NoVertexPump ==
  /\ Doing("connect", "node")
  /\ pump' = [p \in Pumps |-> IF p = "vertices" THEN "none" ELSE "running"]
  /\ running' = TRUE
  /\ UNCHANGED <<nodeCancelled, compVars, netVars, held, chan, fresh, due>>

ConnectComponents ==
  /\ Doing("connect", "node")
  /\ pump' = [p \in Pumps |-> "running"]
  /\ running' = TRUE
  /\ UNCHANGED <<nodeCancelled, compVars, netVars, held, chan, fresh, due>>

Cancel ==
  /\ \/ /\ Doing("cancel", "node") /\ nodeCancelled' = TRUE
        /\ due' = <<>>
        /\ UNCHANGED cancelled
     \/ \E x \in Components : /\ Doing("cancel", x)
                              /\ cancelled' = [cancelled EXCEPT ![x] = TRUE]
                              /\ UNCHANGED <<nodeCancelled, due>>
  /\ UNCHANGED <<running, loop, listening, netVars, pumpVars, chan, fresh>>

(* wg.Wait: for the loop of a coordinator; for the pumps of the node,      *)
(* after which it is no longer running.                                    *)
Await ==
  /\ \/ \E x \in Components : Doing("await", x) /\ loop[x] # "running" /\ UNCHANGED running
     \/ Doing("await", "node") /\ (\A p \in Pumps : pump[p] # "running") /\ running' = FALSE
  /\ UNCHANGED <<nodeCancelled, compVars, netVars, pumpVars, chan, fresh, due>>

(* Receiver.Stop closes the listener and waits for the goroutines of the   *)
(* connections; Sender.Close, after it, ends the connections of the        *)
(* coordinator's own sender.                                               *)
StopReceiver ==
  /\ \E x \in Components : Doing("unlisten", x) /\ listening' = [listening EXCEPT ![x] = FALSE]
  /\ UNCHANGED <<nodeCancelled, running, cancelled, loop, netVars, pumpVars, chan, fresh, due>>

DrainAndClose ==
  /\ \E x \in Components :
       /\ Doing("drain", x) /\ \A c \in links : ServedBy(c) # x
       /\ links' = IF x = "vertex" THEN links \ {"self"} ELSE links
  /\ UNCHANGED <<nodeCancelled, running, compVars, calls, pumpVars, chan, fresh, due>>

Lifecycle ==
  \/ \E x \in Components : StartOne(x) \/ StartFails(x)
  \/ ConnectComponents \/ Cancel \/ Await \/ StopReceiver \/ DrainAndClose

-----------------------------------------------------------------------------
(* The receivers, as Receiver shows them. *)
PeerConnects(x) ==
  /\ x \notin links /\ listening[x] /\ Cardinality(links \ {"self"}) < MaxPeers
  /\ links' = links \cup {x}
  /\ UNCHANGED <<lifeVars, compVars, calls, pumpVars, chan, fresh, due>>

(* The peer has closed the connection and its goroutine has seen it. *)
ConnectionEnds(c) ==
  /\ c \in links /\ \A k \in calls : k.by # c
  /\ links' = links \ {c}
  /\ UNCHANGED <<lifeVars, compVars, calls, pumpVars, chan, fresh, due>>

(* i is the next vertex, or the next block, to appear. *)
Appears(i) ==
  /\ i \in fresh /\ \A j \in fresh : (i \in Vertices <=> j \in Vertices) => i <= j
  /\ fresh' = fresh \ {i}

(* A vertex or a block arrives and HandleMessage is called.  The consensus *)
(* coordinator looks at its context first; the vertex handler does not and *)
(* takes nothing but vertices; the transaction handler never waits and is  *)
(* left to TransactionCoordinator.  A vertex that comes over the node's    *)
(* own connection counts as one more vertex.                               *)
HandleMessage(c, i) ==
  /\ c \in links /\ Appears(i) /\ \A k \in calls : k.by # c
  /\ \/ ServedBy(c) = "vertex" /\ i \in Vertices
     \/ ServedBy(c) = "consensus" /\ ~cancelled["consensus"]
  /\ \E by \in {None, c} : calls' = calls \cup {[item |-> i, at |-> ServedBy(c), by |-> by]}
  /\ UNCHANGED <<lifeVars, compVars, links, pumpVars, chan, due>>

Inbox(k) == IF k.at = "vertex" THEN "received" ELSE IF k.item \in Vertices THEN "vertices" ELSE "ordered"

HasRoom_Mutant_OneMore(n) == Len(chan[n]) <= ChanCap

HasRoom(n) == Len(chan[n]) < ChanCap

(* The select of the vertex handler, of HandleVertex and of HandleBlock: a *)
(* channel with room or a cancelled context ends the call.                 *)
CallEnqueues(k) ==
  /\ HasRoom(Inbox(k))
  /\ chan' = [chan EXCEPT ![Inbox(k)] = Append(@, k.item)]
  /\ due' = IF k.at = "vertex" /\ ~nodeCancelled THEN Append(due, k.item) ELSE due
  /\ calls' = calls \ {k}
  /\ UNCHANGED <<lifeVars, compVars, links, pumpVars, fresh>>

CallGivesUp_Mutant_Never(k) == FALSE /\ UNCHANGED vars

CallGivesUp(k) ==
  /\ cancelled[k.at]
  /\ calls' = calls \ {k}
  /\ UNCHANGED <<lifeVars, compVars, links, pumpVars, chan, fresh, due>>

CallStep(i) == \E k \in calls : k.item = i /\ (CallEnqueues(k) \/ CallGivesUp(k))

-----------------------------------------------------------------------------
(* The loops.  A block for which there is no room is dropped (createBlock). *)
CreateBlock(b) ==
  /\ loop["transaction"] = "running" /\ Appears(b)
  /\ chan' = IF HasRoom("blocks") THEN [chan EXCEPT !["blocks"] = Append(@, b)] ELSE chan
  /\ UNCHANGED <<lifeVars, compVars, netVars, pumpVars, due>>

ConsensusTakes ==
  /\ loop["consensus"] = "running"
  /\ \E n \in {"vertices", "ordered"} : chan[n] # <<>> /\ chan' = [chan EXCEPT ![n] = Tail(@)]
  /\ UNCHANGED <<lifeVars, compVars, netVars, pumpVars, fresh, due>>

(* A vertex to broadcast.  In this version of the program nothing writes   *)
(* the channel; whoever is to, will do it like this.                       *)
OfferVertex(v) ==
  /\ loop["consensus"] = "running" /\ Appears(v) /\ HasRoom("offered")
  /\ chan' = [chan EXCEPT !["offered"] = Append(@, v)]
  /\ UNCHANGED <<lifeVars, compVars, netVars, pumpVars, due>>

(* handleBroadcast: the vertex goes to all validators, this one included;  *)
(* dialling may fail.                                                      *)
HandleBroadcast ==
  /\ loop["vertex"] = "running" /\ chan["tosend"] # <<>>
  /\ chan' = [chan EXCEPT !["tosend"] = Tail(@)]
  /\ \/ listening["vertex"] /\ links' = links \cup {"self"}
     \/ UNCHANGED links
  /\ UNCHANGED <<lifeVars, compVars, calls, pumpVars, fresh, due>>

LoopExits(x) ==
  /\ loop[x] = "running" /\ cancelled[x]
  /\ loop' = [loop EXCEPT ![x] = "ended"]
  /\ UNCHANGED <<lifeVars, cancelled, listening, netVars, pumpVars, chan, fresh, due>>

-----------------------------------------------------------------------------
(* A pump takes an item from its source.  HandleBlock and HandleVertex     *)
(* refuse it when consensus is cancelled.                                  *)
PumpTakes(p) ==
  /\ pump[p] = "running" /\ held[p] = None /\ chan[Source[p]] # <<>>
  /\ held' = [held EXCEPT ![p] = IF p # "broadcast" /\ cancelled["consensus"]
                                 THEN None ELSE Head(chan[Source[p]])]
  /\ chan' = [chan EXCEPT ![Source[p]] = Tail(@)]
  /\ UNCHANGED <<lifeVars, compVars, netVars, pump, fresh, due>>

PumpGives_Mutant_DropsWhenFull(p) ==
  /\ held[p] # None
  /\ IF HasRoom(Target[p])
     THEN /\ chan' = [chan EXCEPT ![Target[p]] = Append(@, held[p])]
          /\ due' = IF p = "vertices" /\ ~nodeCancelled THEN Tail(due) ELSE due
     ELSE UNCHANGED <<chan, due>>
  /\ held' = [held EXCEPT ![p] = None]
  /\ UNCHANGED <<lifeVars, compVars, netVars, pump, fresh>>

PumpGives(p) ==
  /\ held[p] # None /\ HasRoom(Target[p])
  /\ chan' = [chan EXCEPT ![Target[p]] = Append(@, held[p])]
  /\ due' = IF p = "vertices" /\ ~nodeCancelled THEN Tail(due) ELSE due
  /\ held' = [held EXCEPT ![p] = None]
  /\ UNCHANGED <<lifeVars, compVars, netVars, pump, fresh>>

(* The context of consensus ends a HandleBlock or HandleVertex call that   *)
(* waits; the pump goes on.                                                *)
PumpGivesUp(p) ==
  /\ p # "broadcast" /\ held[p] # None /\ cancelled["consensus"]
  /\ held' = [held EXCEPT ![p] = None]
  /\ UNCHANGED <<lifeVars, compVars, netVars, pump, chan, fresh, due>>

(* The node's context ends a pump between two items, and the broadcast     *)
(* pump also while it waits.                                               *)
PumpExits(p) ==
  /\ pump[p] = "running" /\ nodeCancelled
  /\ held[p] = None \/ p = "broadcast"
  /\ pump' = [pump EXCEPT ![p] = "ended"]
  /\ held' = [held EXCEPT ![p] = None]
  /\ UNCHANGED <<lifeVars, compVars, netVars, chan, fresh, due>>

Next ==
  \/ Start \/ Stop \/ Lifecycle
  \/ \E x \in Components : PeerConnects(x)
  \/ \E c \in Conns : ConnectionEnds(c) \/ \E i \in Items : HandleMessage(c, i)
  \/ \E i \in Items : CallStep(i)
  \/ \E b \in Blocks : CreateBlock(b)
  \/ \E v \in Vertices : OfferVertex(v)
  \/ ConsensusTakes \/ HandleBroadcast
  \/ \E x \in Components : LoopExits(x)
  \/ \E p \in Pumps : PumpTakes(p) \/ PumpGives(p) \/ PumpGivesUp(p) \/ PumpExits(p)

SafeSpec == Init /\ [][Next]_vars

(* Goroutines that can run do run, and a select takes a case that stays    *)
(* ready in the end (Go chooses at random).  Nobody need call Start or     *)
(* Stop, connect, close a connection, or send.                             *)
Spec ==
  /\ SafeSpec
  /\ WF_vars(Lifecycle) /\ WF_vars(ConsensusTakes) /\ WF_vars(HandleBroadcast)
  /\ \A x \in Components : WF_vars(LoopExits(x))
  /\ \A p \in Pumps : WF_vars(PumpTakes(p) \/ PumpGives(p) \/ PumpGivesUp(p)) /\ WF_vars(PumpExits(p))
  /\ \A i \in Items : WF_vars(CallStep(i))

-----------------------------------------------------------------------------
(* Whenever neither Start nor Stop is under way and the node does not run, *)
(* after a Stop, a second Stop, or a Start that failed half way, no loop,  *)
(* no listener, no connection and no pump of it is left (node.go, Start,   *)
(* Stop).                                                                  *)
QuietWhenDown ==
  (todo = <<>> /\ ~running) =>
    /\ \A x \in Components : loop[x] # "running" /\ ~listening[x]
    /\ links = {}
    /\ \A p \in Pumps : pump[p] # "running"

(* Until the node is stopped the vertices the vertex coordinator took from *)
(* the network reach consensus in the same order and none is lost on the   *)
(* way (node.go, connectComponents; vertex.go, HandleMessage).             *)
VerticesInOrder ==
  ~nodeCancelled =>
    due = (IF held["vertices"] = None THEN <<>> ELSE <<held["vertices"]>>) \o chan["received"]

(* A vertex the vertex coordinator took from the network is passed on to   *)
(* consensus unless the node is stopped (node.go, connectComponents).      *)
VerticesArePassedOn ==
  \A v \in Vertices :
    (running /\ \E i \in DOMAIN due : due[i] = v)
      ~> (nodeCancelled \/ \A i \in DOMAIN due : due[i] # v)

(* The other nodes and the clients close their connections in the end. *)
PeersLeave == \A x \in Components : WF_vars(ConnectionEnds(x))

(* Start and Stop return, whatever waits on whatever at that moment,       *)
(* provided that the other nodes and clients close their connections, and  *)
(* unless the node is connected to itself: that connection is closed only  *)
(* after Stop has waited for it (node.go, Start, Stop; vertex.go, Stop).   *)
StartAndStopEnd ==
  PeersLeave => (todo # <<>> ~> (todo = <<>> \/ "self" \in links))

=============================================================================
