------------------------------ MODULE Receiver ------------------------------
(***************************************************************************)
(* pkg/network/network.go, Receiver: an accept loop, one goroutine per     *)
(* connection that cuts the byte stream into messages, a pool of workers   *)
(* that hand messages to the handler, and a pool of buffers shared by all  *)
(* of them.                                                                *)
(*                                                                         *)
(* Bytes are known by their position in the stream of their connection; a  *)
(* frame is where it begins and the length of its body, and its first      *)
(* HeaderSize bytes say that length.  Where the stream is read out of      *)
(* step, the bytes taken for a header say any length.  A timeout or a      *)
(* close of the other end may come after any number of bytes.              *)
(* activeConnections and the map conns of the receiver are written and     *)
(* never read; they are left out.                                          *)
(***************************************************************************)
EXTENDS Naturals, FiniteSets, Sequences

CONSTANTS
  Conns,           (* connections, one per peer                                 *)
  Lengths,         (* Lengths[c]: lengths of the bodies the peer of c may send  *)
  HeaderSize,      (* 4                                                         *)
  MaxMessageSize,  (* 1 MB                                                      *)
  NumWorkers,      (* slots of workerPool (20)                                  *)
  Buffers,         (* byte slices of bufferPool                                 *)
  None,            (* no buffer, no connection                                  *)
  MaxFrames,       (* bound: MaxFrames[c] frames are sent on c                  *)
  HandlerCopies    (* whether the handler decodes its data into an object of    *)
                   (* its own (vertices, blocks) or keeps the slice             *)
                   (* (transactions)                                            *)

ASSUME ReceiverAssumption ==
  /\ \A c \in Conns : Lengths[c] \subseteq Nat
  /\ HeaderSize \in Nat \ {0}
  /\ MaxMessageSize \in Nat
  /\ NumWorkers \in Nat
  /\ None \notin Buffers \cup Conns
  /\ MaxFrames \in [Conns -> Nat]
  /\ HandlerCopies \in BOOLEAN

VARIABLES
  listener,   (* "new", "open", "closed"                                          *)
  acceptLoop, (* the accept loop runs                                             *)
  stop,       (* Stop: "no", "called", "returned"                                 *)
  peer,       (* peer[c]: "none", "open", "closed"                                *)
  sent,       (* sent[c]: the frames the peer of c has sent                       *)
  arrived,    (* arrived[c]: how many bytes of c have come or are on their way    *)
  pos,        (* pos[c]: how many of them are read                                *)
  reader,     (* handleConnection for c: "none", "header", "body", "busy" (it     *)
              (* handles a message itself) or "ended"                             *)
  length,     (* length[c]: what the header said, while the body is read          *)
  buf,        (* buf[c]: the buffer the body is read into                         *)
  bufferPool, (* the buffers free to be taken                                     *)
  handling,   (* the calls of HandleMessage under way: message, buffer, and the   *)
              (* connection whose goroutine makes the call, None for a worker     *)
  kept,       (* what the handler made of its messages: the message and the       *)
              (* buffer it still refers to, None if it has copied the data        *)
  spoiled,    (* history: messages overwritten while handled or kept              *)
  got,        (* history: got[c], the messages read from c while it is in step    *)
  inStep      (* history: inStep[c], no byte of c was lost or misread             *)

lifeVars == <<listener, acceptLoop, stop>>
streamVars == <<peer, sent, arrived, pos>>
readVars == <<reader, length, buf>>
handleVars == <<bufferPool, handling, kept, spoiled>>
stepVars == <<got, inStep>>
vars == <<lifeVars, streamVars, readVars, handleVars, stepVars>>

Frame == [at : Nat, len : Nat]
Message == [conn : Conns, at : Nat, len : Nat]
Junk(c) == [conn |-> c, at |-> 0, len |-> 0]   (* any message read out of step *)

Workers == {h \in handling : h.by = None}

TypeOK ==
  /\ listener \in {"new", "open", "closed"}
  /\ acceptLoop \in BOOLEAN
  /\ stop \in {"no", "called", "returned"}
  /\ peer \in [Conns -> {"none", "open", "closed"}]
  /\ \A c \in Conns : /\ sent[c] \in Seq(Frame)
                      /\ arrived[c] \in Nat /\ pos[c] \in 0 .. arrived[c]
                      /\ got[c] \in Seq(Message)
  /\ reader \in [Conns -> {"none", "header", "body", "busy", "ended"}]
  /\ length \in [Conns -> 0 .. MaxMessageSize]
  /\ buf \in [Conns -> Buffers \cup {None}]
  /\ bufferPool \subseteq Buffers
  /\ handling \subseteq [msg : Message, buf : Buffers, by : Conns \cup {None}]
  /\ Cardinality(Workers) <= NumWorkers
  /\ kept \subseteq [msg : Message, buf : Buffers \cup {None}]
  /\ spoiled \subseteq Message
  /\ inStep \in [Conns -> BOOLEAN]

(* NewReceiver *)
Init ==
  /\ listener = "new" /\ acceptLoop = FALSE /\ stop = "no"
  /\ peer = [c \in Conns |-> "none"]
  /\ sent = [c \in Conns |-> <<>>]
  /\ arrived = [c \in Conns |-> 0]
  /\ pos = [c \in Conns |-> 0]
  /\ reader = [c \in Conns |-> "none"]
  /\ length = [c \in Conns |-> 0]
  /\ buf = [c \in Conns |-> None]
  /\ bufferPool = Buffers
  /\ handling = {} /\ kept = {} /\ spoiled = {}
  /\ got = [c \in Conns |-> <<>>]
  /\ inStep = [c \in Conns |-> TRUE]

-----------------------------------------------------------------------------
(* The peers: connect, send a frame, go away.  The bytes on their way when *)
(* a peer goes away may be lost.                                           *)
PeerConnects(c) ==
  /\ peer[c] = "none" /\ listener = "open"
  /\ peer' = [peer EXCEPT ![c] = "open"]
  /\ UNCHANGED <<lifeVars, sent, arrived, pos, readVars, handleVars, stepVars>>

PeerSends(c, l) ==
  /\ peer[c] = "open" /\ Len(sent[c]) < MaxFrames[c]
  /\ sent' = [sent EXCEPT ![c] = Append(@, [at |-> arrived[c], len |-> l])]
  /\ arrived' = [arrived EXCEPT ![c] = @ + HeaderSize + l]
  /\ UNCHANGED <<lifeVars, peer, pos, readVars, handleVars, stepVars>>

OutOfStep(c) ==
  /\ inStep' = [inStep EXCEPT ![c] = FALSE]
  /\ got' = [got EXCEPT ![c] = <<>>]

PeerCloses(c) ==
  /\ peer[c] = "open"
  /\ peer' = [peer EXCEPT ![c] = "closed"]
  /\ \/ UNCHANGED <<arrived, stepVars>>
     \/ \E k \in pos[c] .. arrived[c] - 1 :
          arrived' = [arrived EXCEPT ![c] = k] /\ OutOfStep(c)
  /\ UNCHANGED <<lifeVars, sent, pos, readVars, handleVars>>

-----------------------------------------------------------------------------
(* Start, when the address can be listened on; otherwise nothing changes. *)
Start ==
  /\ listener = "new" /\ stop = "no"
  /\ listener' = "open" /\ acceptLoop' = TRUE
  /\ UNCHANGED <<stop, streamVars, readVars, handleVars, stepVars>>

Accept(c) ==
  /\ acceptLoop /\ listener = "open"
  /\ peer[c] # "none" /\ reader[c] = "none"
  /\ reader' = [reader EXCEPT ![c] = "header"]
  /\ UNCHANGED <<lifeVars, streamVars, length, buf, handleVars, stepVars>>

AcceptLoopEnds ==
  /\ acceptLoop /\ listener = "closed"
  /\ acceptLoop' = FALSE
  /\ UNCHANGED <<listener, stop, streamVars, readVars, handleVars, stepVars>>

(* Stop: close the listener, if there is one, and wait for the accept loop *)
(* and the connections' goroutines, not for the workers.                   *)
Stop ==
  /\ stop = "no"
  /\ stop' = "called"
  /\ listener' = IF listener = "open" THEN "closed" ELSE listener
  /\ UNCHANGED <<acceptLoop, streamVars, readVars, handleVars, stepVars>>

StopReturns ==
  /\ stop = "called"
  /\ ~acceptLoop
  /\ \A c \in Conns : reader[c] \in {"none", "ended"}
  /\ stop' = "returned"
  /\ UNCHANGED <<listener, acceptLoop, streamVars, readVars, handleVars, stepVars>>

-----------------------------------------------------------------------------
(* handleConnection *)
Needed(c) == IF reader[c] = "header" THEN HeaderSize ELSE length[c]
Reading(c) == reader[c] \in {"header", "body"}
Unread(c) == arrived[c] - pos[c]

(* io.ReadFull takes the next k bytes of c. *)
Take(c, k) == pos' = [pos EXCEPT ![c] = @ + k]

(* The goroutine has no message any more and goes on as r says. *)
Drop(c, r) ==
  /\ reader' = [reader EXCEPT ![c] = r]
  /\ length' = [length EXCEPT ![c] = 0]
  /\ buf' = [buf EXCEPT ![c] = None]

(* The lengths the next HeaderSize bytes can say. *)
HeaderSays(c) ==
  LET here == {n \in DOMAIN sent[c] : sent[c][n].at = pos[c]}
  IN  IF here # {} THEN {sent[c][n].len : n \in here} ELSE 0 .. MaxMessageSize + 1

(* A header is there, and the length is allowed: take a buffer.  Which one *)
(* the pool gives makes no difference.                                     *)
ReadHeader_Mutant_NoLimit(c) ==
  /\ reader[c] = "header" /\ Unread(c) >= HeaderSize
  /\ \E l \in HeaderSays(c) : length' = [length EXCEPT ![c] = l]
  /\ bufferPool # {}
  /\ LET b == CHOOSE x \in bufferPool : TRUE
     IN  buf' = [buf EXCEPT ![c] = b] /\ bufferPool' = bufferPool \ {b}
  /\ Take(c, HeaderSize)
  /\ reader' = [reader EXCEPT ![c] = "body"]
  /\ UNCHANGED <<lifeVars, peer, sent, arrived, handling, kept, spoiled, stepVars>>

ReadHeader_Mutant_OneShort(c) ==
  /\ reader[c] = "header" /\ Unread(c) >= HeaderSize
  /\ \E l \in HeaderSays(c) : /\ l <= MaxMessageSize
                              /\ length' = [length EXCEPT ![c] = IF l = 0 THEN 0 ELSE l - 1]
  /\ bufferPool # {}
  /\ LET b == CHOOSE x \in bufferPool : TRUE
     IN  buf' = [buf EXCEPT ![c] = b] /\ bufferPool' = bufferPool \ {b}
  /\ Take(c, HeaderSize)
  /\ reader' = [reader EXCEPT ![c] = "body"]
  /\ UNCHANGED <<lifeVars, peer, sent, arrived, handling, kept, spoiled, stepVars>>

ReadHeader(c) ==
  /\ reader[c] = "header" /\ Unread(c) >= HeaderSize
  /\ \E l \in HeaderSays(c) : /\ l <= MaxMessageSize
                              /\ length' = [length EXCEPT ![c] = l]
  /\ bufferPool # {}
  /\ LET b == CHOOSE x \in bufferPool : TRUE
     IN  buf' = [buf EXCEPT ![c] = b] /\ bufferPool' = bufferPool \ {b}
  /\ Take(c, HeaderSize)
  /\ reader' = [reader EXCEPT ![c] = "body"]
  /\ UNCHANGED <<lifeVars, peer, sent, arrived, handling, kept, spoiled, stepVars>>

(* The length is too large: the loop goes on with the next header, that is *)
(* with the bytes of the body.                                             *)
SkipHeader(c) ==
  /\ reader[c] = "header" /\ Unread(c) >= HeaderSize
  /\ \E l \in HeaderSays(c) : l > MaxMessageSize
  /\ Take(c, HeaderSize)
  /\ OutOfStep(c)
  /\ UNCHANGED <<lifeVars, peer, sent, arrived, readVars, handleVars>>

(* k bytes are written into the buffer of c. *)
Fill(c, k) ==
  spoiled' = IF k = 0 THEN spoiled
             ELSE spoiled \cup {h.msg : h \in {x \in handling \cup kept : x.buf = buf[c]}}

(* The body is there.  The message goes to a worker, with the buffer, or,  *)
(* if all are busy, is handled by this goroutine.                          *)
ReadBody_Mutant_BufferReturned(c) ==
  LET m == IF inStep[c] THEN [conn |-> c, at |-> pos[c], len |-> length[c]] ELSE Junk(c)
      by == IF Cardinality(Workers) < NumWorkers THEN None ELSE c
  IN  /\ reader[c] = "body" /\ Unread(c) >= length[c]
      /\ Take(c, length[c])
      /\ Fill(c, length[c])
      /\ got' = IF inStep[c] THEN [got EXCEPT ![c] = Append(@, m)] ELSE got
      /\ handling' = handling \cup {[msg |-> m, buf |-> buf[c], by |-> by]}
      /\ Drop(c, IF by = c THEN "busy" ELSE "header")
      /\ bufferPool' = bufferPool \cup {buf[c]}
      /\ UNCHANGED <<lifeVars, peer, sent, arrived, kept, inStep>>

ReadBody_Mutant_DroppedWhenBusy(c) ==
  LET m == IF inStep[c] THEN [conn |-> c, at |-> pos[c], len |-> length[c]] ELSE Junk(c)
      by == IF Cardinality(Workers) < NumWorkers THEN None ELSE c
  IN  /\ reader[c] = "body" /\ Unread(c) >= length[c]
      /\ Take(c, length[c])
      /\ Fill(c, length[c])
      /\ got' = IF inStep[c] THEN [got EXCEPT ![c] = Append(@, m)] ELSE got
      /\ handling' = IF by = c THEN handling ELSE handling \cup {[msg |-> m, buf |-> buf[c], by |-> by]}
      /\ Drop(c, "header")
      /\ bufferPool' = IF by = c THEN bufferPool \cup {buf[c]} ELSE bufferPool
      /\ UNCHANGED <<lifeVars, peer, sent, arrived, kept, inStep>>

ReadBody(c) ==
  LET m == IF inStep[c] THEN [conn |-> c, at |-> pos[c], len |-> length[c]] ELSE Junk(c)
      by == IF Cardinality(Workers) < NumWorkers THEN None ELSE c
  IN  /\ reader[c] = "body" /\ Unread(c) >= length[c]
      /\ Take(c, length[c])
      /\ Fill(c, length[c])
      /\ got' = IF inStep[c] THEN [got EXCEPT ![c] = Append(@, m)] ELSE got
      /\ handling' = handling \cup {[msg |-> m, buf |-> buf[c], by |-> by]}
      /\ Drop(c, IF by = c THEN "busy" ELSE "header")
      /\ UNCHANGED <<lifeVars, peer, sent, arrived, bufferPool, kept, inStep>>

(* A read ends with an error after k bytes, and the loop goes on: in the   *)
(* header these bytes are lost, in the body the header too.                *)
ReadFails_Mutant_BufferLost(c, k) ==
  /\ Take(c, k)
  /\ IF k = 0 /\ reader[c] = "header" THEN UNCHANGED stepVars ELSE OutOfStep(c)
  /\ Fill(c, IF reader[c] = "body" THEN k ELSE 0)
  /\ Drop(c, "header")
  /\ UNCHANGED <<lifeVars, peer, sent, arrived, bufferPool, handling, kept>>

ReadFails(c, k) ==
  /\ Take(c, k)
  /\ IF k = 0 /\ reader[c] = "header" THEN UNCHANGED stepVars ELSE OutOfStep(c)
  /\ Fill(c, IF reader[c] = "body" THEN k ELSE 0)
  /\ bufferPool' = bufferPool \cup ({buf[c]} \ {None})
  /\ Drop(c, "header")
  /\ UNCHANGED <<lifeVars, peer, sent, arrived, handling, kept>>

(* The read deadline passes before the rest has arrived. *)
ReadTimeout(c) ==
  /\ Reading(c) /\ peer[c] = "open"
  /\ \E k \in 0 .. Unread(c) : k < Needed(c) /\ ReadFails(c, k)

(* The other end has closed the connection in the middle of a message. *)
ReadCutShort(c) ==
  /\ Reading(c) /\ peer[c] = "closed"
  /\ Unread(c) < Needed(c)
  /\ reader[c] = "body" \/ Unread(c) > 0
  /\ ReadFails(c, Unread(c))

(* io.EOF: the other end has closed the connection between two messages. *)
ReadEOF_Mutant_Retried(c) ==
  /\ reader[c] = "header" /\ peer[c] = "closed" /\ Unread(c) = 0
  /\ UNCHANGED vars

ReadEOF(c) ==
  /\ reader[c] = "header" /\ peer[c] = "closed" /\ Unread(c) = 0
  /\ reader' = [reader EXCEPT ![c] = "ended"]
  /\ UNCHANGED <<lifeVars, streamVars, length, buf, handleVars, stepVars>>

(* HandleMessage returns; the buffer goes back to the pool, and the worker *)
(* gives up its slot or the connection's goroutine reads on.               *)
HandleMessage(h) ==
  /\ handling' = handling \ {h}
  /\ kept' = kept \cup {[msg |-> h.msg, buf |-> IF HandlerCopies THEN None ELSE h.buf]}
  /\ bufferPool' = bufferPool \cup {h.buf}
  /\ reader' = IF h.by = None THEN reader ELSE [reader EXCEPT ![h.by] = "header"]
  /\ UNCHANGED <<lifeVars, streamVars, length, buf, spoiled, stepVars>>

HandleStep(c) == ReadHeader(c) \/ SkipHeader(c) \/ ReadBody(c) \/ ReadCutShort(c) \/ ReadEOF(c)
AcceptStep == AcceptLoopEnds \/ \E c \in Conns : Accept(c)
HandlerStep == \E h \in handling : HandleMessage(h)

Next ==
  \/ \E c \in Conns : PeerConnects(c) \/ PeerCloses(c) \/ \E l \in Lengths[c] : PeerSends(c, l)
  \/ Start \/ Stop \/ StopReturns
  \/ AcceptStep
  \/ \E c \in Conns : HandleStep(c) \/ ReadTimeout(c)
  \/ HandlerStep

SafeSpec == Init /\ [][Next]_vars

(* Goroutines that can run do run, and handlers return.  Nothing is        *)
(* assumed of the peers.                                                   *)
Spec == SafeSpec /\ WF_vars(StopReturns) /\ WF_vars(AcceptStep) /\ WF_vars(HandlerStep)
                 /\ \A c \in Conns : WF_vars(HandleStep(c))

-----------------------------------------------------------------------------
(* The message in the n-th frame of c. *)
Body(c, n) == [conn |-> c, at |-> sent[c][n].at + HeaderSize, len |-> sent[c][n].len]

(* As long as no frame of a connection was too large or cut by a timeout   *)
(* or a broken connection, the messages read from it are the frames sent,  *)
(* in order, without a gap (handleConnection).                             *)
MessagesAreFrames ==
  \A c \in Conns : inStep[c] =>
    /\ Len(got[c]) <= Len(sent[c])
    /\ \A n \in DOMAIN got[c] : got[c][n] = Body(c, n)

(* A message stays what it was from the moment it is read: no connection   *)
(* reads into the buffer while the message is handled, and what the        *)
(* handler keeps of it does not change later (handleConnection,            *)
(* bufferPool; network_test.go, "Received message should match sent        *)
(* message").                                                              *)
MessagesStayIntact == spoiled = {}

(* Every buffer is in the pool or has exactly one holder, whatever way a   *)
(* message ends: none is lost and none is given out twice                  *)
(* (handleConnection, bufferPool).                                         *)
BuffersHaveOneHolder ==
  \A b \in Buffers :
    Cardinality({c \in Conns : buf[c] = b}) + Cardinality({h \in handling : h.buf = b})
      = IF b \in bufferPool THEN 0 ELSE 1

IsHandled(c, n) == n \in DOMAIN sent[c] /\ \E k \in kept : k.msg = Body(c, n)

(* Every frame of a connection the receiver has accepted is handled,       *)
(* during Stop as well, with or without a free worker, unless the          *)
(* connection falls out of step (handleConnection).                        *)
FramesAreHandled ==
  \A c \in Conns : \A n \in 1 .. MaxFrames[c] :
    (reader[c] # "none" /\ n <= Len(sent[c])) ~> (~inStep[c] \/ IsHandled(c, n))

(* Stop returns if every peer closes its connection some day; until then   *)
(* it waits (Stop, handleConnection).                                      *)
StopEnds ==
  (\A c \in Conns : peer[c] = "open" ~> peer[c] = "closed") =>
    (stop = "called" ~> stop = "returned")

=============================================================================
