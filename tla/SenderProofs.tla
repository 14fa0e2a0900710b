---------------------------- MODULE SenderProofs ----------------------------
(***************************************************************************)
(* What Sender guarantees for any number of callers, addresses and         *)
(* connections.  Every method that closes a connection removes it from the *)
(* map under the same lock; so the map holds open connections only, which  *)
(* is what keeps the second look of getConnection from locking connsMux    *)
(* twice.                                                                  *)
(***************************************************************************)
EXTENDS Sender, TLAPS

(* The connections of the map are open, and no two addresses share one.    *)
MapIsOpen == \A a \in Addrs : conns[a] # NoConn => status[conns[a]] # "closed"
OneAddress ==
  \A a, b \in Addrs : (conns[a] # NoConn /\ conns[a] = conns[b]) => a = b

(* What is open is in the map.                                             *)
OpenIsMapped == \A k \in Conns : status[k] # "closed" => \E a \in Addrs : conns[a] = k

MapInv == MapIsOpen /\ OneAddress /\ OpenIsMapped

SenderInv == TypeOK /\ MapInv /\ NeverRelocks

USE SenderAssumption

(* A goroutine sends to one of the addresses.                              *)
LEMMA AddrType == ASSUME NEW t \in Tasks PROVE Addr(t) \in Addrs
<1>1. PICK c \in Callers : t \in {c} \X DOMAIN Targets[c]
  BY DEF Tasks
<1>2. t[1] = c /\ t[2] \in DOMAIN Targets[c]
  BY <1>1
<1>3. Targets[c] \in Seq(Addrs)
  OBVIOUS
<1>4. Targets[c][t[2]] \in Addrs
  BY <1>2, <1>3
<1> QED
  BY <1>2, <1>4 DEF Addr

(* NewSender has no connection.                                            *)
LEMMA InitSenderInv == Init => SenderInv
<1> SUFFICES ASSUME Init PROVE SenderInv
  OBVIOUS
<1>1. TypeOK
  BY DEF Init, TypeOK, Steps, Connected, StreamStates
<1>2. MapInv /\ NeverRelocks
  BY DEF Init, MapInv, MapIsOpen, OneAddress, OpenIsMapped, NeverRelocks
<1> QED
  BY <1>1, <1>2 DEF SenderInv

(* Closing some connections keeps the types of what a connection has.      *)
LEMMA CloseKeepsTypes ==
  ASSUME TypeOK, NEW K, CloseConns(K)
  PROVE  /\ status' \in [Conns -> {"closed", "live", "broken"}]
         /\ deadline' \in [Conns -> BOOLEAN]
         /\ stream' \in [Conns -> StreamStates]
<1>1. status' \in [Conns -> {"closed", "live", "broken"}]
  BY DEF TypeOK, CloseConns
<1>2. deadline' \in [Conns -> BOOLEAN]
  BY DEF TypeOK, CloseConns
<1>3. Whole \in StreamStates
  BY DEF StreamStates
<1>4. stream' \in [Conns -> StreamStates]
  BY <1>3 DEF TypeOK, CloseConns
<1> QED
  BY <1>1, <1>2, <1>4

(* closeConnection closes what it removes, and nothing else.               *)
LEMMA CloseKeepsMap ==
  ASSUME SenderInv, NEW a \in Addrs, closeConnection(a)
  PROVE  MapInv' /\ conns' \in [Addrs -> Conns \cup {NoConn}]
<1>1. conns' = [conns EXCEPT ![a] = NoConn] /\ conns \in [Addrs -> Conns \cup {NoConn}]
  BY DEF SenderInv, TypeOK, closeConnection
<1>2. \A k \in Conns : status'[k] = IF k = conns[a] THEN "closed" ELSE status[k]
  BY DEF closeConnection, CloseConns
<1>3. MapIsOpen'
  <2> SUFFICES ASSUME NEW b \in Addrs, conns'[b] # NoConn PROVE status'[conns'[b]] # "closed"
    BY DEF MapIsOpen
  <2>1. b # a /\ conns'[b] = conns[b] /\ conns[b] \in Conns
    BY <1>1
  <2>2. conns[b] # conns[a] /\ status[conns[b]] # "closed"
    BY <2>1 DEF SenderInv, MapInv, OneAddress, MapIsOpen
  <2> QED
    BY <1>2, <2>1, <2>2
<1>4. OneAddress'
  BY <1>1 DEF SenderInv, MapInv, OneAddress
<1>5. OpenIsMapped'
  BY <1>1, <1>2 DEF SenderInv, MapInv, OpenIsMapped
<1> QED
  BY <1>1, <1>3, <1>4, <1>5 DEF MapInv

(* Steps that leave the map alone and close or open nothing.               *)
LEMMA SameMap ==
  ASSUME SenderInv, UNCHANGED conns, \A k \in Conns : status'[k] = "closed" <=> status[k] = "closed"
  PROVE  MapInv'
<1>1. conns \in [Addrs -> Conns \cup {NoConn}]
  BY DEF SenderInv, TypeOK
<1>2. MapIsOpen'
  BY <1>1 DEF SenderInv, MapInv, MapIsOpen
<1>3. OneAddress' /\ OpenIsMapped'
  BY DEF SenderInv, MapInv, OneAddress, OpenIsMapped
<1> QED
  BY <1>2, <1>3 DEF MapInv

(* The calls themselves, and what a goroutine does before it has a         *)
(* connection and when it fails to get one.                                *)
LEMMA CallsKeep ==
  ASSUME SenderInv, NEW t \in Tasks, NEW c \in Callers,
         Send(t) \/ Broadcast(c) \/ Lookup(t) \/ AcquireLock(t) \/ DialFails(t)
  PROVE  SenderInv'
<1>1. TypeOK /\ NeverRelocks /\ Addr(t) \in Addrs
  BY AddrType DEF SenderInv
<1>2. MapInv'
  <2>1. UNCHANGED <<conns, status>>
    BY DEF Send, Broadcast, Lookup, AcquireLock, DialFails, connVars
  <2> QED
    BY <2>1, SameMap
<1>3. CASE Send(t)
  BY <1>1, <1>2, <1>3 DEF Send, connVars, SenderInv, TypeOK, NeverRelocks, Steps, Connected, Overlaps
<1>4. CASE Broadcast(c)
  BY <1>1, <1>2, <1>4 DEF Broadcast, connVars, SenderInv, TypeOK, NeverRelocks, Steps, Connected, Overlaps
<1>5. CASE Lookup(t)
  BY <1>1, <1>2, <1>5 DEF Lookup, GoTo, connVars, SenderInv, TypeOK, NeverRelocks, Steps, Connected
<1>6. CASE AcquireLock(t)
  BY <1>1, <1>2, <1>6 DEF AcquireLock, GoTo, connVars, SenderInv, TypeOK, NeverRelocks, Steps, Connected
<1>7. CASE DialFails(t)
  BY <1>1, <1>2, <1>7 DEF DialFails, Finish, connVars, SenderInv, TypeOK, NeverRelocks, Steps, Connected
<1> QED
  BY <1>3, <1>4, <1>5, <1>6, <1>7

(* The looks at a connection, and the deadline.  The second look finds the *)
(* connection of the map open, because the map holds no other.             *)
LEMMA LooksKeep ==
  ASSUME SenderInv, NEW t \in Tasks, CheckAlive(t) \/ DoubleCheck(t) \/ ClearDeadline(t) \/ SetDeadline(t)
  PROVE  SenderInv'
<1>1. TypeOK /\ NeverRelocks /\ Addr(t) \in Addrs
  BY AddrType DEF SenderInv
<1>2. MapInv'
  <2>1. UNCHANGED <<conns, status>>
    BY DEF CheckAlive, DoubleCheck, ClearDeadline, SetDeadline
  <2> QED
    BY <2>1, SameMap
<1>3. CASE CheckAlive(t)
  BY <1>1, <1>2, <1>3 DEF CheckAlive, GoTo, SenderInv, TypeOK, NeverRelocks, Steps, Connected
<1>4. CASE DoubleCheck(t)
  <2>1. IsAlive(conns[Addr(t)]) /\ conns[Addr(t)] \in Conns
    BY <1>1, <1>4 DEF DoubleCheck, IsAlive, SenderInv, MapInv, MapIsOpen, TypeOK
  <2> QED
    BY <1>1, <1>2, <1>4, <2>1 DEF DoubleCheck, GoTo, SenderInv, TypeOK, NeverRelocks, Steps, Connected
<1>5. CASE SetDeadline(t)
  BY <1>1, <1>2, <1>5 DEF SetDeadline, GoTo, SenderInv, TypeOK, NeverRelocks, Steps, Connected
<1>6. CASE ClearDeadline(t)
  BY <1>1, <1>2, <1>6 DEF ClearDeadline, GoTo, SenderInv, TypeOK, NeverRelocks, Steps, Connected
<1> QED
  BY <1>3, <1>4, <1>5, <1>6

(* A new connection takes the place of none.                               *)
LEMMA DialKeeps ==
  ASSUME SenderInv, NEW t \in Tasks, DialSucceeds(t) PROVE SenderInv'
<1> DEFINE k == CHOOSE x \in Unused : TRUE
<1>1. TypeOK /\ NeverRelocks /\ Addr(t) \in Addrs
  BY AddrType DEF SenderInv
<1>2. k \in Conns /\ status[k] = "closed"
  BY DEF DialSucceeds, Unused
<1>3. /\ conns' = [conns EXCEPT ![Addr(t)] = k] /\ conns[Addr(t)] = NoConn
      /\ conn' = [conn EXCEPT ![t] = k]
      /\ status' = [status EXCEPT ![k] = "live"]
      /\ deadline' = [deadline EXCEPT ![k] = FALSE]
      /\ stream' = [stream EXCEPT ![k] = Whole]
      /\ pc' = [pc EXCEPT ![t] = "deadline"]
      /\ connsMux' = NoOne /\ UNCHANGED shared
  BY DEF DialSucceeds, GoTo
<1> HIDE DEF k
<1>4. TypeOK'
  <2>1. Whole \in StreamStates
    BY DEF StreamStates
  <2>2. stream' \in [Conns -> StreamStates]
    BY <1>1, <1>2, <1>3, <2>1 DEF TypeOK
  <2> QED
    BY <1>1, <1>2, <1>3, <2>2 DEF TypeOK, Steps, Connected
<1>5. \A a \in Addrs : conns[a] # k
  BY <1>2 DEF SenderInv, MapInv, MapIsOpen
<1>6. MapInv'
  <2>1. conns \in [Addrs -> Conns \cup {NoConn}] /\ status \in [Conns -> {"closed", "live", "broken"}]
    BY <1>1 DEF TypeOK
  <2>2. MapIsOpen'
    BY <1>1, <1>2, <1>3, <1>5, <2>1 DEF SenderInv, MapInv, MapIsOpen
  <2>3. OneAddress'
    BY <1>1, <1>2, <1>3, <1>5, <2>1 DEF SenderInv, MapInv, OneAddress
  <2>4. OpenIsMapped'
    BY <1>1, <1>2, <1>3, <1>5, <2>1 DEF SenderInv, MapInv, OpenIsMapped
  <2> QED
    BY <2>2, <2>3, <2>4 DEF MapInv
<1>7. NeverRelocks'
  BY <1>1, <1>3 DEF NeverRelocks, TypeOK
<1> QED
  BY <1>4, <1>6, <1>7 DEF SenderInv

(* The writes.                                                             *)
LEMMA WritesKeep ==
  ASSUME SenderInv, NEW t \in Tasks, WriteSucceeds(t) \/ WriteFails(t) PROVE SenderInv'
<1>1. TypeOK /\ NeverRelocks /\ conn[t] \in Conns
  BY DEF SenderInv, TypeOK, WriteSucceeds, WriteFails, Connected
<1>2. MapInv'
  <2>1. UNCHANGED <<conns, status>>
    BY DEF WriteSucceeds, WriteFails
  <2> QED
    BY <2>1, SameMap
<1>3. {Whole, Torn, Garbage, HeaderOf(t)} \subseteq StreamStates
  BY DEF StreamStates
<1>4. stream' \in [Conns -> StreamStates]
  <2>1. stream \in [Conns -> StreamStates]
    BY <1>1 DEF TypeOK
  <2>2. UNCHANGED stream \/ \E w \in StreamStates : stream' = [stream EXCEPT ![conn[t]] = w]
    BY <1>1, <1>3, <2>1 DEF WriteSucceeds, WriteFails
  <2> QED
    BY <1>1, <2>1, <2>2
<1>5. CASE WriteSucceeds(t)
  BY <1>1, <1>2, <1>4, <1>5 DEF WriteSucceeds, GoTo, Finish, SenderInv, TypeOK, NeverRelocks, Steps, Connected
<1>6. CASE WriteFails(t)
  BY <1>1, <1>2, <1>4, <1>6 DEF WriteFails, GoTo, SenderInv, TypeOK, NeverRelocks, Steps, Connected
<1> QED
  BY <1>5, <1>6

(* A goroutine closes the connection of its address.                       *)
LEMMA ClosesKeep ==
  ASSUME SenderInv, NEW t \in Tasks, CloseStale(t) \/ CloseFailed(t) PROVE SenderInv'
<1>1. TypeOK /\ NeverRelocks /\ Addr(t) \in Addrs
  BY AddrType DEF SenderInv
<1>2. closeConnection(Addr(t))
  BY DEF CloseStale, CloseFailed
<1>3. CloseConns({conns[Addr(t)]})
  BY <1>2 DEF closeConnection
<1>4. /\ status' \in [Conns -> {"closed", "live", "broken"}]
      /\ deadline' \in [Conns -> BOOLEAN]
      /\ stream' \in [Conns -> StreamStates]
  BY <1>1, <1>3, CloseKeepsTypes
<1>5. MapInv' /\ conns' \in [Addrs -> Conns \cup {NoConn}]
  BY <1>1, <1>2, CloseKeepsMap
<1>6. UNCHANGED <<connsMux, shared>> /\ conn' = [conn EXCEPT ![t] = NoConn]
  BY DEF CloseStale, CloseFailed, Finish
<1>7. pc' = [pc EXCEPT ![t] = "lock"] \/ pc' = [pc EXCEPT ![t] = "idle"]
  BY DEF CloseStale, CloseFailed, Finish, GoTo
<1> QED
  BY <1>1, <1>4, <1>5, <1>6, <1>7 DEF SenderInv, TypeOK, NeverRelocks, Steps, Connected

(* Close empties the map and closes all that was in it.                    *)
LEMMA CloseKeeps == ASSUME SenderInv, Close PROVE SenderInv'
<1>1. TypeOK /\ NeverRelocks
  BY DEF SenderInv
<1>2. /\ status' \in [Conns -> {"closed", "live", "broken"}]
      /\ deadline' \in [Conns -> BOOLEAN]
      /\ stream' \in [Conns -> StreamStates]
  BY <1>1, CloseKeepsTypes DEF Close
<1>3. TypeOK' /\ NeverRelocks'
  BY <1>1, <1>2 DEF Close, TypeOK, NeverRelocks
<1>4. \A a \in Addrs : conns'[a] = NoConn
  BY DEF Close
<1>5. \A k \in Conns : status'[k] = "closed"
  BY DEF Close, CloseConns, SenderInv, MapInv, OpenIsMapped
<1>6. MapInv'
  BY <1>4, <1>5 DEF MapInv, MapIsOpen, OneAddress, OpenIsMapped
<1> QED
  BY <1>3, <1>6 DEF SenderInv

(* The other end can break a connection but not take it out of the map.    *)
LEMMA PeerKeeps == ASSUME SenderInv, NEW k \in Conns, PeerBreaks(k) PROVE SenderInv'
<1>1. TypeOK /\ NeverRelocks
  BY DEF SenderInv
<1>2. TypeOK' /\ NeverRelocks'
  BY <1>1 DEF PeerBreaks, TypeOK, NeverRelocks
<1>3. UNCHANGED conns /\ \A x \in Conns : status'[x] = "closed" <=> status[x] = "closed"
  BY <1>1 DEF PeerBreaks, TypeOK
<1> QED
  BY <1>2, <1>3, SameMap DEF SenderInv

(* Every step keeps the invariant.                                         *)
LEMMA NextSenderInv == SenderInv /\ [Next]_vars => SenderInv'
<1> SUFFICES ASSUME SenderInv, [Next]_vars PROVE SenderInv'
  OBVIOUS
<1>1. ASSUME NEW c \in Callers, Broadcast(c) PROVE SenderInv'
  <2>1. Targets[c] \in Seq(Addrs) /\ Targets[c] # <<>>
    OBVIOUS
  <2>2. 1 \in DOMAIN Targets[c]
    BY <2>1
  <2>3. <<c, 1>> \in Tasks
    BY <2>2 DEF Tasks
  <2> QED
    BY <1>1, <2>3, CallsKeep
<1>2. ASSUME NEW t \in Tasks, Send(t) \/ Proceed(t) \/ WriteSucceeds(t) PROVE SenderInv'
  <2>1. \E c \in Callers : TRUE
    BY DEF Tasks
  <2> QED
    BY <1>2, <2>1, CallsKeep, LooksKeep, DialKeeps, WritesKeep, ClosesKeep DEF Proceed
<1>3. CASE Close
  BY <1>3, CloseKeeps
<1>4. ASSUME NEW k \in Conns, PeerBreaks(k) PROVE SenderInv'
  BY <1>4, PeerKeeps
<1>5. CASE UNCHANGED vars
  <2>1. MapInv'
    BY <1>5, SameMap DEF vars
  <2> QED
    BY <1>5, <2>1 DEF vars, SenderInv, TypeOK, NeverRelocks
<1> QED
  BY <1>1, <1>2, <1>3, <1>4, <1>5 DEF Next

(* The invariant of network.go's Sender holds always.                      *)
THEOREM SenderInvariant == SafeSpec => []SenderInv
BY InitSenderInv, NextSenderInv, PTL DEF SafeSpec

(* The connection map, the locks and the goroutines of Sender keep their   *)
(* types: in particular a goroutine that writes has a connection.          *)
THEOREM SenderTypes == SafeSpec => []TypeOK
<1>1. SenderInv => TypeOK
  BY DEF SenderInv
<1> QED
  BY <1>1, SenderInvariant, PTL

(* closeConnection is never called with connsMux held, although            *)
(* getConnection has a place that would do it.                             *)
THEOREM LockIsNotTakenTwice == SafeSpec => []NeverRelocks
<1>1. SenderInv => NeverRelocks
  BY DEF SenderInv
<1> QED
  BY <1>1, SenderInvariant, PTL

(* Whatever calls overlap, an open connection is the connection of exactly *)
(* one address in the map of Sender.                                       *)
THEOREM ConnectionsDoNotLeak == SafeSpec => []NoConnectionLeaks
<1>1. ASSUME SenderInv PROVE NoConnectionLeaks
  <2> SUFFICES ASSUME NEW k \in Conns, status[k] # "closed"
               PROVE  \E a \in Addrs : conns[a] = k /\ \A b \in Addrs : conns[b] = k => b = a
    BY DEF NoConnectionLeaks
  <2>1. PICK a \in Addrs : conns[a] = k
    BY <1>1 DEF SenderInv, MapInv, OpenIsMapped
  <2>2. \A b \in Addrs : conns[b] = k => b = a
    BY <1>1, <2>1 DEF SenderInv, MapInv, OneAddress
  <2> QED
    BY <2>1, <2>2
<1> QED
  BY <1>1, SenderInvariant, PTL

-----------------------------------------------------------------------------
(* The sends to one address.  OwnershipInv says which connection a         *)
(* goroutine may be using; FrameInv what the other end of an address whose *)
(* sends never overlapped has received.                                    *)

(* Two goroutines that serve the same address at once are on record.       *)
Exclusive ==
  \A t, u \in Tasks : (t # u /\ Addr(t) = Addr(u) /\ pc[t] # "idle" /\ pc[u] # "idle")
                        => Addr(t) \in shared

(* A goroutine refers to no connection before it has found or dialled one. *)
NoneYet == \A t \in Tasks : pc[t] \notin Connected => conn[t] = NoConn

(* An open connection in use is the one the map has for the address.       *)
UsesMapped ==
  \A t \in Tasks : (conn[t] # NoConn /\ status[conn[t]] # "closed") => conns[Addr(t)] = conn[t]

(* Without overlap nobody else puts a connection into the map meanwhile.   *)
OwnEntry ==
  \A t \in Tasks : (pc[t] \in Connected /\ Addr(t) \notin shared) =>
                      conns[Addr(t)] \in {conn[t], NoConn}

OwnershipInv == Exclusive /\ NoneYet /\ UsesMapped /\ OwnEntry

(* Goroutine t has begun a frame on the connection of a, or has failed.    *)
MidFrame(t, a) == Addr(t) = a /\ conn[t] = conns[a] /\ pc[t] \in {"body", "failed"}

(* Without overlap the stream of an unbroken connection consists of whole  *)
(* frames unless a goroutine is in the middle of one, and after the header *)
(* of a frame comes its body.                                              *)
WritersFrame ==
  \A a \in Addrs \ shared : (conns[a] # NoConn /\ status[conns[a]] = "live") =>
    /\ stream[conns[a]] = Whole \/ \E t \in Tasks : MidFrame(t, a)
    /\ \A t \in Tasks : (MidFrame(t, a) /\ pc[t] = "body") => stream[conns[a]] = HeaderOf(t)

FrameInv == FramesWhole /\ WritersFrame

(* What one goroutine does leaves the others where they are.               *)
LEMMA OneMoves ==
  ASSUME TypeOK, NEW t \in Tasks, Proceed(t) \/ WriteSucceeds(t)
  PROVE  /\ pc[t] # "idle" /\ shared' = shared
         /\ \A u \in Tasks : u # t => pc'[u] = pc[u] /\ conn'[u] = conn[u]
<1> USE DEF TypeOK, GoTo, Finish
<1>1. CASE Lookup(t) \/ CheckAlive(t) \/ CloseStale(t) \/ AcquireLock(t)
  BY <1>1 DEF Lookup, CheckAlive, CloseStale, AcquireLock
<1>2. CASE DoubleCheck(t) \/ DialFails(t) \/ ClearDeadline(t) \/ SetDeadline(t)
  BY <1>2 DEF DoubleCheck, DialFails, ClearDeadline, SetDeadline
<1>3. CASE DialSucceeds(t)
  BY <1>3 DEF DialSucceeds
<1>4. CASE WriteSucceeds(t) \/ WriteFails(t) \/ CloseFailed(t)
  BY <1>4 DEF WriteSucceeds, WriteFails, CloseFailed
<1> QED
  BY <1>1, <1>2, <1>3, <1>4 DEF Proceed

(* A call starts goroutines that were idle.                                *)
LEMMA CallsStart ==
  ASSUME TypeOK, NEW t \in Tasks, NEW c \in Callers, Send(t) \/ Broadcast(c)
  PROVE  /\ \A u \in Tasks : pc'[u] = pc[u] \/ (pc[u] = "idle" /\ pc'[u] = "lookup")
         /\ shared' = shared \cup Overlaps(pc')
         /\ UNCHANGED <<conns, status, stream, conn>>
<1>1. CASE Send(t)
  <2>1. t \in TasksOf(t[1])
    BY DEF TasksOf
  <2> QED
    BY <1>1, <2>1 DEF Send, CallerIsFree, TypeOK, connVars
<1>2. CASE Broadcast(c)
  BY <1>2 DEF Broadcast, CallerIsFree, TasksOf, TypeOK, connVars
<1> QED
  BY <1>1, <1>2

(* Every caller has a goroutine and every goroutine a caller.              *)
LEMMA CallersHaveTasks == (Callers # {} => Tasks # {}) /\ (Tasks # {} => Callers # {})
<1>1. ASSUME NEW c \in Callers PROVE Tasks # {}
  <2>1. Targets[c] \in Seq(Addrs) /\ Targets[c] # <<>>
    OBVIOUS
  <2>2. 1 \in DOMAIN Targets[c]
    BY <2>1
  <2>3. <<c, 1>> \in {c} \X DOMAIN Targets[c]
    BY <2>2
  <2> QED
    BY <2>3 DEF Tasks
<1> QED
  BY <1>1 DEF Tasks

(* Who serves an address at the same time as another is put on record when *)
(* the second call starts.                                                 *)
LEMMA NextExclusive == TypeOK /\ Exclusive /\ [Next]_vars => Exclusive'
<1> SUFFICES ASSUME TypeOK, Exclusive, [Next]_vars PROVE Exclusive'
  OBVIOUS
<1>1. ASSUME NEW t \in Tasks, NEW c \in Callers, Send(t) \/ Broadcast(c) PROVE Exclusive'
  <2> SUFFICES ASSUME NEW u \in Tasks, NEW w \in Tasks, u # w, Addr(u) = Addr(w),
                      pc'[u] # "idle", pc'[w] # "idle"
               PROVE  Addr(u) \in shared'
    BY DEF Exclusive, Addr
  <2>1. Addr(u) \in Overlaps(pc')
    BY AddrType DEF Overlaps
  <2> QED
    BY <1>1, <2>1, CallsStart
<1>2. ASSUME NEW t \in Tasks, Proceed(t) \/ WriteSucceeds(t) PROVE Exclusive'
  <2>1. shared' = shared /\ \A u \in Tasks : pc'[u] # "idle" => pc[u] # "idle"
    BY <1>2, OneMoves
  <2> QED
    BY <2>1 DEF Exclusive, Addr
<1>3. CASE Close \/ (\E k \in Conns : PeerBreaks(k)) \/ UNCHANGED vars
  <2>1. UNCHANGED <<pc, shared>>
    BY <1>3 DEF Close, PeerBreaks, vars
  <2> QED
    BY <2>1 DEF Exclusive, Addr
<1> QED
  BY <1>1, <1>2, <1>3, CallersHaveTasks DEF Next

(* Steps that leave the map and the state of the connections alone: who    *)
(* takes a connection takes the one of the map.                            *)
LEMMA LooksOwn ==
  ASSUME SenderInv, OwnershipInv, UNCHANGED conns, shared \subseteq shared',
         \A k \in Conns : status'[k] = "closed" <=> status[k] = "closed",
         \A t \in Tasks : \/ conn'[t] = conn[t] /\ (pc'[t] \in Connected <=> pc[t] \in Connected)
                          \/ conn'[t] = conns[Addr(t)]
                          \/ conn'[t] = NoConn /\ pc'[t] \notin Connected
  PROVE  UsesMapped' /\ OwnEntry'
<1>1. /\ conn \in [Tasks -> Conns \cup {NoConn}] /\ conns \in [Addrs -> Conns \cup {NoConn}]
      /\ UsesMapped /\ OwnEntry
  BY DEF SenderInv, TypeOK, OwnershipInv
<1>2. UsesMapped'
  <2> SUFFICES ASSUME NEW t \in Tasks, conn'[t] # NoConn, status'[conn'[t]] # "closed"
               PROVE  conns'[Addr(t)] = conn'[t]
    BY DEF UsesMapped, Addr
  <2>1. Addr(t) \in Addrs
    BY AddrType
  <2>2. CASE conn'[t] = conn[t]
    <3>1. conn[t] \in Conns
      BY <1>1, <2>2
    <3> QED
      BY <1>1, <2>2, <3>1 DEF UsesMapped
  <2> QED
    BY <2>2
<1>3. OwnEntry'
  <2> SUFFICES ASSUME NEW t \in Tasks, pc'[t] \in Connected, Addr(t) \notin shared'
               PROVE  conns'[Addr(t)] \in {conn'[t], NoConn}
    BY DEF OwnEntry, Addr
  <2> QED
    BY <1>1 DEF OwnEntry
<1> QED
  BY <1>2, <1>3

(* closeConnection: what it takes from the map it closes.                  *)
LEMMA ClosesOwn ==
  ASSUME SenderInv, OwnershipInv, NEW t \in Tasks, CloseStale(t) \/ CloseFailed(t)
  PROVE  UsesMapped' /\ OwnEntry'
<1> DEFINE a == Addr(t)
<1>1. /\ conn \in [Tasks -> Conns \cup {NoConn}] /\ conns \in [Addrs -> Conns \cup {NoConn}]
      /\ UsesMapped /\ OwnEntry /\ pc \in [Tasks -> Steps] /\ a \in Addrs
  BY AddrType DEF SenderInv, TypeOK, OwnershipInv
<1>2. /\ conns' = [conns EXCEPT ![a] = NoConn] /\ shared' = shared
      /\ conn' = [conn EXCEPT ![t] = NoConn]
      /\ pc' = [pc EXCEPT ![t] = "lock"] \/ pc' = [pc EXCEPT ![t] = "idle"]
      /\ \A k \in Conns : status'[k] = IF k = conns[a] THEN "closed" ELSE status[k]
  BY DEF CloseStale, CloseFailed, closeConnection, CloseConns, GoTo, Finish
<1> HIDE DEF a
<1>3. UsesMapped'
  <2> SUFFICES ASSUME NEW u \in Tasks, conn'[u] # NoConn, status'[conn'[u]] # "closed"
               PROVE  conns'[Addr(u)] = conn'[u]
    BY DEF UsesMapped, Addr
  <2>1. conn'[u] = conn[u] /\ conn[u] \in Conns /\ Addr(u) \in Addrs
    BY <1>1, <1>2, AddrType
  <2>2. status[conn[u]] # "closed" /\ conn[u] # conns[a]
    BY <1>2, <2>1
  <2>3. conns[Addr(u)] = conn[u]
    BY <2>1, <2>2, <1>1 DEF UsesMapped
  <2> QED
    BY <1>1, <1>2, <2>1, <2>2, <2>3
<1>4. OwnEntry'
  <2> SUFFICES ASSUME NEW u \in Tasks, pc'[u] \in Connected, Addr(u) \notin shared'
               PROVE  conns'[Addr(u)] \in {conn'[u], NoConn}
    BY DEF OwnEntry, Addr
  <2>1. u # t /\ pc'[u] = pc[u] /\ conn'[u] = conn[u] /\ Addr(u) \in Addrs
    BY <1>1, <1>2, AddrType DEF Connected
  <2>2. conns[Addr(u)] \in {conn[u], NoConn}
    BY <1>1, <1>2, <2>1 DEF OwnEntry
  <2> QED
    BY <1>1, <1>2, <2>1, <2>2
<1> QED
  BY <1>3, <1>4

(* A new connection goes into an empty entry, and without overlap nobody   *)
(* else is sending to that address.                                        *)
LEMMA DialOwns ==
  ASSUME SenderInv, OwnershipInv, NEW t \in Tasks, DialSucceeds(t)
  PROVE  UsesMapped' /\ OwnEntry'
<1> DEFINE a == Addr(t)
           k == CHOOSE x \in Unused : TRUE
<1>1. /\ conn \in [Tasks -> Conns \cup {NoConn}] /\ conns \in [Addrs -> Conns \cup {NoConn}]
      /\ UsesMapped /\ OwnEntry /\ Exclusive /\ pc \in [Tasks -> Steps] /\ a \in Addrs
      /\ status \in [Conns -> {"closed", "live", "broken"}]
  BY AddrType DEF SenderInv, TypeOK, OwnershipInv
<1>2. k \in Conns /\ status[k] = "closed" /\ \A u \in Tasks : conn[u] # k
  <2>1. k \in Unused
    BY DEF DialSucceeds
  <2> QED
    BY <2>1 DEF Unused
<1>3. /\ pc[t] = "locked" /\ conns[a] = NoConn /\ shared' = shared
      /\ conns' = [conns EXCEPT ![a] = k] /\ conn' = [conn EXCEPT ![t] = k]
      /\ status' = [status EXCEPT ![k] = "live"] /\ pc' = [pc EXCEPT ![t] = "deadline"]
  BY DEF DialSucceeds, GoTo
<1> HIDE DEF a, k
<1>4. UsesMapped'
  <2> SUFFICES ASSUME NEW u \in Tasks, conn'[u] # NoConn, status'[conn'[u]] # "closed"
               PROVE  conns'[Addr(u)] = conn'[u]
    BY DEF UsesMapped, Addr
  <2>1. CASE u = t
    BY <1>1, <1>3, <2>1 DEF a
  <2>2. CASE u # t
    <3>1. conn'[u] = conn[u] /\ conn[u] \in Conns /\ Addr(u) \in Addrs /\ conn[u] # k
      BY <1>1, <1>2, <1>3, <2>2, AddrType
    <3>2. status[conn[u]] # "closed"
      BY <1>1, <1>3, <3>1
    <3>3. conns[Addr(u)] = conn[u]
      BY <1>1, <3>1, <3>2 DEF UsesMapped
    <3>4. Addr(u) # a
      BY <1>3, <3>1, <3>3
    <3> QED
      BY <1>1, <1>3, <3>1, <3>3, <3>4
  <2> QED
    BY <2>1, <2>2
<1>5. OwnEntry'
  <2> SUFFICES ASSUME NEW u \in Tasks, pc'[u] \in Connected, Addr(u) \notin shared'
               PROVE  conns'[Addr(u)] \in {conn'[u], NoConn}
    BY DEF OwnEntry, Addr
  <2>1. CASE u = t
    BY <1>1, <1>3, <2>1 DEF a
  <2>2. CASE u # t
    <3>1. /\ conn'[u] = conn[u] /\ pc'[u] = pc[u] /\ pc[u] \in Connected /\ Addr(u) \in Addrs
          /\ pc[u] # "idle"
      BY <1>1, <1>3, <2>2, AddrType DEF Connected
    <3>2. Addr(u) # a
      BY <1>1, <1>3, <2>2, <3>1 DEF Exclusive, a
    <3> QED
      BY <1>1, <1>3, <3>1, <3>2 DEF OwnEntry
  <2> QED
    BY <2>1, <2>2
<1> QED
  BY <1>4, <1>5

(* Close empties the map and closes all it held.                           *)
LEMMA CloseOwns == ASSUME SenderInv, OwnershipInv, Close PROVE UsesMapped' /\ OwnEntry'
<1>1. /\ conn \in [Tasks -> Conns \cup {NoConn}] /\ conns \in [Addrs -> Conns \cup {NoConn}]
      /\ UsesMapped
  BY DEF SenderInv, TypeOK, OwnershipInv
<1>2. /\ conns' = [a \in Addrs |-> NoConn] /\ UNCHANGED <<pc, conn, shared>>
      /\ \A k \in Conns : status'[k] = IF k \in {conns[a] : a \in Addrs} THEN "closed" ELSE status[k]
  BY DEF Close, CloseConns
<1>3. UsesMapped'
  <2> SUFFICES ASSUME NEW u \in Tasks, conn'[u] # NoConn, status'[conn'[u]] # "closed"
               PROVE  FALSE
    BY DEF UsesMapped, Addr
  <2>1. conn'[u] = conn[u] /\ conn[u] \in Conns /\ Addr(u) \in Addrs
    BY <1>1, <1>2, AddrType
  <2>2. status[conn[u]] # "closed" /\ conn[u] \notin {conns[a] : a \in Addrs}
    BY <1>2, <2>1
  <2>3. conns[Addr(u)] = conn[u]
    BY <2>1, <2>2, <1>1 DEF UsesMapped
  <2> QED
    BY <2>1, <2>2, <2>3
<1>4. OwnEntry'
  <2> SUFFICES ASSUME NEW u \in Tasks PROVE conns'[Addr(u)] = NoConn
    BY DEF OwnEntry, Addr
  <2> QED
    BY <1>2, AddrType
<1> QED
  BY <1>3, <1>4

(* A goroutine that leaves the steps on a connection gives it up.          *)
LEMMA NextNoneYet == TypeOK /\ NoneYet /\ [Next]_vars => NoneYet'
<1> SUFFICES ASSUME TypeOK, NoneYet, [Next]_vars PROVE NoneYet'
  OBVIOUS
<1>1. ASSUME NEW t \in Tasks, Proceed(t) \/ WriteSucceeds(t),
             pc'[t] \notin Connected => conn'[t] = NoConn
      PROVE  NoneYet'
  BY <1>1, OneMoves DEF NoneYet
<1> USE DEF TypeOK, NoneYet, GoTo, Finish, Connected
<1>2. ASSUME NEW t \in Tasks, Lookup(t) \/ CheckAlive(t) \/ CloseStale(t) \/ AcquireLock(t)
      PROVE  NoneYet'
  <2>1. pc'[t] \notin Connected => conn'[t] = NoConn
    BY <1>2, AddrType DEF Lookup, CheckAlive, CloseStale, AcquireLock
  <2> QED
    BY <1>1, <1>2, <2>1 DEF Proceed
<1>3. ASSUME NEW t \in Tasks,
             \/ DoubleCheck(t) \/ DialSucceeds(t) \/ DialFails(t)
             \/ ClearDeadline(t) \/ SetDeadline(t)
      PROVE  NoneYet'
  <2>1. pc'[t] \notin Connected => conn'[t] = NoConn
    BY <1>3 DEF DoubleCheck, DialSucceeds, DialFails, ClearDeadline, SetDeadline
  <2> QED
    BY <1>1, <1>3, <2>1 DEF Proceed
<1>4. ASSUME NEW t \in Tasks, WriteSucceeds(t) \/ WriteFails(t) \/ CloseFailed(t)
      PROVE  NoneYet'
  <2>1. pc'[t] \notin Connected => conn'[t] = NoConn
    BY <1>4 DEF WriteSucceeds, WriteFails, CloseFailed
  <2> QED
    BY <1>1, <1>4, <2>1 DEF Proceed
<1>5. ASSUME NEW t \in Tasks, Send(t) PROVE NoneYet'
  BY <1>5 DEF Send, CallerIsFree, TasksOf
<1>6. ASSUME NEW c \in Callers, Broadcast(c) PROVE NoneYet'
  BY <1>6 DEF Broadcast, CallerIsFree, TasksOf
<1>7. CASE Close \/ (\E k \in Conns : PeerBreaks(k)) \/ UNCHANGED vars
  BY <1>7 DEF Close, PeerBreaks, vars
<1> QED
  BY <1>2, <1>3, <1>4, <1>5, <1>6, <1>7 DEF Next, Proceed

(* Every step keeps the ownership of connections.                          *)
LEMMA NextOwnership == SenderInv /\ OwnershipInv /\ [Next]_vars => OwnershipInv'
<1> SUFFICES ASSUME SenderInv, OwnershipInv, [Next]_vars PROVE OwnershipInv'
  OBVIOUS
<1>0. TypeOK /\ Exclusive /\ NoneYet /\ NeverRelocks
  BY DEF SenderInv, OwnershipInv
<1>1. Exclusive' /\ NoneYet'
  BY <1>0, NextExclusive, NextNoneYet
<1> SUFFICES UsesMapped' /\ OwnEntry'
  BY <1>1 DEF OwnershipInv
<1>2. ASSUME NEW t \in Tasks, NEW c \in Callers, Send(t) \/ Broadcast(c)
      PROVE  UsesMapped' /\ OwnEntry'
  <2>1. /\ \A u \in Tasks : pc'[u] = pc[u] \/ (pc[u] = "idle" /\ pc'[u] = "lookup")
        /\ shared' = shared \cup Overlaps(pc') /\ UNCHANGED <<conns, status, stream, conn>>
    BY <1>0, <1>2, CallsStart
  <2>2. \A u \in Tasks : conn'[u] = conn[u] /\ (pc'[u] \in Connected <=> pc[u] \in Connected)
    BY <2>1 DEF Connected
  <2> QED
    BY <2>1, <2>2, LooksOwn
<1>3. ASSUME NEW t \in Tasks,
             \/ Lookup(t) \/ CheckAlive(t) \/ ClearDeadline(t) \/ AcquireLock(t)
             \/ DoubleCheck(t) \/ DialFails(t) \/ SetDeadline(t)
      PROVE  UsesMapped' /\ OwnEntry'
  <2>1. UNCHANGED <<conns, status, shared>>
    BY <1>3 DEF Lookup, CheckAlive, AcquireLock, DoubleCheck, DialFails, ClearDeadline, SetDeadline, connVars
  <2>2. /\ pc[t] # "idle" /\ \A u \in Tasks : u # t => pc'[u] = pc[u] /\ conn'[u] = conn[u]
    BY <1>0, <1>3, OneMoves DEF Proceed
  <2>3. \/ conn'[t] = conn[t] /\ (pc'[t] \in Connected <=> pc[t] \in Connected)
        \/ conn'[t] = conns[Addr(t)]
        \/ conn'[t] = NoConn /\ pc'[t] \notin Connected
    BY <1>0, <1>3 DEF Lookup, CheckAlive, AcquireLock, DoubleCheck, DialFails, ClearDeadline,
                      SetDeadline, TypeOK, GoTo, Finish, Connected
  <2> QED
    BY <2>1, <2>2, <2>3, LooksOwn
<1>4. ASSUME NEW t \in Tasks, WriteSucceeds(t) \/ WriteFails(t) PROVE UsesMapped' /\ OwnEntry'
  <2>1. UNCHANGED <<conns, status, shared>>
    BY <1>4 DEF WriteSucceeds, WriteFails
  <2>2. \A u \in Tasks : u # t => pc'[u] = pc[u] /\ conn'[u] = conn[u]
    BY <1>0, <1>4, OneMoves DEF Proceed
  <2>3. \/ conn'[t] = conn[t] /\ (pc'[t] \in Connected <=> pc[t] \in Connected)
        \/ conn'[t] = NoConn /\ pc'[t] \notin Connected
    BY <1>0, <1>4 DEF WriteSucceeds, WriteFails, TypeOK, GoTo, Finish, Connected
  <2> QED
    BY <2>1, <2>2, <2>3, LooksOwn
<1>5. ASSUME NEW k \in Conns, PeerBreaks(k) PROVE UsesMapped' /\ OwnEntry'
  <2>1. /\ UNCHANGED <<conns, pc, conn, shared>>
        /\ \A j \in Conns : status'[j] = "closed" <=> status[j] = "closed"
    BY <1>0, <1>5 DEF PeerBreaks, TypeOK
  <2> QED
    BY <2>1, LooksOwn
<1>6. CASE UNCHANGED vars
  <2>1. UNCHANGED <<conns, status, pc, conn, shared>>
    BY <1>6 DEF vars
  <2> QED
    BY <2>1, LooksOwn
<1> QED
  BY <1>2, <1>3, <1>4, <1>5, <1>6, CallersHaveTasks, ClosesOwn, DialOwns, CloseOwns DEF Next, Proceed

(* The ownership of connections holds always.                              *)
LEMMA Ownership == SafeSpec => []OwnershipInv
<1>1. Init => OwnershipInv
  BY DEF Init, OwnershipInv, Exclusive, NoneYet, UsesMapped, OwnEntry, Connected
<1> QED
  BY <1>1, NextOwnership, SenderInvariant, PTL DEF SafeSpec

(* A failed send of network.go closes the connection it failed on, if it   *)
(* is still in the map, and no other, unless sends to the address overlap. *)
THEOREM FailuresStayLocal == SafeSpec => []FailureIsLocal
<1>1. OwnershipInv => FailureIsLocal
  BY DEF OwnershipInv, OwnEntry, FailureIsLocal, Connected
<1> QED
  BY <1>1, Ownership, PTL

-----------------------------------------------------------------------------
(* What FrameInv says of one address.                                      *)
FrameAt(a) ==
  (a \notin shared /\ conns[a] # NoConn) =>
    /\ stream[conns[a]] # Garbage
    /\ status[conns[a]] = "live" =>
         /\ stream[conns[a]] = Whole \/ \E t \in Tasks : MidFrame(t, a)
         /\ \A t \in Tasks : (MidFrame(t, a) /\ pc[t] = "body") => stream[conns[a]] = HeaderOf(t)

LEMMA FrameByAddress == (FrameInv <=> \A a \in Addrs : FrameAt(a))
BY DEF FrameInv, FramesWhole, WritersFrame, FrameAt

LEMMA FrameByAddressNext == (FrameInv' <=> \A a \in Addrs : FrameAt(a)')
BY DEF FrameInv, FramesWhole, WritersFrame, FrameAt

(* The states of a stream differ.                                          *)
LEMMA StreamsDiffer ==
  /\ Whole # Garbage /\ Torn # Garbage
  /\ \A t \in Tasks : HeaderOf(t) # Garbage
BY DEF Whole, Torn, Garbage, HeaderOf

(* A step that leaves the connection of an address and the frames begun on *)
(* it alone.                                                               *)
LEMMA FrameKept ==
  ASSUME NEW a \in Addrs, FrameAt(a), shared \subseteq shared', conns'[a] = conns[a],
         conns[a] # NoConn => stream'[conns[a]] = stream[conns[a]],
         conns[a] # NoConn => (status'[conns[a]] = "live" => status[conns[a]] = "live"),
         \A u \in Tasks : MidFrame(u, a) => pc'[u] = pc[u] /\ conn'[u] = conn[u],
         \A u \in Tasks : (Addr(u) = a /\ conn'[u] = conns[a] /\ pc'[u] \in {"body", "failed"})
                             => pc'[u] = pc[u] /\ conn'[u] = conn[u]
  PROVE  FrameAt(a)'
<1>1. \A u \in Tasks : MidFrame(u, a)' <=> MidFrame(u, a)
  BY DEF MidFrame, Addr
<1>2. \A u \in Tasks : MidFrame(u, a) => pc'[u] = pc[u]
  OBVIOUS
<1>3. SUFFICES ASSUME a \notin shared', conns[a] # NoConn
               PROVE  /\ stream[conns[a]] # Garbage
                      /\ status'[conns[a]] = "live" =>
                           /\ stream[conns[a]] = Whole \/ \E t \in Tasks : MidFrame(t, a)
                           /\ \A t \in Tasks : (MidFrame(t, a) /\ pc[t] = "body")
                                                  => stream[conns[a]] = HeaderOf(t)
  BY <1>1, <1>2 DEF FrameAt, HeaderOf, Garbage, Whole
<1> QED
  BY <1>3 DEF FrameAt

(* A call, or a step before the header is written.                         *)
LEMMA LooksFrame ==
  ASSUME FrameInv, UNCHANGED <<conns, stream>>, shared \subseteq shared',
         \A k \in Conns : status'[k] = "live" => status[k] = "live",
         conns \in [Addrs -> Conns \cup {NoConn}],
         \A u \in Tasks : \/ pc'[u] = pc[u] /\ conn'[u] = conn[u]
                          \/ pc[u] \notin {"body", "failed"} /\ pc'[u] \notin {"body", "failed"}
  PROVE  FrameInv'
<1> SUFFICES ASSUME NEW a \in Addrs PROVE FrameAt(a)'
  BY FrameByAddressNext
<1>1. FrameAt(a)
  BY FrameByAddress
<1>2. conns[a] # NoConn => conns[a] \in Conns
  OBVIOUS
<1>3. \A u \in Tasks : MidFrame(u, a) => pc'[u] = pc[u] /\ conn'[u] = conn[u]
  BY DEF MidFrame
<1> QED
  BY <1>1, <1>2, <1>3, FrameKept

(* A write changes nothing for another address.                            *)
LEMMA WritesElsewhere ==
  ASSUME SenderInv, OwnershipInv, FrameInv, NEW t \in Tasks, WriteSucceeds(t) \/ WriteFails(t),
         NEW a \in Addrs, a # Addr(t)
  PROVE  FrameAt(a)'
<1>1. /\ UNCHANGED <<conns, status, shared>> /\ pc[t] \in {"header", "body"}
      /\ stream' = stream \/ (IsAlive(conn[t]) /\ \E s : stream' = [stream EXCEPT ![conn[t]] = s])
  BY DEF WriteSucceeds, WriteFails, IsAlive
<1>2. \A u \in Tasks : u # t => pc'[u] = pc[u] /\ conn'[u] = conn[u]
  BY OneMoves DEF Proceed, SenderInv
<1>3. \A u \in Tasks : Addr(u) = a => pc'[u] = pc[u] /\ conn'[u] = conn[u]
  BY <1>2
<1>4. /\ TypeOK /\ OneAddress /\ UsesMapped /\ Addr(t) \in Addrs /\ conn[t] # NoConn
  BY <1>1, AddrType DEF SenderInv, MapInv, OwnershipInv, TypeOK, Connected
<1>5. conns[a] # NoConn => stream'[conns[a]] = stream[conns[a]]
  <2>1. SUFFICES ASSUME conns[a] # NoConn, IsAlive(conn[t]) PROVE conns[a] # conn[t]
    BY <1>1, <1>4 DEF TypeOK
  <2>2. conns[Addr(t)] = conn[t]
    BY <1>4, <2>1 DEF UsesMapped, IsAlive
  <2> QED
    BY <1>4, <2>1, <2>2 DEF OneAddress
<1>6. FrameAt(a)
  BY FrameByAddress
<1>7. \A u \in Tasks : MidFrame(u, a) => pc'[u] = pc[u] /\ conn'[u] = conn[u]
  BY <1>3 DEF MidFrame
<1> QED
  BY <1>1, <1>3, <1>5, <1>6, <1>7, FrameKept

(* Without overlap a goroutine writes where it left off.                   *)
LEMMA WritesInFrame ==
  ASSUME SenderInv, OwnershipInv, FrameInv, NEW t \in Tasks, pc[t] \in {"header", "body"},
         Addr(t) \notin shared, status[conn[t]] # "closed"
  PROVE  /\ conns[Addr(t)] = conn[t] /\ conn[t] \in Conns
         /\ stream[conn[t]] # Garbage
         /\ status[conn[t]] = "live" => stream[conn[t]] = Expected(t)
<1>1. /\ TypeOK /\ UsesMapped /\ Exclusive /\ Addr(t) \in Addrs /\ conn[t] # NoConn
  BY AddrType DEF SenderInv, OwnershipInv, TypeOK, Connected
<1>2. conns[Addr(t)] = conn[t] /\ conn[t] \in Conns
  BY <1>1 DEF UsesMapped, TypeOK
<1>3. FrameAt(Addr(t))
  BY <1>1, FrameByAddress
<1>4. stream[conn[t]] # Garbage
  BY <1>1, <1>2, <1>3 DEF FrameAt
<1>5. ASSUME status[conn[t]] = "live" PROVE stream[conn[t]] = Expected(t)
  <2>1. \A u \in Tasks : MidFrame(u, Addr(t)) => u = t
    BY <1>1 DEF MidFrame, Exclusive
  <2>2. CASE pc[t] = "header"
    BY <1>1, <1>2, <1>3, <1>5, <2>1, <2>2 DEF FrameAt, MidFrame, Expected
  <2>3. CASE pc[t] = "body"
    <3>1. MidFrame(t, Addr(t))
      BY <1>2, <2>3 DEF MidFrame
    <3> QED
      BY <1>1, <1>2, <1>3, <1>5, <2>3, <3>1 DEF FrameAt, Expected
  <2> QED
    BY <2>2, <2>3
<1> QED
  BY <1>2, <1>4, <1>5

(* A write that goes through, or a part of one, adds to a frame of its own *)
(* goroutine.                                                              *)
LEMMA WritesFrame ==
  ASSUME SenderInv, OwnershipInv, FrameInv, NEW t \in Tasks, WriteSucceeds(t) \/ WriteFails(t)
  PROVE  FrameInv'
<1> DEFINE k == conn[t]
           a == Addr(t)
<1> SUFFICES ASSUME a \notin shared' PROVE FrameAt(a)'
  BY FrameByAddressNext, WritesElsewhere DEF FrameAt
<1>1. /\ TypeOK /\ Exclusive /\ MapIsOpen /\ a \in Addrs /\ k \in Conns
      /\ pc[t] \in {"header", "body"} /\ UNCHANGED <<conns, status, shared>>
  BY AddrType DEF SenderInv, MapInv, OwnershipInv, TypeOK, Connected, WriteSucceeds, WriteFails
<1>2. \A u \in Tasks : u # t => pc'[u] = pc[u] /\ conn'[u] = conn[u]
  BY OneMoves DEF Proceed, SenderInv
<1>3. \A u \in Tasks : MidFrame(u, a)' => u = t
  BY <1>1, <1>2 DEF MidFrame, Exclusive, Addr
<1>4. FrameAt(a)
  BY <1>1, FrameByAddress
<1>5. CASE status[k] = "closed"
  <2>1. conns[a] # k /\ stream' = stream /\ conn'[t] = k
    BY <1>1, <1>5 DEF MapIsOpen, WriteSucceeds, WriteFails, IsAlive, TypeOK
  <2>2. \A u \in Tasks : ~MidFrame(u, a)' /\ ~MidFrame(u, a)
    BY <1>1, <1>3, <2>1 DEF MidFrame, Exclusive
  <2> QED
    BY <1>1, <1>4, <2>1, <2>2 DEF FrameAt, Garbage, Whole
<1>6. CASE status[k] # "closed"
  <2>1. /\ conns[a] = k /\ stream[k] # Garbage
        /\ status[k] = "live" => stream[k] = Expected(t)
    BY <1>1, <1>6, WritesInFrame
  <2>2. CASE status[k] # "live"
    <3>1. stream'[k] = stream[k]
      BY <1>1, <1>6, <2>2 DEF WriteSucceeds, WriteFails, TypeOK
    <3> QED
      BY <1>1, <2>1, <2>2, <3>1 DEF FrameAt, Garbage
  <2>3. CASE status[k] = "live" /\ WriteSucceeds(t) /\ pc[t] = "header"
    <3>1. stream'[k] = HeaderOf(t) /\ pc'[t] = "body" /\ conn'[t] = k
      BY <1>1, <2>1, <2>3 DEF WriteSucceeds, TypeOK, GoTo
    <3>2. MidFrame(t, a)'
      BY <1>1, <2>1, <3>1 DEF MidFrame, Addr
    <3>3. HeaderOf(t) # Garbage
      BY StreamsDiffer
    <3> QED
      BY <1>1, <1>3, <2>1, <3>1, <3>2, <3>3 DEF FrameAt, Garbage, HeaderOf
  <2>4. CASE status[k] = "live" /\ WriteSucceeds(t) /\ pc[t] = "body"
    <3>1. stream'[k] = Whole /\ pc'[t] = "idle"
      BY <1>1, <2>1, <2>4 DEF WriteSucceeds, TypeOK, Finish
    <3>2. \A u \in Tasks : ~MidFrame(u, a)'
      BY <1>3, <3>1 DEF MidFrame
    <3> QED
      BY <1>1, <2>1, <3>1, <3>2, StreamsDiffer DEF FrameAt, Garbage, Whole
  <2>5. CASE status[k] = "live" /\ WriteFails(t)
    <3>1. stream'[k] \in {stream[k], Torn} /\ pc'[t] = "failed" /\ conn'[t] = k
      BY <1>1, <2>1, <2>5 DEF WriteFails, TypeOK, GoTo
    <3>2. MidFrame(t, a)'
      BY <1>1, <2>1, <3>1 DEF MidFrame, Addr
    <3>3. stream'[k] # Garbage
      BY <2>1, <3>1, StreamsDiffer
    <3> QED
      BY <1>1, <1>3, <2>1, <3>1, <3>2, <3>3 DEF FrameAt, Garbage
  <2> QED
    BY <1>1, <2>2, <2>3, <2>4, <2>5
<1> QED
  BY <1>5, <1>6

(* closeConnection, after a failed write or a failed check: the address is *)
(* without a connection, the others keep theirs.                           *)
LEMMA ClosesFrame ==
  ASSUME SenderInv, OwnershipInv, FrameInv, NEW t \in Tasks, CloseStale(t) \/ CloseFailed(t)
  PROVE  FrameInv'
<1> DEFINE b == Addr(t)
<1> SUFFICES ASSUME NEW a \in Addrs PROVE FrameAt(a)'
  BY FrameByAddressNext
<1>1. TypeOK /\ OneAddress /\ b \in Addrs /\ FrameAt(a)
  BY AddrType, FrameByAddress DEF SenderInv, MapInv
<1>2. /\ conns' = [conns EXCEPT ![b] = NoConn] /\ shared' = shared
      /\ CloseConns({conns[b]})
  BY DEF CloseStale, CloseFailed, closeConnection
<1>3. \A u \in Tasks : u # t => pc'[u] = pc[u] /\ conn'[u] = conn[u]
  BY <1>1, OneMoves DEF Proceed
<1>4. CASE a = b
  BY <1>1, <1>2, <1>4 DEF FrameAt, TypeOK
<1>5. CASE a # b
  <2>1. conns'[a] = conns[a]
    BY <1>1, <1>2, <1>5 DEF TypeOK
  <2>2. conns[a] # NoConn => conns[a] # conns[b] /\ conns[a] \in Conns
    BY <1>1, <1>5 DEF OneAddress, TypeOK
  <2>3. conns[a] # NoConn => stream'[conns[a]] = stream[conns[a]] /\ status'[conns[a]] = status[conns[a]]
    BY <1>2, <2>2 DEF CloseConns
  <2>4. \A u \in Tasks : Addr(u) = a => pc'[u] = pc[u] /\ conn'[u] = conn[u]
    BY <1>3, <1>5
  <2>5. \A u \in Tasks : MidFrame(u, a) => pc'[u] = pc[u] /\ conn'[u] = conn[u]
    BY <2>4 DEF MidFrame
  <2> QED
    BY <1>1, <1>2, <2>1, <2>3, <2>4, <2>5, FrameKept
<1> QED
  BY <1>4, <1>5

(* DialTimeout: nothing has been written to the new connection.            *)
LEMMA DialFrame ==
  ASSUME SenderInv, OwnershipInv, FrameInv, NEW t \in Tasks, DialSucceeds(t)
  PROVE  FrameInv'
<1> DEFINE b == Addr(t)
           k == CHOOSE x \in Unused : TRUE
<1> SUFFICES ASSUME NEW a \in Addrs PROVE FrameAt(a)'
  BY FrameByAddressNext
<1>1. TypeOK /\ MapIsOpen /\ b \in Addrs /\ FrameAt(a)
  BY AddrType, FrameByAddress DEF SenderInv, MapInv
<1>2. k \in Conns /\ status[k] = "closed" /\ \A u \in Tasks : conn[u] # k
  <2>1. k \in Unused
    BY DEF DialSucceeds
  <2> QED
    BY <2>1 DEF Unused
<1>3. /\ conns' = [conns EXCEPT ![b] = k] /\ shared' = shared
      /\ status' = [status EXCEPT ![k] = "live"] /\ stream' = [stream EXCEPT ![k] = Whole]
      /\ pc' = [pc EXCEPT ![t] = "deadline"]
  BY DEF DialSucceeds, GoTo
<1>4. \A u \in Tasks : u # t => pc'[u] = pc[u] /\ conn'[u] = conn[u]
  BY <1>1, OneMoves DEF Proceed
<1> HIDE DEF k
<1>5. CASE a = b
  <2>1. conns'[a] = k /\ stream'[k] = Whole
    BY <1>1, <1>2, <1>3, <1>5 DEF TypeOK
  <2>2. \A u \in Tasks : ~MidFrame(u, a)'
    BY <1>1, <1>2, <1>3, <1>4, <2>1 DEF MidFrame, TypeOK
  <2> QED
    BY <2>1, <2>2, StreamsDiffer DEF FrameAt, Whole, Garbage
<1>6. CASE a # b
  <2>1. conns'[a] = conns[a]
    BY <1>1, <1>3, <1>6 DEF TypeOK
  <2>2. conns[a] # NoConn => conns[a] # k /\ conns[a] \in Conns
    BY <1>1, <1>2 DEF MapIsOpen, TypeOK
  <2>3. conns[a] # NoConn => stream'[conns[a]] = stream[conns[a]] /\ status'[conns[a]] = status[conns[a]]
    BY <1>1, <1>3, <2>2 DEF TypeOK
  <2>4. \A u \in Tasks : Addr(u) = a => pc'[u] = pc[u] /\ conn'[u] = conn[u]
    BY <1>4, <1>6
  <2>5. \A u \in Tasks : MidFrame(u, a) => pc'[u] = pc[u] /\ conn'[u] = conn[u]
    BY <2>4 DEF MidFrame
  <2> QED
    BY <1>1, <1>3, <2>1, <2>3, <2>4, <2>5, FrameKept
<1> QED
  BY <1>5, <1>6

(* Every step keeps the frames whole.                                      *)
LEMMA NextFrame == SenderInv /\ OwnershipInv /\ FrameInv /\ [Next]_vars => FrameInv'
<1> SUFFICES ASSUME SenderInv, OwnershipInv, FrameInv, [Next]_vars PROVE FrameInv'
  OBVIOUS
<1>0. TypeOK /\ conns \in [Addrs -> Conns \cup {NoConn}]
  BY DEF SenderInv, TypeOK
<1>1. ASSUME NEW t \in Tasks, NEW c \in Callers, Send(t) \/ Broadcast(c) PROVE FrameInv'
  <2>1. /\ \A u \in Tasks : pc'[u] = pc[u] \/ (pc[u] = "idle" /\ pc'[u] = "lookup")
        /\ shared' = shared \cup Overlaps(pc') /\ UNCHANGED <<conns, status, stream, conn>>
    BY <1>0, <1>1, CallsStart
  <2> QED
    BY <1>0, <2>1, LooksFrame
<1>2. ASSUME NEW t \in Tasks,
             \/ Lookup(t) \/ CheckAlive(t) \/ ClearDeadline(t) \/ AcquireLock(t)
             \/ DoubleCheck(t) \/ DialFails(t) \/ SetDeadline(t)
      PROVE  FrameInv'
  <2>1. UNCHANGED <<conns, status, stream, shared>>
    BY <1>2 DEF Lookup, CheckAlive, AcquireLock, DoubleCheck, DialFails, ClearDeadline, SetDeadline, connVars
  <2>2. \A u \in Tasks : u # t => pc'[u] = pc[u] /\ conn'[u] = conn[u]
    BY <1>0, <1>2, OneMoves DEF Proceed
  <2>3. pc[t] \notin {"body", "failed"} /\ pc'[t] \notin {"body", "failed"}
    BY <1>0, <1>2 DEF Lookup, CheckAlive, AcquireLock, DoubleCheck, DialFails, ClearDeadline,
                      SetDeadline, TypeOK, GoTo, Finish
  <2> QED
    BY <1>0, <2>1, <2>2, <2>3, LooksFrame
<1>3. ASSUME NEW k \in Conns, PeerBreaks(k) PROVE FrameInv'
  <2>1. /\ UNCHANGED <<conns, stream, pc, conn, shared>>
        /\ \A j \in Conns : status'[j] = "live" => status[j] = "live"
    BY <1>0, <1>3 DEF PeerBreaks, TypeOK
  <2> QED
    BY <1>0, <2>1, LooksFrame
<1>4. CASE UNCHANGED vars
  <2>1. UNCHANGED <<conns, status, stream, pc, conn, shared>>
    BY <1>4 DEF vars
  <2> QED
    BY <1>0, <2>1, LooksFrame
<1>5. CASE Close
  <2>1. \A a \in Addrs : conns'[a] = NoConn
    BY <1>5 DEF Close
  <2> QED
    BY <2>1, FrameByAddressNext DEF FrameAt
<1> QED
  BY <1>1, <1>2, <1>3, <1>4, <1>5, CallersHaveTasks, WritesFrame, ClosesFrame, DialFrame DEF Next, Proceed

(* As long as the sends of network.go to an address never overlapped, the  *)
(* other end of its connection can make sense of all it receives.          *)
THEOREM FramesStayWhole == SafeSpec => []FramesWhole
<1>1. Init => FrameInv
  BY DEF Init, FrameInv, FramesWhole, WritersFrame
<1>2. FrameInv => FramesWhole
  BY DEF FrameInv
<1> QED
  BY <1>1, <1>2, NextFrame, SenderInvariant, Ownership, PTL DEF SafeSpec
=============================================================================
